--------------------------- MODULE MCTradeEngineAll ---------------------------
(* Three instances of TradeEngine in one run: two paper trades with partial  *)
(* exits, of which two prices may be read together, under the constants of   *)
(* the cfg; a live trade with a partial exit: answers, lost answers and      *)
(* orders that rest; and a live trade whose POSTs may be sent again.         *)
(* The properties read the mode from the trade, and the rest of its          *)
(* definition from the cfg's: a live trade differs from the first paper      *)
(* trade in mode and plan only.                                              *)
EXTENDS MCTradeEngine, TLC

VARIABLE instance

OneLiveTrade == INSTANCE TradeEngine WITH
    Count <- 1, Definition <- OneLive, Burst <- 1, Trailing <- NoTrailing,
    MaxOrders <- 2, MaxResends <- 0

SentAgain == INSTANCE TradeEngine WITH
    Count <- 1, Definition <- OneUnplanned, Burst <- 1, Trailing <- NoTrailing,
    MaxOrders <- 1, MaxResends <- 1

InitAll ==
    \/ instance = "paper" /\ Init
    \/ instance = "live" /\ OneLiveTrade!Init
    \/ instance = "resent" /\ SentAgain!Init

PaperStep == instance = "paper" /\ Next /\ UNCHANGED instance
LiveStep == instance = "live" /\ OneLiveTrade!Next /\ UNCHANGED instance
ResentStep == instance = "resent" /\ SentAgain!Next /\ UNCHANGED instance
HandlerSymmetry == Permutations(Handlers)

SpecAll == InitAll /\ [][PaperStep \/ LiveStep \/ ResentStep]_<<instance, vars>>
=============================================================================
