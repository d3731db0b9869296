--------------------------- MODULE MCTradeEngine ---------------------------
(* TradeEngine on one or two trades of two lots with two targets. *)
EXTENDS TradeEngine

Long(mode, plan) ==
    [direction |-> "LONG", mode |-> mode, market |-> FALSE, quantity |-> 2,
     stop |-> 1, trigger |-> 2, targets |-> <<3, 4>>, plan |-> plan]

Short(mode, plan) ==
    [direction |-> "SHORT", mode |-> mode, market |-> FALSE, quantity |-> 2,
     stop |-> 4, trigger |-> 3, targets |-> <<2, 1>>, plan |-> plan]

AtMarket(def) == [def EXCEPT !.market = TRUE]

PaperPair == <<Long("PAPER", <<1, 1>>), AtMarket(Short("PAPER", <<2, 0>>))>>
OneLive == <<Long("LIVE", <<1, 0>>)>>
OneUnplanned == <<Long("LIVE", <<0, 0>>)>>

MCPrices == 1..4
NoTrailing == {}
MCTrailing == {2, 3}
MCHandlers == {"h1", "h2"}
=============================================================================
