--------------------------- MODULE MCPaperLedger ---------------------------
(* PaperLedger on two trades that the balance covers together, or one at a *)
(* time.                                                                   *)
EXTENDS PaperLedger, TLC

CONSTANTS t1, t2, x1, x2

MCTrades == {t1, t2}
MCAmount == (t1 :> 1) @@ (t2 :> 2)
MCBalances == {2, 3}
MCResults == {-1, 1}
TwoClicks == {x1, x2}
OneClick == {x1}
=============================================================================
