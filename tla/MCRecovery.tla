----------------------------- MODULE MCRecovery -----------------------------
(* Small instances of Recovery for TLC *)
EXTENDS Recovery

CONSTANTS t1, t2, boot, again, timer

MCTrades == {t1}
MCRuns == {boot, again}
MCOthers == {timer}
=============================================================================
