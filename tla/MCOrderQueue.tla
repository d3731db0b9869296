---------------------------- MODULE MCOrderQueue ----------------------------
(* OrderQueue on two keys that share an instrument, and three calls, two of  *)
(* which submit the same key.                                                *)
EXTENDS OrderQueue, TLC

CONSTANTS k1, k2, c1, c2, c3, i1

MCKeys == {k1, k2}
MCInstruments == {i1}
MCInstrumentOf == [k \in MCKeys |-> i1]

MCCalls == {c1, c2, c3}
MCKeyOf == (c1 :> k1) @@ (c2 :> k1) @@ (c3 :> k2)

Off == {FALSE}
OnOrOff == BOOLEAN
=============================================================================
