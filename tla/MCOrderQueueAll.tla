--------------------------- MODULE MCOrderQueueAll ---------------------------
(* Two instances of OrderQueue in one run: one crash, one failed save and    *)
(* one graceful shutdown, under the constants of the cfg; and users, jobs    *)
(* and the kill switch, where the process dies of its own doing only.  A     *)
(* behaviour is of one instance from its start.                              *)
EXTENDS MCOrderQueue

VARIABLE instance

Users == INSTANCE OrderQueue WITH
    KillSwitchSettings <- OnOrOff, MaxCancels <- 1, CanPrune <- TRUE,
    MaxCrashes <- 0, MaxStops <- 0, MaxSaveFaults <- 0

InitAll ==
    \/ instance = "faults" /\ Init
    \/ instance = "users" /\ Users!Init

(* With the faults, the second submission of a key is never made.            *)
FaultsStep == instance = "faults" /\ Next /\ call'[c2] = "ready" /\ UNCHANGED instance
UsersStep == instance = "users" /\ Users!Next /\ UNCHANGED instance

SpecAll == InitAll /\ [][FaultsStep \/ UsersStep]_<<instance, vars>> /\ Fairness

(* EveryRowSettles, of the instance with the faults: users may set the kill  *)
(* switch, which holds every row back.                                       *)
RowsSettle == instance = "faults" => EveryRowSettles
=============================================================================
