---------------------------- MODULE ExactlyOnce -----------------------------
(***************************************************************************)
(* What the order queue promises its callers: a request, once accepted, is *)
(* either executed exactly once or dropped, and one of the two happens.    *)
(* README.md, "Idempotency & exactly-once execution".                      *)
(***************************************************************************)
EXTENDS Naturals

CONSTANT Requests

VARIABLES
    status,      \* how far a request got
    executions   \* trades created on its behalf

vars == <<status, executions>>

Init ==
    /\ status = [r \in Requests |-> "none"]
    /\ executions = [r \in Requests |-> 0]

(* The request is durable *)
Accept(r) ==
    /\ status[r] = "none"
    /\ status' = [status EXCEPT ![r] = "accepted"]
    /\ UNCHANGED executions

Execute(r) ==
    /\ status[r] = "accepted"
    /\ status' = [status EXCEPT ![r] = "executed"]
    /\ executions' = [executions EXCEPT ![r] = @ + 1]

Drop(r) ==
    /\ status[r] = "accepted"
    /\ status' = [status EXCEPT ![r] = "dropped"]
    /\ UNCHANGED executions

Next == \E r \in Requests : Accept(r) \/ Execute(r) \/ Drop(r)

Fairness == \A r \in Requests : WF_vars(Execute(r) \/ Drop(r))

Spec == Init /\ [][Next]_vars /\ Fairness
=============================================================================
