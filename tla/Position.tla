------------------------------ MODULE Position ------------------------------
(***************************************************************************)
(* What a trade promises, whatever prices, exits, cancels and answers of   *)
(* its executor come in whatever order.  Its executor is asked to buy it   *)
(* once, and to sell it when it was opened; it records of that no more     *)
(* than was executed, and of its entry no more than its quantity; it ends  *)
(* once.  Of a paper trade more: exactly its quantity is bought, no more   *)
(* is sold than is held, and it is completed by the sale that leaves none. *)
(*                                                                         *)
(* A live trade promises less, as answers may be late or lost: one request *)
(* may come to several orders of the broker, of which the trade learns     *)
(* about one; a trade that has ended may be bought; and exits may sell     *)
(* more than was bought.                                                   *)
(***************************************************************************)
EXTENDS Integers

CONSTANT OrdersPerCall  \* orders one request of a live trade may come to

VARIABLE position
    \* of each trade: its mode and quantity, which never change; its phase;
    \* the entries asked for; what was bought and sold; and what it has
    \* recorded of them, filled and exited

OnPaper(p) == p.mode = "PAPER"

(* Nothing but these fields changes. *)
Only(p, q, fields) ==
    DOMAIN q = DOMAIN p /\ \A f \in DOMAIN p \ fields : q[f] = p[f]

Untouched(p) ==
    /\ p.phase = "waiting" /\ p.entries = 0
    /\ p.bought = 0 /\ p.sold = 0
    /\ p.filled = 0 /\ p.exited = 0

(* Its entry is asked for.  What it learns was bought opens a trade that     *)
(* still waits; one that has ended meanwhile may record it or not; and one  *)
(* that does not learn what was bought may end, or wait on.                 *)
Buy(p, q) ==
    /\ p.entries = 0 /\ q.entries = 1
    /\ Only(p, q, {"entries", "bought", "filled", "phase"})
    /\ q.bought \in 0..OrdersPerCall * p.quantity
    /\ q.filled \in 0..p.quantity /\ q.filled <= q.bought
    /\ \/ p.phase = "ended" /\ q.phase = "ended"
       \/ p.phase = "waiting" /\ q.phase = "open" /\ q.filled > 0
       \/ p.phase = "waiting" /\ q.phase \in {"waiting", "ended"} /\ q.filled = 0
    /\ OnPaper(p) => q.phase = "open" /\ q.filled = p.quantity /\ q.bought = p.quantity

(* An order that rested at the broker is executed; nobody is told. *)
Fill(p, q) ==
    /\ ~OnPaper(p) /\ p.entries = 1
    /\ Only(p, q, {"bought", "sold"})
    /\ q.bought \in p.bought..OrdersPerCall * p.quantity
    /\ q.sold >= p.sold
    /\ q.sold > p.sold => p.phase \in {"open", "completed"}

(* An exit is answered, or fails: it sold something, which is recorded if    *)
(* it is known, and completes the trade if nothing is left.                 *)
Sell(p, q) ==
    /\ p.phase \in {"open", "completed"}
    /\ Only(p, q, {"sold", "exited", "phase"})
    /\ q.sold >= p.sold
    /\ q.exited \in p.exited..(p.exited + q.sold - p.sold)
    /\ \/ q.phase = p.phase
       \/ p.phase = "open" /\ q.phase = "completed" /\ q.exited >= q.filled
    /\ OnPaper(p) => /\ p.phase = "open"
                     /\ q.exited = q.sold /\ q.sold \in p.sold + 1..p.bought
                     /\ q.phase = "completed" <=> q.sold = p.bought

(* It is cancelled, rejected or fails before it has recorded anything; on   *)
(* paper, before its entry is sent.                                         *)
End(p, q) ==
    /\ p.phase = "waiting" /\ p.filled = 0
    /\ OnPaper(p) => p.entries = 0
    /\ q.phase = "ended" /\ Only(p, q, {"phase"})

Step(p, q) == Buy(p, q) \/ Fill(p, q) \/ Sell(p, q) \/ End(p, q)

Init == \A t \in DOMAIN position : Untouched(position[t])

Next ==
    \E t \in DOMAIN position :
        \E p \in {position[t]}, q \in {position'[t]} :
            p # q /\ Step(p, q) /\ position' = [position EXCEPT ![t] = q]

Spec == Init /\ [][Next]_position
=============================================================================
