-------------------------------- MODULE Trade --------------------------------
(***************************************************************************)
(* The Trade aggregate: its two transition tables and its commands, each a *)
(* function of the trade that yields the trade afterwards and whether the  *)
(* command returned or threw.  A command that throws half way keeps the    *)
(* fields it had already written, as the object does.                      *)
(*                                                                         *)
(* Quantities and prices are integers.  The P&L, the history and the texts *)
(* are left out; of the domain events only the TargetHit ones are kept, as *)
(* the target indexes in `hits` that publishDomainEvents has not drained.  *)
(*                                                                         *)
(* A Mutant_ operator is a plausible wrong version of the definition after *)
(* it, used only to show that a property notices the difference.           *)
(***************************************************************************)
EXTENDS Integers, Sequences, FiniteSets

-----------------------------------------------------------------------------
(* TradeStateTransitions *)

Terminal == {"COMPLETED", "CANCELLED", "REJECTED", "FAILED", "ERROR"}
Live == {"DRAFT", "WAITING_ENTRY", "ENTRY_PENDING", "ENTRY_FILLED", "ACTIVE",
         "TARGET_HIT", "TRAILING_SL_UPDATED", "RECOVERY"}
TradeState == Terminal \cup Live

StateTable ==
    {<<"DRAFT", s>> : s \in {"WAITING_ENTRY", "CANCELLED", "REJECTED"}}
    \cup {<<"WAITING_ENTRY", s>> : s \in {"ENTRY_PENDING", "CANCELLED"}}
    \cup {<<"ENTRY_PENDING", s>> : s \in {"ENTRY_FILLED", "REJECTED", "FAILED", "CANCELLED"}}
    \cup {<<"ENTRY_FILLED", "ACTIVE">>, <<"TARGET_HIT", "TRAILING_SL_UPDATED">>,
          <<"TRAILING_SL_UPDATED", "ACTIVE">>}
    \cup {<<"ACTIVE", s>> : s \in {"TARGET_HIT", "COMPLETED"}}
    \cup {<<"RECOVERY", s>> : s \in {"WAITING_ENTRY", "ENTRY_PENDING", "ACTIVE",
                                     "COMPLETED", "CANCELLED", "FAILED"}}
    \cup (Live \X {"RECOVERY", "ERROR"})

CanTransition(from, to) == <<from, to>> \in StateTable

(* OrderLifecycleTransitions, without the steps no command asks for.  A new *)
(* attempt walks CREATED, VALIDATED, QUEUED, SUBMITTED in one go.           *)
Lifecycle == {"none", "SUBMITTED", "PENDING", "PARTIALLY_FILLED", "FILLED", "REJECTED",
              "FAILED", "COMPLETED"}

LifecycleTable ==
    {<<"none", "SUBMITTED">>, <<"FILLED", "COMPLETED">>}
    \cup ({"SUBMITTED", "PENDING"} \X {"PARTIALLY_FILLED", "FILLED", "REJECTED", "FAILED"})
    \cup {<<"SUBMITTED", "PENDING">>}
    \cup ({"PARTIALLY_FILLED"} \X {"FILLED", "FAILED"})

CanAdvance(from, to) == <<from, to>> \in LifecycleTable

-----------------------------------------------------------------------------
(* Direction-dependent comparisons: PriceCrossing, and what is an           *)
(* improvement of a stop loss                                               *)

Reached(direction, price, level) ==
    IF direction = "LONG" THEN price >= level ELSE price <= level

StopCrossed(direction, price, stop) == Reached(direction, stop, price)

Better(direction, stop, than) == IF direction = "LONG" THEN stop > than ELSE stop < than

(* validateTradeDefinition: the stop, the trigger and the targets in order *)
ValidDefinition(def) ==
    /\ def.direction \in {"LONG", "SHORT"}
    /\ def.quantity \in Nat \ {0}
    /\ {def.trigger, def.stop} \subseteq Nat \ {0}
    /\ def.targets \in Seq(Nat \ {0})
    /\ def.targets # <<>>
    /\ Better(def.direction, def.trigger, def.stop)
    /\ Better(def.direction, def.targets[1], def.trigger)
    /\ \A i \in 2..Len(def.targets) :
         Better(def.direction, def.targets[i], def.targets[i - 1])

-----------------------------------------------------------------------------
(* The aggregate.  `next` is the index of the first remaining target,       *)
(* `ordered` whether the entry order's id is known.                         *)

New(def) ==
    [mode |-> def.mode, state |-> "DRAFT", ordered |-> FALSE, entry |-> "none", exit |-> "none",
     fillPrice |-> def.trigger, filled |-> 0, exited |-> 0, stop |-> def.stop, next |-> 1,
     awaiting |-> FALSE, hits |-> {}]

OpenQuantity(tr) == tr.filled - tr.exited

Done(tr) == [ok |-> TRUE, trade |-> tr]
Thrown(tr) == [ok |-> FALSE, trade |-> tr]

TransitionTo(tr, state) ==
    IF CanTransition(tr.state, state) THEN Done([tr EXCEPT !.state = state]) ELSE Thrown(tr)

Arm(tr) == TransitionTo(tr, "WAITING_ENTRY")

Cancel(tr) == TransitionTo(tr, "CANCELLED")

MarkFailed(tr) == TransitionTo(tr, "FAILED")

Mutant_TriggerTwice(tr) ==
    IF tr.state \in {"WAITING_ENTRY", "ENTRY_PENDING"}
    THEN Done([tr EXCEPT !.entry = "SUBMITTED"]) ELSE Thrown(tr)

TriggerEntry(tr) ==
    LET moved == [tr EXCEPT !.state = "ENTRY_PENDING"]
    IN  CASE ~CanTransition(tr.state, "ENTRY_PENDING") -> Thrown(tr)
          [] CanTransition(tr.state, "ENTRY_PENDING") /\ tr.entry # "none" -> Thrown(moved)
          [] OTHER -> Done([moved EXCEPT !.entry = "SUBMITTED"])

(* An entry order that ends without a fill: advanceEntryOrderLifecycle,     *)
(* then the transition of the trade itself.                                 *)
EntryEnds(tr, how) ==
    IF CanAdvance(tr.entry, how) THEN TransitionTo([tr EXCEPT !.entry = how], how)
                                 ELSE Thrown(tr)

MarkEntryOrderFailed(tr) == EntryEnds(tr, "FAILED")

EntryFills(def, tr, answer) ==
    LET filled == [tr EXCEPT !.entry = answer.status, !.fillPrice = answer.price,
                             !.filled = answer.quantity, !.stop = def.stop]
    IN  CASE ~CanAdvance(tr.entry, answer.status) -> Thrown(tr)
          [] CanAdvance(tr.entry, answer.status) /\ ~CanTransition(tr.state, "ENTRY_FILLED")
               -> Thrown(filled)
          [] OTHER -> Done([filled EXCEPT !.state = "ACTIVE"])

ApplyEntryOrderResponse(def, tr, answer) ==
    LET known == [tr EXCEPT !.ordered = TRUE]
    IN  CASE answer.status \in {"FILLED", "PARTIALLY_FILLED"} -> EntryFills(def, known, answer)
          [] answer.status = "OPEN" ->
               IF CanAdvance(tr.entry, "PENDING")
               THEN Done([known EXCEPT !.entry = "PENDING"]) ELSE Thrown(known)
          [] answer.status \in {"REJECTED", "FAILED"} -> EntryEnds(known, answer.status)
          [] answer.status \in {"CANCELLED", "EXITED"} -> Thrown(known)

-----------------------------------------------------------------------------
(* advancePrice: every remaining target reached is hit; the targets are in  *)
(* order, so those reached are the first remaining ones.                    *)

Hit(def, tr, price) ==
    {i \in tr.next..Len(def.targets) : Reached(def.direction, price, def.targets[i])}

Mutant_StopLags(def, tr, n) == IF n <= 2 THEN def.stop ELSE def.targets[n - 2]

StopAfter(def, tr, n) == IF n = 1 THEN tr.fillPrice ELSE def.targets[n - 1]

AdvancePrice(def, tr, price) ==
    LET hits == Hit(def, tr, price)
        last == tr.next + Cardinality(hits) - 1
        stop == IF hits = {} THEN tr.stop ELSE StopAfter(def, tr, last)
    IN  [tr EXCEPT !.next = last + 1, !.stop = stop, !.hits = @ \cup hits,
                   !.awaiting = @ \/ StopCrossed(def.direction, price, stop)]

MoveStopLoss(def, tr, stop) ==
    IF tr.state = "ACTIVE" /\ Better(def.direction, stop, tr.stop)
    THEN [tr EXCEPT !.stop = stop] ELSE tr

-----------------------------------------------------------------------------
BeginExitAttempt(tr) == [tr EXCEPT !.exit = "SUBMITTED"]

Mutant_FailureForgets(tr, how) == Done([tr EXCEPT !.exit = "none", !.awaiting = FALSE])

(* An exit attempt that failed or was rejected leaves the lifecycle null *)
ExitEnds(tr, how) ==
    IF CanAdvance(tr.exit, how) THEN Done([tr EXCEPT !.exit = "none"]) ELSE Thrown(tr)

MarkExitAttemptFailed(tr) == ExitEnds(tr, "FAILED")

Mutant_AnyFillCompletes(tr, answer) ==
    IF ~CanAdvance(tr.exit, answer.status) THEN Thrown(tr)
    ELSE Done([tr EXCEPT !.exit = "COMPLETED", !.exited = @ + answer.quantity,
                         !.awaiting = FALSE, !.state = "COMPLETED"])
Mutant_CountsTheOrder(tr, answer) ==
    IF ~CanAdvance(tr.exit, answer.status) THEN Thrown(tr)
    ELSE Done([tr EXCEPT !.exit = "none", !.exited = tr.filled])
Mutant_NeverFlat(tr, answer) ==
    IF ~CanAdvance(tr.exit, answer.status) THEN Thrown(tr)
    ELSE Done([tr EXCEPT !.exit = "none", !.exited = @ + answer.quantity])

ExitFills(tr, answer) ==
    LET sold == [tr EXCEPT !.exit = answer.status, !.exited = @ + answer.quantity]
        flat == [sold EXCEPT !.awaiting = FALSE]
    IN  CASE ~CanAdvance(tr.exit, answer.status) -> Thrown(tr)
          [] CanAdvance(tr.exit, answer.status) /\ OpenQuantity(sold) > 0
               -> Done([sold EXCEPT !.exit = "none"])
          [] CanAdvance(tr.exit, answer.status) /\ OpenQuantity(sold) <= 0
               -> IF CanAdvance(answer.status, "COMPLETED")
                  THEN TransitionTo([flat EXCEPT !.exit = "COMPLETED"], "COMPLETED")
                  ELSE Thrown(flat)

ApplyExitOrderResponse(tr, answer) ==
    CASE answer.status \in {"FILLED", "PARTIALLY_FILLED"} -> ExitFills(tr, answer)
      [] answer.status = "OPEN" ->
           IF CanAdvance(tr.exit, "PENDING") THEN Done([tr EXCEPT !.exit = "PENDING"])
                                             ELSE Thrown(tr)
      [] answer.status \in {"REJECTED", "FAILED"} -> ExitEnds(tr, answer.status)
      [] answer.status \in {"CANCELLED", "EXITED"} -> Thrown(tr)

-----------------------------------------------------------------------------
(* The fields' types, for the modules that hold trades *)
TradeRecord(def, prices) ==
    [mode : {def.mode}, state : TradeState, ordered : BOOLEAN,
     entry : Lifecycle, exit : Lifecycle, fillPrice : prices, filled : Nat, exited : Nat,
     stop : prices, next : 1..Len(def.targets) + 1, awaiting : BOOLEAN,
     hits : SUBSET (1..Len(def.targets))]
=============================================================================
