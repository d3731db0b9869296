-------------------------- MODULE PaperLedgerProofs --------------------------
(* Proofs about PaperLedger, for all trades, amounts, clicks and bounds. *)
EXTENDS PaperLedger, FiniteSetTheorems, TLAPS

-----------------------------------------------------------------------------
(* Types *)
LEMMA CountedType ==
    ASSUME TypeOK, NEW outcome, Counted(outcome)
    PROVE  failures' \in 0..MaxFailures
BY LedgerAssumption DEF TypeOK, Counted

LEMMA SavedType ==
    ASSUME TypeOK, NEW t \in Trades, NEW status \in Statuses, NEW outcome,
           Saved(t, status, outcome)
    PROVE  row' \in [Trades -> Statuses \cup {"NONE"}]
BY DEF TypeOK, Saved

LEMMA ReleaseType ==
    ASSUME TypeOK, NEW t \in Trades, NEW pnl \in Int, NEW outcome,
           ReleaseMargin(t, pnl, outcome)
    PROVE  /\ account' \in [initial : Nat, available : Int, reserved : Int, pnl : Int]
           /\ releases' \in [Trades -> Nat]
<1>1. Amount[t] \in Nat
  BY LedgerAssumption
<1>2. /\ account.available + Amount[t] + pnl \in Int
      /\ account.reserved - Amount[t] \in Int
      /\ account.pnl + pnl \in Int
      /\ releases[t] + 1 \in Nat
  BY <1>1 DEF TypeOK
<1>3. releases' \in [Trades -> Nat]
  BY <1>2 DEF TypeOK, ReleaseMargin
<1>4. account' \in [initial : Nat, available : Int, reserved : Int, pnl : Int]
  BY <1>2 DEF TypeOK, ReleaseMargin
<1> QED BY <1>3, <1>4

LEMMA NextTyped ==
    ASSUME TypeOK, Next
    PROVE  TypeOK'
<1> USE DEF Statuses
<1>1. ASSUME NEW t \in Trades, Reserve(t) PROVE TypeOK'
  <2>1. Amount[t] \in Nat
    BY LedgerAssumption
  <2>2. /\ account.available - Amount[t] \in Int
        /\ account.reserved + Amount[t] \in Int
    BY <2>1 DEF TypeOK
  <2>3. PICK outcome \in Outcome :
           /\ Counted(outcome)
           /\ account' = IF Lands(outcome)
                         THEN [account EXCEPT !.available = @ - Amount[t],
                                              !.reserved = @ + Amount[t]]
                         ELSE account
           /\ call' = [call EXCEPT ![t] = After(outcome, "submit", "done")]
    BY <1>1 DEF Reserve
  <2>4. account' \in [initial : Nat, available : Int, reserved : Int, pnl : Int]
    BY <2>2, <2>3 DEF TypeOK
  <2> QED BY <1>1, <2>3, <2>4, CountedType DEF TypeOK, Reserve, After
<1>2. ASSUME NEW t \in Trades, Submit(t) PROVE TypeOK'
  BY <1>2 DEF TypeOK, Submit, Stages
<1>3. ASSUME NEW t \in Trades, Refused(t) PROVE TypeOK'
  BY <1>3 DEF TypeOK, Refused
<1>4. ASSUME NEW t \in Trades, SubmitThrows(t) PROVE TypeOK'
  BY <1>4, CountedType DEF TypeOK, SubmitThrows, Stages
<1>5. ASSUME NEW t \in Trades, RollBack(t) PROVE TypeOK'
  BY <1>5, CountedType, ReleaseType DEF TypeOK, RollBack
<1>6. ASSUME NEW t \in Trades, Own(t) PROVE TypeOK'
  BY <1>6, CountedType, SavedType DEF TypeOK, Own
<1>7. ASSUME NEW c \in Clicks, NEW t \in Trades, CancelTrade(c, t) PROVE TypeOK'
  BY <1>7 DEF TypeOK, CancelTrade, ClickRecord
<1>8. ASSUME NEW c \in Clicks, ClickStep(c) PROVE TypeOK'
  <2>1. click[c].pc # "idle" =>
           click[c].trade \in Trades /\ click[c].pc \in {"queue", "save", "mark", "release"}
    BY DEF TypeOK, ClickRecord, Idle
  <2>2. CASE CancelInQueue(c)
    BY <2>1, <2>2 DEF TypeOK, CancelInQueue, ClickRecord, Stages, Idle
  <2>3. CASE CancelSaved(c)
    BY <2>1, <2>3, CountedType DEF TypeOK, CancelSaved, ClickRecord, Stages, Idle, After
  <2>4. CASE CancelMarked(c)
    BY <2>1, <2>4, CountedType, SavedType DEF TypeOK, CancelMarked, ClickRecord, Idle, After
  <2>5. CASE CancelReleased(c)
    BY <2>1, <2>5, CountedType, ReleaseType DEF TypeOK, CancelReleased, ClickRecord, Idle
  <2> QED BY <1>8, <2>2, <2>3, <2>4, <2>5 DEF ClickStep
<1>9. ASSUME NEW t \in Trades, PipelineStep(t) PROVE TypeOK'
  <2>1. ASSUME NEW e \in Event, NEW p \in Int, Publish(t, e, p) PROVE task' \subseteq Task
    BY <2>1 DEF TypeOK, Publish, Task
  <2>2. ASSUME NEW from, NEW to \in Stages, Pipeline(t, from, to), task' \subseteq Task
        PROVE  TypeOK'
    BY <2>2 DEF TypeOK, Pipeline
  <2>3. CASE Works(t) \/ Expires(t)
    BY <2>2, <2>3 DEF TypeOK, Works, Expires, Stages
  <2>4. CASE Submitted(t)
    BY <2>1, <2>2, <2>4 DEF Submitted, Stages, Event
  <2>5. CASE FailsForGood(t)
    BY <2>1, <2>2, <2>5 DEF FailsForGood, Stages, Event
  <2>6. CASE Ends(t)
    <3>1. PICK e \in TradeEnd, p \in Int : Publish(t, e, p)
      BY <2>6, LedgerAssumption DEF Ends
    <3> QED BY <3>1, <2>1, <2>2, <2>6 DEF Ends, Stages, TradeEnd
  <2> QED BY <1>9, <2>3, <2>4, <2>5, <2>6 DEF PipelineStep
<1>10. ASSUME NEW k \in task, Find(k) \/ Mark(k) \/ Release(k) PROVE TypeOK'
  <2>1. k \in Task /\ k.trade \in Trades /\ k.pnl \in Int /\ Marked(k.event) \in Statuses
    BY DEF TypeOK, Task, Marked
  <2>2. [k EXCEPT !.pc = "mark"] \in Task /\ [k EXCEPT !.pc = "release"] \in Task
    BY <2>1 DEF Task
  <2>3. CASE Find(k)
    BY <2>1, <2>2, <2>3, CountedType DEF TypeOK, Find
  <2>4. CASE Mark(k)
    BY <2>1, <2>2, <2>4, CountedType, SavedType DEF TypeOK, Mark
  <2>5. CASE Release(k)
    BY <2>1, <2>5, CountedType, ReleaseType DEF TypeOK, Release
  <2> QED BY <1>10, <2>3, <2>4, <2>5
<1>11. CASE ResetChecks
  BY <1>11, LedgerAssumption DEF TypeOK, ResetChecks
<1>12. CASE ResetBalance
  BY <1>12, CountedType DEF TypeOK, ResetBalance, NewAccount
<1>13. CASE Crash
  <2>1. \A t \in Trades : Reloaded(order[t]) \subseteq Stages
    BY DEF TypeOK, Reloaded, Stages
  <2>2. order' \in [Trades -> Stages]
    BY <1>13, <2>1 DEF Crash
  <2> QED BY <1>13, <2>2, LedgerAssumption DEF TypeOK, Crash, ClickRecord
<1> QED BY <1>1, <1>2, <1>3, <1>4, <1>5, <1>6, <1>7, <1>8, <1>9, <1>10, <1>11, <1>12, <1>13
     DEF Next, CallStep, TaskStep

-----------------------------------------------------------------------------
(* The parts of the invariant that relate the variables. *)
TradeAgrees(t) == CallAgrees(t) /\ RowAgrees(t) /\ ReleaseAgrees(t)

Agreement ==
    /\ \A t \in Trades : TradeAgrees(t)
    /\ \A k \in task : TaskAgrees(k)
    /\ \A k, l \in task : Exclusive(k, l)
    /\ \A c \in Clicks : ClickAgrees(c)
    /\ OneCancels

(* A step of createTrade before its row exists: only trade t changes, and no
   task or click is at work on it. *)
CallEffect(t) ==
    /\ row[t] = "NONE"
    /\ order[t] = "NONE" \/ order'[t] = order[t]
    /\ \A u \in Trades \ {t} :
          /\ row'[u] = row[u] /\ order'[u] = order[u]
          /\ call'[u] = call[u] /\ releases'[u] = releases[u]
    /\ TradeAgrees(t)'
    /\ UNCHANGED <<click, task>>

LEMMA CallEffectKeeps ==
    ASSUME IInv, NEW t \in Trades, CallEffect(t)
    PROVE  Agreement'
<1>1. \A u \in Trades : TradeAgrees(u)'
  BY DEF IInv, CallEffect, TradeAgrees, CallAgrees, RowAgrees, ReleaseAgrees, Unsubmitted
<1>2. \A k \in task : TaskAgrees(k)'
  BY DEF IInv, CallEffect, TypeOK, Task, TaskAgrees, Expected, Final, Statuses, OpenStatuses
<1>3. \A c \in Clicks : ClickAgrees(c)'
  BY DEF IInv, CallEffect, TypeOK, ClickRecord, ClickAgrees
<1>4. /\ \A k, l \in task' : Exclusive(k, l)'
      /\ OneCancels'
  BY DEF IInv, CallEffect, Exclusive, OneCancels, Cancelling
<1> QED BY <1>1, <1>2, <1>3, <1>4 DEF Agreement, CallEffect

LEMMA CallKeeps ==
    ASSUME IInv, NEW t \in Trades, Reserve(t) \/ CallStep(t)
    PROVE  Agreement'
<1> USE DEF TradeAgrees, CallAgrees, RowAgrees, ReleaseAgrees, Unsubmitted, CallEffect,
            IInv, TypeOK, After, Final, Statuses, OpenStatuses
<1>1. CASE Reserve(t)
  BY <1>1, CallEffectKeeps DEF Reserve
<1>2. CASE Submit(t) \/ Refused(t)
  BY <1>2, CallEffectKeeps DEF Submit, Refused
<1>3. CASE SubmitThrows(t)
  BY <1>3, CallEffectKeeps DEF SubmitThrows
<1>4. CASE RollBack(t)
  BY <1>4, CallEffectKeeps DEF RollBack, ReleaseMargin
<1>5. CASE Own(t)
  BY <1>5, CallEffectKeeps DEF Own, Saved
<1> QED BY <1>1, <1>2, <1>3, <1>4, <1>5 DEF CallStep

-----------------------------------------------------------------------------
(* A step of the click c on trade t. *)
LEMMA CancelTradeKeeps ==
    ASSUME IInv, NEW c \in Clicks, NEW t \in Trades, CancelTrade(c, t)
    PROVE  Agreement'
<1>1. \A u \in Trades : TradeAgrees(u)'
  BY DEF IInv, CancelTrade, TradeAgrees, CallAgrees, RowAgrees, ReleaseAgrees, Unsubmitted
<1>2. /\ \A k \in task' : TaskAgrees(k)'
      /\ \A k, l \in task' : Exclusive(k, l)'
  BY DEF IInv, CancelTrade, TaskAgrees, Exclusive
<1>3. \A d \in Clicks : ClickAgrees(d)'
  BY DEF IInv, TypeOK, CancelTrade, ClickAgrees
<1>4. OneCancels'
  BY DEF IInv, TypeOK, CancelTrade, OneCancels, Cancelling
<1> QED BY <1>1, <1>2, <1>3, <1>4 DEF Agreement

LEMMA ClickTrade ==
    ASSUME IInv, NEW c \in Clicks, click[c].pc # "idle"
    PROVE  /\ click[c].trade \in Trades
           /\ click[c] \in [pc : {"queue", "save", "mark", "release"}, trade : Trades]
           /\ ClickAgrees(c) /\ click[c] # Idle
BY DEF IInv, TypeOK, ClickRecord, Idle

(* What it does: it ends, or it is the one click that cancels trade t. *)
ClickEffect(c, t) ==
    /\ click[c].trade = t
    /\ order[t] = "QUEUED" \/ Cancelling(c)
    /\ order'[t] \in {"DROPPED", "CANCELLED"} /\ row'[t] # "NONE"
    /\ click'[c] = Idle \/ click'[c].trade = t
    /\ \A d \in Clicks \ {c} : click'[d] = click[d]
    /\ \A u \in Trades \ {t} :
          row'[u] = row[u] /\ order'[u] = order[u] /\ releases'[u] = releases[u]
    /\ TradeAgrees(t)' /\ ClickAgrees(c)'
    /\ UNCHANGED <<task, call>>

LEMMA ClickEffectKeeps ==
    ASSUME IInv, NEW c \in Clicks, NEW t \in Trades, click[c].pc # "idle",
           ClickEffect(c, t)
    PROVE  Agreement'
<1>1. /\ order[t] \in {"QUEUED", "DROPPED", "CANCELLED"}
      /\ click[c].trade = t
  BY ClickTrade DEF ClickEffect, ClickAgrees, Cancelling
<1>2. \A u \in Trades : TradeAgrees(u)'
  BY DEF IInv, ClickEffect, TradeAgrees, CallAgrees, RowAgrees, ReleaseAgrees, Unsubmitted
<1>3. \A k \in task : k.trade \in Trades \ {t}
  BY <1>1 DEF IInv, TypeOK, Task, TaskAgrees
<1>4. /\ \A k \in task' : TaskAgrees(k)'
      /\ \A k, l \in task' : Exclusive(k, l)'
  BY <1>3 DEF IInv, ClickEffect, TaskAgrees, Exclusive
<1>5. \A d \in Clicks \ {c} : Cancelling(d) => click[d].trade # t
  <2> SUFFICES ASSUME NEW d \in Clicks \ {c}, Cancelling(d), click[d].trade = t
               PROVE  FALSE
    OBVIOUS
  <2>1. order[t] # "QUEUED"
    BY ClickTrade DEF Cancelling, ClickAgrees
  <2> QED BY <1>1, <2>1 DEF IInv, OneCancels, ClickEffect
<1>6. \A d \in Clicks \ {c} : ClickAgrees(d)'
  <2> SUFFICES ASSUME NEW d \in Clicks \ {c}, click[d] # Idle
               PROVE  ClickAgrees(d)'
    BY DEF ClickEffect, ClickAgrees
  <2>1. /\ ClickAgrees(d) /\ click[d].trade \in Trades /\ click'[d] = click[d]
        /\ click[d].pc \in {"queue", "save", "mark", "release"}
    BY DEF IInv, TypeOK, ClickRecord, ClickEffect
  <2>2. CASE click[d].trade = t
    BY <1>5, <2>1, <2>2 DEF ClickEffect, ClickAgrees, Cancelling
  <2>3. CASE click[d].trade # t
    BY <2>1, <2>3 DEF ClickEffect, ClickAgrees
  <2> QED BY <2>2, <2>3
<1>7. OneCancels'
  BY <1>5 DEF IInv, OneCancels, Cancelling, ClickEffect, Idle
<1> QED BY <1>2, <1>4, <1>6, <1>7 DEF Agreement, ClickEffect

LEMMA ClickKeeps ==
    ASSUME IInv, NEW c \in Clicks, ClickStep(c)
    PROVE  Agreement'
<1>1. click[c].pc # "idle"
  BY DEF ClickStep, CancelInQueue, CancelSaved, CancelMarked, CancelReleased
<1>t. PICK t \in Trades : t = click[c].trade
  BY <1>1, ClickTrade
<1>2. /\ t = click[c].trade /\ click[c] # Idle
      /\ click[c] \in [pc : {"queue", "save", "mark", "release"}, trade : Trades]
      /\ ClickAgrees(c) /\ TradeAgrees(t)
  BY <1>1, <1>t, ClickTrade DEF IInv, TradeAgrees
<1>3. CASE CancelInQueue(c) /\ order[t] # "QUEUED"
  <2>1. /\ UNCHANGED <<row, order, call, task, releases>>
        /\ click' = [click EXCEPT ![c] = Idle]
    BY <1>2, <1>3 DEF CancelInQueue, Cancellable
  <2>2. OneCancels' /\ \A d \in Clicks : ClickAgrees(d)'
    BY <2>1 DEF IInv, TypeOK, OneCancels, ClickAgrees, Cancelling, Idle
  <2>3. /\ \A u \in Trades : TradeAgrees(u)'
        /\ \A k \in task' : TaskAgrees(k)'
        /\ \A k, l \in task' : Exclusive(k, l)'
    BY <2>1 DEF IInv, TradeAgrees, CallAgrees, RowAgrees, ReleaseAgrees, Unsubmitted,
                TaskAgrees, Exclusive
  <2> QED BY <2>2, <2>3 DEF Agreement
<1>4. CASE CancelInQueue(c) /\ order[t] = "QUEUED"
  <2>1. click'[c] = Idle \/ click'[c].trade = t
    BY <1>2, <1>4 DEF CancelInQueue, Cancellable, After, IInv, TypeOK
  <2>2. /\ \A d \in Clicks \ {c} : click'[d] = click[d]
        /\ \A u \in Trades \ {t} :
              row'[u] = row[u] /\ order'[u] = order[u] /\ releases'[u] = releases[u]
        /\ UNCHANGED <<task, call>>
    BY <1>2, <1>4 DEF CancelInQueue, Cancellable, IInv, TypeOK
  <2>3. order'[t] \in {"DROPPED", "CANCELLED"} /\ row'[t] # "NONE"
    BY <1>2, <1>4 DEF CancelInQueue, Cancellable, IInv, TypeOK, ClickAgrees
  <2>4. TradeAgrees(t)'
    BY <1>2, <1>4 DEF CancelInQueue, Cancellable, IInv, TypeOK, ClickAgrees, TradeAgrees,
         CallAgrees, RowAgrees,
       ReleaseAgrees, Unsubmitted, Final, Statuses, OpenStatuses
  <2>5. ClickAgrees(c)'
    BY <1>2, <1>4 DEF CancelInQueue, Cancellable, After, IInv, TypeOK, ClickAgrees,
         TradeAgrees, RowAgrees,
       ReleaseAgrees, Unsubmitted, Final, Statuses, OpenStatuses
  <2>6. ClickEffect(c, t)
    BY <1>2, <1>4, <2>1, <2>2, <2>3, <2>4, <2>5 DEF ClickEffect, Cancelling, CancelInQueue
  <2> QED BY <1>1, <1>2, <2>6, ClickEffectKeeps
<1>5. CASE CancelSaved(c)
  <2>1. click'[c] = Idle \/ click'[c].trade = t
    BY <1>2, <1>5 DEF CancelSaved, After, IInv, TypeOK
  <2>2. /\ \A d \in Clicks \ {c} : click'[d] = click[d]
        /\ \A u \in Trades \ {t} :
              row'[u] = row[u] /\ order'[u] = order[u] /\ releases'[u] = releases[u]
        /\ UNCHANGED <<task, call>>
    BY <1>2, <1>5 DEF CancelSaved, IInv, TypeOK, Lands
  <2>3. order'[t] \in {"DROPPED", "CANCELLED"} /\ row'[t] # "NONE"
    BY <1>2, <1>5 DEF CancelSaved, IInv, TypeOK, ClickAgrees, Lands
  <2>4. TradeAgrees(t)'
    <3>1. /\ call'[t] = call[t] /\ order[t] \in {"DROPPED", "CANCELLED"}
          /\ order'[t] \in {"DROPPED", "CANCELLED"}
          /\ row[t] \in {"PENDING", "CANCELLED"}
          /\ row'[t] \in {row[t], "CANCELLED"}
          /\ row'[t] = "CANCELLED" => order'[t] = "CANCELLED"
      BY <1>2, <1>5 DEF CancelSaved, IInv, TypeOK, ClickAgrees, TradeAgrees, RowAgrees,
         Lands
    <3>2. releases'[t] \in {0, 1} /\ (releases'[t] = 1 => row'[t] = "CANCELLED")
      BY <1>2, <1>5, <3>1 DEF CancelSaved, IInv, TypeOK, ClickAgrees, TradeAgrees,
         ReleaseAgrees, Unsubmitted, Final, Statuses, OpenStatuses, Lands
    <3> QED
      BY <1>2, <3>1, <3>2 DEF TradeAgrees, CallAgrees, RowAgrees, ReleaseAgrees,
         Unsubmitted, Final, Statuses, OpenStatuses
  <2>5. ClickAgrees(c)'
    BY <1>2, <1>5 DEF CancelSaved, After, IInv, TypeOK, ClickAgrees, TradeAgrees, RowAgrees,
       ReleaseAgrees, Unsubmitted, Final, Statuses, OpenStatuses, Lands
  <2>6. ClickEffect(c, t)
    BY <1>2, <1>5, <2>1, <2>2, <2>3, <2>4, <2>5 DEF ClickEffect, Cancelling, CancelSaved
  <2> QED BY <1>1, <1>2, <2>6, ClickEffectKeeps
<1>6. CASE CancelMarked(c)
  <2>1. click'[c] = Idle \/ click'[c].trade = t
    BY <1>2, <1>6 DEF CancelMarked, After, IInv, TypeOK
  <2>2. /\ \A d \in Clicks \ {c} : click'[d] = click[d]
        /\ \A u \in Trades \ {t} :
              row'[u] = row[u] /\ order'[u] = order[u] /\ releases'[u] = releases[u]
        /\ UNCHANGED <<task, call>>
    BY <1>2, <1>6 DEF CancelMarked, IInv, TypeOK, Saved, Lands
  <2>3. order'[t] \in {"DROPPED", "CANCELLED"} /\ row'[t] # "NONE"
    BY <1>2, <1>6 DEF CancelMarked, IInv, TypeOK, ClickAgrees, Saved, Lands
  <2>4. TradeAgrees(t)'
    <3>1. /\ call'[t] = call[t] /\ order[t] \in {"DROPPED", "CANCELLED"}
          /\ order'[t] \in {"DROPPED", "CANCELLED"}
          /\ row[t] \in {"PENDING", "CANCELLED"}
          /\ row'[t] \in {row[t], "CANCELLED"}
          /\ row'[t] = "CANCELLED" => order'[t] = "CANCELLED"
      BY <1>2, <1>6 DEF CancelMarked, IInv, TypeOK, ClickAgrees, TradeAgrees, RowAgrees,
         Saved, Lands
    <3>2. releases'[t] \in {0, 1} /\ (releases'[t] = 1 => row'[t] = "CANCELLED")
      BY <1>2, <1>6, <3>1 DEF CancelMarked, IInv, TypeOK, ClickAgrees, TradeAgrees,
         ReleaseAgrees, Unsubmitted, Final, Statuses, OpenStatuses, Saved, Lands
    <3> QED
      BY <1>2, <3>1, <3>2 DEF TradeAgrees, CallAgrees, RowAgrees, ReleaseAgrees,
         Unsubmitted, Final, Statuses, OpenStatuses
  <2>5. ClickAgrees(c)'
    BY <1>2, <1>6 DEF CancelMarked, After, IInv, TypeOK, ClickAgrees, TradeAgrees,
         RowAgrees,
       ReleaseAgrees, Unsubmitted, Final, Statuses, OpenStatuses, Saved, Lands
  <2>6. ClickEffect(c, t)
    BY <1>2, <1>6, <2>1, <2>2, <2>3, <2>4, <2>5 DEF ClickEffect, Cancelling, CancelMarked
  <2> QED BY <1>1, <1>2, <2>6, ClickEffectKeeps
<1>7. CASE CancelReleased(c)
  <2>1. click'[c] = Idle \/ click'[c].trade = t
    BY <1>2, <1>7 DEF CancelReleased, After, IInv, TypeOK
  <2>2. /\ \A d \in Clicks \ {c} : click'[d] = click[d]
        /\ \A u \in Trades \ {t} :
              row'[u] = row[u] /\ order'[u] = order[u] /\ releases'[u] = releases[u]
        /\ UNCHANGED <<task, call>>
    BY <1>2, <1>7 DEF CancelReleased, IInv, TypeOK, ReleaseMargin, Lands
  <2>3. order'[t] \in {"DROPPED", "CANCELLED"} /\ row'[t] # "NONE"
    BY <1>2, <1>7 DEF CancelReleased, IInv, TypeOK, ClickAgrees, ReleaseMargin, Lands
  <2>4. TradeAgrees(t)'
    <3>1. /\ call'[t] = call[t] /\ order[t] \in {"DROPPED", "CANCELLED"}
          /\ order'[t] \in {"DROPPED", "CANCELLED"}
          /\ row[t] \in {"PENDING", "CANCELLED"}
          /\ row'[t] \in {row[t], "CANCELLED"}
          /\ row'[t] = "CANCELLED" => order'[t] = "CANCELLED"
      BY <1>2, <1>7 DEF CancelReleased, IInv, TypeOK, ClickAgrees, TradeAgrees,
         RowAgrees, ReleaseMargin, Lands
    <3>2. releases'[t] \in {0, 1} /\ (releases'[t] = 1 => row'[t] = "CANCELLED")
      BY <1>2, <1>7, <3>1 DEF CancelReleased, IInv, TypeOK, ClickAgrees, TradeAgrees,
         ReleaseAgrees, Unsubmitted, Final, Statuses, OpenStatuses, ReleaseMargin, Lands
    <3> QED
      BY <1>2, <3>1, <3>2 DEF TradeAgrees, CallAgrees, RowAgrees, ReleaseAgrees,
         Unsubmitted, Final, Statuses, OpenStatuses
  <2>5. ClickAgrees(c)'
    BY <1>2, <1>7 DEF CancelReleased, After, IInv, TypeOK, ClickAgrees, TradeAgrees,
         RowAgrees,
       ReleaseAgrees, Unsubmitted, Final, Statuses, OpenStatuses, ReleaseMargin, Lands
  <2>6. ClickEffect(c, t)
    BY <1>2, <1>7, <2>1, <2>2, <2>3, <2>4, <2>5 DEF ClickEffect, Cancelling, CancelReleased
  <2> QED BY <1>1, <1>2, <2>6, ClickEffectKeeps
<1> QED BY <1>3, <1>4, <1>5, <1>6, <1>7 DEF ClickStep

-----------------------------------------------------------------------------
(* The queue and the engine move trade t on: no click has cancelled it, and the
   one task a step may add is of the only event it can still have. *)
LEMMA PipelineKeeps ==
    ASSUME IInv, NEW t \in Trades, PipelineStep(t)
    PROVE  Agreement'
<1>1. /\ UNCHANGED <<row, call, click, releases>>
      /\ \A u \in Trades \ {t} : order'[u] = order[u]
      /\ \/ order[t] = "QUEUED" /\ order'[t] \in {"WORKING", "LAPSED"}
         \/ order[t] = "UNCHAINED" /\ order'[t] = "LAPSED"
         \/ order[t] = "LAPSED" /\ order'[t] = "EXPIRED"
         \/ order[t] = "WORKING" /\ order'[t] \in {"LIVE", "OVER"}
         \/ order[t] = "LIVE" /\ order'[t] = "OVER"
  BY DEF PipelineStep, Works, Submitted, FailsForGood, Ends, Expires, Pipeline, IInv, TypeOK
<1>2. \/ task' = task
      \/ \E k : /\ task' = task \cup {k} /\ k.trade = t /\ k.pc = "find"
              /\ \/ order[t] = "WORKING" /\ order'[t] = "LIVE" /\ k.event = "OrderSubmitted"
                 \/ order[t] = "WORKING" /\ order'[t] = "OVER" /\ k.event = "OrderFailed"
                 \/ order[t] = "LIVE" /\ order'[t] = "OVER" /\ k.event \in TradeEnd
  <2>1. CASE Works(t) \/ Expires(t)
    BY <2>1 DEF Works, Expires
  <2>2. CASE Submitted(t)
    BY <2>2 DEF Submitted, Pipeline, Publish, IInv, TypeOK
  <2>3. CASE FailsForGood(t)
    BY <2>3 DEF FailsForGood, Pipeline, Publish, IInv, TypeOK
  <2>4. CASE Ends(t)
    BY <2>4 DEF Ends, Pipeline, Publish, IInv, TypeOK
  <2> QED BY <2>1, <2>2, <2>3, <2>4 DEF PipelineStep
<1>3. \A u \in Trades : TradeAgrees(u)'
  BY <1>1 DEF IInv, TradeAgrees, CallAgrees, RowAgrees, ReleaseAgrees, Unsubmitted,
              Final, Statuses, OpenStatuses
<1>4. \A k \in task :
         /\ k.trade \in Trades /\ TaskAgrees(k)
         /\ k.trade = t => order[t] = "LIVE" /\ k.event = "OrderSubmitted"
  BY <1>1 DEF IInv, TypeOK, Task, TaskAgrees
<1>5. \A k \in task : TaskAgrees(k)'
  BY <1>1, <1>4 DEF TaskAgrees
<1>6. /\ \A k \in task' : TaskAgrees(k)'
      /\ \A k, l \in task' : Exclusive(k, l)'
  <2>1. CASE task' = task
    BY <1>5, <2>1 DEF IInv, Exclusive
  <2>2. CASE task' # task
    <3>1. PICK k :
             /\ task' = task \cup {k} /\ k.trade = t /\ k.pc = "find"
             /\ \/ order[t] = "WORKING" /\ order'[t] = "LIVE" /\ k.event = "OrderSubmitted"
                \/ order[t] = "WORKING" /\ order'[t] = "OVER" /\ k.event = "OrderFailed"
                \/ order[t] = "LIVE" /\ order'[t] = "OVER" /\ k.event \in TradeEnd
      BY <1>2, <2>2
    <3>2. TaskAgrees(k)'
      BY <3>1 DEF TaskAgrees, TradeEnd
    <3>3. \A l \in task : Exclusive(k, l)' /\ Exclusive(l, k)'
      BY <1>4, <3>1 DEF Exclusive
    <3> QED BY <1>5, <3>1, <3>2, <3>3 DEF IInv, Exclusive
  <2> QED BY <2>1, <2>2
<1>7. \A c \in Clicks : ClickAgrees(c)'
  BY <1>1 DEF IInv, TypeOK, ClickRecord, ClickAgrees
<1>8. OneCancels'
  BY <1>1 DEF IInv, OneCancels, Cancelling
<1> QED BY <1>3, <1>6, <1>7, <1>8 DEF Agreement

-----------------------------------------------------------------------------
(* A step of the task k on trade t: only t's row and margin change, k is over
   or goes on, and what the other tasks on t know stays true. *)
TaskEffect(k, t) ==
    /\ UNCHANGED <<order, call, click>>
    /\ \A u \in Trades \ {t} : row'[u] = row[u] /\ releases'[u] = releases[u]
    /\ row[t] # "NONE" => row'[t] # "NONE"
    /\ TradeAgrees(t)'
    /\ \A l \in task \ {k} : l.trade = t => TaskAgrees(l)'
    /\ \/ task' = task \ {k}
       \/ \E pc \in {"mark", "release"} :
             /\ task' = (task \ {k}) \cup {[k EXCEPT !.pc = pc]}
             /\ TaskAgrees([k EXCEPT !.pc = pc])'

LEMMA TaskEffectKeeps ==
    ASSUME IInv, NEW k \in task, NEW t \in Trades, k.trade = t, TaskEffect(k, t)
    PROVE  Agreement'
<1>1. order[t] \in {"LIVE", "OVER"} /\ k \in Task
  BY DEF IInv, TypeOK, TaskAgrees
<1>2. \A u \in Trades : TradeAgrees(u)'
  BY DEF TaskEffect, IInv, TradeAgrees, CallAgrees, RowAgrees, ReleaseAgrees, Unsubmitted
<1>3. \A l \in task \ {k} : TaskAgrees(l)'
  BY DEF TaskEffect, IInv, TypeOK, Task, TaskAgrees
<1>4. /\ \A l \in task' : TaskAgrees(l)'
      /\ \A l, m \in task' : Exclusive(l, m)'
  <2>1. CASE task' = task \ {k}
    BY <1>3, <2>1 DEF IInv, Exclusive
  <2>2. CASE task' # task \ {k}
    <3>1. PICK pc : /\ task' = (task \ {k}) \cup {[k EXCEPT !.pc = pc]}
                    /\ TaskAgrees([k EXCEPT !.pc = pc])'
      BY <2>2 DEF TaskEffect
    <3>2. /\ [k EXCEPT !.pc = pc].trade = k.trade
          /\ [k EXCEPT !.pc = pc].event = k.event
      BY <1>1 DEF Task
    <3>3. \A l \in task \ {k} : /\ Exclusive([k EXCEPT !.pc = pc], l)'
                                /\ Exclusive(l, [k EXCEPT !.pc = pc])'
      BY <3>2 DEF IInv, Exclusive
    <3> QED BY <1>3, <3>1, <3>3 DEF IInv, Exclusive
  <2> QED BY <2>1, <2>2
<1>5. \A c \in Clicks : ClickAgrees(c)'
  BY <1>1 DEF TaskEffect, IInv, TypeOK, ClickRecord, ClickAgrees
<1>6. OneCancels'
  BY DEF TaskEffect, IInv, OneCancels, Cancelling
<1> QED BY <1>2, <1>4, <1>5, <1>6 DEF Agreement

LEMMA TaskKeeps ==
    ASSUME IInv, NEW k \in task, Find(k) \/ Mark(k) \/ Release(k)
    PROVE  Agreement'
<1>1. PICK t \in Trades : t = k.trade
  BY DEF IInv, TypeOK, Task
<1>2. /\ k \in Task /\ TaskAgrees(k) /\ TradeAgrees(t)
      /\ \A l \in task \ {k} : l \in Task /\ TaskAgrees(l) /\ Exclusive(k, l)
  BY <1>1 DEF IInv, TypeOK, TradeAgrees
<1>3. /\ [k EXCEPT !.pc = "mark"] \in Task /\ [k EXCEPT !.pc = "release"] \in Task
      /\ \A pc : /\ [k EXCEPT !.pc = pc].trade = t /\ [k EXCEPT !.pc = pc].pc = pc
                 /\ [k EXCEPT !.pc = pc].event = k.event
  BY <1>1, <1>2 DEF Task
<1>4. CASE Find(k)
  <2>1. /\ UNCHANGED <<order, call, click, row, releases>>
        /\ \/ task' = task \ {k}
           \/ /\ row[t] = Expected(k.event)
              /\ task' = (task \ {k}) \cup {[k EXCEPT !.pc = "mark"]}
    BY <1>1, <1>4 DEF Find
  <2>2. TradeAgrees(t)' /\ \A l \in task \ {k} : TaskAgrees(l)'
    BY <1>2, <2>1 DEF TradeAgrees, CallAgrees, RowAgrees, ReleaseAgrees, Unsubmitted,
         TaskAgrees
  <2>3. row[t] = Expected(k.event) => TaskAgrees([k EXCEPT !.pc = "mark"])'
    BY <1>1, <1>2, <1>3, <2>1 DEF TaskAgrees
  <2>4. TaskEffect(k, t)
    BY <2>1, <2>2, <2>3 DEF TaskEffect
  <2> QED BY <1>1, <2>4, TaskEffectKeeps
<1>5. CASE Mark(k)
  <2>1. /\ UNCHANGED <<order, call, click, releases>>
        /\ \A u \in Trades \ {t} : row'[u] = row[u]
        /\ row'[t] \in {row[t], Marked(k.event)}
        /\ \/ task' = task \ {k}
           \/ /\ row'[t] = Marked(k.event) /\ Releases(k.event)
              /\ task' = (task \ {k}) \cup {[k EXCEPT !.pc = "release"]}
    BY <1>1, <1>5 DEF Mark, Saved, Lands, IInv, TypeOK
  <2>2. /\ row[t] = Expected(k.event) /\ row[t] \in OpenStatuses
        /\ releases[t] = 0
        /\ Marked(k.event) \in Final \cup {"OPEN"}
        /\ Marked(k.event) = "OPEN" <=> k.event = "OrderSubmitted"
        /\ order[t] \in {"LIVE", "OVER"}
        /\ k.event # "OrderSubmitted" => order[t] = "OVER"
    BY <1>1, <1>2, <1>5 DEF Mark, TaskAgrees, TradeAgrees, ReleaseAgrees, Unsubmitted,
         Expected,
       Marked, Final, Statuses, OpenStatuses, Task
  <2>3. TradeAgrees(t)'
    BY <1>2, <2>1, <2>2 DEF TradeAgrees, CallAgrees, RowAgrees, ReleaseAgrees, Unsubmitted,
       Final, Statuses, OpenStatuses
  <2>4. \A l \in task \ {k} : l.trade = t => TaskAgrees(l)'
    BY <1>1, <1>2, <2>1, <2>2 DEF TaskAgrees, Exclusive, Expected, TradeEnd, Releases,
       Final, Statuses, OpenStatuses, Task
  <2>5. row'[t] = Marked(k.event) /\ Releases(k.event) =>
           TaskAgrees([k EXCEPT !.pc = "release"])'
    BY <1>2, <1>3, <2>1, <2>2 DEF TaskAgrees, Releases
  <2>6. TaskEffect(k, t)
    BY <2>1, <2>2, <2>3, <2>4, <2>5 DEF TaskEffect, Final, Statuses, OpenStatuses
  <2> QED BY <1>1, <2>6, TaskEffectKeeps
<1>6. CASE Release(k)
  <2>1. /\ UNCHANGED <<order, call, click, row>>
        /\ \A u \in Trades \ {t} : releases'[u] = releases[u]
        /\ releases'[t] \in {releases[t], releases[t] + 1}
        /\ task' = task \ {k}
    BY <1>1, <1>6 DEF Release, ReleaseMargin, IInv, TypeOK
  <2>2. row[t] \in Final /\ releases[t] = 0 /\ Releases(k.event)
    BY <1>1, <1>2, <1>6 DEF Release, TaskAgrees
  <2>3. TradeAgrees(t)'
    BY <1>2, <2>1, <2>2 DEF TradeAgrees, CallAgrees, RowAgrees, ReleaseAgrees, Unsubmitted
  <2>4. \A l \in task \ {k} : l.trade = t => TaskAgrees(l)'
    BY <1>1, <1>2, <2>1, <2>2 DEF TaskAgrees, Exclusive, Releases, Task
  <2>5. TaskEffect(k, t)
    BY <2>1, <2>3, <2>4 DEF TaskEffect
  <2> QED BY <1>1, <2>5, TaskEffectKeeps
<1> QED BY <1>4, <1>5, <1>6

-----------------------------------------------------------------------------
LEMMA ResetKeeps ==
    ASSUME IInv, ResetChecks \/ ResetBalance
    PROVE  Agreement'
<1>1. UNCHANGED <<row, order, call, click, task, releases>>
  BY DEF ResetChecks, ResetBalance
<1> QED
  BY <1>1 DEF IInv, Agreement, TradeAgrees, CallAgrees, RowAgrees, ReleaseAgrees,
         Unsubmitted,
     TaskAgrees, Exclusive, ClickAgrees, OneCancels, Cancelling

LEMMA CrashKeeps ==
    ASSUME IInv, Crash
    PROVE  Agreement'
<1>1. /\ UNCHANGED <<row, releases>> /\ task' = {}
      /\ \A c \in Clicks : click'[c] = Idle
      /\ \A t \in Trades : call'[t] \in {call[t], "done"} /\ call'[t] \in {"new", "done"}
      /\ \A t \in Trades : call[t] = "done" => call'[t] = "done"
      /\ \A t \in Trades : order'[t] \in Reloaded(order[t])
  BY DEF Crash
<1>2. ASSUME NEW t \in Trades PROVE TradeAgrees(t)'
  <2>1. /\ order'[t] = "NONE" <=> order[t] = "NONE"
        /\ order[t] \in {"LIVE", "OVER"} => order'[t] \in {"LIVE", "OVER"}
        /\ order[t] \in {"OVER", "CANCELLED"} => order'[t] = order[t]
        /\ order'[t] # "DROPPED"
        /\ order'[t] = "CANCELLED" => order[t] = "CANCELLED"
    BY <1>1 DEF IInv, TypeOK, Stages, Reloaded
  <2>2. CallAgrees(t)'
    BY <1>1, <2>1 DEF IInv, CallAgrees, Unsubmitted
  <2>3. RowAgrees(t)'
    BY <1>1, <2>1 DEF IInv, RowAgrees, Final, Statuses, OpenStatuses
  <2>4. ReleaseAgrees(t)'
    BY <1>1, <2>1 DEF IInv, ReleaseAgrees, Unsubmitted
  <2> QED BY <2>2, <2>3, <2>4 DEF TradeAgrees
<1> QED BY <1>1, <1>2 DEF Agreement, ClickAgrees, OneCancels, Cancelling, Idle

-----------------------------------------------------------------------------
LEMMA InitHolds ==
    ASSUME Init
    PROVE  IInv
<1>1. TypeOK
  BY LedgerAssumption DEF Init, TypeOK, NewAccount, Statuses, Stages, ClickRecord
<1> QED BY <1>1 DEF Init, IInv, CallAgrees, RowAgrees, ReleaseAgrees, Unsubmitted,
         ClickAgrees,
            OneCancels, Cancelling, Idle, Final, Statuses, OpenStatuses

LEMMA NextKeeps ==
    ASSUME IInv, Next
    PROVE  IInv'
<1>1. TypeOK'
  BY NextTyped DEF IInv
<1>2. Agreement'
  BY CallKeeps, CancelTradeKeeps, ClickKeeps, PipelineKeeps, TaskKeeps, ResetKeeps, CrashKeeps
     DEF Next, TaskStep
<1> QED BY <1>1, <1>2 DEF IInv, Agreement, TradeAgrees

LEMMA StutterKeeps ==
    ASSUME IInv, UNCHANGED vars
    PROVE  IInv'
BY DEF vars, IInv, TypeOK, CallAgrees, RowAgrees, ReleaseAgrees, Unsubmitted,
   TaskAgrees, Exclusive, ClickAgrees, OneCancels, Cancelling

(* The inductive invariant: the request, the row, the queue, the tasks and the
   clicks of each trade agree, through failures, crashes and resets. *)
THEOREM Inductive == Spec => []IInv
<1>1. Init => IInv
  BY InitHolds
<1>2. IInv /\ [Next]_vars => IInv'
  BY NextKeeps, StutterKeeps
<1> QED BY <1>1, <1>2, PTL DEF Spec

(* The variables keep their types. *)
THEOREM TypeCorrect == Spec => []TypeOK
<1>1. IInv => TypeOK
  BY DEF IInv
<1> QED BY <1>1, Inductive, PTL

(* However the rollback, double clicks, the listener's tasks, crashes and
   failures of the database interleave, the margin of a trade is given back at
   most once. *)
THEOREM MarginReleasedOnce == Spec => []ReleasedOnce
<1>1. IInv => ReleasedOnce
  BY DEF IInv, ReleaseAgrees, ReleasedOnce
<1> QED BY <1>1, Inductive, PTL

(* No trade that is live, or may still become live, has lost its margin. *)
THEOREM MarginNotReleasedEarly == Spec => []LiveTradeKeepsItsMargin
<1>1. IInv => LiveTradeKeepsItsMargin
  BY DEF IInv, RowAgrees, ReleaseAgrees, Unsubmitted, LiveTradeKeepsItsMargin, MayTrade
<1> QED BY <1>1, Inductive, PTL

(* A row with a final status is not overwritten by a stale copy. *)
THEOREM FinalRowsStay == Spec => FinalRowStays
<1>1. IInv /\ [Next]_vars => [\A t \in Trades : row[t] \in Final => row'[t] = row[t]]_vars
  <2> SUFFICES ASSUME IInv, Next, NEW t \in Trades, row[t] \in Final
               PROVE  row'[t] = row[t]
    BY DEF vars
  <2>1. ASSUME NEW u \in Trades, Own(u) PROVE row'[t] = row[t]
    BY <2>1 DEF Own, Saved, IInv, CallAgrees, TypeOK, Final, Statuses
  <2>2. ASSUME NEW c \in Clicks, CancelMarked(c) PROVE row'[t] = row[t]
    BY <2>2, ClickTrade DEF CancelMarked, Saved, ClickAgrees, Final, OpenStatuses, IInv,
         TypeOK
  <2>3. ASSUME NEW k \in task, Mark(k) PROVE row'[t] = row[t]
    BY <2>3 DEF Mark, Saved, IInv, TaskAgrees, Expected, Final, OpenStatuses, TypeOK
  <2>4. CASE UNCHANGED row
    BY <2>4
  <2>5. \/ \E u \in Trades : Own(u)
        \/ \E c \in Clicks : CancelMarked(c)
        \/ \E k \in task : Mark(k)
        \/ UNCHANGED row
    BY DEF Next, CallStep, ClickStep, TaskStep, PipelineStep, Reserve, Submit, Refused,
       SubmitThrows, RollBack, CancelTrade, CancelInQueue, CancelSaved, CancelReleased,
       Works, Submitted, FailsForGood, Ends, Expires, Pipeline, Find, Release,
       ResetChecks, ResetBalance, Crash
  <2> QED BY <2>1, <2>2, <2>3, <2>4, <2>5
<1> QED BY <1>1, Inductive, PTL DEF Spec, FinalRowStays

-----------------------------------------------------------------------------
(* The sum of the margins of a set of trades: one more trade adds its own. *)
LEMMA RupeesOfOne ==
    ASSUME NEW t \in Trades
    PROVE  IsFiniteSet({t} \X (1..Amount[t])) /\ Cardinality({t} \X (1..Amount[t])) = Amount[t]
<1>1. PICK n \in Nat : n = Amount[t] /\ n > 0
  BY LedgerAssumption
<1>i. IsFiniteSet(1..n) /\ Cardinality(1..n) = IF 1 > n THEN 0 ELSE n - 1 + 1
  BY FS_Interval
<1>2. IsFiniteSet(1..Amount[t]) /\ Cardinality(1..Amount[t]) = Amount[t]
  BY <1>1, <1>i
<1>3. IsFiniteSet({t}) /\ Cardinality({t}) = 1
  BY FS_Singleton
<1>4. /\ IsFiniteSet({t} \X (1..Amount[t]))
      /\ Cardinality({t} \X (1..Amount[t])) = Cardinality({t}) * Cardinality(1..Amount[t])
  BY <1>2, <1>3, FS_Product
<1> QED BY <1>1, <1>2, <1>3, <1>4

LEMMA RupeesFinite ==
    ASSUME NEW S \in SUBSET Trades
    PROVE  IsFiniteSet(Rupees(S)) /\ Total(S) \in Nat
<1> DEFINE purse == [t \in S |-> {t} \X (1..Amount[t])]
           Purses == {{t} \X (1..Amount[t]) : t \in S}
<1>1. IsFiniteSet(S)
  BY LedgerAssumption, FS_Subset
<1>2. purse \in Surjection(S, Purses)
  BY DEF Surjection
<1>3. IsFiniteSet(Purses)
  <2> HIDE DEF purse, Purses
  <2> QED BY <1>1, <1>2, FS_Surjection
<1>4. \A P \in Purses : IsFiniteSet(P)
  BY RupeesOfOne
<1>5. IsFiniteSet(UNION Purses)
  <2> HIDE DEF Purses
  <2> QED BY <1>3, <1>4, FS_UNION
<1> QED BY <1>5, FS_CardinalityType DEF Rupees, Total

LEMMA TotalAdds ==
    ASSUME NEW S \in SUBSET Trades, NEW t \in Trades \ S
    PROVE  Total(S \cup {t}) = Total(S) + Amount[t]
<1>1. Rupees(S \cup {t}) = Rupees(S) \cup ({t} \X (1..Amount[t]))
  BY DEF Rupees
<1>2. Rupees(S) \cap ({t} \X (1..Amount[t])) = {}
  BY DEF Rupees
<1>3. IsFiniteSet(Rupees(S)) /\ Total(S) \in Nat
  BY RupeesFinite
<1>4. /\ IsFiniteSet({t} \X (1..Amount[t])) /\ Cardinality({t} \X (1..Amount[t])) = Amount[t]
      /\ Amount[t] \in Nat
  BY RupeesOfOne, LedgerAssumption
<1>5. Cardinality(Rupees(S) \cup ({t} \X (1..Amount[t]))) =
         Cardinality(Rupees(S)) + Cardinality({t} \X (1..Amount[t]))
           - Cardinality(Rupees(S) \cap ({t} \X (1..Amount[t])))
  BY <1>3, <1>4, FS_Union
<1>6. Cardinality(Rupees(S \cup {t})) =
         Cardinality(Rupees(S)) + Cardinality({t} \X (1..Amount[t])) - Cardinality({})
  BY <1>1, <1>2, <1>5
<1>7. Total(S \cup {t}) = Total(S) + Amount[t] - 0
  BY <1>4, <1>6, FS_EmptySet DEF Total
<1> QED BY <1>3, <1>4, <1>7

LEMMA TotalGrows ==
    ASSUME NEW S \in SUBSET Trades, NEW T \in SUBSET S
    PROVE  Total(T) <= Total(S)
<1>1. Rupees(T) \subseteq Rupees(S)
  BY DEF Rupees
<1>2. IsFiniteSet(Rupees(S))
  BY RupeesFinite
<1> QED BY <1>1, <1>2, FS_Subset DEF Total

LEMMA TotalLoses ==
    ASSUME NEW S \in SUBSET Trades, NEW t \in S
    PROVE  Total(S) = Total(S \ {t}) + Amount[t] /\ Total(S \ {t}) \in Nat
<1>1. PICK R \in SUBSET Trades : R = S \ {t}
  OBVIOUS
<1>2. S = R \cup {t} /\ t \in Trades \ R
  BY <1>1
<1>3. Total(R \cup {t}) = Total(R) + Amount[t] /\ Total(R) \in Nat
  BY <1>2, TotalAdds, RupeesFinite
<1> QED BY <1>1, <1>2, <1>3 DEF Total, Rupees

-----------------------------------------------------------------------------
(* What a step does to the account: it reserves the margin of a trade that
   nothing answered for, gives back the margin of one that something did, or
   touches no figure. *)
Covered == resets = 0 => account.reserved >= Total(Held)
Money == Covered /\ ReservedIsExplained /\ NeverOvercommitted

Takes(t) ==
    /\ account.available >= Amount[t]
    /\ account' = [account EXCEPT !.available = @ - Amount[t], !.reserved = @ + Amount[t]]
    /\ t \notin Held /\ Held' \subseteq Held \cup {t}
    /\ Undisturbed' => Undisturbed /\ t \notin Committed /\ Committed' = Committed \cup {t}
    /\ UNCHANGED resets

Gives(t, p) ==
    /\ account' = [account EXCEPT !.available = @ + Amount[t] + p,
                                  !.reserved = @ - Amount[t],
                                  !.pnl = @ + p]
    /\ t \in Held /\ Held' \subseteq Held \ {t}
    /\ Undisturbed' => Undisturbed /\ t \in Committed /\ Committed' = Committed \ {t}
    /\ UNCHANGED resets

Leaves ==
    /\ UNCHANGED account
    /\ Held' \subseteq Held
    /\ Undisturbed' => Undisturbed /\ Committed' = Committed
    /\ resets' = 0 => resets = 0

LEMMA HeldTyped == Held \in SUBSET Trades /\ Committed \in SUBSET Trades
BY DEF Held, Committed

LEMMA TakesKeeps ==
    ASSUME TypeOK, Money, NEW t \in Trades, Takes(t)
    PROVE  Money'
<1>1. /\ account.available \in Int /\ account.reserved \in Int
      /\ account.initial \in Int /\ account.pnl \in Int
      /\ Amount[t] \in Nat
      /\ account'.available = account.available - Amount[t]
      /\ account'.reserved = account.reserved + Amount[t]
      /\ account'.initial = account.initial /\ account'.pnl = account.pnl
  BY LedgerAssumption DEF Takes, TypeOK
<1>2. Covered'
  <2>1. Total(Held') <= Total(Held \cup {t})
    BY HeldTyped, TotalGrows DEF Takes
  <2>2. Total(Held \cup {t}) = Total(Held) + Amount[t]
    BY HeldTyped, TotalAdds DEF Takes
  <2>3. Total(Held) \in Nat /\ Total(Held') \in Nat
    BY HeldTyped, RupeesFinite DEF Takes
  <2>4. resets' = 0 => account'.reserved >= Total(Held')
    BY <1>1, <2>1, <2>2, <2>3 DEF Money, Covered, Takes
  <2>5. Total(Held') = Total(Held)'
    BY DEF Total, Rupees
  <2> QED BY <2>4, <2>5 DEF Covered
<1>3. ReservedIsExplained'
  <2> SUFFICES ASSUME Undisturbed' PROVE account'.reserved = Total(Committed)'
    BY DEF ReservedIsExplained
  <2>1. Total(Committed \cup {t}) = Total(Committed) + Amount[t]
    BY HeldTyped, TotalAdds DEF Takes
  <2>2. Total(Committed)' = Total(Committed \cup {t})
    BY DEF Takes, Total, Rupees
  <2> QED BY <1>1, <2>1, <2>2 DEF Money, ReservedIsExplained, Takes
<1>4. NeverOvercommitted'
  BY <1>1 DEF Money, NeverOvercommitted, FiguresAddUp, LossesWithinMargin, Takes
<1> QED BY <1>2, <1>3, <1>4 DEF Money

LEMMA GivesKeeps ==
    ASSUME TypeOK, Money, NEW t \in Trades, NEW p \in Results \cup {0}, Gives(t, p)
    PROVE  Money'
<1>1. /\ account.available \in Int /\ account.reserved \in Int
      /\ account.initial \in Int /\ account.pnl \in Int
      /\ Amount[t] \in Nat /\ p \in Int
      /\ account'.available = account.available + Amount[t] + p
      /\ account'.reserved = account.reserved - Amount[t]
      /\ account'.initial = account.initial /\ account'.pnl = account.pnl + p
  BY LedgerAssumption DEF Gives, TypeOK
<1>2. resets' = 0 => account'.reserved >= Total(Held')
  <2>1. Total(Held') <= Total(Held \ {t})
    BY HeldTyped, TotalGrows DEF Gives
  <2>2. Total(Held) = Total(Held \ {t}) + Amount[t] /\ Total(Held \ {t}) \in Nat
    BY HeldTyped, TotalLoses DEF Gives
  <2>3. Total(Held') \in Nat
    BY HeldTyped, RupeesFinite DEF Gives
  <2> QED BY <1>1, <2>1, <2>2, <2>3 DEF Money, Covered, Gives
<1>3. Covered'
  BY <1>2 DEF Covered, Total, Rupees
<1>4. ReservedIsExplained'
  <2> SUFFICES ASSUME Undisturbed' PROVE account'.reserved = Total(Committed)'
    BY DEF ReservedIsExplained
  <2>1. /\ Total(Committed) = Total(Committed \ {t}) + Amount[t]
        /\ Total(Committed \ {t}) \in Nat
    BY HeldTyped, TotalLoses DEF Gives
  <2>2. Total(Committed)' = Total(Committed \ {t})
    BY DEF Gives, Total, Rupees
  <2> QED BY <1>1, <2>1, <2>2 DEF Money, ReservedIsExplained, Gives
<1>5. NeverOvercommitted'
  <2>1. FiguresAddUp'
    BY <1>1 DEF Money, NeverOvercommitted, FiguresAddUp
  <2>2. resets' = 0 => account'.reserved >= 0
    <3>1. Total(Held') \in Nat
      BY HeldTyped, RupeesFinite DEF Gives
    <3> QED BY <1>1, <1>2, <3>1
  <2>3. resets' = 0 /\ LossesWithinMargin => account'.available >= 0
    BY <1>1 DEF Money, NeverOvercommitted, LossesWithinMargin, Gives
  <2> QED BY <2>1, <2>2, <2>3 DEF NeverOvercommitted, LossesWithinMargin
<1> QED BY <1>3, <1>4, <1>5 DEF Money

LEMMA LeavesKeeps ==
    ASSUME TypeOK, Money, Leaves
    PROVE  Money'
<1>1. Total(Held') <= Total(Held) /\ Total(Held) \in Nat /\ Total(Held') \in Nat
  BY HeldTyped, TotalGrows, RupeesFinite DEF Leaves
<1>2. resets' = 0 => account'.reserved >= Total(Held')
  BY <1>1 DEF Money, Covered, Leaves, TypeOK
<1>3. Covered'
  BY <1>2 DEF Covered, Total, Rupees
<1>4. ReservedIsExplained'
  BY DEF Money, ReservedIsExplained, Leaves, Total, Rupees
<1>5. NeverOvercommitted'
  BY DEF Money, NeverOvercommitted, FiguresAddUp, LossesWithinMargin, Leaves
<1> QED BY <1>3, <1>4, <1>5 DEF Money

-----------------------------------------------------------------------------
(* Which of the three a step is.  While nothing has failed, crashed or been
   reset, every write is answered. *)
LEMMA CalmMeans ==
    ASSUME TypeOK', Undisturbed'
    PROVE  crashes' = 0 /\ failures' = 0 /\ resets' = 0
<1>1. crashes' \in Nat /\ failures' \in Nat /\ resets' \in Nat
  BY LedgerAssumption DEF TypeOK
<1>2. \A a, b, c \in Nat : a + b + c = 0 => a = 0 /\ b = 0 /\ c = 0
  OBVIOUS
<1>3. crashes' + failures' + resets' = 0
  BY DEF Undisturbed
<1> QED BY <1>1, <1>2, <1>3

LEMMA CalmBefore ==
    ASSUME TypeOK, TypeOK', Undisturbed', NEW outcome, Counted(outcome),
           UNCHANGED <<crashes, resets>>
    PROVE  outcome = "answered" /\ Undisturbed
<1>1. crashes' = 0 /\ failures' = 0 /\ resets' = 0
  BY CalmMeans
<1>2. failures \in Nat
  BY LedgerAssumption DEF TypeOK
<1> QED BY <1>1, <1>2 DEF Counted, Undisturbed

LEMMA NotReleasing ==
    ASSUME IInv, NEW t \in Trades, row[t] = "NONE"
    PROVE  ~Releasing(t)
<1>1. \A c \in Clicks : click[c].pc = "release" => click[c] # Idle
  BY DEF Idle
<1> QED BY <1>1 DEF IInv, Releasing, ClickAgrees, TaskAgrees, Final, Statuses

LEMMA ReserveMoney ==
    ASSUME IInv, TypeOK', Money, NEW t \in Trades, Reserve(t)
    PROVE  Money'
<1>1. PICK outcome \in Outcome :
         /\ Counted(outcome)
         /\ account' = IF Lands(outcome)
                       THEN [account EXCEPT !.available = @ - Amount[t],
                                            !.reserved = @ + Amount[t]]
                       ELSE account
         /\ call' = [call EXCEPT ![t] = After(outcome, "submit", "done")]
  BY DEF Reserve
<1>2. /\ call[t] = "new" /\ order[t] = "NONE" /\ row[t] = "NONE" /\ ~Releasing(t)
      /\ account.available >= Amount[t]
      /\ UNCHANGED <<row, order, click, task, releases, crashes, resets>>
  BY NotReleasing DEF Reserve, IInv, CallAgrees, Unsubmitted
<1>3. /\ \A u \in Trades \ {t} : call'[u] = call[u]
      /\ call'[t] = After(outcome, "submit", "done")
      /\ \A u \in Trades : Releasing(u)' <=> Releasing(u)
  BY <1>1, <1>2 DEF IInv, TypeOK, Releasing
<1>4. /\ \A u \in Trades \ {t} : Holds(u)' <=> Holds(u)
      /\ \A u \in Trades \ {t} : Commits(u)' <=> Commits(u)
      /\ ~Holds(t) /\ ~Commits(t)
  BY <1>2, <1>3 DEF Holds, Commits, OpenStatuses
<1>5. Undisturbed' => Undisturbed /\ outcome = "answered"
  BY <1>1, <1>2, CalmBefore DEF IInv
<1>6. outcome = "answered" => Commits(t)'
  BY <1>3 DEF After, Commits
<1>7. CASE Lands(outcome)
  <2>1. Takes(t)
    BY <1>1, <1>2, <1>4, <1>5, <1>6, <1>7 DEF Takes, Held, Committed
  <2> QED BY <2>1, TakesKeeps DEF IInv
<1>8. CASE ~Lands(outcome)
  <2>1. ~Holds(t)'
    BY <1>2, <1>3, <1>8 DEF Holds, After, Lands
  <2>2. Leaves
    BY <1>1, <1>2, <1>4, <1>5, <1>8, <2>1 DEF Leaves, Held, Lands
  <2> QED BY <2>2, LeavesKeeps DEF IInv
<1> QED BY <1>7, <1>8

(* A margin given back by a step that ends the request, click or task that
   answered for it. *)
LEMMA ReleaseMoney ==
    ASSUME IInv, TypeOK', Money, NEW t \in Trades, NEW p \in Results \cup {0}, NEW outcome,
           Counted(outcome), ReleaseMargin(t, p, outcome),
           Holds(t), Commits(t), ~Commits(t)',
           Lands(outcome) => ~Holds(t)',
           \A u \in Trades : (Holds(u)' => Holds(u)) /\ (u # t => (Commits(u)' <=> Commits(u))),
           UNCHANGED <<crashes, resets>>
    PROVE  Money'
<1>1. Undisturbed' => Undisturbed /\ outcome = "answered"
  BY CalmBefore DEF IInv
<1>2. CASE Lands(outcome)
  <2>1. Gives(t, p)
    BY <1>1, <1>2 DEF Gives, ReleaseMargin, Held, Committed
  <2> QED BY <2>1, GivesKeeps DEF IInv
<1>3. CASE ~Lands(outcome)
  <2>1. Leaves
    BY <1>1, <1>3 DEF Leaves, ReleaseMargin, Held, Lands
  <2> QED BY <2>1, LeavesKeeps DEF IInv
<1> QED BY <1>2, <1>3

LEMMA CallMoney ==
    ASSUME IInv, TypeOK', Money, NEW t \in Trades, CallStep(t)
    PROVE  Money'
<1>1. /\ UNCHANGED <<click, task, crashes, resets>>
      /\ \A u \in Trades : Releasing(u)' <=> Releasing(u)
      /\ \A u \in Trades \ {t} : /\ call'[u] = call[u] /\ row'[u] = row[u]
                                 /\ order'[u] = order[u] /\ releases'[u] = releases[u]
      /\ row[t] = "NONE" /\ ~Releasing(t)
  <2>1. row[t] = "NONE"
    BY DEF CallStep, Submit, Refused, SubmitThrows, RollBack, Own, IInv, CallAgrees, Unsubmitted
  <2>2. /\ UNCHANGED <<click, task, crashes, resets>>
        /\ \A u \in Trades \ {t} : /\ call'[u] = call[u] /\ row'[u] = row[u]
                                   /\ order'[u] = order[u] /\ releases'[u] = releases[u]
    BY DEF CallStep, Submit, Refused, SubmitThrows, RollBack, Own, Saved, ReleaseMargin,
           IInv, TypeOK
  <2> QED BY <2>1, <2>2, NotReleasing DEF Releasing
<1>2. \A u \in Trades \ {t} : (Holds(u)' <=> Holds(u)) /\ (Commits(u)' <=> Commits(u))
  BY <1>1 DEF Holds, Commits
<1>3. CASE Submit(t) \/ Refused(t)
  <2>1. /\ UNCHANGED <<account, failures>>
        /\ Holds(t) /\ Commits(t) /\ Commits(t)'
    BY <1>3 DEF Submit, Refused, Holds, Commits, IInv, TypeOK
  <2>2. Leaves
    BY <1>1, <1>2, <2>1 DEF Leaves, Held, Committed, Undisturbed
  <2> QED BY <2>2, LeavesKeeps DEF IInv
<1>4. CASE SubmitThrows(t)
  <2>1. UNCHANGED account /\ Holds(t)
    BY <1>4 DEF SubmitThrows, Holds
  <2>2. ~Undisturbed'
    BY <1>1, <1>4, CalmBefore DEF SubmitThrows, IInv
  <2>3. Leaves
    BY <1>1, <1>2, <2>1, <2>2 DEF Leaves, Held
  <2> QED BY <2>3, LeavesKeeps DEF IInv
<1>5. CASE RollBack(t)
  <2>1. PICK outcome \in Outcome : Counted(outcome) /\ ReleaseMargin(t, 0, outcome)
    BY <1>5 DEF RollBack
  <2>2. /\ call[t] = "rollback" /\ call'[t] = "done"
        /\ order[t] = "NONE" /\ order' = order /\ row' = row
    BY <1>5 DEF RollBack, IInv, TypeOK, CallAgrees, Unsubmitted
  <2>3. Holds(t) /\ ~Holds(t)' /\ Commits(t) /\ ~Commits(t)'
    BY <1>1, <2>2 DEF Holds, Commits, OpenStatuses
  <2> QED BY <1>1, <1>2, <2>1, <2>3, ReleaseMoney
<1>6. CASE Own(t)
  <2>1. PICK outcome \in Outcome : Counted(outcome) /\ Saved(t, "PENDING", outcome)
    BY <1>6 DEF Own
  <2>2. /\ UNCHANGED <<account, order, releases>>
        /\ call[t] = "own" /\ call'[t] = "done"
    BY <1>6 DEF Own, IInv, TypeOK
  <2>3. Commits(t) /\ (Holds(t)' => Holds(t))
    BY <2>2 DEF Commits, Holds
  <2>4. outcome = "answered" => Commits(t)'
    BY <2>1 DEF Saved, Lands, Commits, OpenStatuses, IInv, TypeOK
  <2>5. Undisturbed' => Undisturbed /\ outcome = "answered"
    BY <1>1, <2>1, CalmBefore DEF IInv
  <2>6. Leaves
    BY <1>1, <1>2, <2>2, <2>3, <2>4, <2>5 DEF Leaves, Held, Committed
  <2> QED BY <2>6, LeavesKeeps DEF IInv
<1> QED BY <1>3, <1>4, <1>5, <1>6 DEF CallStep

LEMMA ClickMoney ==
    ASSUME IInv, IInv', Money, NEW c \in Clicks, ClickStep(c)
    PROVE  Money'
<1>1. click[c].pc # "idle"
  BY DEF ClickStep, CancelInQueue, CancelSaved, CancelMarked, CancelReleased
<1>2. PICK t \in Trades : /\ t = click[c].trade /\ click[c] # Idle
                          /\ click[c] \in [pc : {"queue", "save", "mark", "release"}, trade : Trades]
                          /\ ClickAgrees(c) /\ row[t] # "NONE" /\ order[t] # "NONE"
  BY <1>1, ClickTrade DEF IInv, ClickAgrees, RowAgrees
<1>3. /\ UNCHANGED <<call, task, crashes, resets>>
      /\ \A d \in Clicks \ {c} : click'[d] = click[d]
      /\ click'[c] # Idle => click'[c].trade = t
      /\ \A u \in Trades \ {t} : /\ row'[u] = row[u]
                                 /\ order'[u] = order[u] /\ releases'[u] = releases[u]
  BY <1>2 DEF ClickStep, CancelInQueue, CancelSaved, CancelMarked, CancelReleased, Saved,
     ReleaseMargin, After, IInv, TypeOK
<1>4. \A u \in Trades \ {t} : Releasing(u)' <=> Releasing(u)
  <2>1. \A u \in Trades \ {t} : ~(click'[c].pc = "release" /\ click'[c].trade = u)
    BY <1>3 DEF Idle
  <2> QED BY <1>2, <1>3, <2>1 DEF Releasing
<1>5. \A u \in Trades \ {t} : (Holds(u)' <=> Holds(u)) /\ (Commits(u)' <=> Commits(u))
  BY <1>3, <1>4 DEF Holds, Commits
<1>6. CASE CancelInQueue(c)
  <2>1. /\ UNCHANGED <<account, row, releases, failures>>
        /\ click[c].pc # "release" /\ click'[c].pc # "release"
    BY <1>2, <1>6 DEF CancelInQueue, IInv, TypeOK, Idle
  <2>2. Releasing(t)' <=> Releasing(t)
    BY <1>3, <2>1 DEF Releasing
  <2>3. (Commits(t)' <=> Commits(t)) /\ (Holds(t)' => Holds(t))
    BY <1>2, <1>3, <2>1, <2>2 DEF Commits, Holds
  <2>4. Leaves
    BY <1>3, <1>5, <2>1, <2>3 DEF Leaves, Held, Committed, Undisturbed
  <2> QED BY <2>4, LeavesKeeps DEF IInv
<1>7. CASE CancelSaved(c)
  <2>1. /\ UNCHANGED <<account, row, releases>>
        /\ click[c].pc # "release" /\ click'[c].pc # "release"
    BY <1>2, <1>7 DEF CancelSaved, IInv, TypeOK, Idle, After
  <2>2. Releasing(t)' <=> Releasing(t)
    BY <1>3, <2>1 DEF Releasing
  <2>3. (Commits(t)' <=> Commits(t)) /\ (Holds(t)' => Holds(t))
    BY <1>2, <1>3, <2>1, <2>2 DEF Commits, Holds
  <2>4. Undisturbed' => Undisturbed
    BY <1>3, <1>7, CalmBefore DEF CancelSaved, IInv
  <2>5. Leaves
    BY <1>3, <1>5, <2>1, <2>3, <2>4 DEF Leaves, Held, Committed
  <2> QED BY <2>5, LeavesKeeps DEF IInv
<1>8. CASE CancelMarked(c)
  <2>1. PICK outcome \in Outcome :
           /\ Counted(outcome)
           /\ click' = [click EXCEPT ![c] = After(outcome, [@ EXCEPT !.pc = "release"], Idle)]
    BY <1>8 DEF CancelMarked
  <2>2. /\ UNCHANGED <<account, order, releases>>
        /\ row[t] = "PENDING"
    BY <1>2, <1>8 DEF CancelMarked, ClickAgrees
  <2>3. outcome = "answered" => click'[c].pc = "release" /\ click'[c].trade = t
    BY <1>2, <2>1 DEF After, IInv, TypeOK
  <2>4. outcome = "answered" => Commits(t) /\ Commits(t)'
    BY <2>2, <2>3 DEF Commits, Releasing, OpenStatuses
  <2>5. Holds(t)' => Holds(t)
    BY <1>2, <1>3, <2>2 DEF Holds
  <2>6. Undisturbed' => Undisturbed /\ outcome = "answered"
    BY <1>3, <2>1, CalmBefore DEF IInv
  <2>7. Leaves
    BY <1>3, <1>5, <2>2, <2>4, <2>5, <2>6 DEF Leaves, Held, Committed
  <2> QED BY <2>7, LeavesKeeps DEF IInv
<1>9. CASE CancelReleased(c)
  <2>1. PICK outcome \in Outcome : Counted(outcome) /\ ReleaseMargin(t, 0, outcome)
    BY <1>2, <1>9 DEF CancelReleased
  <2>2. /\ UNCHANGED <<row, order>> /\ click'[c] = Idle
        /\ click[c].pc = "release" /\ order[t] = "CANCELLED" /\ row[t] = "CANCELLED"
        /\ releases[t] = 0
    BY <1>2, <1>9 DEF CancelReleased, ClickAgrees, IInv, TypeOK
  <2>3. call[t] = "done"
    BY <2>2 DEF IInv, TypeOK, CallAgrees, Unsubmitted
  <2>4. ~Releasing(t)'
    <3>1. \A d \in Clicks \ {c} : ~(click'[d].pc = "release" /\ click'[d].trade = t)
      BY <1>2, <1>3, <2>2 DEF IInv, OneCancels, Cancelling
    <3>2. \A k \in task : k.trade # t
      BY <2>2 DEF IInv, TaskAgrees
    <3> QED BY <1>3, <2>2, <3>1, <3>2 DEF Releasing, Idle
  <2>5. Holds(t) /\ Commits(t) /\ ~Commits(t)'
    BY <1>2, <1>3, <2>2, <2>3, <2>4 DEF Holds, Commits, Releasing, OpenStatuses
  <2>6. Lands(outcome) => ~Holds(t)'
    BY <1>3, <2>1, <2>2, <2>3 DEF Holds, ReleaseMargin, IInv, TypeOK
  <2> QED BY <1>3, <1>5, <2>1, <2>5, <2>6, ReleaseMoney DEF IInv
<1> QED BY <1>6, <1>7, <1>8, <1>9 DEF ClickStep

LEMMA PipelineMoney ==
    ASSUME IInv, Money, NEW t \in Trades, PipelineStep(t)
    PROVE  Money'
<1>1. /\ UNCHANGED <<account, row, call, click, releases, crashes, failures, resets>>
      /\ order[t] # "NONE" /\ \A u \in Trades \ {t} : order'[u] = order[u]
      /\ \A k \in task' : k \in task \/ k.pc = "find"
      /\ task \subseteq task'
  BY DEF PipelineStep, Works, Submitted, FailsForGood, Ends, Expires, Pipeline, Publish,
     IInv, TypeOK
<1>2. \A u \in Trades : Releasing(u)' <=> Releasing(u)
  BY <1>1 DEF Releasing
<1>3. \A u \in Trades : (Holds(u)' => Holds(u)) /\ (Commits(u)' <=> Commits(u))
  BY <1>1, <1>2 DEF Holds, Commits
<1>4. Leaves
  BY <1>1, <1>3 DEF Leaves, Held, Committed, Undisturbed
<1> QED BY <1>4, LeavesKeeps DEF IInv

LEMMA TaskMoney ==
    ASSUME IInv, IInv', Money, NEW k \in task, k.pnl \in Results \cup {0},
           Find(k) \/ Mark(k) \/ Release(k)
    PROVE  Money'
<1>1. PICK t \in Trades : t = k.trade
  BY DEF IInv, TypeOK, Task
<1>2. /\ k \in Task /\ TaskAgrees(k) /\ order[t] # "NONE"
      /\ \A pc : [k EXCEPT !.pc = pc].trade = t /\ [k EXCEPT !.pc = pc].pc = pc
  BY <1>1 DEF IInv, TypeOK, Task, TaskAgrees
<1>3. /\ UNCHANGED <<order, call, click, crashes, resets>>
      /\ \A u \in Trades \ {t} : row'[u] = row[u] /\ releases'[u] = releases[u]
      /\ \/ task' = task \ {k}
         \/ \E pc \in {"mark", "release"} : task' = (task \ {k}) \cup {[k EXCEPT !.pc = pc]}
  BY <1>1 DEF Find, Mark, Release, Saved, ReleaseMargin, IInv, TypeOK
<1>4. \A u \in Trades \ {t} : Releasing(u)' <=> Releasing(u)
  <2>1. ASSUME NEW l, l.trade # t PROVE l \in task' <=> l \in task
    <3>1. l # k /\ \A pc : l # [k EXCEPT !.pc = pc]
      BY <1>1, <1>2, <2>1
    <3>2. CASE task' = task \ {k}
      BY <3>1, <3>2
    <3>3. CASE \E pc \in {"mark", "release"} : task' = (task \ {k}) \cup {[k EXCEPT !.pc = pc]}
      BY <3>1, <3>3, Zenon
    <3> QED BY <1>3, <3>2, <3>3
  <2> QED BY <1>3, <2>1 DEF Releasing
<1>5. \A u \in Trades \ {t} : (Holds(u)' <=> Holds(u)) /\ (Commits(u)' <=> Commits(u))
  BY <1>3, <1>4 DEF Holds, Commits
<1>6. CASE Find(k)
  <2>1. /\ UNCHANGED <<account, row, releases>> /\ k.pc = "find"
        /\ \/ task' = task \ {k}
           \/ task' = (task \ {k}) \cup {[k EXCEPT !.pc = "mark"]}
    BY <1>6 DEF Find
  <2>2. Releasing(t)' <=> Releasing(t)
    BY <1>2, <1>3, <2>1 DEF Releasing
  <2>3. (Holds(t)' => Holds(t)) /\ (Commits(t)' <=> Commits(t))
    BY <1>3, <2>1, <2>2 DEF Holds, Commits
  <2>4. Undisturbed' => Undisturbed
    BY <1>3, <1>6, CalmBefore DEF Find, IInv
  <2>5. Leaves
    BY <1>3, <1>5, <2>1, <2>3, <2>4 DEF Leaves, Held, Committed
  <2> QED BY <2>5, LeavesKeeps DEF IInv
<1>7. CASE Mark(k)
  <2>1. PICK outcome \in Outcome :
           /\ Counted(outcome)
           /\ Saved(k.trade, Marked(k.event), outcome)
           /\ task' = IF outcome = "answered" /\ Releases(k.event)
                      THEN (task \ {k}) \cup {[k EXCEPT !.pc = "release"]}
                      ELSE task \ {k}
    BY <1>7 DEF Mark
  <2>2. /\ UNCHANGED <<account, releases>>
        /\ row[t] \in OpenStatuses
    BY <1>1, <1>2, <1>7 DEF Mark, TaskAgrees, Expected, OpenStatuses
  <2>3. outcome = "answered" => Commits(t)'
    <3>1. CASE Releases(k.event)
      BY <1>2, <2>1, <3>1 DEF Commits, Releasing
    <3>2. CASE ~Releases(k.event)
      BY <1>1, <2>1, <3>2 DEF Commits, Releases, Saved, Lands, Marked, OpenStatuses, IInv, TypeOK
    <3> QED BY <3>1, <3>2
  <2>4. Commits(t) /\ (Holds(t)' => Holds(t))
    BY <1>3, <2>2 DEF Commits, Holds
  <2>5. Undisturbed' => Undisturbed /\ outcome = "answered"
    BY <1>3, <2>1, CalmBefore DEF IInv
  <2>6. Leaves
    BY <1>3, <1>5, <2>2, <2>3, <2>4, <2>5 DEF Leaves, Held, Committed
  <2> QED BY <2>6, LeavesKeeps DEF IInv
<1>8. CASE Release(k)
  <2>1. PICK outcome \in Outcome : Counted(outcome) /\ ReleaseMargin(t, k.pnl, outcome)
    BY <1>1, <1>8 DEF Release
  <2>2. /\ UNCHANGED row /\ task' = task \ {k} /\ k.pc = "release"
        /\ row[t] \in Final /\ releases[t] = 0 /\ Releases(k.event)
    BY <1>1, <1>2, <1>8 DEF Release, TaskAgrees
  <2>3. call[t] = "done"
    BY <2>2 DEF IInv, TypeOK, CallAgrees, Unsubmitted, Final, Statuses
  <2>4. ~Releasing(t)'
    <3>1. \A l \in task \ {k} : ~(l.pc = "release" /\ l.trade = t)
      BY <1>1, <2>2 DEF IInv, Exclusive, TaskAgrees, Releases
    <3>2. \A c \in Clicks : ~(click[c].pc = "release" /\ click[c].trade = t)
      BY <1>1, <1>2 DEF IInv, ClickAgrees, TaskAgrees, Idle
    <3> QED BY <1>3, <2>2, <3>1, <3>2 DEF Releasing
  <2>5. Holds(t) /\ Commits(t) /\ ~Commits(t)'
    BY <1>1, <1>2, <1>3, <2>2, <2>3, <2>4 DEF Holds, Commits, Releasing, Final, OpenStatuses
  <2>6. Lands(outcome) => ~Holds(t)'
    BY <1>3, <2>1, <2>2, <2>3 DEF Holds, ReleaseMargin, IInv, TypeOK
  <2> QED BY <1>3, <1>5, <2>1, <2>5, <2>6, ReleaseMoney DEF IInv
<1> QED BY <1>6, <1>7, <1>8

LEMMA ResetMoney ==
    ASSUME IInv, TypeOK', LedgerInv, ResetChecks \/ ResetBalance
    PROVE  Money' /\ (reset' = "checked" => resets' > 0)
<1>1. UNCHANGED <<row, order, call, click, task, releases>> /\ resets \in Nat /\ Money
  BY LedgerAssumption DEF ResetChecks, ResetBalance, IInv, TypeOK, LedgerInv, Money, Covered
<1>2. CASE ResetChecks
  <2>1. resets' > 0 /\ UNCHANGED account
    BY <1>1, <1>2 DEF ResetChecks
  <2>2. ~Undisturbed'
    BY <2>1, CalmMeans
  <2>3. Leaves
    BY <1>1, <2>1, <2>2 DEF Leaves, Held, Holds
  <2> QED BY <1>1, <2>1, <2>3, LeavesKeeps DEF IInv
<1>3. CASE ResetBalance
  <2>1. resets' > 0 /\ reset' = "idle"
    BY <1>3 DEF ResetBalance, LedgerInv
  <2>2. ~Undisturbed'
    BY <2>1, CalmMeans
  <2>3. account' = account \/ account' = NewAccount(account.initial)
    BY <1>3 DEF ResetBalance
  <2>4. FiguresAddUp'
    BY <1>1, <2>3 DEF Money, NeverOvercommitted, FiguresAddUp, NewAccount, IInv, TypeOK
  <2> QED BY <2>1, <2>2, <2>4 DEF Money, Covered, ReservedIsExplained, NeverOvercommitted
<1> QED BY <1>2, <1>3

LEMMA CrashMoney ==
    ASSUME IInv, TypeOK', Money, Crash
    PROVE  Money'
<1>1. /\ UNCHANGED <<account, releases, resets>>
      /\ crashes' > 0
      /\ \A t \in Trades : call'[t] \in {"new", "done"}
      /\ \A t \in Trades : order[t] = "NONE" => order'[t] = "NONE"
  BY LedgerAssumption DEF Crash, Reloaded, IInv, TypeOK
<1>2. ~Undisturbed'
  BY <1>1, CalmMeans
<1>3. \A t \in Trades : Holds(t)' => Holds(t)
  BY <1>1 DEF Holds
<1>4. Leaves
  BY <1>1, <1>2, <1>3 DEF Leaves, Held
<1> QED BY <1>4, LeavesKeeps DEF IInv

(* What a task will give back is a result the trade may end with. *)
LEMMA TasksKnowResults ==
    ASSUME IInv, \A k \in task : k.pnl \in Results \cup {0}, Next
    PROVE  \A k \in task' : k.pnl \in Results \cup {0}
<1>1. ASSUME NEW k \in task, Find(k) \/ Mark(k) \/ Release(k)
      PROVE  \A l \in task' : l.pnl \in Results \cup {0}
  <2>1. \A pc : [k EXCEPT !.pc = pc].pnl = k.pnl
    BY DEF IInv, TypeOK, Task
  <2>2. \/ task' = task \ {k}
        \/ \E pc \in {"mark", "release"} : task' = (task \ {k}) \cup {[k EXCEPT !.pc = pc]}
    BY <1>1 DEF Find, Mark, Release
  <2>3. ASSUME NEW pc, task' = (task \ {k}) \cup {[k EXCEPT !.pc = pc]}
        PROVE  \A l \in task' : l.pnl \in Results \cup {0}
    BY <2>1, <2>3
  <2> QED BY <2>2, <2>3
<1>2. ASSUME NEW t \in Trades, PipelineStep(t)
      PROVE  \A l \in task' : l.pnl \in Results \cup {0}
  BY <1>2 DEF PipelineStep, Works, Submitted, FailsForGood, Ends, Expires, Publish
<1>3. CASE task' \subseteq task
  BY <1>3
<1> QED BY <1>1, <1>2, <1>3 DEF Next, TaskStep, CallStep, ClickStep, Reserve, Submit, Refused,
     SubmitThrows, RollBack, Own, CancelTrade, CancelInQueue, CancelSaved, CancelMarked,
     CancelReleased, ResetChecks, ResetBalance, Crash

LEMMA LedgerNext ==
    ASSUME IInv, LedgerInv, Next
    PROVE  LedgerInv'
<1>1. IInv' /\ TypeOK' /\ Money
  BY NextKeeps DEF IInv, LedgerInv, Money, Covered
<1>2. \A k \in task' : k.pnl \in Results \cup {0}
  BY TasksKnowResults DEF LedgerInv
<1>3. ASSUME NEW c \in Clicks, NEW t \in Trades, CancelTrade(c, t) PROVE Money'
  <2>1. /\ UNCHANGED <<account, row, order, call, task, releases, crashes, failures, resets>>
        /\ \A d \in Clicks : ~(click[d].pc = "release") => ~(click'[d].pc = "release")
        /\ \A d \in Clicks : click[d].pc = "release" => click'[d] = click[d]
    BY <1>3 DEF CancelTrade, IInv, TypeOK, Idle
  <2>2. \A u \in Trades : Releasing(u)' <=> Releasing(u)
    BY <2>1 DEF Releasing
  <2>3. Leaves
    BY <2>1, <2>2 DEF Leaves, Held, Holds, Committed, Commits, Undisturbed
  <2> QED BY <1>1, <2>3, LeavesKeeps DEF IInv
<1>4. CASE ResetChecks \/ ResetBalance
  BY <1>1, <1>2, <1>4, ResetMoney DEF LedgerInv, Money, Covered
<1>5. ASSUME Money', reset' \in {reset, "idle"}, UNCHANGED resets PROVE LedgerInv'
  BY <1>2, <1>5 DEF LedgerInv, Money, Covered
<1>6. CASE Crash
  BY <1>1, <1>5, <1>6, CrashMoney DEF Crash
<1>7. ASSUME NEW c \in Clicks, ClickStep(c) PROVE LedgerInv'
  BY <1>1, <1>5, <1>7, ClickMoney
     DEF ClickStep, CancelInQueue, CancelSaved, CancelMarked, CancelReleased
<1>8. ASSUME NEW t \in Trades, Reserve(t) \/ CallStep(t) PROVE LedgerInv'
  BY <1>1, <1>5, <1>8, ReserveMoney, CallMoney
     DEF Reserve, CallStep, Submit, Refused, SubmitThrows, RollBack, Own
<1>9. ASSUME NEW t \in Trades, PipelineStep(t) PROVE LedgerInv'
  BY <1>1, <1>5, <1>9, PipelineMoney
     DEF PipelineStep, Works, Submitted, FailsForGood, Ends, Expires, Pipeline
<1>10. ASSUME NEW k \in task, Find(k) \/ Mark(k) \/ Release(k) PROVE LedgerInv'
  BY <1>1, <1>5, <1>10, TaskMoney DEF Find, Mark, Release, LedgerInv
<1>11. ASSUME NEW c \in Clicks, NEW t \in Trades, CancelTrade(c, t) PROVE LedgerInv'
  BY <1>3, <1>5, <1>11 DEF CancelTrade
<1> QED BY <1>4, <1>6, <1>7, <1>8, <1>9, <1>10, <1>11 DEF Next, TaskStep

LEMMA LedgerInit ==
    ASSUME Init
    PROVE  LedgerInv
<1>1. Held = {} /\ Committed = {}
  BY DEF Init, Held, Holds, Committed, Commits, Releasing, OpenStatuses, Idle
<1>2. Rupees({}) = {}
  BY DEF Rupees
<1>3. Total(Held) = 0 /\ Total(Committed) = 0
  BY <1>1, <1>2, FS_EmptySet DEF Total
<1> QED BY <1>3, LedgerAssumption
     DEF Init, NewAccount, LedgerInv, ReservedIsExplained, NeverOvercommitted, FiguresAddUp

(* The second invariant, on top of the first: through failures and crashes the
   margin reserved covers that of the trades it was not given back for. *)
THEOREM LedgerInductive == Spec => []LedgerInv
<1>1. Init => LedgerInv
  BY LedgerInit
<1>2. IInv /\ LedgerInv /\ [Next]_vars => LedgerInv'
  <2>1. ASSUME LedgerInv, UNCHANGED vars PROVE LedgerInv'
    BY <2>1 DEF vars, LedgerInv, Held, Holds, Committed, Commits, Releasing, ReservedIsExplained,
       Undisturbed, NeverOvercommitted, FiguresAddUp, LossesWithinMargin, Total, Rupees
  <2> QED BY <2>1, LedgerNext
<1> QED BY <1>1, <1>2, Inductive, PTL DEF Spec

(* The account's reserved margin covers its open rows whatever fails, is that of
   the open rows and of what is under way where nothing failed, and the figures
   add up; an account whose trades lose no more than their margin is never
   overdrawn. *)
THEOREM MarginAddsUp == Spec => []ReservedAddsUp
<1>1. IInv /\ LedgerInv => ReservedAddsUp
  <2> SUFFICES ASSUME IInv, LedgerInv PROVE ReservedAddsUp
    OBVIOUS
  <2>1. OpenRows \in SUBSET Held
    BY DEF IInv, RowAgrees, ReleaseAgrees, Unsubmitted, OpenRows, Held, Holds, Final,
       OpenStatuses
  <2>2. Total(OpenRows) <= Total(Held) /\ Total(Held) \in Nat /\ Total(OpenRows) \in Nat
    BY <2>1, HeldTyped, TotalGrows, RupeesFinite DEF OpenRows
  <2>3. ReservedCoversRows
    BY <2>2 DEF LedgerInv, ReservedCoversRows, IInv, TypeOK
  <2> QED BY <2>3 DEF LedgerInv, ReservedAddsUp
<1> QED BY <1>1, Inductive, LedgerInductive, PTL
=============================================================================
