-------------------------- MODULE OrderQueueProofs --------------------------
(* Proofs about OrderQueue, for all keys, calls, instruments and bounds. *)
EXTENDS OrderQueue, TLAPS

-----------------------------------------------------------------------------
(* A row or an item in another state, or counted once more, is one still. *)
LEMMA ItemOps ==
    ASSUME NEW it \in Item, NEW s \in ItemState
    PROVE  WithState(it, s) \in Item /\ Retried(it) \in Item
<1>1. WithState(it, s) \in Item
  BY DEF WithState, Item
<1>2. Retried(it) \in Item
  <2>1. it.attempts + 1 \in Nat /\ "RETRYING" \in ItemState
    BY DEF Item, ItemState, Pending
  <2> QED BY <2>1 DEF Retried, Item
<1> QED BY <1>1, <1>2

LEMMA AbsentIsItem == Absent \in Item
BY DEF Absent, Item

-----------------------------------------------------------------------------
(* How a save ends: the row is the item or what it was, no death is counted. *)
LEMMA SaveEffect ==
    ASSUME TypeOK, NEW k \in Keys, NEW it \in Item,
           Saved(k, it) \/ SaveThrows(k, it)
    PROVE  /\ \E row \in Item :
                 row \in {store[k], it} /\ store' = [store EXCEPT ![k] = row]
           /\ used' \in [crash : Nat, stop : Nat, save : Nat, cancel : Nat, expiry : Nat]
           /\ used'.crash = used.crash
<1>1. /\ store \in [Keys -> Item] /\ store[k] \in Item
      /\ used \in [crash : Nat, stop : Nat, save : Nat, cancel : Nat, expiry : Nat]
  BY DEF TypeOK
<1>2. CASE Saved(k, it)
  BY <1>1, <1>2 DEF Saved
<1>3. CASE SaveThrows(k, it)
  <2>1. used.save + 1 \in Nat /\ used' = [used EXCEPT !.save = used.save + 1]
    BY <1>1, <1>3 DEF SaveThrows
  <2>2. /\ used' \in [crash : Nat, stop : Nat, save : Nat, cancel : Nat, expiry : Nat]
        /\ used'.crash = used.crash
    BY <1>1, <2>1
  <2>3. store = [store EXCEPT ![k] = store[k]]
    BY <1>1
  <2>4. CASE store' = [store EXCEPT ![k] = it]
    BY <2>2, <2>4
  <2>5. CASE UNCHANGED store
    BY <1>1, <2>2, <2>3, <2>5
  <2> QED BY <1>3, <2>4, <2>5 DEF SaveThrows
<1> QED BY <1>2, <1>3

-----------------------------------------------------------------------------
(* What a step of the worker on the item of k does: at most the item and the
   row of k change, and the worker ends idle or at a place that fits them. *)
WorkerEffect(k, it, row) ==
    /\ phase # "down" /\ chainOk
    /\ worker.pc = "idle" \/ worker.key = k
    /\ Present(k) /\ \A c \in Calls : call[c] = "saving" => KeyOf[c] # k
    /\ UNCHANGED <<OutsideWorker, made>>
    /\ used' \in [crash : Nat, stop : Nat, save : Nat, cancel : Nat, expiry : Nat]
    /\ used'.crash = used.crash
    /\ item' = [item EXCEPT ![k] = it]
    /\ it.by = item[k].by /\ it.state # "NONE"
    /\ item[k].state \in {"CANCELLED", "EXPIRED"} => it.state = item[k].state
    /\ it.state \in {"SUBMITTED", "COMPLETED"} <=>
          item[k].state \in {"SUBMITTED", "COMPLETED"}
    /\ item[k].state = "SUBMITTED" /\ it.state # "SUBMITTED" => row = item[k]
    /\ store' = [store EXCEPT ![k] = row]
    /\ row \in {store[k], item[k]}
    /\ locks' \in [Instruments -> Keys \cup {NoKey}]
    /\ chain' \in Seq(Keys) /\ \A j \in Keys : InChain(j)' => InChain(j)
    /\ chainOk' \in BOOLEAN
    /\ \/ worker' = Idle /\ (chainOk' => it.state \notin InFlight)
       \/ /\ worker' \in [pc : WorkerPc \ {"idle"}, key : {k}]
          /\ chainOk'
          /\ it.state = StateAt[worker'.pc]
          /\ worker'.pc = "building" => row.state = "PROCESSING" /\ row.by = it.by

LEMMA WorkerEffectKeeps ==
    ASSUME IInv, NEW k \in Keys, NEW it \in Item, NEW row \in Item,
           WorkerEffect(k, it, row)
    PROVE  IInv'
<1> USE DEF WorkerEffect
<1>t. /\ item \in [Keys -> Item] /\ store \in [Keys -> Item]
      /\ worker \in {Idle} \cup [pc : WorkerPc \ {"idle"}, key : Keys]
      /\ call \in [Calls -> Outcomes \cup {"ready", "validating", "saving"}]
      /\ used.crash \in Nat /\ made \in [Calls -> Nat]
  BY DEF IInv, TypeOK
<1>i. /\ item'[k] = it /\ \A j \in Keys : j # k => item'[j] = item[j]
      /\ store'[k] = row /\ \A j \in Keys : j # k => store'[j] = store[j]
  BY <1>t
<1>o. call' = call /\ phase' = phase /\ ending' = ending /\ todo' = todo
      /\ reload' = reload /\ made' = made /\ killSwitch' = killSwitch
  BY DEF OutsideWorker
<1>1. TypeOK'
  <2>1. item' \in [Keys -> Item] /\ store' \in [Keys -> Item]
    BY <1>t
  <2>2. worker' \in {Idle} \cup [pc : WorkerPc \ {"idle"}, key : Keys]
    BY DEF Idle, WorkerPc
  <2> QED BY <1>o, <2>1, <2>2 DEF IInv, TypeOK
<1>2. OwnedByKey'
  BY <1>i DEF IInv, OwnedByKey, Present
<1>3. ItemNotMade'
  BY <1>i, <1>o DEF IInv, ItemNotMade, Present
<1>4. RowNotMade'
  <2> SUFFICES ASSUME NEW j \in Keys, (store[j].state)' \in Pending \ {"SUBMITTED"}
               PROVE  \/ made[store'[j].by] <= used.crash
                      \/ /\ store'[j].state = "PROCESSING"
                         /\ item'[j].state = "SUBMITTED"
                         /\ item'[j].by = store'[j].by
    BY <1>o DEF RowNotMade
  <2>1. CASE j # k
    BY <1>i, <2>1 DEF IInv, RowNotMade
  <2>2. CASE j = k /\ row = item[k]
    <3>1. item[k].state \notin {"NONE", "SUBMITTED", "COMPLETED"}
      BY <1>i, <2>2 DEF Pending
    <3> QED BY <1>i, <2>2, <3>1 DEF IInv, ItemNotMade
  <2>3. CASE j = k /\ row = store[k] /\ row # item[k]
    BY <1>i, <2>3 DEF IInv, RowNotMade
  <2> QED BY <2>1, <2>2, <2>3
<1>5. ItemHasTrade'
  BY <1>i, <1>o DEF IInv, ItemHasTrade
<1>6. SubmittedRowHasTrade'
  BY <1>i, <1>o DEF IInv, SubmittedRowHasTrade, ItemHasTrade
<1>7. OncePerProcess'
  BY <1>o DEF IInv, OncePerProcess
<1>8. WorkerAtItem'
  BY <1>i DEF IInv, WorkerAtItem, Idle
<1>9. InFlightIsWorked'
  <2> SUFFICES ASSUME chainOk', NEW j \in Keys, (item[j].state)' \in InFlight
               PROVE  worker'.pc # "idle" /\ worker'.key = j
    BY DEF InFlightIsWorked
  <2>1. j = k
    BY <1>i DEF IInv, InFlightIsWorked
  <2> QED BY <1>i, <2>1
<1>10. CallsOwnNothingYet'
  BY <1>i, <1>o DEF IInv, CallsOwnNothingYet
<1>11. SavingIsQueued'
  BY <1>i, <1>o, OrderQueueAssumption DEF IInv, SavingIsQueued
<1>12. ChainedIsPresent'
  BY <1>i DEF IInv, ChainedIsPresent, Present
<1>13. EndingIsOver'
  BY <1>i, <1>o, <1>1 DEF IInv, EndingIsOver, TypeOK
<1>14. StartUp'
  BY <1>i, <1>o, <1>1 DEF IInv, StartUp, Present, Open, TypeOK
<1> QED BY <1>1, <1>2, <1>3, <1>4, <1>5, <1>6, <1>7, <1>8, <1>9, <1>10, <1>11, <1>12,
           <1>13, <1>14 DEF IInv

(* Which of the three places an item of the worker is never in *)
LEMMA WorkerItem ==
    ASSUME IInv, worker.pc # "idle"
    PROVE  /\ worker.key \in Keys /\ Present(worker.key)
           /\ item[worker.key] \in Item /\ store[worker.key] \in Item
           /\ item[worker.key].state \notin {"QUEUED", "CANCELLED", "EXPIRED"}
           /\ \A c \in Calls : call[c] = "saving" => KeyOf[c] # worker.key
<1>1. /\ worker.key \in Keys /\ item[worker.key] \in Item /\ store[worker.key] \in Item
      /\ worker.pc \in WorkerPc \ {"idle"}
      /\ item[worker.key].state = StateAt[worker.pc]
  BY DEF IInv, TypeOK, WorkerAtItem, Idle
<1>2. item[worker.key].state \notin {"NONE", "QUEUED", "CANCELLED", "EXPIRED"}
  BY <1>1 DEF StateAt, WorkerPc
<1> QED BY <1>1, <1>2 DEF Present, IInv, SavingIsQueued

(* handleFailure and the start of an attempt, on an item that is not
   COMPLETED, are such steps as far as the item and the worker go. *)
AttemptEffect(k, it) ==
    /\ item' = [item EXCEPT ![k] = it]
    /\ it.by = item[k].by /\ it.state # "NONE"
    /\ item[k].state \in {"SUBMITTED", "COMPLETED", "CANCELLED", "EXPIRED"} =>
          it.state = item[k].state
    /\ it.state \in {"SUBMITTED", "COMPLETED"} => it.state = item[k].state
    /\ chainOk' \in BOOLEAN
    /\ \/ worker' = Idle /\ ~chainOk'
       \/ /\ worker' \in [pc : WorkerPc \ {"idle", "building"}, key : {k}]
          /\ chainOk'
          /\ it.state = StateAt[worker'.pc]

LEMMA HandleFailureEffect ==
    ASSUME TypeOK, chainOk, NEW k \in Keys, Present(k),
           NEW permanent \in BOOLEAN, HandleFailure(k, permanent)
    PROVE  \E it \in Item : AttemptEffect(k, it)
<1>0. item \in [Keys -> Item] /\ item[k] \in Item
  BY DEF TypeOK
<1>1. CASE Reject /\ UNCHANGED item
  BY <1>0, <1>1 DEF AttemptEffect, Reject, Present
<1>2. CASE /\ CanTransition(item[k].state, "FAILED")
           /\ item' = [item EXCEPT ![k] = WithState(item[k], "FAILED")]
           /\ GoTo("saveFailed", k)
           /\ UNCHANGED chainOk
  <2>1. /\ WithState(item[k], "FAILED") \in Item
        /\ WithState(item[k], "FAILED").state = "FAILED"
        /\ WithState(item[k], "FAILED").by = item[k].by
    BY <1>0, ItemOps DEF ItemState, Terminal, WithState, Item
  <2>2. item[k].state \notin {"SUBMITTED", "COMPLETED", "CANCELLED", "EXPIRED"}
    BY <1>2 DEF CanTransition, TransitionTable
  <2> QED BY <1>2, <2>1, <2>2 DEF AttemptEffect, GoTo, WorkerPc, StateAt
<1>3. CASE /\ CanRetry(item[k])
           /\ item' = [item EXCEPT ![k] = Retried(item[k])]
           /\ GoTo("saveRetrying", k)
           /\ UNCHANGED chainOk
  <2>1. /\ Retried(item[k]) \in Item
        /\ Retried(item[k]).state = "RETRYING"
        /\ Retried(item[k]).by = item[k].by
    BY <1>0, ItemOps DEF Retried, Item, ItemState, Pending
  <2>2. item[k].state \notin {"SUBMITTED", "COMPLETED", "CANCELLED", "EXPIRED"}
    BY <1>3 DEF CanRetry, CanTransition, TransitionTable
  <2> QED BY <1>3, <2>1, <2>2 DEF AttemptEffect, GoTo, WorkerPc, StateAt
<1>4. CASE item' = [item EXCEPT ![k].attempts = @ + 1] /\ Reject
  <2> DEFINE it == [item[k] EXCEPT !.attempts = @ + 1]
  <2>1. it \in Item /\ it.state = item[k].state /\ it.by = item[k].by
    BY <1>0 DEF Item
  <2>2. item' = [item EXCEPT ![k] = it]
    BY <1>0, <1>4
  <2> QED BY <1>4, <2>1, <2>2 DEF AttemptEffect, Reject, Present
<1> QED BY <1>1, <1>2, <1>3, <1>4 DEF HandleFailure

LEMMA StartAttemptEffect ==
    ASSUME TypeOK, chainOk, NEW k \in Keys, Present(k), StartAttempt(k)
    PROVE  /\ \E it \in Item : AttemptEffect(k, it)
           /\ locks' \in [Instruments -> Keys \cup {NoKey}]
<1>0. item \in [Keys -> Item] /\ item[k] \in Item
      /\ locks \in [Instruments -> Keys \cup {NoKey}]
  BY DEF TypeOK
<1>1. CASE HandleFailure(k, FALSE) /\ UNCHANGED locks
  BY <1>0, <1>1, HandleFailureEffect
<1>2. CASE /\ locks' = [locks EXCEPT ![InstrumentOf[k]] = k]
           /\ CanTransition(item[k].state, "LOCKED")
           /\ item' = [item EXCEPT ![k] = WithState(item[k], "LOCKED")]
           /\ GoTo("saveLocked", k)
           /\ UNCHANGED chainOk
  <2>1. /\ WithState(item[k], "LOCKED") \in Item
        /\ WithState(item[k], "LOCKED").state = "LOCKED"
        /\ WithState(item[k], "LOCKED").by = item[k].by
    BY <1>0, ItemOps DEF ItemState, Pending, WithState, Item
  <2>2. item[k].state \notin {"SUBMITTED", "COMPLETED", "CANCELLED", "EXPIRED"}
    BY <1>2 DEF CanTransition, TransitionTable
  <2> QED BY <1>0, <1>2, <2>1, <2>2 DEF AttemptEffect, GoTo, WorkerPc, StateAt
<1>3. CASE /\ locks' = [locks EXCEPT ![InstrumentOf[k]] = k]
           /\ Reject
           /\ UNCHANGED item
  BY <1>0, <1>3 DEF AttemptEffect, Reject, Present
<1> QED BY <1>0, <1>1, <1>2, <1>3 DEF StartAttempt

-----------------------------------------------------------------------------
(* The worker's steps *)

(* createTrade is the one step that counts in `made`: the item had none before,
   and a row of the same call can only say PROCESSING. *)
LEMMA CreateTradeKeeps ==
    ASSUME IInv, CreateTrade
    PROVE  IInv'
<1> DEFINE w == worker.key
           c == item[w].by
           it == WithState(item[w], "SUBMITTED")
<1>1. /\ chainOk /\ phase # "down" /\ worker.pc = "building"
      /\ made' = [made EXCEPT ![c] = @ + 1] /\ item' = [item EXCEPT ![w] = it]
      /\ GoTo("saveSubmitted", w)
      /\ UNCHANGED <<store, chain, chainOk, locks, used, OutsideWorker>>
  BY DEF CreateTrade, At
<1>t. /\ TypeOK /\ item \in [Keys -> Item] /\ store \in [Keys -> Item]
      /\ used.crash \in Nat /\ made \in [Calls -> Nat]
  BY DEF IInv, TypeOK
<1>w. /\ w \in Keys /\ Present(w) /\ item[w] \in Item /\ item[w].state = "PROCESSING"
      /\ store[w].state = "PROCESSING" /\ store[w].by = c /\ c \in Calls /\ KeyOf[c] = w
      /\ \A d \in Calls : call[d] = "saving" => KeyOf[d] # w
  BY <1>1, WorkerItem DEF IInv, WorkerAtItem, StateAt, WorkerPc, OwnedByKey
<1>i. /\ it \in Item /\ it.state = "SUBMITTED" /\ it.by = c
      /\ item'[w] = it /\ \A j \in Keys : j # w => item'[j] = item[j]
  BY <1>1, <1>t, <1>w, ItemOps DEF ItemState, Pending, WithState, Item
<1>m. /\ made[c] <= used.crash /\ made'[c] = made[c] + 1
      /\ \A d \in Calls : d # c => made'[d] = made[d]
      /\ made' \in [Calls -> Nat]
  BY <1>1, <1>t, <1>w DEF IInv, ItemNotMade
<1>u. \A j \in Keys : j # w =>
         /\ Present(j) => item[j].by # c
         /\ store[j].state # "NONE" => store[j].by # c
  BY <1>w DEF IInv, OwnedByKey
<1>o. /\ call' = call /\ phase' = phase /\ ending' = ending /\ todo' = todo
      /\ reload' = reload /\ killSwitch' = killSwitch /\ store' = store
      /\ chain' = chain /\ chainOk' = chainOk /\ locks' = locks /\ used' = used
      /\ worker' = [pc |-> "saveSubmitted", key |-> w]
  BY <1>1 DEF OutsideWorker, GoTo
<1>2. TypeOK'
  <2>1. item' \in [Keys -> Item]
    BY <1>t, <1>i, <1>1
  <2>2. worker' \in {Idle} \cup [pc : WorkerPc \ {"idle"}, key : Keys]
    BY <1>o, <1>w DEF WorkerPc
  <2> QED BY <1>t, <1>o, <1>m, <2>1, <2>2 DEF TypeOK
<1>3. OwnedByKey'
  BY <1>i, <1>o, <1>w DEF IInv, OwnedByKey, Present
<1>4. ItemNotMade'
  BY <1>i, <1>o, <1>m, <1>u, <1>t DEF IInv, ItemNotMade, Present, Item, OwnedByKey
<1>5. RowNotMade'
  <2> SUFFICES ASSUME NEW j \in Keys, store[j].state \in Pending \ {"SUBMITTED"}
               PROVE  \/ made'[store[j].by] <= used.crash
                      \/ /\ store[j].state = "PROCESSING"
                         /\ item'[j].state = "SUBMITTED"
                         /\ item'[j].by = store[j].by
    BY <1>o DEF RowNotMade
  <2>1. CASE j = w
    BY <1>i, <1>w, <2>1
  <2>2. CASE j # w
    <3>1. store[j].by \in Calls /\ store[j].by # c
      BY <1>u, <2>2 DEF IInv, OwnedByKey, Pending
    <3> QED BY <1>i, <1>m, <2>2, <3>1 DEF IInv, RowNotMade
  <2> QED BY <2>1, <2>2
<1>6. ItemHasTrade'
  BY <1>i, <1>o, <1>m, <1>u, <1>w, <1>t DEF IInv, ItemHasTrade, OwnedByKey, Present
<1>7. SubmittedRowHasTrade'
  BY <1>o, <1>m, <1>u, <1>w, <1>t DEF IInv, SubmittedRowHasTrade, OwnedByKey
<1>8. OncePerProcess'
  BY <1>o, <1>m, <1>t DEF IInv, OncePerProcess
<1>9. WorkerAtItem'
  BY <1>1, <1>i, <1>o, <1>w DEF WorkerAtItem, StateAt, WorkerPc
<1>10. InFlightIsWorked'
  BY <1>1, <1>i, <1>o DEF IInv, InFlightIsWorked
<1>11. CallsOwnNothingYet'
  BY <1>i, <1>o, <1>m, <1>w DEF IInv, CallsOwnNothingYet
<1>12. SavingIsQueued'
  BY <1>i, <1>o, <1>w, OrderQueueAssumption DEF IInv, SavingIsQueued, InChain
<1>13. ChainedIsPresent'
  BY <1>i, <1>o DEF IInv, ChainedIsPresent, Present, InChain
<1>14. EndingIsOver'
  BY <1>i, <1>o, <1>w, <1>t DEF IInv, EndingIsOver, TypeOK
<1>15. StartUp'
  BY <1>1, <1>i, <1>o, <1>w, <1>t DEF IInv, StartUp, Present, Open, TypeOK
<1> QED BY <1>2, <1>3, <1>4, <1>5, <1>6, <1>7, <1>8, <1>9, <1>10, <1>11, <1>12, <1>13,
           <1>14, <1>15 DEF IInv

LEMMA WorkerStepKeeps ==
    ASSUME IInv, WorkerStep
    PROVE  IInv'
<1> DEFINE w == worker.key
<1>t. /\ TypeOK /\ item \in [Keys -> Item] /\ store \in [Keys -> Item]
      /\ chain \in Seq(Keys) /\ locks \in [Instruments -> Keys \cup {NoKey}]
      /\ used \in [crash : Nat, stop : Nat, save : Nat, cancel : Nat, expiry : Nat]
      /\ worker \in {Idle} \cup [pc : WorkerPc \ {"idle"}, key : Keys]
      /\ made \in [Calls -> Nat] /\ chainOk \in BOOLEAN
  BY DEF IInv, TypeOK
<1>r. ASSUME NEW k \in Keys
      PROVE  Released(k) \in [Instruments -> Keys \cup {NoKey}]
  BY <1>t DEF Released
<1>w. worker.pc # "idle" =>
         /\ w \in Keys /\ Present(w) /\ item[w] \in Item /\ store[w] \in Item
         /\ item[w].state = StateAt[worker.pc]
         /\ item[w].state \notin {"NONE", "QUEUED", "CANCELLED", "EXPIRED"}
         /\ item = [item EXCEPT ![w] = item[w]]
         /\ store = [store EXCEPT ![w] = store[w]]
         /\ \A c \in Calls : call[c] = "saving" => KeyOf[c] # w
  BY <1>t, WorkerItem DEF IInv, WorkerAtItem, Present
<1>c. UNCHANGED chain => chain' \in Seq(Keys) /\ \A j \in Keys : InChain(j)' => InChain(j)
  BY <1>t DEF InChain
<1>1. CASE Dequeue
  <2> DEFINE k == Head(chain)
  <2>1. /\ chainOk /\ phase # "down" /\ worker.pc = "idle" /\ worker = Idle
        /\ chain # <<>> /\ chain' = Tail(chain)
        /\ UNCHANGED <<store, made, used, OutsideWorker>>
    BY <1>1, <1>t DEF Dequeue, At, Idle
  <2>2. /\ k \in Keys /\ InChain(k) /\ chain' \in Seq(Keys)
        /\ \A j \in Keys : InChain(j)' => InChain(j)
    BY <1>t, <2>1 DEF InChain
  <2>3. /\ Present(k) /\ \A c \in Calls : call[c] = "saving" => KeyOf[c] # k
        /\ item[k] \in Item /\ store[k] \in Item
        /\ store = [store EXCEPT ![k] = store[k]]
        /\ item = [item EXCEPT ![k] = item[k]]
    BY <1>t, <2>2 DEF IInv, ChainedIsPresent, SavingIsQueued
  <2>4. CASE StartAttempt(k)
    <3>1. locks' \in [Instruments -> Keys \cup {NoKey}]
      BY <1>t, <2>1, <2>2, <2>3, <2>4, StartAttemptEffect
    <3>2. PICK it \in Item : AttemptEffect(k, it)
      BY <1>t, <2>1, <2>2, <2>3, <2>4, StartAttemptEffect
    <3>3. WorkerEffect(k, it, store[k])
      BY <1>t, <2>1, <2>2, <2>3, <3>1, <3>2 DEF WorkerEffect, AttemptEffect
    <3> QED BY <2>2, <2>3, <3>2, <3>3, WorkerEffectKeeps
  <2>5. CASE UNCHANGED <<item, locks, worker, chainOk>>
    <3>1. item[k].state \notin InFlight
      BY <2>1, <2>2 DEF IInv, InFlightIsWorked
    <3>2. WorkerEffect(k, item[k], store[k])
      BY <1>t, <2>1, <2>2, <2>3, <2>5, <3>1 DEF WorkerEffect, Present, InFlight, Pending
    <3> QED BY <2>2, <2>3, <3>2, WorkerEffectKeeps
  <2> QED BY <1>1, <2>4, <2>5 DEF Dequeue
<1>2. CASE Retry
  <2>1. /\ chainOk /\ phase # "down" /\ worker.pc = "backoff"
        /\ StartAttempt(w) /\ UNCHANGED <<store, chain, made, used, OutsideWorker>>
    BY <1>2 DEF Retry, At
  <2>2. locks' \in [Instruments -> Keys \cup {NoKey}]
    BY <1>t, <1>w, <2>1, StartAttemptEffect
  <2>3. PICK it \in Item : AttemptEffect(w, it)
    BY <1>t, <1>w, <2>1, StartAttemptEffect
  <2>4. WorkerEffect(w, it, store[w])
    BY <1>t, <1>w, <1>c, <2>1, <2>2, <2>3 DEF WorkerEffect, AttemptEffect, StateAt, WorkerPc
  <2> QED BY <1>w, <2>1, <2>3, <2>4, WorkerEffectKeeps
(* A save that ends well, or badly, somewhere in the attempt *)
<1>s. ASSUME worker.pc # "idle", Saved(w, item[w]) \/ SaveThrows(w, item[w])
      PROVE  /\ \E row \in Item :
                   row \in {store[w], item[w]} /\ store' = [store EXCEPT ![w] = row]
             /\ used' \in [crash : Nat, stop : Nat, save : Nat, cancel : Nat, expiry : Nat]
             /\ used'.crash = used.crash
  BY <1>t, <1>w, <1>s, SaveEffect
<1>3. CASE LockedSaved
  <2> DEFINE it == WithState(item[w], "PROCESSING")
  <2>1. /\ chainOk /\ phase # "down" /\ worker.pc = "saveLocked"
        /\ store' = [store EXCEPT ![w] = item[w]] /\ UNCHANGED used
        /\ item' = [item EXCEPT ![w] = it] /\ GoTo("saveProcessing", w)
        /\ UNCHANGED <<chain, chainOk, locks, made, OutsideWorker>>
    BY <1>3 DEF LockedSaved, At, Saved
  <2>2. it \in Item /\ it.state = "PROCESSING" /\ it.by = item[w].by /\ item[w].state = "LOCKED"
    BY <1>w, <2>1, ItemOps DEF WithState, Item, ItemState, Pending, StateAt, WorkerPc
  <2>3. WorkerEffect(w, it, item[w])
    BY <1>t, <1>w, <1>c, <2>1, <2>2 DEF WorkerEffect, GoTo, StateAt, WorkerPc
  <2> QED BY <1>w, <2>1, <2>2, <2>3, WorkerEffectKeeps
<1>4. CASE ProcessingSaved
  <2>1. /\ chainOk /\ phase # "down" /\ worker.pc = "saveProcessing"
        /\ store' = [store EXCEPT ![w] = item[w]] /\ UNCHANGED used
        /\ GoTo("building", w)
        /\ UNCHANGED <<item, chain, chainOk, locks, made, OutsideWorker>>
    BY <1>4 DEF ProcessingSaved, At, Saved
  <2>2. item[w].state = "PROCESSING"
    BY <1>w, <2>1 DEF StateAt, WorkerPc
  <2>3. WorkerEffect(w, item[w], item[w])
    BY <1>t, <1>w, <1>c, <2>1, <2>2 DEF WorkerEffect, GoTo, StateAt, WorkerPc
  <2> QED BY <1>w, <2>1, <2>3, WorkerEffectKeeps
<1>5. CASE EarlySaveThrows \/ FailureSaveThrows
  <2>1. /\ chainOk /\ phase # "down"
        /\ worker.pc \in {"saveLocked", "saveProcessing", "saveRetrying", "saveFailed"}
        /\ SaveThrows(w, item[w]) /\ Reject
        /\ UNCHANGED <<item, chain, locks, made, OutsideWorker>>
    BY <1>5 DEF EarlySaveThrows, FailureSaveThrows, At
  <2>2. /\ used' \in [crash : Nat, stop : Nat, save : Nat, cancel : Nat, expiry : Nat]
        /\ used'.crash = used.crash
    BY <1>s, <2>1
  <2>3. PICK row \in Item : row \in {store[w], item[w]} /\ store' = [store EXCEPT ![w] = row]
    BY <1>s, <2>1
  <2>4. WorkerEffect(w, item[w], row)
    BY <1>t, <1>w, <1>c, <2>1, <2>2, <2>3 DEF WorkerEffect, Reject
  <2> QED BY <1>w, <2>1, <2>3, <2>4, WorkerEffectKeeps
<1>7. CASE AttemptFails
  <2>1. /\ chainOk /\ phase # "down" /\ worker.pc = "building"
        /\ locks' = Released(w) /\ \E permanent \in BOOLEAN : HandleFailure(w, permanent)
        /\ UNCHANGED <<store, chain, made, used, OutsideWorker>>
    BY <1>7 DEF AttemptFails, At
  <2>2. PICK it \in Item : AttemptEffect(w, it)
    BY <1>t, <1>w, <2>1, HandleFailureEffect
  <2>3. locks' \in [Instruments -> Keys \cup {NoKey}]
    BY <1>r, <1>w, <2>1
  <2>4. WorkerEffect(w, it, store[w])
    BY <1>t, <1>w, <1>c, <2>1, <2>2, <2>3 DEF WorkerEffect, AttemptEffect, StateAt, WorkerPc
  <2> QED BY <1>w, <2>1, <2>2, <2>4, WorkerEffectKeeps
<1>8. CASE SubmittedSaved
  <2> DEFINE it == WithState(item[w], "COMPLETED")
  <2>1. /\ chainOk /\ phase # "down" /\ worker.pc = "saveSubmitted"
        /\ store' = [store EXCEPT ![w] = item[w]] /\ UNCHANGED used
        /\ item' = [item EXCEPT ![w] = it] /\ GoTo("saveCompleted", w)
        /\ UNCHANGED <<chain, chainOk, locks, made, OutsideWorker>>
    BY <1>8 DEF SubmittedSaved, At, Saved
  <2>2. it \in Item /\ it.state = "COMPLETED" /\ it.by = item[w].by /\ item[w].state = "SUBMITTED"
    BY <1>w, <2>1, ItemOps DEF WithState, Item, ItemState, Terminal, StateAt, WorkerPc
  <2>3. WorkerEffect(w, it, item[w])
    BY <1>t, <1>w, <1>c, <2>1, <2>2 DEF WorkerEffect, GoTo, StateAt, WorkerPc
  <2> QED BY <1>w, <2>1, <2>2, <2>3, WorkerEffectKeeps
<1>9. CASE CompletedSaved
  <2>1. /\ chainOk /\ phase # "down" /\ worker.pc = "saveCompleted"
        /\ store' = [store EXCEPT ![w] = item[w]] /\ UNCHANGED used
        /\ locks' = Released(w) /\ worker' = Idle
        /\ UNCHANGED <<item, chain, chainOk, made, OutsideWorker>>
    BY <1>9 DEF CompletedSaved, At, Saved
  <2>2. item[w].state = "COMPLETED" /\ "COMPLETED" \notin InFlight
    BY <1>w, <2>1 DEF StateAt, WorkerPc, InFlight, Pending
  <2>3. locks' \in [Instruments -> Keys \cup {NoKey}]
    BY <1>r, <1>w, <2>1
  <2>4. WorkerEffect(w, item[w], item[w])
    BY <1>t, <1>w, <1>c, <2>1, <2>2, <2>3 DEF WorkerEffect
  <2> QED BY <1>w, <2>1, <2>4, WorkerEffectKeeps
<1>10. CASE LateSaveThrows
  <2>1. /\ chainOk /\ phase # "down"
        /\ worker.pc \in {"saveSubmitted", "saveCompleted"}
        /\ SaveThrows(w, item[w]) /\ locks' = Released(w) /\ HandleFailure(w, FALSE)
        /\ UNCHANGED <<chain, made, OutsideWorker>>
    BY <1>10 DEF LateSaveThrows, At
  <2>2. PICK it \in Item : AttemptEffect(w, it)
    BY <1>t, <1>w, <2>1, HandleFailureEffect
  <2>3. locks' \in [Instruments -> Keys \cup {NoKey}]
    BY <1>r, <1>w, <2>1
  <2>4. /\ used' \in [crash : Nat, stop : Nat, save : Nat, cancel : Nat, expiry : Nat]
        /\ used'.crash = used.crash
    BY <1>s, <2>1
  <2>5. PICK row \in Item : row \in {store[w], item[w]} /\ store' = [store EXCEPT ![w] = row]
    BY <1>s, <2>1
  <2>6. item[w].state \in {"SUBMITTED", "COMPLETED"}
    BY <1>w, <2>1 DEF StateAt, WorkerPc
  <2>7. WorkerEffect(w, it, row)
    BY <1>t, <1>w, <1>c, <2>1, <2>2, <2>3, <2>4, <2>5, <2>6
    DEF WorkerEffect, AttemptEffect, StateAt, WorkerPc
  <2> QED BY <1>w, <2>1, <2>2, <2>5, <2>7, WorkerEffectKeeps
<1>11. CASE RetryingSaved
  <2>1. /\ chainOk /\ phase # "down" /\ worker.pc = "saveRetrying"
        /\ store' = [store EXCEPT ![w] = item[w]] /\ UNCHANGED used
        /\ GoTo("backoff", w)
        /\ UNCHANGED <<item, chain, chainOk, locks, made, OutsideWorker>>
    BY <1>11 DEF RetryingSaved, At, Saved
  <2>2. item[w].state = "RETRYING"
    BY <1>w, <2>1 DEF StateAt, WorkerPc
  <2>3. WorkerEffect(w, item[w], item[w])
    BY <1>t, <1>w, <1>c, <2>1, <2>2 DEF WorkerEffect, GoTo, StateAt, WorkerPc
  <2> QED BY <1>w, <2>1, <2>3, WorkerEffectKeeps
<1>12. CASE FailedSaved
  <2>1. /\ chainOk /\ phase # "down" /\ worker.pc = "saveFailed"
        /\ store' = [store EXCEPT ![w] = item[w]] /\ UNCHANGED used
        /\ worker' = Idle
        /\ UNCHANGED <<item, chain, chainOk, locks, made, OutsideWorker>>
    BY <1>12 DEF FailedSaved, At, Saved
  <2>2. item[w].state = "FAILED" /\ "FAILED" \notin InFlight
    BY <1>w, <2>1 DEF StateAt, WorkerPc, InFlight, Pending
  <2>3. WorkerEffect(w, item[w], item[w])
    BY <1>t, <1>w, <1>c, <2>1, <2>2 DEF WorkerEffect
  <2> QED BY <1>w, <2>1, <2>3, WorkerEffectKeeps
<1> QED
  BY <1>1, <1>2, <1>3, <1>4, <1>5, <1>7, <1>8, <1>9, <1>10, <1>11, <1>12, CreateTradeKeeps
  DEF WorkerStep

-----------------------------------------------------------------------------
(* Saves outside the worker: the row of an item the worker is not at *)

SaveEffectOf(k, row) ==
    /\ phase \in {"up", "stopping"}
    /\ item[k].state \in {"QUEUED", "CANCELLED", "EXPIRED"}
    /\ UNCHANGED <<killSwitch, phase, item, chainOk, worker, locks, todo, reload, made>>
    /\ store' = [store EXCEPT ![k] = row]
    /\ row \in {store[k], item[k]}
    /\ used' \in [crash : Nat, stop : Nat, save : Nat, cancel : Nat, expiry : Nat]
    /\ used'.crash = used.crash
    /\ ending' \subseteq ending
    /\ chain' \in Seq(Keys) /\ \A j \in Keys : InChain(j)' => InChain(j) \/ j = k
    /\ call' \in [Calls -> Outcomes \cup {"ready", "validating", "saving"}]
    /\ \A c \in Calls : \/ call'[c] = call[c]
                        \/ call'[c] \in {"QUEUED", "THROWN"}
    /\ \A c \in Calls : call'[c] = "saving" => call[c] = "saving" /\ KeyOf[c] # k

LEMMA SaveEffectKeeps ==
    ASSUME IInv, NEW k \in Keys, NEW row \in Item, SaveEffectOf(k, row)
    PROVE  IInv'
<1> USE DEF SaveEffectOf
<1>t. /\ store \in [Keys -> Item] /\ item \in [Keys -> Item]
      /\ worker \in {Idle} \cup [pc : WorkerPc \ {"idle"}, key : Keys]
      /\ ending \subseteq Keys
  BY DEF IInv, TypeOK
<1>i. store'[k] = row /\ \A j \in Keys : j # k => store'[j] = store[j]
  BY <1>t
<1>o. /\ item' = item /\ worker' = worker /\ made' = made /\ chainOk' = chainOk
      /\ phase' = phase /\ todo' = todo /\ reload' = reload
  OBVIOUS
<1>1. TypeOK'
  <2>1. store' \in [Keys -> Item]
    BY <1>t
  <2> QED BY <2>1 DEF IInv, TypeOK
<1>2. OwnedByKey'
  BY <1>i, <1>o DEF IInv, OwnedByKey, Present
<1>3. ItemNotMade' /\ ItemHasTrade' /\ OncePerProcess' /\ InFlightIsWorked'
  BY <1>o DEF IInv, ItemNotMade, ItemHasTrade, OncePerProcess, InFlightIsWorked
<1>4. RowNotMade'
  BY <1>i, <1>o DEF IInv, RowNotMade, ItemNotMade
<1>5. SubmittedRowHasTrade'
  BY <1>i, <1>o DEF IInv, SubmittedRowHasTrade
<1>6. WorkerAtItem'
  <2>1. worker.pc # "idle" => worker.key # k
    BY WorkerItem, <1>t DEF IInv, WorkerAtItem, StateAt, WorkerPc, Idle
  <2> QED BY <1>i, <1>o, <1>t, <2>1 DEF IInv, WorkerAtItem, Idle
<1>7. CallsOwnNothingYet'
  BY <1>i, <1>o DEF IInv, CallsOwnNothingYet
<1>8. SavingIsQueued'
  BY <1>o, OrderQueueAssumption DEF IInv, SavingIsQueued
<1>9. ChainedIsPresent' /\ EndingIsOver'
  BY <1>o DEF IInv, ChainedIsPresent, EndingIsOver, Present
<1>10. StartUp'
  BY <1>o DEF IInv, StartUp, Open, Present
<1> QED BY <1>1, <1>2, <1>3, <1>4, <1>5, <1>6, <1>7, <1>8, <1>9, <1>10 DEF IInv

LEMMA SubmitSaveKeeps ==
    ASSUME IInv, NEW c \in Calls, SubmitSaved(c) \/ SubmitSaveThrows(c)
    PROVE  IInv'
<1> DEFINE k == KeyOf[c]
<1>1. /\ call[c] = "saving"
      /\ Saved(k, item[k]) \/ SaveThrows(k, item[k])
      /\ call' = [call EXCEPT ![c] = "QUEUED"] \/ call' = [call EXCEPT ![c] = "THROWN"]
      /\ chain' = chain \/ chain' = Append(chain, k)
      /\ UNCHANGED <<killSwitch, phase, item, chainOk, worker, locks, ending, todo, reload, made>>
  BY DEF SubmitSaved, SubmitSaveThrows, Enqueue
<1>2. /\ TypeOK /\ k \in Keys /\ item[k] \in Item /\ chain \in Seq(Keys)
      /\ call \in [Calls -> Outcomes \cup {"ready", "validating", "saving"}]
  BY OrderQueueAssumption DEF IInv, TypeOK
<1>3. /\ item[k].state = "QUEUED" /\ item[k].by = c
      /\ \A d \in Calls : call[d] = "saving" /\ KeyOf[d] = k => d = c
      /\ phase \in {"up", "stopping"}
  BY <1>1 DEF IInv, SavingIsQueued, StartUp, Open
<1>4. chain' \in Seq(Keys) /\ \A j \in Keys : InChain(j)' => InChain(j) \/ j = k
  BY <1>1, <1>2, SMTT(20) DEF InChain
<1>5. /\ call' \in [Calls -> Outcomes \cup {"ready", "validating", "saving"}]
      /\ call'[c] \in {"QUEUED", "THROWN"} /\ \A d \in Calls : d # c => call'[d] = call[d]
  BY <1>1, <1>2 DEF Outcomes
<1>6. /\ used' \in [crash : Nat, stop : Nat, save : Nat, cancel : Nat, expiry : Nat]
      /\ used'.crash = used.crash
  BY <1>1, <1>2, SaveEffect
<1>7. PICK row \in Item : row \in {store[k], item[k]} /\ store' = [store EXCEPT ![k] = row]
  BY <1>1, <1>2, SaveEffect
<1>8. SaveEffectOf(k, row)
  BY <1>1, <1>3, <1>4, <1>5, <1>6, <1>7 DEF SaveEffectOf
<1> QED BY <1>2, <1>8, SaveEffectKeeps

LEMMA EndStepKeeps ==
    ASSUME IInv, NEW k \in Keys, EndStep(k)
    PROVE  IInv'
<1>1. /\ k \in ending /\ ending' = ending \ {k}
      /\ Saved(k, item[k]) \/ SaveThrows(k, item[k])
      /\ UNCHANGED <<killSwitch, phase, item, chain, chainOk, worker, locks, call, todo,
                     reload, made>>
  BY DEF EndStep, EndSaved, EndSaveThrows
<1>2. /\ TypeOK /\ item[k] \in Item /\ chain \in Seq(Keys)
      /\ call \in [Calls -> Outcomes \cup {"ready", "validating", "saving"}]
  BY DEF IInv, TypeOK
<1>3. /\ item[k].state \in {"CANCELLED", "EXPIRED"} /\ phase \in {"up", "stopping"}
      /\ \A c \in Calls : call[c] = "saving" => KeyOf[c] # k
  BY <1>1 DEF IInv, EndingIsOver, StartUp, SavingIsQueued
<1>4. /\ used' \in [crash : Nat, stop : Nat, save : Nat, cancel : Nat, expiry : Nat]
      /\ used'.crash = used.crash
  BY <1>1, <1>2, SaveEffect
<1>5. PICK row \in Item : row \in {store[k], item[k]} /\ store' = [store EXCEPT ![k] = row]
  BY <1>1, <1>2, SaveEffect
<1>6. SaveEffectOf(k, row)
  BY <1>1, <1>2, <1>3, <1>4, <1>5 DEF SaveEffectOf, InChain
<1> QED BY <1>5, <1>6, SaveEffectKeeps

-----------------------------------------------------------------------------
(* Steps that touch neither the items nor the rows nor the trades *)

LEMMA QuietStepKeeps ==
    ASSUME IInv,
           UNCHANGED <<item, store, chain, chainOk, worker, ending, made>>,
           TypeOK', used'.crash = used.crash,
           \A c \in Calls : call'[c] \in {"ready", "validating", "saving"} =>
              \/ call'[c] = call[c]
              \/ /\ call'[c] = "validating" /\ call[c] = "ready"
                 /\ phase \in {"up", "stopping"} /\ UNCHANGED phase,
           \/ UNCHANGED <<phase, todo>> /\ reload' \in {reload} \cup todo
           \/ phase = "up" /\ phase' = "stopping" /\ UNCHANGED <<todo, reload>>
           \/ phase = "recovering" /\ phase' = "up" /\ todo = {} /\ UNCHANGED <<todo, reload>>
           \/ phase = "down" /\ phase' = "recovering" /\ todo' = Recoverable /\ UNCHANGED reload
    PROVE  IInv'
<1>1. OwnedByKey' /\ ItemNotMade' /\ RowNotMade' /\ ItemHasTrade' /\ SubmittedRowHasTrade'
      /\ OncePerProcess' /\ WorkerAtItem' /\ InFlightIsWorked'
  BY DEF IInv, OwnedByKey, ItemNotMade, RowNotMade, ItemHasTrade, SubmittedRowHasTrade,
         OncePerProcess, WorkerAtItem, InFlightIsWorked, Present
<1>2. CallsOwnNothingYet' /\ SavingIsQueued' /\ ChainedIsPresent' /\ EndingIsOver'
  BY DEF IInv, CallsOwnNothingYet, SavingIsQueued, ChainedIsPresent, EndingIsOver, Present, InChain
<1>3. StartUp'
  BY DEF IInv, StartUp, Open, Present, Recoverable, TypeOK
<1> QED BY <1>1, <1>2, <1>3 DEF IInv

LEMMA QuietActionsKeep ==
    ASSUME IInv
    PROVE  /\ \A c \in Calls : Submit(c) \/ ValidationFails(c) => IInv'
           /\ CleanupLocks \/ Shutdown \/ Restart \/ Listen => IInv'
           /\ \A k \in Keys : ReloadOther(k) => IInv'
           /\ UNCHANGED vars => IInv'
<1>t. TypeOK
  BY DEF IInv
<1>1. ASSUME NEW c \in Calls, Submit(c) \/ ValidationFails(c)
      PROVE  IInv'
  <2>1. /\ call' \in [Calls -> Outcomes \cup {"ready", "validating", "saving"}]
        /\ \A d \in Calls : d # c => call'[d] = call[d]
        /\ \/ call'[c] \in {"REJECTED_KILL_SWITCH", "DUPLICATE", "VALIDATION_FAILED"}
           \/ /\ call'[c] = "validating" /\ call[c] = "ready"
              /\ phase \in {"up", "stopping"}
        /\ UNCHANGED <<killSwitch, phase, item, store, chain, chainOk, worker, locks,
                       ending, todo, reload, made, used>>
    BY <1>t, <1>1 DEF Submit, ValidationFails, Listening, TypeOK, Outcomes
  <2>2. TypeOK'
    BY <1>t, <2>1 DEF TypeOK
  <2> QED BY <2>1, <2>2, QuietStepKeeps
<1>2. ASSUME CleanupLocks
      PROVE  IInv'
  <2>1. TypeOK'
    BY <1>t, <1>2 DEF CleanupLocks, TypeOK
  <2> QED BY <1>2, <2>1, QuietStepKeeps DEF CleanupLocks
<1>3. ASSUME Shutdown
      PROVE  IInv'
  <2>1. used.stop + 1 \in Nat /\ used' = [used EXCEPT !.stop = used.stop + 1]
    BY <1>t, <1>3 DEF Shutdown, TypeOK
  <2>2. /\ used' \in [crash : Nat, stop : Nat, save : Nat, cancel : Nat, expiry : Nat]
        /\ used'.crash = used.crash
    BY <1>t, <2>1 DEF TypeOK
  <2>3. TypeOK'
    BY <1>t, <1>3, <2>2 DEF Shutdown, TypeOK
  <2> QED BY <1>3, <2>2, <2>3, QuietStepKeeps DEF Shutdown
<1>4. ASSUME Restart
      PROVE  IInv'
  <2>1. TypeOK'
    BY <1>t, <1>4, OrderQueueAssumption DEF Restart, Recoverable, TypeOK
  <2> QED BY <1>4, <2>1, QuietStepKeeps DEF Restart
<1>5. ASSUME Listen
      PROVE  IInv'
  <2>1. TypeOK'
    BY <1>t, <1>5 DEF Listen, TypeOK
  <2> QED BY <1>5, <2>1, QuietStepKeeps DEF Listen
<1>6. ASSUME NEW k \in Keys, ReloadOther(k)
      PROVE  IInv'
  <2>1. TypeOK'
    BY <1>t, <1>6 DEF ReloadOther, TypeOK
  <2> QED BY <1>6, <2>1, QuietStepKeeps DEF ReloadOther
<1>7. ASSUME UNCHANGED vars
      PROVE  IInv'
  <2>1. TypeOK'
    BY <1>t, <1>7 DEF vars, TypeOK
  <2> QED BY <1>7, <2>1, QuietStepKeeps DEF vars
<1> QED BY <1>1, <1>2, <1>3, <1>4, <1>5, <1>6, <1>7

-----------------------------------------------------------------------------
(* A new item, an item that is cancelled or expires, and a pruned one: never the
   item the worker is at. *)
LEMMA InsertKeeps ==
    ASSUME IInv, NEW c \in Calls, Insert(c)
    PROVE  IInv'
<1> DEFINE k == KeyOf[c]
           it == [state |-> "QUEUED", attempts |-> 0, by |-> c]
<1>t. /\ TypeOK /\ k \in Keys /\ it \in Item /\ item \in [Keys -> Item]
      /\ call \in [Calls -> Outcomes \cup {"ready", "validating", "saving"}]
      /\ worker \in {Idle} \cup [pc : WorkerPc \ {"idle"}, key : Keys]
      /\ used.crash \in Nat
  BY OrderQueueAssumption DEF IInv, TypeOK, Item, ItemState, Pending
<1>1. /\ call[c] = "validating" /\ phase \in {"up", "stopping"} /\ made[c] = 0
      /\ UNCHANGED <<killSwitch, phase, store, chain, chainOk, worker, locks, ending,
                     todo, reload, made, used>>
  BY DEF Insert, IInv, StartUp, Open, CallsOwnNothingYet
<1>2. CASE call' = [call EXCEPT ![c] = "QUEUE_FULL"] /\ item' = item
  <2>1. TypeOK'
    BY <1>t, <1>1, <1>2 DEF TypeOK, Outcomes
  <2> QED BY <1>1, <1>t, <1>2, <2>1, QuietStepKeeps
<1>3. CASE call' = [call EXCEPT ![c] = "DUPLICATE"] /\ item' = item
  <2>1. TypeOK'
    BY <1>t, <1>1, <1>3 DEF TypeOK, Outcomes
  <2> QED BY <1>1, <1>t, <1>3, <2>1, QuietStepKeeps
<1>4. CASE /\ ~Present(k)
           /\ call' = [call EXCEPT ![c] = "saving"]
           /\ item' = [item EXCEPT ![k] = it]
  <2>1. /\ item'[k] = it /\ \A j \in Keys : j # k => item'[j] = item[j]
        /\ item[k].state = "NONE" /\ ~InChain(k) /\ k \notin ending
        /\ call'[c] = "saving" /\ \A d \in Calls : d # c => call'[d] = call[d]
    BY <1>t, <1>4 DEF Present, IInv, ChainedIsPresent, EndingIsOver
  <2>2. worker.pc # "idle" => worker.key # k
    BY <2>1, WorkerItem DEF Present
  <2>3. TypeOK'
    <3>1. item' \in [Keys -> Item]
      BY <1>t, <1>4
    <3>2. call' \in [Calls -> Outcomes \cup {"ready", "validating", "saving"}]
      BY <1>t, <1>4
    <3> QED BY <1>t, <1>1, <3>1, <3>2 DEF TypeOK
  <2>4. OwnedByKey'
    BY <1>1, <2>1 DEF IInv, OwnedByKey, Present
  <2>5. ItemNotMade' /\ ItemHasTrade'
    BY <1>1, <1>t, <2>1 DEF IInv, ItemNotMade, ItemHasTrade
  <2>6. RowNotMade'
    BY <1>1, <2>1 DEF IInv, RowNotMade
  <2>7. SubmittedRowHasTrade' /\ OncePerProcess'
    BY <1>1 DEF IInv, SubmittedRowHasTrade, OncePerProcess
  <2>8. WorkerAtItem'
    BY <1>1, <1>t, <2>1, <2>2 DEF IInv, WorkerAtItem, Idle
  <2>9. InFlightIsWorked'
    BY <1>1, <2>1 DEF IInv, InFlightIsWorked, InFlight
  <2>10. CallsOwnNothingYet'
    BY <1>1, <2>1 DEF IInv, CallsOwnNothingYet
  <2>11. SavingIsQueued'
    BY <1>1, <2>1, OrderQueueAssumption DEF IInv, SavingIsQueued, InChain
  <2>12. ChainedIsPresent'
    BY <1>1, <2>1 DEF IInv, ChainedIsPresent, Present, InChain
  <2>13. EndingIsOver'
    BY <1>1, <1>t, <2>1 DEF IInv, EndingIsOver, TypeOK
  <2>14. StartUp'
    BY <1>1, <1>t, <2>1 DEF IInv, StartUp, Open, Present, TypeOK
  <2> QED BY <2>3, <2>4, <2>5, <2>6, <2>7, <2>8, <2>9, <2>10, <2>11, <2>12, <2>13,
             <2>14 DEF IInv
<1> QED BY <1>2, <1>3, <1>4 DEF Insert

LEMMA EndQueuedKeeps ==
    ASSUME IInv, NEW k \in Keys, NEW s \in {"CANCELLED", "EXPIRED"}, EndQueued(k, s),
           used' \in [crash : Nat, stop : Nat, save : Nat, cancel : Nat, expiry : Nat],
           used'.crash = used.crash
    PROVE  IInv'
<1> DEFINE it == WithState(item[k], s)
<1>1. /\ phase \in {"up", "stopping"} /\ item[k].state = "QUEUED"
      /\ \A c \in Calls : call[c] = "saving" => KeyOf[c] # k
      /\ item' = [item EXCEPT ![k] = it] /\ ending' = ending \cup {k}
      /\ UNCHANGED <<killSwitch, phase, store, chain, chainOk, worker, locks, call, todo,
                     reload, made>>
  BY DEF EndQueued, CanTransition, TransitionTable, Listening, BeingSubmitted
<1>t. /\ TypeOK /\ item \in [Keys -> Item] /\ item[k] \in Item
      /\ worker \in {Idle} \cup [pc : WorkerPc \ {"idle"}, key : Keys]
  BY DEF IInv, TypeOK
<1>a. it \in Item /\ s \notin InFlight
  BY <1>t, ItemOps DEF ItemState, Terminal, InFlight, Pending
<1>2. /\ it \in Item /\ it.state = s /\ it.by = item[k].by /\ s \notin InFlight
      /\ item'[k] = it /\ \A j \in Keys : j # k => item'[j] = item[j]
  BY <1>1, <1>t, <1>a DEF WithState, Item
<1>3. worker.pc # "idle" => worker.key # k
  BY <1>1, WorkerItem
<1>4. TypeOK'
  <2>1. item' \in [Keys -> Item]
    BY <1>1, <1>t, <1>2
  <2> QED BY <1>1, <1>t, <2>1 DEF TypeOK
<1>5. OwnedByKey' /\ ItemNotMade' /\ ItemHasTrade'
  BY <1>1, <1>2 DEF IInv, OwnedByKey, ItemNotMade, ItemHasTrade, Present
<1>6. RowNotMade' /\ SubmittedRowHasTrade' /\ OncePerProcess'
  BY <1>1, <1>2 DEF IInv, RowNotMade, SubmittedRowHasTrade, OncePerProcess
<1>7. WorkerAtItem'
  BY <1>1, <1>2, <1>3, <1>t DEF IInv, WorkerAtItem, Idle
<1>8. InFlightIsWorked'
  BY <1>1, <1>2 DEF IInv, InFlightIsWorked
<1>9. CallsOwnNothingYet' /\ SavingIsQueued'
  BY <1>1, <1>2, OrderQueueAssumption DEF IInv, CallsOwnNothingYet, SavingIsQueued, InChain
<1>10. ChainedIsPresent' /\ EndingIsOver'
  BY <1>1, <1>2, <1>t DEF IInv, ChainedIsPresent, EndingIsOver, Present, InChain, TypeOK
<1>11. StartUp'
  BY <1>1, <1>2, <1>t DEF IInv, StartUp, Open, Present, TypeOK
<1> QED BY <1>4, <1>5, <1>6, <1>7, <1>8, <1>9, <1>10, <1>11 DEF IInv

LEMMA CancelExpireKeeps ==
    ASSUME IInv, NEW k \in Keys, Cancel(k) \/ Expire(k)
    PROVE  IInv'
<1>1. used \in [crash : Nat, stop : Nat, save : Nat, cancel : Nat, expiry : Nat]
  BY DEF IInv, TypeOK
<1>2. CASE Cancel(k)
  <2>1. used.cancel + 1 \in Nat /\ used' = [used EXCEPT !.cancel = used.cancel + 1]
    BY <1>1, <1>2 DEF Cancel
  <2>2. /\ used' \in [crash : Nat, stop : Nat, save : Nat, cancel : Nat, expiry : Nat]
        /\ used'.crash = used.crash
    BY <1>1, <2>1
  <2> QED BY <1>2, <2>2, EndQueuedKeeps DEF Cancel
<1>3. CASE Expire(k)
  <2>1. used.expiry + 1 \in Nat /\ used' = [used EXCEPT !.expiry = used.expiry + 1]
    BY <1>1, <1>3 DEF Expire
  <2>2. /\ used' \in [crash : Nat, stop : Nat, save : Nat, cancel : Nat, expiry : Nat]
        /\ used'.crash = used.crash
    BY <1>1, <2>1
  <2> QED BY <1>3, <2>2, EndQueuedKeeps DEF Expire
<1> QED BY <1>2, <1>3

LEMMA PruneKeeps ==
    ASSUME IInv, NEW k \in Keys, Prune(k)
    PROVE  IInv'
<1>1. /\ phase \in {"up", "stopping"} /\ item[k].state \in Terminal
      /\ ~InChain(k) /\ worker.key # k /\ k \notin ending
      /\ item' = [item EXCEPT ![k] = Absent]
      /\ UNCHANGED <<killSwitch, phase, store, chain, chainOk, worker, locks, call, ending,
                     todo, reload, made, used>>
  BY DEF Prune, Listening
<1>t. /\ TypeOK /\ item \in [Keys -> Item]
      /\ worker \in {Idle} \cup [pc : WorkerPc \ {"idle"}, key : Keys]
  BY DEF IInv, TypeOK
<1>2. /\ item'[k] = Absent /\ \A j \in Keys : j # k => item'[j] = item[j]
      /\ Absent.state = "NONE" /\ Absent.by = NoCall /\ NoCall \notin Calls
  BY <1>1, <1>t, OrderQueueAssumption DEF Absent
<1>4. TypeOK'
  <2>1. item' \in [Keys -> Item]
    BY <1>1, <1>t, AbsentIsItem
  <2> QED BY <1>1, <1>t, <2>1 DEF TypeOK
<1>5. OwnedByKey' /\ ItemNotMade' /\ ItemHasTrade'
  BY <1>1, <1>2 DEF IInv, OwnedByKey, ItemNotMade, ItemHasTrade, Present
<1>6. RowNotMade' /\ SubmittedRowHasTrade' /\ OncePerProcess'
  BY <1>1, <1>2 DEF IInv, RowNotMade, SubmittedRowHasTrade, OncePerProcess, Terminal
<1>7. WorkerAtItem'
  BY <1>1, <1>2, <1>t DEF IInv, WorkerAtItem, Idle
<1>8. InFlightIsWorked'
  BY <1>1, <1>2 DEF IInv, InFlightIsWorked, InFlight, Pending
<1>9. CallsOwnNothingYet' /\ SavingIsQueued'
  BY <1>1, <1>2, OrderQueueAssumption
  DEF IInv, CallsOwnNothingYet, SavingIsQueued, InChain, Terminal
<1>10. ChainedIsPresent' /\ EndingIsOver'
  BY <1>1, <1>2, <1>t DEF IInv, ChainedIsPresent, EndingIsOver, Present, InChain, TypeOK
<1>11. StartUp'
  BY <1>1, <1>2, <1>t DEF IInv, StartUp, Open, Present, TypeOK
<1> QED BY <1>4, <1>5, <1>6, <1>7, <1>8, <1>9, <1>10, <1>11 DEF IInv

-----------------------------------------------------------------------------
(* The end of a process.  Either it counts as a death, or no item was between
   createTrade and its row. *)
DieEffect ==
    /\ phase' = "down"
    /\ item' = [k \in Keys |-> Absent]
    /\ chain' = <<>> /\ chainOk' = TRUE /\ worker' = Idle
    /\ locks' = [i \in Instruments |-> NoKey]
    /\ call' = [c \in Calls |-> IF Open(c) THEN "LOST" ELSE call[c]]
    /\ ending' = {} /\ todo' = {} /\ reload' = NoKey
    /\ UNCHANGED <<killSwitch, made>>
    /\ used' \in [crash : Nat, stop : Nat, save : Nat, cancel : Nat, expiry : Nat]
    /\ \/ used'.crash = used.crash + 1
       \/ /\ used'.crash = used.crash /\ UNCHANGED store
          /\ \A k \in Keys : item[k].state # "SUBMITTED"
    /\ store' \in [Keys -> Item]
    /\ \A k \in Keys :
          /\ store'[k].by = store[k].by
          /\ store'[k].state = "NONE" <=> store[k].state = "NONE"
          /\ store'[k].state \in {"SUBMITTED", "COMPLETED"} =>
                store[k].state \in {"SUBMITTED", "COMPLETED"}

LEMMA DieEffectKeeps ==
    ASSUME IInv, DieEffect
    PROVE  IInv'
<1> USE DEF DieEffect
<1>t. /\ call \in [Calls -> Outcomes \cup {"ready", "validating", "saving"}]
      /\ made \in [Calls -> Nat] /\ used.crash \in Nat
  BY DEF IInv, TypeOK
<1>1. /\ \A k \in Keys : item'[k].state = "NONE" /\ item'[k].by = NoCall
      /\ NoCall \notin Calls /\ NoKey \notin Keys
  BY OrderQueueAssumption DEF Absent
<1>2. \A c \in Calls : call'[c] \in (Outcomes \cup {"ready"})
  BY <1>t DEF Open, Outcomes
<1>3. TypeOK'
  <2>1. item' \in [Keys -> Item] /\ locks' \in [Instruments -> Keys \cup {NoKey}]
    BY AbsentIsItem
  <2>2. call' \in [Calls -> Outcomes \cup {"ready", "validating", "saving"}]
    BY <1>t DEF Outcomes
  <2> QED BY <2>1, <2>2 DEF IInv, TypeOK
<1>4. OwnedByKey' /\ ItemNotMade' /\ ItemHasTrade'
  BY <1>1 DEF IInv, OwnedByKey, ItemNotMade, ItemHasTrade, Present
<1>5. RowNotMade'
  <2> SUFFICES ASSUME NEW k \in Keys, (store[k].state)' \in Pending \ {"SUBMITTED"}
               PROVE  made[store[k].by] <= used'.crash
    BY DEF RowNotMade
  <2>1. store[k].by \in Calls
    BY DEF IInv, OwnedByKey, Pending
  <2>2. CASE used'.crash = used.crash + 1
    BY <1>t, <2>1, <2>2 DEF IInv, OncePerProcess
  <2>3. CASE UNCHANGED store /\ used'.crash = used.crash /\ item[k].state # "SUBMITTED"
    BY <2>3 DEF IInv, RowNotMade
  <2> QED BY <2>2, <2>3
<1>6. SubmittedRowHasTrade'
  BY DEF IInv, SubmittedRowHasTrade
<1>7. OncePerProcess'
  BY <1>t DEF IInv, OncePerProcess
<1>8. WorkerAtItem' /\ InFlightIsWorked'
  BY <1>1 DEF WorkerAtItem, InFlightIsWorked, Idle, InFlight, Pending
<1>9. CallsOwnNothingYet' /\ SavingIsQueued'
  BY <1>1, <1>2 DEF IInv, CallsOwnNothingYet, SavingIsQueued, Open, Outcomes
<1>10. ChainedIsPresent' /\ EndingIsOver'
  BY DEF ChainedIsPresent, EndingIsOver, InChain
<1>11. StartUp'
  BY <1>1, <1>2 DEF StartUp, Present, Open, Outcomes
<1> QED BY <1>3, <1>4, <1>5, <1>6, <1>7, <1>8, <1>9, <1>10, <1>11 DEF IInv

(* fromSnapshot and markCompleted or resetForRecovery, on a row to reload *)
LEMMA RecoveredRow ==
    ASSUME NEW it \in Item
    PROVE  /\ Recovered(it) \in Item /\ Recovered(it).by = it.by
           /\ \/ Recovered(it).state = "COMPLETED" /\ it.state = "SUBMITTED"
              \/ Recovered(it).state = "QUEUED" /\ it.state # "SUBMITTED"
<1>2. CASE it.state = "SUBMITTED"
  <2>1. Recovered(it) = WithState(it, "COMPLETED") /\ "COMPLETED" \in ItemState
    BY <1>2 DEF Recovered, ItemState, Terminal
  <2>2. /\ WithState(it, "COMPLETED") \in Item /\ WithState(it, "COMPLETED").state = "COMPLETED"
        /\ WithState(it, "COMPLETED").by = it.by
    BY <2>1, ItemOps DEF WithState, Item
  <2> QED BY <1>2, <2>1, <2>2
<1>3. CASE it.state # "SUBMITTED"
  <2>1. Recovered(it) = WithState(it, "QUEUED") /\ "QUEUED" \in ItemState
    BY <1>3 DEF Recovered, ItemState, Pending
  <2>2. /\ WithState(it, "QUEUED") \in Item /\ WithState(it, "QUEUED").state = "QUEUED"
        /\ WithState(it, "QUEUED").by = it.by
    BY <2>1, ItemOps DEF WithState, Item
  <2> QED BY <1>3, <2>1, <2>2
<1> QED BY <1>2, <1>3

LEMMA DieKeeps ==
    ASSUME IInv, Crash \/ UnhandledRejection \/ Exit \/ ReloadSaveThrows
    PROVE  IInv'
<1>t. /\ used \in [crash : Nat, stop : Nat, save : Nat, cancel : Nat, expiry : Nat]
      /\ store \in [Keys -> Item] /\ worker \in {Idle} \cup [pc : WorkerPc \ {"idle"}, key : Keys]
      /\ call \in [Calls -> Outcomes \cup {"ready", "validating", "saving"}]
  BY DEF IInv, TypeOK
<1>u. used.crash + 1 \in Nat /\ used.save + 1 \in Nat
  BY <1>t
<1>1. CASE Crash \/ UnhandledRejection
  <2>1. Die /\ used' = [used EXCEPT !.crash = used.crash + 1]
    BY <1>1 DEF Crash, UnhandledRejection
  <2>2. /\ used' \in [crash : Nat, stop : Nat, save : Nat, cancel : Nat, expiry : Nat]
        /\ used'.crash = used.crash + 1
    BY <1>t, <1>u, <2>1
  <2>3. DieEffect
    BY <1>t, <2>1, <2>2 DEF DieEffect, Die
  <2> QED BY <2>3, DieEffectKeeps
<1>2. CASE Exit
  <2>1. Die /\ UNCHANGED used /\ worker = Idle /\ chainOk
    BY <1>2 DEF Exit, Drained
  <2>2. \A k \in Keys : item[k].state # "SUBMITTED"
    BY <2>1 DEF IInv, InFlightIsWorked, InFlight, Pending, Idle
  <2>3. DieEffect
    BY <1>t, <2>1, <2>2 DEF DieEffect, Die
  <2> QED BY <2>3, DieEffectKeeps
<1>3. CASE ReloadSaveThrows
  <2>1. used' = [used EXCEPT !.save = used.save + 1, !.crash = used.crash + 1]
    BY <1>3 DEF ReloadSaveThrows
  <2>2. /\ used' \in [crash : Nat, stop : Nat, save : Nat, cancel : Nat, expiry : Nat]
        /\ used'.crash = used.crash + 1
    BY <1>t, <1>u, <2>1
  <2>3. /\ reload \in Keys /\ store[reload] \in Item /\ reload \in todo
        /\ store[reload].state \in Pending /\ phase = "recovering"
    BY <1>t, <1>3 DEF ReloadSaveThrows, IInv, StartUp, TypeOK
  <2>4. ending = {} /\ \A c \in Calls : ~Open(c)
    BY <2>3 DEF IInv, StartUp
  <2>5. \/ UNCHANGED store
        \/ store' = [store EXCEPT ![reload] = Recovered(store[reload])]
    BY <1>3 DEF ReloadSaveThrows
  <2>6. /\ store' \in [Keys -> Item]
        /\ \A k \in Keys :
              /\ store'[k].by = store[k].by
              /\ store'[k].state = "NONE" <=> store[k].state = "NONE"
              /\ store'[k].state \in {"SUBMITTED", "COMPLETED"} =>
                    store[k].state \in {"SUBMITTED", "COMPLETED"}
    BY <1>t, <2>3, <2>5, RecoveredRow DEF Pending
  <2>7. call' = [c \in Calls |-> IF Open(c) THEN "LOST" ELSE call[c]]
    BY <1>t, <1>3, <2>4 DEF ReloadSaveThrows
  <2>8. DieEffect
    BY <1>3, <2>2, <2>4, <2>6, <2>7 DEF DieEffect, ReloadSaveThrows
  <2> QED BY <2>8, DieEffectKeeps
<1> QED BY <1>1, <1>2, <1>3

LEMMA ReloadKeeps ==
    ASSUME IInv, (\E k \in Keys : ReloadQueued(k)) \/ ReloadSaved
    PROVE  IInv'
<1>t. /\ TypeOK /\ item \in [Keys -> Item] /\ store \in [Keys -> Item]
      /\ worker \in {Idle} \cup [pc : WorkerPc \ {"idle"}, key : Keys]
      /\ chain \in Seq(Keys) /\ reload \in Keys \cup {NoKey} /\ todo \subseteq Keys
  BY DEF IInv, TypeOK
<1>1. PICK k \in Keys :
         /\ k \in todo /\ todo' = todo \ {k}
         /\ phase = "recovering"
         /\ store[k].state \in Pending /\ item[k].state = "NONE"
         /\ \/ /\ item' = [item EXCEPT ![k] = store[k]] /\ UNCHANGED <<store, reload>>
               /\ store[k].state = "QUEUED" /\ reload = NoKey
               /\ chain' = Append(chain, k)
            \/ /\ item' = [item EXCEPT ![k] = Recovered(store[k])]
               /\ store' = [store EXCEPT ![k] = Recovered(store[k])] /\ reload' = NoKey
               /\ chain' = chain \/ chain' = Append(chain, k)
         /\ UNCHANGED <<killSwitch, phase, chainOk, worker, locks, call, ending, made, used>>
  <2>1. ASSUME NEW k \in Keys, ReloadQueued(k)
        PROVE  /\ k \in todo /\ todo' = todo \ {k} /\ phase = "recovering"
               /\ store[k].state \in Pending /\ item[k].state = "NONE"
    BY <2>1 DEF ReloadQueued, IInv, StartUp, Present
  <2>2. ASSUME ReloadSaved
        PROVE  /\ reload \in Keys /\ reload \in todo /\ todo' = todo \ {reload}
               /\ phase = "recovering"
               /\ store[reload].state \in Pending /\ item[reload].state = "NONE"
    BY <1>t, <2>2 DEF ReloadSaved, IInv, StartUp, Present, TypeOK
  <2> QED BY <2>1, <2>2 DEF ReloadQueued, ReloadSaved, Saved, Enqueue
<1>2. \E it \in Item :
         /\ item' = [item EXCEPT ![k] = it] /\ store' = [store EXCEPT ![k] = it]
         /\ it.by = store[k].by
         /\ \/ it.state = "COMPLETED" /\ store[k].state = "SUBMITTED"
            \/ it.state = "QUEUED" /\ store[k].state # "SUBMITTED"
  <2>1. store[k] \in Item /\ store = [store EXCEPT ![k] = store[k]]
    BY <1>t
  <2> QED BY <1>1, <2>1, RecoveredRow
<1>3. PICK it \in Item :
         /\ item' = [item EXCEPT ![k] = it] /\ store' = [store EXCEPT ![k] = it]
         /\ it.by = store[k].by
         /\ \/ it.state = "COMPLETED" /\ store[k].state = "SUBMITTED"
            \/ it.state = "QUEUED" /\ store[k].state # "SUBMITTED"
  BY <1>2
<1>4. /\ item'[k] = it /\ \A j \in Keys : j # k => item'[j] = item[j]
      /\ store'[k] = it /\ \A j \in Keys : j # k => store'[j] = store[j]
      /\ ending = {} /\ \A c \in Calls : ~Open(c)
      /\ worker.pc # "idle" => worker.key # k
  BY <1>t, <1>1, <1>3, WorkerItem DEF IInv, StartUp, Present
<1>c. chain' \in Seq(Keys) /\ \A j \in Keys : InChain(j)' => InChain(j) \/ j = k
  <2>1. (chain' = chain \/ chain' = Append(chain, k)) /\ chain \in Seq(Keys)
    BY <1>t, <1>1
  <2> QED BY <2>1 DEF InChain
<1>5. TypeOK'
  <2>1. item' \in [Keys -> Item] /\ store' \in [Keys -> Item]
    BY <1>t, <1>3
  <2> QED BY <1>t, <1>1, <1>3, <1>c, <2>1 DEF TypeOK
<1>6. OwnedByKey'
  BY <1>1, <1>3, <1>4 DEF IInv, OwnedByKey, Present, Pending
<1>7. ItemNotMade'
  BY <1>1, <1>3, <1>4 DEF IInv, ItemNotMade, RowNotMade
<1>8. RowNotMade'
  BY <1>1, <1>3, <1>4 DEF IInv, RowNotMade, Pending
<1>9. ItemHasTrade' /\ SubmittedRowHasTrade' /\ OncePerProcess'
  BY <1>1, <1>3, <1>4 DEF IInv, ItemHasTrade, SubmittedRowHasTrade, OncePerProcess
<1>10. WorkerAtItem'
  BY <1>t, <1>1, <1>4 DEF IInv, WorkerAtItem, Idle
<1>11. InFlightIsWorked'
  BY <1>1, <1>3, <1>4 DEF IInv, InFlightIsWorked, InFlight, Pending
<1>12. CallsOwnNothingYet' /\ SavingIsQueued'
  BY <1>1, <1>3, <1>4 DEF IInv, CallsOwnNothingYet, SavingIsQueued, Open
<1>13. ChainedIsPresent' /\ EndingIsOver'
  BY <1>1, <1>3, <1>4, <1>c DEF IInv, ChainedIsPresent, EndingIsOver, Present
<1>14. StartUp'
  BY <1>1, <1>3, <1>4, <1>t DEF IInv, StartUp, Present, Open
<1> QED BY <1>5, <1>6, <1>7, <1>8, <1>9, <1>10, <1>11, <1>12, <1>13, <1>14 DEF IInv

-----------------------------------------------------------------------------
(* The invariant is inductive *)

LEMMA InitIInv == Init => IInv
<1> SUFFICES ASSUME Init PROVE IInv
  OBVIOUS
<1>1. /\ \A k \in Keys : /\ item[k].state = "NONE" /\ item[k].by = NoCall
                         /\ store[k].state = "NONE" /\ store[k].by = NoCall
      /\ NoCall \notin Calls /\ NoKey \notin Keys
  BY OrderQueueAssumption DEF Init, Absent
<1>2. TypeOK
  <2>1. item \in [Keys -> Item] /\ store \in [Keys -> Item]
    BY AbsentIsItem DEF Init
  <2> QED BY <2>1, OrderQueueAssumption DEF Init, TypeOK
<1>3. OwnedByKey /\ ItemNotMade /\ RowNotMade /\ ItemHasTrade /\ SubmittedRowHasTrade
  BY <1>1 DEF OwnedByKey, ItemNotMade, RowNotMade, ItemHasTrade, SubmittedRowHasTrade,
              Present, Pending
<1>4. OncePerProcess /\ WorkerAtItem /\ InFlightIsWorked
  BY <1>1 DEF Init, OncePerProcess, WorkerAtItem, InFlightIsWorked, InFlight, Pending, Idle
<1>5. CallsOwnNothingYet /\ SavingIsQueued /\ ChainedIsPresent /\ EndingIsOver /\ StartUp
  BY <1>1 DEF Init, CallsOwnNothingYet, SavingIsQueued, ChainedIsPresent, EndingIsOver,
              StartUp, InChain, Open
<1> QED BY <1>2, <1>3, <1>4, <1>5 DEF IInv

LEMMA NextKeepsIInv == IInv /\ [Next]_vars => IInv'
<1> SUFFICES ASSUME IInv, [Next]_vars PROVE IInv'
  OBVIOUS
<1>1. ASSUME NEW c \in Calls, CallStep(c) PROVE IInv'
  BY <1>1, QuietActionsKeep, InsertKeeps, SubmitSaveKeeps DEF CallStep
<1>2. ASSUME NEW k \in Keys, Cancel(k) \/ Expire(k) \/ EndStep(k) \/ Prune(k)
      PROVE  IInv'
  BY <1>2, CancelExpireKeeps, EndStepKeeps, PruneKeeps
<1>3. CASE WorkerStep
  BY <1>3, WorkerStepKeeps
<1>4. CASE RecoveryStep
  BY <1>4, QuietActionsKeep, ReloadKeeps, DieKeeps DEF RecoveryStep
<1>5. CASE CleanupLocks \/ Shutdown \/ UNCHANGED vars
  BY <1>5, QuietActionsKeep
<1>6. CASE Crash \/ UnhandledRejection \/ Exit
  BY <1>6, DieKeeps
<1> QED BY <1>1, <1>2, <1>3, <1>4, <1>5, <1>6 DEF Next

THEOREM Inductive == Spec => []IInv
<1>1. Init => IInv
  BY InitIInv
<1>2. IInv /\ [Next]_vars => IInv'
  BY NextKeepsIInv
<1> QED BY <1>1, <1>2, PTL DEF Spec

-----------------------------------------------------------------------------
(* What it implies *)

(* Every variable keeps its type. *)
THEOREM TypeCorrect == Spec => []TypeOK
<1>1. IInv => TypeOK
  BY DEF IInv
<1> QED BY <1>1, Inductive, PTL

(* processingChain is strictly sequential: the one item between its lock and
   its last save is the one in processOnce. *)
THEOREM Sequential == Spec => []StrictlySequential
<1>1. IInv => StrictlySequential
  BY DEF IInv, InFlightIsWorked, StrictlySequential
<1> QED BY <1>1, Inductive, PTL

(* A request becomes a trade at most once for each process that died, and once
   in all when none did. *)
THEOREM AtMostOncePerProcess == Spec => []OncePerProcess
<1>1. IInv => OncePerProcess
  BY DEF IInv
<1> QED BY <1>1, Inductive, PTL

(* An item that failed, was cancelled or expired made no trade in this process. *)
THEOREM DroppedItemsMadeNoTrade == Spec => []DroppedMeansNoTrade
<1>1. IInv => DroppedMeansNoTrade
  BY DEF IInv, ItemNotMade, DroppedMeansNoTrade
<1> QED BY <1>1, Inductive, PTL

(* A row that says SUBMITTED or COMPLETED has its trade. *)
THEOREM SubmittedRowsHaveTrades == Spec => []SubmittedRowHasTrade
<1>1. IInv => SubmittedRowHasTrade
  BY DEF IInv
<1> QED BY <1>1, Inductive, PTL

(* createTrade runs only under a row that says PROCESSING for the same call. *)
THEOREM CreatesAreRecorded == Spec => CreateIsRecorded
<1>1. IInv /\ [Next]_vars =>
         [\A c \in Calls : made'[c] # made[c] =>
             \E k \in Keys : store[k].by = c /\ store[k].state = "PROCESSING"]_vars
  <2> SUFFICES ASSUME IInv, Next, NEW c \in Calls, made'[c] # made[c]
               PROVE  \E k \in Keys : store[k].by = c /\ store[k].state = "PROCESSING"
    BY DEF vars
  <2>1. CreateTrade
    BY DEF Next, CallStep, Submit, ValidationFails, Insert, SubmitSaved, SubmitSaveThrows,
           Cancel, Expire, EndQueued, EndStep, EndSaved, EndSaveThrows, Prune,
           CleanupLocks, WorkerStep, Dequeue, Retry, LockedSaved, ProcessingSaved,
           EarlySaveThrows, AttemptFails, SubmittedSaved, CompletedSaved,
           LateSaveThrows, RetryingSaved, FailedSaved, FailureSaveThrows, Crash, Die,
           UnhandledRejection, Shutdown, Exit, RecoveryStep, Restart, ReloadQueued,
           ReloadOther, ReloadSaved, ReloadSaveThrows, Listen
  <2>2. made' = [made EXCEPT ![item[worker.key].by] = @ + 1] /\ worker.pc = "building"
    BY <2>1 DEF CreateTrade, At
  <2>3. /\ worker.key \in Keys /\ store[worker.key].state = "PROCESSING"
        /\ store[worker.key].by = item[worker.key].by
    BY <2>2, WorkerItem DEF IInv, WorkerAtItem
  <2>4. c = item[worker.key].by
    BY <2>2 DEF IInv, TypeOK
  <2> QED BY <2>3, <2>4
<1> QED BY <1>1, Inductive, PTL DEF Spec, CreateIsRecorded

-----------------------------------------------------------------------------
(* The second layer: the chain, the locks and the rows.  What a step of the
   worker on the item of k does to them: k is what the worker is at, or comes
   from the head of the chain; the worker stays at k, or is through with it, or
   the chain is rejected. *)
WorkerPlaces(k, it, row) ==
    /\ chainOk /\ UNCHANGED OutsideWorker
    /\ \/ worker.pc # "idle" /\ worker.key = k /\ chain' = chain
       \/ /\ worker = Idle /\ row = store[k]
          /\ chain # <<>> /\ k = Head(chain) /\ chain' = Tail(chain)
    /\ item' = [item EXCEPT ![k] = it] /\ it.by = item[k].by
    /\ item[k].state \in Terminal => it.state \in Terminal
    /\ store' = [store EXCEPT ![k] = row]
    /\ row \in {store[k], item[k]}
    /\ \A i \in Instruments :
          locks'[i] \in {locks[i], NoKey} \/ (locks'[i] = k /\ i = InstrumentOf[k])
    /\ \/ worker' = Idle /\ ~chainOk'
       \/ /\ worker' = Idle /\ \A i \in Instruments : locks'[i] = NoKey
          /\ \/ killSwitch /\ row = store[k] /\ it = item[k] /\ worker = Idle
             \/ row = it /\ it.state \in Terminal
       \/ /\ worker'.pc # "idle" /\ worker'.key = k
          /\ worker = Idle => item[k].state \notin Terminal
          /\ row = store[k] \/ row.state \notin Terminal
          /\ \A i \in Instruments : locks'[i] \in {NoKey, k}
          /\ worker'.pc \in {"backoff", "saveRetrying", "saveFailed"} =>
                \A i \in Instruments : locks'[i] = NoKey

LEMMA HeadAndTail ==
    ASSUME NEW s \in Seq(Keys), s # <<>>, \A i, j \in 1..Len(s) : s[i] = s[j] => i = j
    PROVE  /\ \A i, j \in 1..Len(Tail(s)) : Tail(s)[i] = Tail(s)[j] => i = j
           /\ \A i \in 1..Len(Tail(s)) : Tail(s)[i] # Head(s)
           /\ \A i \in 1..Len(s) : s[i] = Head(s) \/ \E j \in 1..Len(Tail(s)) : Tail(s)[j] = s[i]
<1>1. /\ Len(s) \in Nat \ {0} /\ Len(Tail(s)) = Len(s) - 1 /\ Head(s) = s[1]
      /\ \A i \in 1..Len(Tail(s)) : Tail(s)[i] = s[i + 1]
  OBVIOUS
<1>2. ASSUME NEW i \in 1..Len(s), s[i] # Head(s)
      PROVE  \E j \in 1..Len(Tail(s)) : Tail(s)[j] = s[i]
  <2>1. i - 1 \in 1..Len(Tail(s)) /\ Tail(s)[i - 1] = s[i]
    BY <1>1, <1>2
  <2> QED BY <2>1
<1> QED BY <1>1, <1>2

(* What the worker takes from the chain is not in it a second time *)
LEMMA WorkerChain ==
    ASSUME IInv, PlacesInv, NEW k \in Keys, NEW it \in Item, NEW row \in Item,
           WorkerPlaces(k, it, row)
    PROVE  /\ \A j \in Keys : InChain(j)' => InChain(j)
           /\ \A j \in Keys : j # k /\ InChain(j) => InChain(j)'
           /\ ~InChain(k)'
           /\ \A i, j \in 1..Len(chain') : chain'[i] = chain'[j] => i = j
<1>t. chain \in Seq(Keys)
  BY DEF IInv, TypeOK
<1>1. CASE chain' = chain /\ worker.pc # "idle" /\ worker.key = k
  BY <1>1 DEF PlacesInv, ChainedOnce, InChain
<1>2. CASE chain # <<>> /\ k = Head(chain) /\ chain' = Tail(chain)
  <2>1. \A i \in 1..Len(Tail(chain)) : \E j \in 1..Len(chain) : Tail(chain)[i] = chain[j]
    BY <1>t, <1>2
  <2>2. \A i, j \in 1..Len(chain) : chain[i] = chain[j] => i = j
    BY DEF PlacesInv, ChainedOnce
  <2>3. /\ \A i, j \in 1..Len(Tail(chain)) : Tail(chain)[i] = Tail(chain)[j] => i = j
        /\ \A i \in 1..Len(Tail(chain)) : Tail(chain)[i] # Head(chain)
        /\ \A i \in 1..Len(chain) :
              \/ chain[i] = Head(chain)
              \/ \E j \in 1..Len(Tail(chain)) : Tail(chain)[j] = chain[i]
    BY <1>t, <1>2, <2>2, HeadAndTail
  <2>4. /\ \A i \in 1..Len(chain') : \E j \in 1..Len(chain) : chain'[i] = chain[j]
        /\ \A i, j \in 1..Len(chain') : chain'[i] = chain'[j] => i = j
        /\ \A i \in 1..Len(chain') : chain'[i] # k
        /\ \A i \in 1..Len(chain) :
              chain[i] = k \/ \E j \in 1..Len(chain') : chain'[j] = chain[i]
    BY <1>2, <2>1, <2>3, Zenon
  <2>5. ~InChain(k)'
    BY <2>4 DEF InChain
  <2>6. ASSUME NEW j \in Keys, InChain(j)' PROVE InChain(j)
    <3>1. PICK i \in 1..Len(chain') : chain'[i] = j
      BY <2>6 DEF InChain
    <3>2. PICK n \in 1..Len(chain) : chain'[i] = chain[n]
      BY <2>4
    <3> QED BY <3>1, <3>2 DEF InChain
  <2>7. ASSUME NEW j \in Keys, j # k, InChain(j) PROVE InChain(j)'
    BY <2>4, <2>7, Zenon DEF InChain
  <2> QED BY <2>4, <2>5, <2>6, <2>7
<1> QED BY <1>1, <1>2 DEF WorkerPlaces, Idle

LEMMA WorkerPlacesKeeps ==
    ASSUME IInv, IInv', PlacesInv, NEW k \in Keys, NEW it \in Item, NEW row \in Item,
           WorkerPlaces(k, it, row)
    PROVE  PlacesInv'
<1> USE DEF WorkerPlaces
<1>t. /\ item \in [Keys -> Item] /\ store \in [Keys -> Item] /\ chain \in Seq(Keys)
      /\ worker \in {Idle} \cup [pc : WorkerPc \ {"idle"}, key : Keys]
      /\ ending \subseteq Keys /\ NoKey \notin Keys
  BY OrderQueueAssumption DEF IInv, TypeOK
<1>i. /\ item'[k] = it /\ \A j \in Keys : j # k => item'[j] = item[j]
      /\ store'[k] = row /\ \A j \in Keys : j # k => store'[j] = store[j]
  BY <1>t
<1>o. /\ call' = call /\ phase' = phase /\ ending' = ending /\ todo' = todo
      /\ killSwitch' = killSwitch
  BY DEF OutsideWorker
<1>b. Present(k) /\ ~BeingSubmitted(k)
  <2>1. CASE worker.pc # "idle"
    BY <2>1, WorkerItem DEF BeingSubmitted, Idle
  <2>2. CASE worker.pc = "idle"
    <3>1. InChain(k)
      BY <1>t, <2>2 DEF InChain
    <3> QED BY <3>1 DEF IInv, SavingIsQueued, ChainedIsPresent, BeingSubmitted
  <2> QED BY <2>1, <2>2
<1>c. /\ \A j \in Keys : InChain(j)' => InChain(j)
      /\ \A j \in Keys : j # k /\ InChain(j) => InChain(j)'
      /\ ~InChain(k)'
      /\ \A i, j \in 1..Len(chain') : chain'[i] = chain'[j] => i = j
  BY WorkerChain
<1>1. LocksFit'
  BY <1>t DEF PlacesInv, LocksFit
<1>2. NoLockLeftBehind'
  BY <1>t DEF NoLockLeftBehind, Idle
<1>3. ChainedOnce'
  BY <1>c DEF ChainedOnce, Idle
<1>4. PendingIsPlaced'
  <2> SUFFICES ASSUME phase \in {"recovering", "up"}, chainOk', ~killSwitch,
                      NEW j \in Keys, (item[j].state)' \in Pending
               PROVE  \/ InChain(j)' \/ worker'.key = j \/ BeingSubmitted(j)'
                      \/ call[item'[j].by] = "THROWN"
    BY <1>o DEF PendingIsPlaced
  <2>1. CASE j = k
    BY <1>i, <2>1 DEF Pending, Terminal
  <2>2. CASE j # k
    <3>1. worker.key # j
      BY <1>t, <2>2 DEF Idle
    <3>2. InChain(j) \/ BeingSubmitted(j) \/ call[item[j].by] = "THROWN"
      BY <1>i, <2>2, <3>1 DEF PlacesInv, PendingIsPlaced
    <3> QED BY <1>i, <1>c, <1>o, <2>2, <3>2 DEF BeingSubmitted
  <2> QED BY <2>1, <2>2
<1>5. FinalRowIsLeft'
  <2> SUFFICES ASSUME NEW j \in Keys, (store[j].state)' \in Terminal, Present(j)',
                      item'[j].by = store'[j].by
               PROVE  /\ item'[j].state \in Terminal
                      /\ j \notin ending /\ worker'.key # j /\ ~BeingSubmitted(j)
    BY <1>o DEF FinalRowIsLeft, BeingSubmitted
  <2>1. CASE j # k
    BY <1>i, <1>t, <2>1 DEF PlacesInv, FinalRowIsLeft, Present, Idle
  <2>2. CASE j = k
    <3>1. k \notin ending
      <4>1. CASE worker.pc # "idle"
        BY <4>1, WorkerItem DEF IInv, EndingIsOver, Idle
      <4>2. CASE worker = Idle /\ row = store[k]
        BY <1>i, <2>2, <4>2 DEF PlacesInv, FinalRowIsLeft, Present, IInv, EndingIsOver
      <4> QED BY <1>t, <4>1, <4>2
    <3>2. item[k].state \in Terminal \/ it.state \in Terminal
      BY <1>i, <1>b, <2>2 DEF PlacesInv, FinalRowIsLeft
    <3> QED BY <1>i, <1>b, <1>t, <2>2, <3>1, <3>2 DEF PlacesInv, FinalRowIsLeft, Present, Idle
  <2> QED BY <2>1, <2>2
<1>6. HalfDoneIsWorked'
  BY <1>i, <1>o, <1>t DEF PlacesInv, HalfDoneIsWorked, Idle, InFlight, Pending, Terminal
<1> QED BY <1>1, <1>2, <1>3, <1>4, <1>5, <1>6 DEF PlacesInv

(* handleFailure leaves an item that is over alone, and the chain rejects *)
LEMMA HandleFailurePlaces ==
    ASSUME TypeOK, chainOk, NEW k \in Keys, Present(k),
           NEW permanent \in BOOLEAN, HandleFailure(k, permanent)
    PROVE  \E it \in Item :
              /\ item' = [item EXCEPT ![k] = it] /\ it.by = item[k].by
              /\ item[k].state \in Terminal => it.state \in Terminal
              /\ \/ worker' = Idle /\ ~chainOk'
                 \/ /\ worker' \in [pc : {"saveFailed", "saveRetrying"}, key : {k}]
                    /\ item[k].state \notin Terminal
<1>0. item \in [Keys -> Item] /\ item[k] \in Item
  BY DEF TypeOK
<1>1. CASE Reject /\ UNCHANGED item
  BY <1>0, <1>1 DEF Reject
<1>2. CASE /\ CanTransition(item[k].state, "FAILED")
           /\ item' = [item EXCEPT ![k] = WithState(item[k], "FAILED")]
           /\ GoTo("saveFailed", k)
  <2>1. /\ WithState(item[k], "FAILED") \in Item
        /\ WithState(item[k], "FAILED").by = item[k].by
    BY <1>0, ItemOps DEF ItemState, Terminal, WithState, Item
  <2>2. item[k].state \notin Terminal
    BY <1>2 DEF CanTransition, TransitionTable, Terminal
  <2> QED BY <1>2, <2>1, <2>2 DEF GoTo
<1>3. CASE /\ CanRetry(item[k])
           /\ item' = [item EXCEPT ![k] = Retried(item[k])]
           /\ GoTo("saveRetrying", k)
  <2>1. Retried(item[k]) \in Item /\ Retried(item[k]).by = item[k].by
    BY <1>0, ItemOps DEF Retried, Item, ItemState, Pending
  <2>2. item[k].state \notin Terminal
    BY <1>3 DEF CanRetry, CanTransition, TransitionTable, Terminal
  <2> QED BY <1>3, <2>1, <2>2 DEF GoTo
<1>4. CASE item' = [item EXCEPT ![k].attempts = @ + 1] /\ Reject
  <2> DEFINE it == [item[k] EXCEPT !.attempts = @ + 1]
  <2>1. it \in Item /\ it.state = item[k].state /\ it.by = item[k].by
    BY <1>0 DEF Item
  <2>2. item' = [item EXCEPT ![k] = it]
    BY <1>0, <1>4
  <2> QED BY <1>4, <2>1, <2>2 DEF Reject
<1> QED BY <1>1, <1>2, <1>3, <1>4 DEF HandleFailure

(* No lock is held when the worker is idle or waits, so an acquisition is never
   in vain, and the item that gets it is not over. *)
LEMMA StartAttemptPlaces ==
    ASSUME TypeOK, chainOk, NEW k \in Keys, Present(k), StartAttempt(k),
           \A i \in Instruments : locks[i] = NoKey
    PROVE  \E it \in Item :
              /\ item' = [item EXCEPT ![k] = it] /\ it.by = item[k].by
              /\ item[k].state \in Terminal => it.state \in Terminal
              /\ \A i \in Instruments :
                    locks'[i] = NoKey \/ (locks'[i] = k /\ i = InstrumentOf[k])
              /\ \/ worker' = Idle /\ ~chainOk'
                 \/ /\ worker' = [pc |-> "saveLocked", key |-> k]
                    /\ item[k].state \notin Terminal
<1>0. /\ item \in [Keys -> Item] /\ item[k] \in Item
      /\ locks \in [Instruments -> Keys \cup {NoKey}] /\ InstrumentOf[k] \in Instruments
  BY OrderQueueAssumption DEF TypeOK
<1>1. locks' = [locks EXCEPT ![InstrumentOf[k]] = k]
  BY <1>0 DEF StartAttempt
<1>2. CASE /\ CanTransition(item[k].state, "LOCKED")
           /\ item' = [item EXCEPT ![k] = WithState(item[k], "LOCKED")]
           /\ GoTo("saveLocked", k)
  <2>1. /\ WithState(item[k], "LOCKED") \in Item
        /\ WithState(item[k], "LOCKED").by = item[k].by
    BY <1>0, ItemOps DEF ItemState, Pending, WithState, Item
  <2>2. item[k].state \notin Terminal
    BY <1>2 DEF CanTransition, TransitionTable, Terminal
  <2> QED BY <1>0, <1>1, <1>2, <2>1, <2>2 DEF GoTo
<1>3. CASE Reject /\ UNCHANGED item
  BY <1>0, <1>1, <1>3 DEF Reject
<1> QED BY <1>0, <1>2, <1>3 DEF StartAttempt

LEMMA WorkerStepPlaces ==
    ASSUME IInv, PlacesInv, WorkerStep
    PROVE  \E k \in Keys, it \in Item, row \in Item : WorkerPlaces(k, it, row)
<1> DEFINE w == worker.key
<1>t. /\ TypeOK /\ item \in [Keys -> Item] /\ store \in [Keys -> Item]
      /\ chain \in Seq(Keys) /\ locks \in [Instruments -> Keys \cup {NoKey}]
      /\ worker \in {Idle} \cup [pc : WorkerPc \ {"idle"}, key : Keys]
      /\ NoKey \notin Keys
  BY OrderQueueAssumption DEF IInv, TypeOK
<1>w. worker.pc # "idle" =>
         /\ w \in Keys /\ Present(w) /\ item[w] \in Item /\ store[w] \in Item
         /\ item[w].state = StateAt[worker.pc]
         /\ item = [item EXCEPT ![w] = item[w]]
         /\ store = [store EXCEPT ![w] = store[w]]
         /\ worker # Idle
  BY <1>t, WorkerItem DEF IInv, WorkerAtItem, Present, Idle
(* What a lock can be before the step, and after release *)
<1>l. chainOk => \A i \in Instruments :
         /\ locks[i] \in {NoKey, w} /\ (locks[i] = w => w = NoKey \/ i = InstrumentOf[w])
         /\ worker.pc \in {"idle", "backoff", "saveRetrying", "saveFailed"} => locks[i] = NoKey
  BY DEF PlacesInv, LocksFit, NoLockLeftBehind
<1>r. worker.pc # "idle" /\ chainOk => \A i \in Instruments : Released(w)[i] = NoKey
  BY <1>t, <1>w, <1>l DEF Released
(* A save that ends well, or badly, somewhere in the attempt *)
<1>s. ASSUME worker.pc # "idle", Saved(w, item[w]) \/ SaveThrows(w, item[w])
      PROVE  \E row \in Item :
                row \in {store[w], item[w]} /\ store' = [store EXCEPT ![w] = row]
  BY <1>t, <1>w, <1>s, SaveEffect
<1>1. CASE Dequeue
  <2> DEFINE k == Head(chain)
  <2>1. /\ chainOk /\ worker = Idle /\ worker.pc = "idle"
        /\ chain # <<>> /\ chain' = Tail(chain) /\ store' = store /\ UNCHANGED OutsideWorker
    BY <1>1, <1>t DEF Dequeue, At, Idle
  <2>2. k \in Keys /\ InChain(k)
    BY <1>t, <2>1 DEF InChain
  <2>3. /\ Present(k) /\ item[k] \in Item /\ store[k] \in Item
        /\ store = [store EXCEPT ![k] = store[k]]
        /\ item = [item EXCEPT ![k] = item[k]]
    BY <1>t, <2>2 DEF IInv, ChainedIsPresent
  <2>4. CASE StartAttempt(k)
    <3>1. PICK it \in Item :
             /\ item' = [item EXCEPT ![k] = it] /\ it.by = item[k].by
             /\ item[k].state \in Terminal => it.state \in Terminal
             /\ \A i \in Instruments :
                   locks'[i] = NoKey \/ (locks'[i] = k /\ i = InstrumentOf[k])
             /\ \/ worker' = Idle /\ ~chainOk'
                \/ /\ worker' = [pc |-> "saveLocked", key |-> k]
                   /\ item[k].state \notin Terminal
      BY <1>t, <1>l, <2>1, <2>2, <2>3, <2>4, StartAttemptPlaces
    <3>2. WorkerPlaces(k, it, store[k])
      BY <2>1, <2>3, <3>1 DEF WorkerPlaces
    <3> QED BY <2>2, <2>3, <3>2
  <2>5. CASE killSwitch /\ UNCHANGED <<item, locks, worker, chainOk>>
    <3>1. WorkerPlaces(k, item[k], store[k])
      BY <1>l, <2>1, <2>3, <2>5 DEF WorkerPlaces
    <3> QED BY <2>2, <2>3, <3>1
  <2> QED BY <1>1, <2>4, <2>5 DEF Dequeue
<1>2. CASE Retry
  <2>1. /\ chainOk /\ worker.pc = "backoff" /\ StartAttempt(w)
        /\ UNCHANGED <<store, chain, OutsideWorker>>
    BY <1>2 DEF Retry, At
  <2>2. PICK it \in Item :
           /\ item' = [item EXCEPT ![w] = it] /\ it.by = item[w].by
           /\ item[w].state \in Terminal => it.state \in Terminal
           /\ \A i \in Instruments :
                 locks'[i] = NoKey \/ (locks'[i] = w /\ i = InstrumentOf[w])
           /\ \/ worker' = Idle /\ ~chainOk'
              \/ /\ worker' = [pc |-> "saveLocked", key |-> w]
                 /\ item[w].state \notin Terminal
    BY <1>t, <1>w, <1>l, <2>1, StartAttemptPlaces
  <2>3. WorkerPlaces(w, it, store[w])
    BY <1>w, <2>1, <2>2 DEF WorkerPlaces
  <2> QED BY <1>w, <2>1, <2>3
<1>3. CASE LockedSaved \/ SubmittedSaved
  <2> DEFINE it == WithState(item[w], IF worker.pc = "saveLocked" THEN "PROCESSING" ELSE "COMPLETED")
  <2>1. /\ chainOk /\ worker.pc \in {"saveLocked", "saveSubmitted"}
        /\ store' = [store EXCEPT ![w] = item[w]] /\ item' = [item EXCEPT ![w] = it]
        /\ worker' \in [pc : {"saveProcessing", "saveCompleted"}, key : {w}]
        /\ UNCHANGED <<chain, locks, OutsideWorker>>
    BY <1>3 DEF LockedSaved, SubmittedSaved, At, Saved, GoTo
  <2>2. it \in Item /\ it.by = item[w].by /\ item[w].state \notin Terminal
    BY <1>w, <2>1, ItemOps
    DEF WithState, Item, ItemState, Pending, Terminal, StateAt, WorkerPc
  <2>3. WorkerPlaces(w, it, item[w])
    BY <1>w, <1>l, <2>1, <2>2 DEF WorkerPlaces
  <2> QED BY <1>w, <2>1, <2>2, <2>3
<1>4. CASE ProcessingSaved \/ RetryingSaved
  <2>1. /\ chainOk
        /\ \/ worker.pc = "saveProcessing" /\ worker' = [pc |-> "building", key |-> w]
           \/ worker.pc = "saveRetrying" /\ worker' = [pc |-> "backoff", key |-> w]
        /\ store' = [store EXCEPT ![w] = item[w]] /\ UNCHANGED <<item, chain, locks, OutsideWorker>>
    BY <1>4 DEF ProcessingSaved, RetryingSaved, At, Saved, GoTo
  <2>2. item[w].state \notin Terminal
    BY <1>w, <2>1 DEF StateAt, WorkerPc, Terminal
  <2>3. WorkerPlaces(w, item[w], item[w])
    BY <1>w, <1>l, <2>1, <2>2 DEF WorkerPlaces
  <2> QED BY <1>w, <2>1, <2>3
<1>5. CASE EarlySaveThrows \/ FailureSaveThrows
  <2>1. /\ chainOk
        /\ worker.pc \in {"saveLocked", "saveProcessing", "saveRetrying", "saveFailed"}
        /\ SaveThrows(w, item[w]) /\ worker' = Idle /\ ~chainOk'
        /\ UNCHANGED <<item, chain, locks, OutsideWorker>>
    BY <1>5 DEF EarlySaveThrows, FailureSaveThrows, At, Reject
  <2>2. PICK row \in Item : row \in {store[w], item[w]} /\ store' = [store EXCEPT ![w] = row]
    BY <1>s, <2>1
  <2>3. WorkerPlaces(w, item[w], row)
    BY <1>w, <2>1, <2>2 DEF WorkerPlaces
  <2> QED BY <1>w, <2>1, <2>2, <2>3
<1>6. CASE CreateTrade
  <2> DEFINE it == WithState(item[w], "SUBMITTED")
  <2>1. /\ chainOk /\ worker.pc = "building" /\ item' = [item EXCEPT ![w] = it]
        /\ worker' = [pc |-> "saveSubmitted", key |-> w]
        /\ UNCHANGED <<store, chain, locks, OutsideWorker>>
    BY <1>6 DEF CreateTrade, At, GoTo
  <2>2. it \in Item /\ it.by = item[w].by /\ item[w].state \notin Terminal
    BY <1>w, <2>1, ItemOps
    DEF WithState, Item, ItemState, Pending, Terminal, StateAt, WorkerPc
  <2>3. WorkerPlaces(w, it, store[w])
    BY <1>w, <1>l, <2>1, <2>2 DEF WorkerPlaces
  <2> QED BY <1>w, <2>1, <2>2, <2>3
<1>7. CASE AttemptFails \/ LateSaveThrows
  <2>1. /\ chainOk /\ worker.pc \in {"building", "saveSubmitted", "saveCompleted"}
        /\ locks' = Released(w) /\ \E permanent \in BOOLEAN : HandleFailure(w, permanent)
        /\ SaveThrows(w, item[w]) \/ UNCHANGED store
        /\ UNCHANGED <<chain, OutsideWorker>>
    BY <1>7 DEF AttemptFails, LateSaveThrows, At
  <2>2. PICK it \in Item :
           /\ item' = [item EXCEPT ![w] = it] /\ it.by = item[w].by
           /\ item[w].state \in Terminal => it.state \in Terminal
           /\ \/ worker' = Idle /\ ~chainOk'
              \/ /\ worker' \in [pc : {"saveFailed", "saveRetrying"}, key : {w}]
                 /\ item[w].state \notin Terminal
    BY <1>t, <1>w, <2>1, HandleFailurePlaces
  <2>3. PICK row \in Item : row \in {store[w], item[w]} /\ store' = [store EXCEPT ![w] = row]
    BY <1>s, <1>w, <2>1
  <2>4. row = store[w] \/ row.state \notin Terminal \/ item[w].state \in Terminal
    BY <2>3
  <2>5. WorkerPlaces(w, it, row)
    BY <1>w, <1>r, <2>1, <2>2, <2>3, <2>4 DEF WorkerPlaces
  <2> QED BY <1>w, <2>1, <2>2, <2>3, <2>5
<1>8. CASE CompletedSaved \/ FailedSaved
  <2>1. /\ chainOk /\ worker.pc \in {"saveCompleted", "saveFailed"}
        /\ store' = [store EXCEPT ![w] = item[w]] /\ worker' = Idle
        /\ locks' = Released(w) \/ (locks' = locks /\ worker.pc = "saveFailed")
        /\ UNCHANGED <<item, chain, OutsideWorker>>
    BY <1>8 DEF CompletedSaved, FailedSaved, At, Saved
  <2>2. item[w].state \in Terminal
    BY <1>w, <2>1 DEF StateAt, WorkerPc, Terminal
  <2>3. WorkerPlaces(w, item[w], item[w])
    BY <1>w, <1>l, <1>r, <2>1, <2>2 DEF WorkerPlaces
  <2> QED BY <1>w, <2>1, <2>3
<1> QED BY <1>1, <1>2, <1>3, <1>4, <1>5, <1>6, <1>7, <1>8 DEF WorkerStep

-----------------------------------------------------------------------------
(* The row of an item that is being submitted or that the clean-up ended *)

LEMMA AppendOnce ==
    ASSUME NEW s \in Seq(Keys), NEW k \in Keys,
           \A i, j \in 1..Len(s) : s[i] = s[j] => i = j,
           \A i \in 1..Len(s) : s[i] # k
    PROVE  /\ Append(s, k) \in Seq(Keys)
           /\ \A i, j \in 1..Len(Append(s, k)) : Append(s, k)[i] = Append(s, k)[j] => i = j
           /\ \A n \in Keys : (\E i \in 1..Len(Append(s, k)) : Append(s, k)[i] = n)
                                <=> n = k \/ \E i \in 1..Len(s) : s[i] = n
<1>1. /\ Len(Append(s, k)) = Len(s) + 1 /\ Len(s) \in Nat
      /\ \A i \in 1..Len(s) : Append(s, k)[i] = s[i]
      /\ Append(s, k)[Len(s) + 1] = k
      /\ Append(s, k) \in Seq(Keys)
  OBVIOUS
<1>2. \A i \in 1..Len(Append(s, k)) : i \in 1..Len(s) \/ i = Len(s) + 1
  BY <1>1
<1>3. \A i \in 1..Len(s) : i \in 1..Len(Append(s, k))
  BY <1>1
<1>4. Len(s) + 1 \in 1..Len(Append(s, k))
  BY <1>1
<1>5. ASSUME NEW i \in 1..Len(Append(s, k)), NEW j \in 1..Len(Append(s, k)),
             Append(s, k)[i] = Append(s, k)[j]
      PROVE  i = j
  BY <1>1, <1>2, <1>5
<1>6. ASSUME NEW n \in Keys, NEW i \in 1..Len(Append(s, k)), Append(s, k)[i] = n
      PROVE  n = k \/ \E j \in 1..Len(s) : s[j] = n
  BY <1>1, <1>2, <1>6
<1>7. ASSUME NEW n \in Keys, n = k \/ \E i \in 1..Len(s) : s[i] = n
      PROVE  \E j \in 1..Len(Append(s, k)) : Append(s, k)[j] = n
  BY <1>1, <1>3, <1>4, <1>7
<1> QED BY <1>1, <1>5, <1>6, <1>7

(* A key that is not in the chain is appended, or not *)
LEMMA ChainOnceMore ==
    ASSUME TypeOK, PlacesInv, NEW k \in Keys, ~InChain(k),
           chain' = chain \/ chain' = Append(chain, k)
    PROVE  /\ \A i, j \in 1..Len(chain') : chain'[i] = chain'[j] => i = j
           /\ \A n \in Keys : InChain(n)' => InChain(n) \/ n = k
           /\ \A n \in Keys : InChain(n) => InChain(n)'
           /\ chain' = Append(chain, k) => InChain(k)'
<1>1. /\ chain \in Seq(Keys) /\ \A i, j \in 1..Len(chain) : chain[i] = chain[j] => i = j
      /\ \A i \in 1..Len(chain) : chain[i] # k
  BY DEF TypeOK, PlacesInv, ChainedOnce, InChain
<1>2. CASE chain' = Append(chain, k)
  <2>1. /\ \A i, j \in 1..Len(chain') : chain'[i] = chain'[j] => i = j
        /\ \A n \in Keys : (\E i \in 1..Len(chain') : chain'[i] = n)
                             <=> n = k \/ \E i \in 1..Len(chain) : chain[i] = n
    BY <1>1, <1>2, AppendOnce
  <2>2. \A n \in Keys : InChain(n)' <=> n = k \/ InChain(n)
    BY <2>1 DEF InChain
  <2> QED BY <2>1, <2>2
<1>3. CASE chain' = chain
  <2>1. chain # Append(chain, k)
    BY <1>1
  <2> QED BY <1>1, <1>3, <2>1 DEF InChain
<1> QED BY <1>2, <1>3

LEMMA SubmitSavePlaces ==
    ASSUME IInv, PlacesInv, NEW c \in Calls, SubmitSaved(c) \/ SubmitSaveThrows(c)
    PROVE  PlacesInv'
<1> DEFINE k == KeyOf[c]
<1>1. /\ call[c] = "saving"
      /\ Saved(k, item[k]) \/ SaveThrows(k, item[k])
      /\ \/ /\ call' = [call EXCEPT ![c] = "QUEUED"]
            /\ chain' = IF phase = "stopping" THEN chain ELSE Append(chain, k)
         \/ call' = [call EXCEPT ![c] = "THROWN"] /\ chain' = chain
      /\ UNCHANGED <<killSwitch, phase, item, chainOk, worker, locks, ending, todo>>
  BY DEF SubmitSaved, SubmitSaveThrows, Enqueue
<1>2. /\ TypeOK /\ k \in Keys /\ item[k] \in Item /\ store \in [Keys -> Item]
      /\ call \in [Calls -> Outcomes \cup {"ready", "validating", "saving"}]
  BY OrderQueueAssumption DEF IInv, TypeOK
<1>3. /\ item[k].state = "QUEUED" /\ item[k].by = c /\ ~InChain(k)
      /\ \A d \in Calls : call[d] = "saving" /\ KeyOf[d] = k => d = c
      /\ phase \in {"up", "stopping"}
      /\ worker.pc # "idle" => worker.key # k
  BY <1>1, WorkerItem DEF IInv, SavingIsQueued, StartUp, Open
<1>4. PICK row \in Item : row \in {store[k], item[k]} /\ store' = [store EXCEPT ![k] = row]
  BY <1>1, <1>2, SaveEffect
<1>5. /\ store'[k] = row /\ \A j \in Keys : j # k => store'[j] = store[j]
      /\ call'[c] \in {"QUEUED", "THROWN"} /\ \A d \in Calls : d # c => call'[d] = call[d]
      /\ \A j \in Keys : BeingSubmitted(j)' <=> BeingSubmitted(j) /\ j # k
  <2>1. /\ store'[k] = row /\ \A j \in Keys : j # k => store'[j] = store[j]
        /\ call'[c] \in {"QUEUED", "THROWN"} /\ \A d \in Calls : d # c => call'[d] = call[d]
    BY <1>1, <1>2, <1>4
  <2> QED BY <1>3, <2>1 DEF BeingSubmitted
<1>6. /\ \A i, j \in 1..Len(chain') : chain'[i] = chain'[j] => i = j
      /\ \A n \in Keys : InChain(n)' => InChain(n) \/ n = k
      /\ \A n \in Keys : InChain(n) => InChain(n)'
      /\ chain' = Append(chain, k) => InChain(k)'
  BY <1>1, <1>2, <1>3, ChainOnceMore
<1>7. LocksFit' /\ NoLockLeftBehind'
  BY <1>1 DEF PlacesInv, LocksFit, NoLockLeftBehind
<1>8. ChainedOnce'
  <2>1. worker.pc # "idle" => worker.key \in Keys
    BY <1>2 DEF TypeOK, Idle
  <2> QED BY <1>1, <1>3, <1>6, <2>1 DEF PlacesInv, ChainedOnce
<1>9. PendingIsPlaced'
  <2> SUFFICES ASSUME phase \in {"recovering", "up"}, chainOk, ~killSwitch,
                      NEW j \in Keys, item[j].state \in Pending
               PROVE  \/ InChain(j)' \/ worker.key = j \/ BeingSubmitted(j)'
                      \/ call'[item[j].by] = "THROWN"
    BY <1>1 DEF PendingIsPlaced
  <2>1. CASE j = k
    BY <1>1, <1>2, <1>3, <1>6, <2>1
  <2>2. CASE j # k
    <3>1. item[j].by \in Calls /\ item[j].by # c
      BY <1>3, <2>2 DEF IInv, OwnedByKey, Present, Pending
    <3> QED BY <1>1, <1>5, <1>6, <2>2, <3>1 DEF PlacesInv, PendingIsPlaced
  <2> QED BY <2>1, <2>2
<1>10. FinalRowIsLeft'
  <2>1. BeingSubmitted(k)
    BY <1>1 DEF BeingSubmitted
  <2> QED BY <1>1, <1>3, <1>4, <1>5, <2>1 DEF PlacesInv, FinalRowIsLeft, Present, Terminal
<1>11. HalfDoneIsWorked'
  BY <1>1, <1>3, <1>4, <1>5 DEF PlacesInv, HalfDoneIsWorked, InFlight
<1> QED BY <1>7, <1>8, <1>9, <1>10, <1>11 DEF PlacesInv

LEMMA EndStepPlaces ==
    ASSUME IInv, PlacesInv, NEW k \in Keys, EndStep(k)
    PROVE  PlacesInv'
<1>1. /\ k \in ending /\ ending' = ending \ {k}
      /\ Saved(k, item[k]) \/ SaveThrows(k, item[k])
      /\ UNCHANGED <<killSwitch, phase, item, chain, chainOk, worker, locks, call, todo>>
  BY DEF EndStep, EndSaved, EndSaveThrows
<1>2. TypeOK /\ item[k] \in Item /\ store \in [Keys -> Item]
  BY DEF IInv, TypeOK
<1>3. /\ item[k].state \in {"CANCELLED", "EXPIRED"} /\ ~BeingSubmitted(k)
      /\ worker.key # k
  <2>1. item[k].state \in {"CANCELLED", "EXPIRED"} /\ ~BeingSubmitted(k)
    BY <1>1 DEF IInv, EndingIsOver, SavingIsQueued, BeingSubmitted
  <2>2. worker.pc # "idle" => worker.key # k
    BY <2>1, WorkerItem
  <2>3. worker.pc = "idle" => worker.key # k
    BY <1>2, OrderQueueAssumption DEF TypeOK, Idle
  <2> QED BY <2>1, <2>2, <2>3
<1>4. PICK row \in Item : row \in {store[k], item[k]} /\ store' = [store EXCEPT ![k] = row]
  BY <1>1, <1>2, SaveEffect
<1>5. store'[k] = row /\ \A j \in Keys : j # k => store'[j] = store[j]
  BY <1>2, <1>4
<1>7. LocksFit' /\ NoLockLeftBehind' /\ ChainedOnce' /\ PendingIsPlaced'
  BY <1>1 DEF PlacesInv, LocksFit, NoLockLeftBehind, ChainedOnce, PendingIsPlaced, InChain,
              BeingSubmitted
<1>8. FinalRowIsLeft'
  BY <1>1, <1>3, <1>4, <1>5
  DEF PlacesInv, FinalRowIsLeft, Present, Terminal, BeingSubmitted
<1>9. HalfDoneIsWorked'
  BY <1>1, <1>3, <1>4, <1>5 DEF PlacesInv, HalfDoneIsWorked, InFlight, Pending
<1> QED BY <1>7, <1>8, <1>9 DEF PlacesInv

-----------------------------------------------------------------------------
(* A new item, an item that ends in the queue, and one that is pruned *)

LEMMA InsertPlaces ==
    ASSUME IInv, PlacesInv, NEW c \in Calls, Insert(c)
    PROVE  PlacesInv'
<1> DEFINE k == KeyOf[c]
<1>t. /\ TypeOK /\ k \in Keys /\ item \in [Keys -> Item]
      /\ call \in [Calls -> Outcomes \cup {"ready", "validating", "saving"}]
      /\ worker \in {Idle} \cup [pc : WorkerPc \ {"idle"}, key : Keys] /\ NoKey \notin Keys
  BY OrderQueueAssumption DEF IInv, TypeOK
<1>1. /\ call[c] = "validating"
      /\ UNCHANGED <<killSwitch, phase, store, chain, chainOk, worker, locks, ending, todo>>
      /\ \/ /\ call' = [call EXCEPT ![c] = "saving"] /\ ~Present(k)
            /\ item' = [item EXCEPT ![k] = [state |-> "QUEUED", attempts |-> 0, by |-> c]]
         \/ item' = item /\ \E o \in {"QUEUE_FULL", "DUPLICATE"} : call' = [call EXCEPT ![c] = o]
  BY DEF Insert
<1>2. /\ \A d \in Calls : d # c => call'[d] = call[d]
      /\ call'[c] # "THROWN"
      /\ \A j \in Keys : j # k => item'[j] = item[j]
      /\ \A j \in Keys : BeingSubmitted(j) => BeingSubmitted(j)'
      /\ \A j \in Keys : j # k => (BeingSubmitted(j)' => BeingSubmitted(j))
  BY <1>1, <1>t DEF BeingSubmitted
<1>3. LocksFit' /\ NoLockLeftBehind' /\ ChainedOnce' /\ HalfDoneIsWorked'
  BY <1>1 DEF PlacesInv, LocksFit, NoLockLeftBehind, ChainedOnce, HalfDoneIsWorked, InChain
<1>4. \A j \in Keys : item[j].by # c /\ store[j].by # c
  BY <1>1 DEF IInv, CallsOwnNothingYet
<1>n. CASE item' = item /\ \A j \in Keys : BeingSubmitted(j)' <=> BeingSubmitted(j)
  <2>1. PendingIsPlaced'
    <3> SUFFICES ASSUME phase \in {"recovering", "up"}, chainOk, ~killSwitch,
                        NEW j \in Keys, item[j].state \in Pending
                 PROVE  \/ InChain(j) \/ worker.key = j \/ BeingSubmitted(j)
                        \/ call'[item[j].by] = "THROWN"
      BY <1>1, <1>n DEF PendingIsPlaced, InChain
    <3>1. item[j].by \in Calls /\ item[j].by # c
      BY <1>4 DEF IInv, OwnedByKey, Present, Pending
    <3> QED BY <1>2, <3>1 DEF PlacesInv, PendingIsPlaced
  <2>2. FinalRowIsLeft'
    BY <1>1, <1>n DEF PlacesInv, FinalRowIsLeft, Present
  <2> QED BY <1>3, <2>1, <2>2 DEF PlacesInv
<1>s. CASE /\ call' = [call EXCEPT ![c] = "saving"] /\ ~Present(k)
           /\ item' = [item EXCEPT ![k] = [state |-> "QUEUED", attempts |-> 0, by |-> c]]
  <2>1. item'[k].by = c /\ item'[k].state = "QUEUED" /\ BeingSubmitted(k)'
    BY <1>s, <1>t DEF BeingSubmitted
  <2>2. PendingIsPlaced'
    <3> SUFFICES ASSUME phase \in {"recovering", "up"}, chainOk, ~killSwitch,
                        NEW j \in Keys, j # k, item[j].state \in Pending
                 PROVE  \/ InChain(j) \/ worker.key = j \/ BeingSubmitted(j)
                        \/ call'[item[j].by] = "THROWN"
      BY <1>1, <1>2, <2>1 DEF PendingIsPlaced, InChain
    <3>1. item[j].by \in Calls /\ item[j].by # c
      BY <1>4 DEF IInv, OwnedByKey, Present, Pending
    <3> QED BY <1>2, <3>1 DEF PlacesInv, PendingIsPlaced
  <2>3. FinalRowIsLeft'
    BY <1>1, <1>2, <1>4, <2>1 DEF PlacesInv, FinalRowIsLeft, Present
  <2> QED BY <1>3, <2>2, <2>3 DEF PlacesInv
<1> QED BY <1>1, <1>n, <1>s, <1>t DEF BeingSubmitted

LEMMA CancelExpirePlaces ==
    ASSUME IInv, PlacesInv, NEW k \in Keys, Cancel(k) \/ Expire(k)
    PROVE  PlacesInv'
<1>1. PICK s \in {"CANCELLED", "EXPIRED"} :
         /\ item[k].state = "QUEUED" /\ item' = [item EXCEPT ![k] = WithState(item[k], s)]
         /\ ending' = ending \cup {k} /\ ~BeingSubmitted(k)
         /\ UNCHANGED <<killSwitch, phase, store, chain, chainOk, worker, locks, call, todo>>
  BY DEF Cancel, Expire, EndQueued, CanTransition, TransitionTable
<1>2. /\ item \in [Keys -> Item] /\ WithState(item[k], s).state = s
      /\ WithState(item[k], s).by = item[k].by
  BY DEF IInv, TypeOK, WithState, Item
<1>3. /\ item'[k].state = s /\ item'[k].by = item[k].by
      /\ \A j \in Keys : j # k => item'[j] = item[j]
  BY <1>1, <1>2
<1>4. LocksFit' /\ NoLockLeftBehind' /\ ChainedOnce' /\ HalfDoneIsWorked'
  BY <1>1 DEF PlacesInv, LocksFit, NoLockLeftBehind, ChainedOnce, HalfDoneIsWorked, InChain
<1>5. PendingIsPlaced'
  BY <1>1, <1>3 DEF PlacesInv, PendingIsPlaced, InChain, BeingSubmitted, Pending
<1>6. FinalRowIsLeft'
  BY <1>1, <1>3 DEF PlacesInv, FinalRowIsLeft, Present, BeingSubmitted, Terminal
<1> QED BY <1>4, <1>5, <1>6 DEF PlacesInv

LEMMA PrunePlaces ==
    ASSUME IInv, PlacesInv, NEW k \in Keys, Prune(k)
    PROVE  PlacesInv'
<1>1. /\ item' = [item EXCEPT ![k] = Absent]
      /\ UNCHANGED <<killSwitch, phase, store, chain, chainOk, worker, locks, call, ending, todo>>
  BY DEF Prune
<1>2. item'[k].state = "NONE" /\ \A j \in Keys : j # k => item'[j] = item[j]
  BY <1>1 DEF IInv, TypeOK, Absent
<1>3. LocksFit' /\ NoLockLeftBehind' /\ ChainedOnce' /\ HalfDoneIsWorked'
  BY <1>1 DEF PlacesInv, LocksFit, NoLockLeftBehind, ChainedOnce, HalfDoneIsWorked, InChain
<1>4. PendingIsPlaced'
  BY <1>1, <1>2 DEF PlacesInv, PendingIsPlaced, InChain, BeingSubmitted, Pending
<1>5. FinalRowIsLeft'
  BY <1>1, <1>2 DEF PlacesInv, FinalRowIsLeft, Present, BeingSubmitted
<1> QED BY <1>3, <1>4, <1>5 DEF PlacesInv

-----------------------------------------------------------------------------
(* Steps that touch neither the items nor the rows nor the chain *)
LEMMA QuietStepPlaces ==
    ASSUME IInv, PlacesInv, [Next]_vars,
           \/ \E c \in Calls : Submit(c) \/ ValidationFails(c)
           \/ CleanupLocks \/ Shutdown \/ Restart \/ Listen
           \/ \E k \in Keys : ReloadOther(k)
           \/ UNCHANGED vars
    PROVE  PlacesInv'
<1>t. /\ call \in [Calls -> Outcomes \cup {"ready", "validating", "saving"}]
      /\ locks \in [Instruments -> Keys \cup {NoKey}]
  BY DEF IInv, TypeOK
<1>1. /\ UNCHANGED <<item, store, chain, chainOk, worker, ending>>
      /\ \A c \in Calls : call'[c] = "THROWN" <=> call[c] = "THROWN"
      /\ \A c \in Calls : call'[c] = "saving" <=> call[c] = "saving"
      /\ \A i \in Instruments : locks'[i] \in {locks[i], NoKey}
  <2>1. CASE \E c \in Calls : Submit(c) \/ ValidationFails(c)
    BY <1>t, <2>1 DEF Submit, ValidationFails
  <2>2. CASE CleanupLocks
    BY <1>t, <2>2 DEF CleanupLocks
  <2>3. CASE \/ Shutdown \/ Restart \/ Listen \/ UNCHANGED vars
             \/ \E k \in Keys : ReloadOther(k)
    BY <2>3 DEF Shutdown, Restart, Listen, ReloadOther, vars
  <2> QED BY <2>1, <2>2, <2>3
<1>2. \/ UNCHANGED <<killSwitch, phase, todo>>
      \/ UNCHANGED <<killSwitch, todo>> /\ phase' # "down" /\ phase # "down"
         /\ (phase' = "stopping" \/ phase = "recovering")
      \/ phase = "down" /\ phase' = "recovering" /\ todo' = Recoverable
  BY DEF Submit, ValidationFails, CleanupLocks, Shutdown, Restart, Listen, ReloadOther, vars
<1>3. \A j \in Keys : /\ BeingSubmitted(j)' <=> BeingSubmitted(j)
                      /\ InChain(j)' <=> InChain(j)
  BY <1>1 DEF BeingSubmitted, InChain
<1>4. LocksFit' /\ NoLockLeftBehind' /\ ChainedOnce'
  BY <1>1 DEF PlacesInv, LocksFit, NoLockLeftBehind, ChainedOnce, InChain
<1>5. PendingIsPlaced'
  <2>1. CASE phase = "down"
    <3>1. \A k \in Keys : item'[k].state \notin Pending
      BY <1>1, <2>1 DEF IInv, StartUp, Present, Pending
    <3> QED BY <3>1 DEF PendingIsPlaced
  <2>2. CASE phase # "down"
    <3> SUFFICES ASSUME phase' \in {"recovering", "up"}, chainOk, ~killSwitch',
                        NEW j \in Keys, item[j].state \in Pending
                 PROVE  \/ InChain(j) \/ worker.key = j \/ BeingSubmitted(j)
                        \/ call'[item[j].by] = "THROWN"
      BY <1>1, <1>3 DEF PendingIsPlaced
    <3>1. item[j].by \in Calls
      BY DEF IInv, OwnedByKey, Present, Pending
    <3> QED BY <1>1, <1>2, <2>2, <3>1 DEF PlacesInv, PendingIsPlaced
  <2> QED BY <2>1, <2>2
<1>6. FinalRowIsLeft'
  BY <1>1, <1>3 DEF PlacesInv, FinalRowIsLeft, Present
<1>7. HalfDoneIsWorked'
  BY <1>1, <1>2 DEF PlacesInv, HalfDoneIsWorked, Recoverable, InFlight
<1> QED BY <1>4, <1>5, <1>6, <1>7 DEF PlacesInv

-----------------------------------------------------------------------------
(* Death and recovery *)
LEMMA DiePlaces ==
    ASSUME IInv, PlacesInv, Crash \/ UnhandledRejection \/ Exit \/ ReloadSaveThrows
    PROVE  PlacesInv'
<1>1. /\ phase' = "down" /\ item' = [k \in Keys |-> Absent] /\ chain' = <<>>
      /\ worker' = Idle /\ locks' = [i \in Instruments |-> NoKey]
  BY DEF Crash, UnhandledRejection, Exit, ReloadSaveThrows, Die
<1>2. LocksFit' /\ NoLockLeftBehind' /\ ChainedOnce'
  BY <1>1 DEF LocksFit, NoLockLeftBehind, ChainedOnce, Idle
<1>3. PendingIsPlaced' /\ FinalRowIsLeft' /\ HalfDoneIsWorked'
  BY <1>1 DEF PendingIsPlaced, FinalRowIsLeft, HalfDoneIsWorked, Present, Absent
<1> QED BY <1>2, <1>3 DEF PlacesInv

(* What onModuleInit does with a row *)
ReloadEffect(k, it) ==
    /\ k \in todo /\ todo' = todo \ {k} /\ phase = "recovering"
    /\ store[k].state \in Pending /\ ~Present(k)
    /\ it.by = store[k].by
    /\ item' = [item EXCEPT ![k] = it] /\ store' = [store EXCEPT ![k] = it]
    /\ \/ it.state = "COMPLETED" /\ chain' = chain
       \/ it.state = "QUEUED" /\ chain' = Append(chain, k)
    /\ UNCHANGED <<killSwitch, phase, chainOk, worker, locks, call, ending>>

LEMMA ReloadIsSuch ==
    ASSUME IInv, (\E k \in Keys : ReloadQueued(k)) \/ ReloadSaved
    PROVE  \E k \in Keys, it \in Item : ReloadEffect(k, it)
<1>t. /\ TypeOK /\ item \in [Keys -> Item] /\ store \in [Keys -> Item]
      /\ worker \in {Idle} \cup [pc : WorkerPc \ {"idle"}, key : Keys] /\ NoKey \notin Keys
      /\ reload \in Keys \cup {NoKey}
  BY OrderQueueAssumption DEF IInv, TypeOK
<1>1. ASSUME NEW k \in Keys, ReloadQueued(k)
      PROVE  \E it \in Item : ReloadEffect(k, it)
  <2>1. /\ k \in todo /\ phase = "recovering" /\ store[k].state = "QUEUED"
        /\ store[k].state \in Pending /\ ~Present(k) /\ store[k] \in Item
        /\ store' = [store EXCEPT ![k] = store[k]]
    BY <1>t, <1>1 DEF ReloadQueued, IInv, StartUp
  <2> QED BY <1>1, <2>1 DEF ReloadEffect, ReloadQueued, Enqueue
<1>2. ASSUME ReloadSaved
      PROVE  reload \in Keys /\ \E it \in Item : ReloadEffect(reload, it)
  <2>1. /\ reload \in Keys /\ reload \in todo /\ phase = "recovering"
        /\ store[reload].state \in Pending /\ ~Present(reload) /\ store[reload] \in Item
    BY <1>t, <1>2 DEF ReloadSaved, IInv, StartUp, TypeOK
  <2>2. /\ Recovered(store[reload]) \in Item
        /\ Recovered(store[reload]).by = store[reload].by
        /\ \/ /\ Recovered(store[reload]).state = "COMPLETED"
              /\ store[reload].state = "SUBMITTED"
           \/ /\ Recovered(store[reload]).state = "QUEUED"
              /\ store[reload].state # "SUBMITTED"
    BY <2>1, RecoveredRow
  <2> QED BY <1>2, <2>1, <2>2 DEF ReloadEffect, ReloadSaved, Saved, Enqueue
<1> QED BY <1>1, <1>2

LEMMA ReloadPlaces ==
    ASSUME IInv, PlacesInv, (\E k \in Keys : ReloadQueued(k)) \/ ReloadSaved
    PROVE  PlacesInv'
<1>t. /\ TypeOK /\ item \in [Keys -> Item] /\ store \in [Keys -> Item]
      /\ worker \in {Idle} \cup [pc : WorkerPc \ {"idle"}, key : Keys] /\ NoKey \notin Keys
      /\ reload \in Keys \cup {NoKey}
  BY OrderQueueAssumption DEF IInv, TypeOK
<1>2. PICK k \in Keys, it \in Item : ReloadEffect(k, it)
  BY ReloadIsSuch
<1> USE DEF ReloadEffect
<1>3. /\ item'[k] = it /\ \A j \in Keys : j # k => item'[j] = item[j]
      /\ store'[k] = it /\ \A j \in Keys : j # k => store'[j] = store[j]
  BY <1>t, <1>2
<1>4. ~InChain(k) /\ worker.key # k /\ ending = {} /\ \A j \in Keys : ~BeingSubmitted(j)
  <2>1. ~InChain(k) /\ ending = {} /\ \A j \in Keys : ~BeingSubmitted(j)
    BY <1>2 DEF IInv, ChainedIsPresent, StartUp, Open, BeingSubmitted
  <2>2. worker.key # k
    BY <1>t, <1>2, WorkerItem DEF Idle
  <2> QED BY <2>1, <2>2
<1>5. /\ \A i, j \in 1..Len(chain') : chain'[i] = chain'[j] => i = j
      /\ \A n \in Keys : InChain(n)' => InChain(n) \/ n = k
      /\ \A n \in Keys : InChain(n) => InChain(n)'
      /\ chain' = Append(chain, k) => InChain(k)'
  BY <1>t, <1>2, <1>4, ChainOnceMore
<1>6. LocksFit' /\ NoLockLeftBehind'
  BY <1>2 DEF PlacesInv, LocksFit, NoLockLeftBehind
<1>7. ChainedOnce'
  <2>1. worker.pc # "idle" => worker.key \in Keys
    BY <1>t DEF Idle
  <2> QED BY <1>2, <1>4, <1>5, <2>1 DEF PlacesInv, ChainedOnce
<1>8. PendingIsPlaced'
  BY <1>2, <1>3, <1>4, <1>5 DEF PlacesInv, PendingIsPlaced, Pending
<1>9. FinalRowIsLeft'
  <2>1. \A j \in Keys : ~BeingSubmitted(j)'
    BY <1>2, <1>4 DEF BeingSubmitted
  <2> QED BY <1>2, <1>3, <1>4, <2>1 DEF PlacesInv, FinalRowIsLeft, Present, Terminal
<1>10. HalfDoneIsWorked'
  BY <1>2, <1>3 DEF PlacesInv, HalfDoneIsWorked, InFlight, Pending
<1> QED BY <1>6, <1>7, <1>8, <1>9, <1>10 DEF PlacesInv

LEMMA InitPlacesInv == Init => PlacesInv
<1> SUFFICES ASSUME Init PROVE PlacesInv
  OBVIOUS
<1>1. LocksFit /\ NoLockLeftBehind /\ ChainedOnce
  BY DEF Init, LocksFit, NoLockLeftBehind, ChainedOnce, Idle
<1>2. PendingIsPlaced /\ FinalRowIsLeft /\ HalfDoneIsWorked
  BY DEF Init, PendingIsPlaced, FinalRowIsLeft, HalfDoneIsWorked, Present, Absent, Pending,
         InFlight
<1> QED BY <1>1, <1>2 DEF PlacesInv

LEMMA NextKeepsPlacesInv == IInv /\ PlacesInv /\ [Next]_vars => PlacesInv'
<1> SUFFICES ASSUME IInv, PlacesInv, [Next]_vars PROVE PlacesInv'
  OBVIOUS
<1>1. ASSUME NEW c \in Calls, CallStep(c) PROVE PlacesInv'
  BY <1>1, QuietStepPlaces, InsertPlaces, SubmitSavePlaces DEF CallStep
<1>2. ASSUME NEW k \in Keys, Cancel(k) \/ Expire(k) \/ EndStep(k) \/ Prune(k)
      PROVE  PlacesInv'
  BY <1>2, CancelExpirePlaces, EndStepPlaces, PrunePlaces
<1>3. CASE WorkerStep
  <2>1. IInv'
    BY NextKeepsIInv
  <2> QED BY <1>3, <2>1, WorkerStepPlaces, WorkerPlacesKeeps
<1>4. CASE RecoveryStep
  BY <1>4, QuietStepPlaces, ReloadPlaces, DiePlaces DEF RecoveryStep
<1>5. CASE CleanupLocks \/ Shutdown \/ UNCHANGED vars
  BY <1>5, QuietStepPlaces
<1>6. CASE Crash \/ UnhandledRejection \/ Exit
  BY <1>6, DiePlaces
<1> QED BY <1>1, <1>2, <1>3, <1>4, <1>5, <1>6 DEF Next

THEOREM PlacesInductive == Spec => [](IInv /\ PlacesInv)
<1>1. Init => IInv /\ PlacesInv
  BY InitIInv, InitPlacesInv
<1>2. (IInv /\ PlacesInv) /\ [Next]_vars => (IInv /\ PlacesInv)'
  BY NextKeepsIInv, NextKeepsPlacesInv
<1> QED BY <1>1, <1>2, PTL DEF Spec

(* No lock outlives the attempt it is for, so no acquisition is in vain. *)
THEOREM LocksAreReleased == Spec => []NoLockLeftBehind
<1>1. PlacesInv => NoLockLeftBehind
  BY DEF PlacesInv
<1> QED BY <1>1, PlacesInductive, PTL

(* While a process listens, what waits is in the chain once, or in the worker. *)
THEOREM NothingIsStranded == Spec => []NoneStranded
<1>1. PlacesInv => NoneStranded
  BY DEF PlacesInv, PendingIsPlaced, NoneStranded, NothingStranded
<1> QED BY <1>1, PlacesInductive, PTL

(* A row is written by the submission, by the end of a cancel or an expiry, by
   the worker and by the reload; never when the item it belongs to is over. *)
LEMMA RowStep ==
    ASSUME IInv, PlacesInv, [Next]_vars, NEW k \in Keys, store'[k] # store[k],
           store[k].state \in Terminal
    PROVE  store'[k].by # store[k].by
<1>t. /\ TypeOK /\ item \in [Keys -> Item] /\ store \in [Keys -> Item]
      /\ worker \in {Idle} \cup [pc : WorkerPc \ {"idle"}, key : Keys] /\ NoKey \notin Keys
      /\ reload \in Keys \cup {NoKey}
  BY OrderQueueAssumption DEF IInv, TypeOK
(* Whoever is about to write the row of k writes the item of k. *)
<1>1. ASSUME Present(k), worker.key = k \/ k \in ending \/ BeingSubmitted(k),
             store'[k] \in {store[k], item[k]}
      PROVE  store'[k].by # store[k].by
  BY <1>1 DEF PlacesInv, FinalRowIsLeft
<1>2. ASSUME NEW c \in Calls, CallStep(c)
      PROVE  store'[k].by # store[k].by
  <2> DEFINE j == KeyOf[c]
  <2>1. /\ call[c] = "saving" /\ j \in Keys
        /\ Saved(j, item[j]) \/ SaveThrows(j, item[j])
    BY <1>2, OrderQueueAssumption
    DEF CallStep, Submit, ValidationFails, Insert, SubmitSaved, SubmitSaveThrows
  <2>2. item[j] \in Item /\ item[j].state = "QUEUED"
    BY <1>t, <2>1 DEF IInv, SavingIsQueued
  <2>3. PICK row \in Item : row \in {store[j], item[j]} /\ store' = [store EXCEPT ![j] = row]
    BY <1>t, <2>1, <2>2, SaveEffect
  <2> QED BY <1>t, <1>1, <2>1, <2>2, <2>3 DEF BeingSubmitted, Present
<1>3. ASSUME NEW j \in Keys, Cancel(j) \/ Expire(j) \/ EndStep(j) \/ Prune(j)
      PROVE  store'[k].by # store[k].by
  <2>1. j \in ending /\ (Saved(j, item[j]) \/ SaveThrows(j, item[j]))
    BY <1>3 DEF Cancel, Expire, EndQueued, EndStep, EndSaved, EndSaveThrows, Prune
  <2>2. item[j] \in Item /\ item[j].state \in {"CANCELLED", "EXPIRED"}
    BY <1>t, <2>1 DEF IInv, EndingIsOver
  <2>3. PICK row \in Item : row \in {store[j], item[j]} /\ store' = [store EXCEPT ![j] = row]
    BY <1>t, <2>1, <2>2, SaveEffect
  <2> QED BY <1>t, <1>1, <2>1, <2>2, <2>3 DEF Present
<1>4. CASE WorkerStep
  <2>1. PICK j \in Keys, it \in Item, row \in Item : WorkerPlaces(j, it, row)
    BY <1>4, WorkerStepPlaces
  <2>2. j = k /\ row # store[k] /\ row = item[k] /\ store'[k] = row
    BY <1>t, <2>1 DEF WorkerPlaces
  <2>3. worker.pc # "idle" /\ worker.key = k
    BY <2>1, <2>2 DEF WorkerPlaces
  <2> QED BY <1>1, <2>2, <2>3, WorkerItem
<1>5. CASE RecoveryStep
  <2>1. /\ reload # NoKey
        /\ store' = [store EXCEPT ![reload] = Recovered(store[reload])]
    BY <1>5 DEF RecoveryStep, Restart, ReloadQueued, ReloadOther, ReloadSaved, Saved,
                ReloadSaveThrows, Listen
  <2>2. reload \in Keys /\ store[reload].state \in Pending
    BY <1>t, <2>1 DEF IInv, StartUp
  <2> QED BY <1>t, <2>1, <2>2 DEF Pending, Terminal
<1>6. CASE CleanupLocks \/ Shutdown \/ Crash \/ UnhandledRejection \/ Exit \/ UNCHANGED vars
  BY <1>6 DEF CleanupLocks, Shutdown, Crash, UnhandledRejection, Exit, Die, vars
<1> QED BY <1>2, <1>3, <1>4, <1>5, <1>6 DEF Next

(* Only `Exit` ends a process without counting a death, and it waits for the
   drain; what it leaves is what no worker is at. *)
LEMMA ExitStep ==
    ASSUME IInv, PlacesInv, [Next]_vars,
           phase = "stopping", phase' = "down", used'.crash = used.crash, NEW k \in Keys
    PROVE  store[k].state \notin InFlight
<1>t. /\ used \in [crash : Nat, stop : Nat, save : Nat, cancel : Nat, expiry : Nat]
      /\ NoKey \notin Keys
  BY OrderQueueAssumption DEF IInv, TypeOK
<1>1. ~Crash /\ ~UnhandledRejection
  <2>1. used.crash + 1 # used.crash
    BY <1>t
  <2>2. Crash \/ UnhandledRejection => used' = [used EXCEPT !.crash = used.crash + 1]
    BY DEF Crash, UnhandledRejection
  <2> QED BY <1>t, <2>1, <2>2
<1>2. todo = {} /\ reload = NoKey
  BY DEF IInv, StartUp, TypeOK
<1>3. Exit
  <2>1. \A c \in Calls : ~CallStep(c)
    BY DEF CallStep, Submit, ValidationFails, Insert, SubmitSaved, SubmitSaveThrows
  <2>2. \A j \in Keys : ~Cancel(j) /\ ~Expire(j) /\ ~EndStep(j) /\ ~Prune(j)
    BY DEF Cancel, Expire, EndQueued, EndStep, EndSaved, EndSaveThrows, Prune
  <2>3. ~WorkerStep
    BY WorkerStepPlaces DEF WorkerPlaces, OutsideWorker
  <2>4. ~RecoveryStep
    BY <1>2 DEF RecoveryStep, Restart, ReloadQueued, ReloadOther, ReloadSaved,
                ReloadSaveThrows, Listen
  <2> QED BY <1>1, <2>1, <2>2, <2>3, <2>4 DEF Next, CleanupLocks, Shutdown, vars
<1> QED BY <1>t, <1>2, <1>3 DEF Exit, Drained, Idle, PlacesInv, HalfDoneIsWorked

(* A terminal row changes only under a new submission, and a graceful exit
   leaves no row half-done. *)
THEOREM FinalRowsStay == Spec => RowsAreFinal
<1>1. (IInv /\ PlacesInv) /\ [Next]_vars =>
         [\A k \in Keys : store[k].state \in Terminal /\ store'[k] # store[k] =>
             store'[k].by # store[k].by]_vars
  BY RowStep
<1>2. (IInv /\ PlacesInv) /\ [Next]_vars =>
         [phase = "stopping" /\ phase' = "down" /\ used'.crash = used.crash =>
             \A k \in Keys : store[k].state \notin InFlight]_vars
  BY ExitStep
<1> QED BY <1>1, <1>2, PlacesInductive, PTL
        DEF Spec, RowsAreFinal, TerminalRowIsFinal, GracefulExitLeavesNoHalfDoneRow

(* An item is replaced only after it left the map. *)
LEMMA OwnerStep ==
    ASSUME IInv, PlacesInv, [Next]_vars, NEW k \in Keys, Present(k), item'[k].state # "NONE"
    PROVE  item'[k].by = item[k].by
<1>t. TypeOK /\ item \in [Keys -> Item] /\ store \in [Keys -> Item]
  BY DEF IInv, TypeOK
<1>1. ASSUME NEW c \in Calls, CallStep(c) PROVE item'[k].by = item[k].by
  BY <1>t, <1>1, OrderQueueAssumption
  DEF CallStep, Submit, ValidationFails, Insert, SubmitSaved, SubmitSaveThrows
<1>2. ASSUME NEW j \in Keys, Cancel(j) \/ Expire(j) \/ EndStep(j) \/ Prune(j)
      PROVE  item'[k].by = item[k].by
  BY <1>t, <1>2 DEF Cancel, Expire, EndQueued, EndStep, EndSaved, EndSaveThrows, Prune,
                    WithState, Item, Absent
<1>3. CASE WorkerStep
  BY <1>t, <1>3, WorkerStepPlaces DEF WorkerPlaces
<1>4. CASE RecoveryStep
  <2>1. CASE (\E j \in Keys : ReloadQueued(j)) \/ ReloadSaved
    <3>1. PICK j \in Keys, it \in Item : ReloadEffect(j, it)
      BY <2>1, ReloadIsSuch
    <3> QED BY <1>t, <3>1 DEF ReloadEffect
  <2>2. CASE ReloadSaveThrows
    BY <2>2 DEF ReloadSaveThrows, Absent
  <2> QED BY <1>4, <2>1, <2>2 DEF RecoveryStep, Restart, ReloadOther, Listen
<1>5. CASE CleanupLocks \/ Shutdown \/ Crash \/ UnhandledRejection \/ Exit \/ UNCHANGED vars
  BY <1>5 DEF CleanupLocks, Shutdown, Crash, UnhandledRejection, Exit, Die, Absent, vars
<1> QED BY <1>1, <1>2, <1>3, <1>4, <1>5 DEF Next

(* Of two submissions of a key, the later one never takes the item over. *)
THEOREM FirstSubmissionStays == Spec => FirstSubmissionWins
<1>1. (IInv /\ PlacesInv) /\ [Next]_vars =>
         [\A k \in Keys : Present(k) /\ item'[k].state # "NONE" =>
             item'[k].by = item[k].by]_vars
  BY OwnerStep
<1> QED BY <1>1, PlacesInductive, PTL DEF Spec, FirstSubmissionWins

-----------------------------------------------------------------------------
(* The queue implements ExactlyOnce, as far as safety goes, when nothing crashes
   and no save fails.  Users cancel, items expire, and one that was ended in the
   chain rejects it and ends the process; retries, the kill switch, the clean-up
   of items and locks and any number of graceful restarts remain as well. *)
Faultless == MaxCrashes = 0 /\ MaxSaveFaults = 0

LEMMA NothingFails ==
    ASSUME IInv, Faultless
    PROVE  /\ \A k \in Keys, it \in Item : ~SaveThrows(k, it)
           /\ ~Crash /\ ~ReloadSaveThrows
<1>1. {used.save, used.crash} \subseteq Nat
  BY DEF IInv, TypeOK
<1> QED BY <1>1 DEF Faultless, SaveThrows, Crash, ReloadSaveThrows

(* The worker's steps: an item that is attempted was QUEUED or RETRYING, and one
   that failed was PROCESSING, unless it was ended in the chain; then nothing but
   the chain changes. *)
LEMMA FaultlessWorker ==
    ASSUME IInv, PlacesInv, Faultless, WorkerStep
    PROVE  /\ ~chainOk' => worker.pc = "idle" /\ UNCHANGED <<item, store>>
           /\ CreateTrade \/ UNCHANGED made
           /\ \A k \in Keys :
                /\ item[k].state \in {"SUBMITTED", "COMPLETED"} =>
                     item'[k].state \in {"SUBMITTED", "COMPLETED"}
                /\ item[k].state = "SUBMITTED" /\ item'[k].state = "COMPLETED" =>
                     store'[k] = item[k]
<1> DEFINE w == worker.key
           Quiet == \A k \in Keys :
               /\ item[k].state \in {"SUBMITTED", "COMPLETED"} => item'[k] = item[k]
<1>t. /\ TypeOK /\ chain \in Seq(Keys) /\ locks \in [Instruments -> Keys \cup {NoKey}]
      /\ worker \in {Idle} \cup [pc : WorkerPc \ {"idle"}, key : Keys]
      /\ item \in [Keys -> Item] /\ store \in [Keys -> Item] /\ chainOk \in BOOLEAN
      /\ \A k \in Keys : InstrumentOf[k] \in Instruments /\ item[k] \in Item
  BY OrderQueueAssumption DEF IInv, TypeOK
<1>w. worker.pc # "idle" =>
         w \in Keys /\ item[w] \in Item /\ item[w].state = StateAt[worker.pc] /\ chainOk
  BY <1>t, WorkerItem DEF IInv, WorkerAtItem
<1>n. \A k \in Keys, it \in Item : ~SaveThrows(k, it)
  BY NothingFails
<1>l. ASSUME NEW k \in Keys, worker.pc \in {"idle", "backoff"}, chainOk, StartAttempt(k)
      PROVE  /\ ~chainOk' => ~CanTransition(item[k].state, "LOCKED") /\ UNCHANGED item
             /\ Quiet
  <2>1. locks[InstrumentOf[k]] = NoKey
    BY <1>t, <1>l DEF PlacesInv, NoLockLeftBehind
  <2>2. CASE CanTransition(item[k].state, "LOCKED")
    <3>1. chainOk' = chainOk /\ item' = [item EXCEPT ![k] = WithState(item[k], "LOCKED")]
      BY <1>l, <2>1, <2>2 DEF StartAttempt
    <3>2. item[k].state \notin {"SUBMITTED", "COMPLETED"}
      BY <2>2 DEF CanTransition, TransitionTable
    <3> QED BY <1>t, <1>l, <3>1, <3>2
  <2>3. CASE ~CanTransition(item[k].state, "LOCKED")
    BY <1>l, <2>1, <2>3 DEF StartAttempt
  <2> QED BY <2>2, <2>3
<1>1. CASE Dequeue
  <2>1. /\ worker.pc = "idle" /\ chainOk /\ chain # <<>> /\ UNCHANGED <<made, store>>
        /\ StartAttempt(Head(chain)) \/ UNCHANGED <<chainOk, item>>
    BY <1>1 DEF Dequeue, At
  <2>2. Head(chain) \in Keys
    BY <1>t, <2>1
  <2>3. (~chainOk' => UNCHANGED item) /\ Quiet
    BY <1>l, <2>1, <2>2
  <2> QED BY <2>1, <2>3
<1>2. CASE Retry
  <2>1. worker.pc = "backoff" /\ StartAttempt(w) /\ UNCHANGED <<made, store>>
    BY <1>2 DEF Retry, At
  <2>2. CanTransition(item[w].state, "LOCKED")
    BY <1>w, <2>1 DEF StateAt, WorkerPc, CanTransition, TransitionTable
  <2> QED BY <1>l, <1>w, <2>1, <2>2
<1>3. CASE AttemptFails
  <2>1. /\ worker.pc = "building" /\ UNCHANGED made
        /\ \E permanent \in BOOLEAN : HandleFailure(w, permanent)
    BY <1>3 DEF AttemptFails, At
  <2>2. item[w].state = "PROCESSING"
    BY <1>w, <2>1 DEF StateAt, WorkerPc
  <2>3. CanTransition(item[w].state, "FAILED") /\ CanRetry(item[w])
    BY <2>2 DEF CanRetry, CanTransition, TransitionTable
  <2>4. chainOk' = chainOk /\ \E it : item' = [item EXCEPT ![w] = it]
    BY <2>1, <2>3 DEF HandleFailure
  <2> QED BY <1>t, <1>w, <2>1, <2>2, <2>4
<1>4. CASE EarlySaveThrows \/ LateSaveThrows \/ FailureSaveThrows
  BY <1>n, <1>w, <1>4 DEF EarlySaveThrows, LateSaveThrows, FailureSaveThrows, At
<1>5. CASE LockedSaved
  <2>1. /\ item' = [item EXCEPT ![w] = WithState(item[w], "PROCESSING")]
        /\ item[w].state = "LOCKED" /\ w \in Keys /\ UNCHANGED <<made, chainOk>> /\ chainOk
    BY <1>w, <1>5 DEF LockedSaved, At, StateAt, WorkerPc
  <2> QED BY <1>t, <2>1
<1>6. CASE CreateTrade
  <2>1. /\ item' = [item EXCEPT ![w] = WithState(item[w], "SUBMITTED")]
        /\ item[w].state = "PROCESSING" /\ w \in Keys /\ chainOk' = chainOk /\ chainOk
    BY <1>w, <1>6 DEF CreateTrade, At, StateAt, WorkerPc
  <2> QED BY <1>t, <1>6, <2>1
<1>7. CASE SubmittedSaved
  <2>1. /\ item' = [item EXCEPT ![w] = WithState(item[w], "COMPLETED")]
        /\ store' = [store EXCEPT ![w] = item[w]]
        /\ w \in Keys /\ UNCHANGED <<made, chainOk>> /\ chainOk
    BY <1>w, <1>7 DEF SubmittedSaved, Saved, At
  <2>2. item'[w].state = "COMPLETED" /\ \A k \in Keys : k # w => item'[k] = item[k]
    BY <1>t, <1>w, <1>7, <2>1 DEF WithState, Item, SubmittedSaved, At
  <2> QED BY <1>t, <2>1, <2>2
<1>8. CASE ProcessingSaved \/ CompletedSaved \/ RetryingSaved \/ FailedSaved
  <2>1. UNCHANGED <<item, made, chainOk>> /\ chainOk
    BY <1>8 DEF ProcessingSaved, CompletedSaved, RetryingSaved, FailedSaved, At
  <2> QED BY <2>1
<1> QED BY <1>1, <1>2, <1>3, <1>4, <1>5, <1>6, <1>7, <1>8 DEF WorkerStep

-----------------------------------------------------------------------------
(* An answered request is alive as long as the row of its key is its own and
   pending. *)
LEMMA AliveIsItsRow ==
    ASSUME OwnedByKey, NEW c \in Calls
    PROVE  Alive(c) <=> store[KeyOf[c]].by = c /\ store[KeyOf[c]].state \in Pending
<1>1. \A k \in Keys : store[k].by = c /\ store[k].state \in Pending => KeyOf[c] = k
  BY DEF OwnedByKey, Pending
<1> QED BY <1>1, OrderQueueAssumption DEF Alive

LEMMA SameStatus ==
    ASSUME IInv, NEW c \in Calls, made'[c] = made[c],
           call'[c] = "QUEUED" <=> call[c] = "QUEUED",
           made[c] = 0 /\ call[c] = "QUEUED" => (Alive(c)' <=> Alive(c))
    PROVE  StatusOf(c)' = StatusOf(c)
<1>1. made[c] \in Nat
  BY DEF IInv, TypeOK
<1> QED BY <1>1 DEF StatusOf

(* What a step may do to the status of one request *)
StatusMove(c) ==
    \/ StatusOf(c)' = StatusOf(c) /\ made'[c] = made[c]
    \/ StatusOf(c) = "none" /\ StatusOf(c)' = "accepted" /\ made'[c] = made[c]
    \/ StatusOf(c) = "accepted" /\ StatusOf(c)' = "executed" /\ made'[c] = made[c] + 1
    \/ StatusOf(c) = "accepted" /\ StatusOf(c)' = "dropped" /\ made'[c] = made[c]

OnlyMoves(c) ==
    /\ StatusMove(c)
    /\ \A d \in Calls : d # c => StatusOf(d)' = StatusOf(d) /\ made'[d] = made[d]

LEMMA OneMoveIsAPromiseStep ==
    ASSUME TypeOK, TypeOK', NEW c \in Calls, OnlyMoves(c)
    PROVE  [Promise!Next]_(Promise!vars)
<1> DEFINE status == [d \in Calls |-> StatusOf(d)]
           next == [d \in Calls |-> StatusOf(d)']
<1>t. /\ made \in [Calls -> Nat] /\ made' \in [Calls -> Nat]
      /\ status' = next
  BY DEF TypeOK
<1>1. next = [status EXCEPT ![c] = StatusOf(c)']
  BY DEF OnlyMoves
<1>2. made' = [made EXCEPT ![c] = made'[c]]
  BY <1>t DEF OnlyMoves
<1>3. CASE StatusOf(c)' = StatusOf(c) /\ made'[c] = made[c]
  <2>1. next = status /\ made' = made
    BY <1>t, <1>1, <1>2, <1>3
  <2> QED BY <1>t, <2>1 DEF Promise!vars
<1>4. CASE StatusOf(c) = "none" /\ StatusOf(c)' = "accepted" /\ made'[c] = made[c]
  <2>1. made' = made
    BY <1>t, <1>2, <1>4
  <2>2. Promise!Accept(c)
    BY <1>t, <1>1, <1>4, <2>1 DEF Promise!Accept
  <2> QED BY <2>2 DEF Promise!Next
<1>5. CASE StatusOf(c) = "accepted" /\ StatusOf(c)' = "executed" /\ made'[c] = made[c] + 1
  <2>1. made' = [made EXCEPT ![c] = made[c] + 1]
    BY <1>2, <1>5
  <2>2. Promise!Execute(c)
    BY <1>t, <1>1, <1>5, <2>1 DEF Promise!Execute
  <2> QED BY <2>2 DEF Promise!Next
<1>6. CASE StatusOf(c) = "accepted" /\ StatusOf(c)' = "dropped" /\ made'[c] = made[c]
  <2>1. made' = made
    BY <1>t, <1>2, <1>6
  <2>2. Promise!Drop(c)
    BY <1>t, <1>1, <1>6, <2>1 DEF Promise!Drop
  <2> QED BY <2>2 DEF Promise!Next
<1> QED BY <1>3, <1>4, <1>5, <1>6 DEF StatusMove, OnlyMoves



AllKept == \A c \in Calls : StatusOf(c)' = StatusOf(c) /\ made'[c] = made[c]

LEMMA NoMoveIsAStutter ==
    ASSUME TypeOK, TypeOK', AllKept
    PROVE  [Promise!Next]_(Promise!vars)
<1> DEFINE status == [d \in Calls |-> StatusOf(d)]
<1>1. made \in [Calls -> Nat] /\ made' \in [Calls -> Nat]
  BY DEF TypeOK
<1>2. made' = made /\ status' = status
  BY <1>1 DEF AllKept
<1> QED BY <1>2 DEF Promise!vars

LEMMA WorkerKeepsFaultless ==
    ASSUME IInv, PlacesInv, FaultlessInv, Faultless, WorkerStep
    PROVE  /\ FaultlessInv'
           /\ \E c \in Calls : OnlyMoves(c)
<1> USE DEF FaultlessInv
<1>1. PICK k \in Keys, it \in Item, row \in Item : WorkerPlaces(k, it, row)
  BY WorkerStepPlaces
<1> USE <1>1 DEF WorkerPlaces
<1>2. /\ ~chainOk' => worker.pc = "idle" /\ UNCHANGED <<item, store>>
      /\ CreateTrade \/ UNCHANGED made
      /\ \A j \in Keys :
            /\ item[j].state \in {"SUBMITTED", "COMPLETED"} =>
                 item'[j].state \in {"SUBMITTED", "COMPLETED"}
            /\ item[j].state = "SUBMITTED" /\ item'[j].state = "COMPLETED" =>
                 store'[j] = item[j]
  BY FaultlessWorker
<1>t. /\ item \in [Keys -> Item] /\ store \in [Keys -> Item] /\ chain \in Seq(Keys)
      /\ made \in [Calls -> Nat]
      /\ worker \in {Idle} \cup [pc : WorkerPc \ {"idle"}, key : Keys]
      /\ \A j \in Keys : item[j] \in Item /\ store[j] \in Item
  BY DEF IInv, TypeOK
<1>i. /\ item'[k] = it /\ \A j \in Keys : j # k => item'[j] = item[j]
      /\ store'[k] = row /\ \A j \in Keys : j # k => store'[j] = store[j]
  BY <1>t
<1>o. call' = call /\ phase' = phase /\ ending' = ending /\ todo' = todo
  BY DEF OutsideWorker
<1> DEFINE c == item[k].by
<1>p. Present(k) /\ c \in Calls /\ KeyOf[c] = k /\ call[c] = "QUEUED"
  <2>1. CASE worker.pc # "idle"
    <3>1. worker.key = k
      BY <2>1 DEF Idle
    <3>2. Present(k) /\ item[k].state # "QUEUED"
      BY <2>1, <3>1, WorkerItem
    <3> QED BY <3>2 DEF OwnersAreAnswered, IInv, SavingIsQueued, OwnedByKey
  <2>2. CASE worker.pc = "idle"
    <3>1. InChain(k) /\ Present(k)
      BY <1>t, <2>2 DEF InChain, IInv, ChainedIsPresent
    <3> QED BY <3>1 DEF OwnersAreAnswered, IInv, SavingIsQueued, OwnedByKey
  <2> QED BY <2>1, <2>2
<1>n. it.state # "NONE"
  <2>1. IInv'
    BY NextKeepsIInv DEF Next
  <2>2. WorkerAtItem' /\ worker' \in {Idle} \cup [pc : WorkerPc \ {"idle"}, key : Keys]
    BY <2>1 DEF IInv, TypeOK
  <2>3. CASE worker'.pc # "idle"
    <3>1. worker'.key = k /\ it.state = StateAt[worker'.pc] /\ worker'.pc \in WorkerPc \ {"idle"}
      BY <1>i, <2>2, <2>3 DEF WorkerAtItem, Idle
    <3> QED BY <3>1 DEF StateAt, WorkerPc
  <2> QED BY <1>2, <1>i, <1>p, <2>3 DEF Idle, Present, Terminal
<1>q. \A j \in Keys :
        j # k => /\ Present(j) => item[j].by # c
                 /\ store[j].state # "NONE" => store[j].by # c
  BY <1>p DEF IInv, OwnedByKey
<1>3. OwnersAreAnswered'
  BY <1>i, <1>o, <1>p, <1>n DEF OwnersAreAnswered, Present
<1>r. /\ store[k].state \in Pending => store[k].by = c
      /\ row.state \in Pending => row.by = c
      /\ item[k].state \in Pending => store[k].state \in Pending /\ store[k].by = c
  <2>1. k \notin todo /\ phase # "down"
    BY <1>p DEF IInv, StartUp
  <2> QED BY <1>p, <2>1 DEF RowsFollowItems
<1>4. RowsFollowItems'
  <2>1. it.state \in Pending => row.state \in Pending /\ row.by = it.by
    <3>1. it.state \in Pending => item[k].state \in Pending
      BY <1>p, <1>n, <1>t DEF Item, ItemState, Present, Pending, Terminal
    <3> QED BY <1>r, <3>1
  <2>2. it.state \in Terminal /\ worker'.key # k /\ k \notin ending => row.state \in Terminal
    <3>1. worker.pc = "idle" => worker.key # k
      BY <1>t, OrderQueueAssumption DEF Idle
    <3>2. CASE ~chainOk'
      BY <1>2, <1>i, <3>1, <3>2 DEF RowsFollowItems
    <3>3. CASE chainOk'
      BY <1>i, <3>1, <3>3 DEF RowsFollowItems, Idle
    <3> QED BY <3>2, <3>3
  <2> SUFFICES ASSUME NEW j \in Keys
               PROVE  /\ store'[j].state \in Pending =>
                            \/ Present(j)' /\ item'[j].by = store'[j].by
                            \/ ~Present(j)' /\ (phase' = "down" \/ j \in todo')
                      /\ item'[j].state \in Pending /\ call'[item'[j].by] = "QUEUED" =>
                            store'[j].state \in Pending /\ store'[j].by = item'[j].by
                      /\ item'[j].state \in Terminal /\ worker'.key # j /\ j \notin ending' =>
                            store'[j].state \in Terminal
    BY DEF RowsFollowItems
  <2>3. CASE j = k
    BY <1>i, <1>n, <1>o, <1>r, <2>1, <2>2, <2>3 DEF Present
  <2>4. CASE j # k
    <3>1. worker.key # j
      BY <2>4, OrderQueueAssumption DEF Idle
    <3> HIDE DEF WorkerPlaces
    <3> QED BY <1>i, <1>o, <2>4, <3>1 DEF RowsFollowItems, Present
  <2> QED BY <2>3, <2>4
<1>5. ~chainOk' => \A j \in Keys : item'[j].state \notin InFlight
  BY <1>2 DEF IInv, InFlightIsWorked
<1>6. CASE CreateTrade
  <2>1. /\ made' = [made EXCEPT ![item[worker.key].by] = made[item[worker.key].by] + 1]
        /\ item' = [item EXCEPT ![worker.key] = WithState(item[worker.key], "SUBMITTED")]
        /\ UNCHANGED store /\ worker.pc = "building"
    BY <1>6 DEF CreateTrade, At
  <2>2. worker.key = k
    BY <2>1 DEF Idle
  <2>3. /\ item[k].state = "PROCESSING" /\ store[k].state = "PROCESSING" /\ store[k].by = c
    BY <2>1, <2>2 DEF IInv, WorkerAtItem, StateAt, WorkerPc
  <2>4. made[c] = 0
    BY <2>3 DEF MayBeMade
  <2>5. /\ made'[c] = 1 /\ \A d \in Calls : d # c => made'[d] = made[d]
        /\ it.state = "SUBMITTED" /\ it.by = c
    BY <1>p, <1>t, <1>i, <2>1, <2>2, <2>4 DEF WithState, Item
  <2>6. ExactlyOnceExecution'
    BY <1>t, <2>5 DEF ExactlyOnceExecution
  <2>7. MayBeMade'
    <3>1. \A j \in Keys : item'[j].state \notin {"NONE", "SUBMITTED", "COMPLETED"} =>
             made'[item'[j].by] = 0
      <4> SUFFICES ASSUME NEW j \in Keys,
                          item'[j].state \notin {"NONE", "SUBMITTED", "COMPLETED"}
                   PROVE  made'[item'[j].by] = 0
        OBVIOUS
      <4>1. j # k /\ item'[j] = item[j]
        BY <1>i, <2>5
      <4>2. made[item[j].by] = 0 /\ item[j].by \in Calls /\ item[j].by # c
        BY <1>q, <4>1 DEF MayBeMade, IInv, OwnedByKey, Present
      <4> QED BY <2>5, <4>1, <4>2
    <3>2. ASSUME NEW j \in Keys, store[j].state \in Pending \ {"SUBMITTED"}
          PROVE  \/ made'[store[j].by] = 0
                 \/ item'[j].state = "SUBMITTED" /\ item'[j].by = store[j].by
      <4>1. CASE j = k
        BY <1>i, <2>3, <2>5, <4>1
      <4>2. CASE j # k
        <5>1. store[j].by \in Calls /\ store[j].by # c
          BY <1>q, <3>2, <4>2 DEF IInv, OwnedByKey, Pending
        <5> QED BY <1>i, <2>5, <3>2, <4>2, <5>1 DEF MayBeMade
      <4> QED BY <4>1, <4>2
    <3> QED BY <1>5, <2>1, <3>1, <3>2 DEF MayBeMade
  <2>8. StatusMove(c)
    <3>1. Alive(c)
      BY <2>3 DEF Alive, Pending
    <3> QED BY <1>p, <2>4, <2>5, <3>1 DEF StatusMove, StatusOf
  <2>9. ASSUME NEW d \in Calls, d # c PROVE StatusOf(d)' = StatusOf(d) /\ made'[d] = made[d]
    BY <1>o, <2>1, <2>5, <2>9, SameStatus DEF Alive
  <2> QED BY <1>3, <1>4, <1>p, <2>6, <2>7, <2>8, <2>9 DEF OnlyMoves
<1>7. CASE UNCHANGED made
  <2>1. MayBeMade'
    <3>1. ASSUME NEW j \in Keys, item'[j].state \notin {"NONE", "SUBMITTED", "COMPLETED"}
          PROVE  made[item'[j].by] = 0
      <4>1. CASE j = k
        BY <1>2, <1>i, <1>p, <3>1, <4>1 DEF MayBeMade, Present
      <4>2. CASE j # k
        BY <1>i, <3>1, <4>2 DEF MayBeMade
      <4> QED BY <4>1, <4>2
    <3>2. ASSUME NEW j \in Keys, store'[j].state \in Pending \ {"SUBMITTED"}
          PROVE  \/ made[store'[j].by] = 0
                 \/ item'[j].state = "SUBMITTED" /\ item'[j].by = store'[j].by
      <4>1. CASE j = k /\ row = store[k]
        BY <1>2, <1>i, <3>2, <4>1 DEF MayBeMade
      <4>2. CASE j = k /\ row = item[k]
        BY <1>i, <3>2, <4>2 DEF MayBeMade, Pending
      <4>3. CASE j # k
        BY <1>i, <3>2, <4>3 DEF MayBeMade
      <4> QED BY <4>1, <4>2, <4>3
    <3> QED BY <1>5, <1>7, <3>1, <3>2 DEF MayBeMade
  <2>2. Alive(c) <=> store[k].by = c /\ store[k].state \in Pending
    BY <1>p, AliveIsItsRow DEF IInv
  <2>i. OwnedByKey'
    BY NextKeepsIInv DEF Next, IInv
  <2>3. \A d \in Calls : Alive(d)' <=> store'[KeyOf[d]].by = d /\ store'[KeyOf[d]].state \in Pending
    <3>1. \A j \in Keys, d \in Calls :
             store'[j].by = d /\ store'[j].state \in Pending => KeyOf[d] = j
      BY <2>i DEF OwnedByKey, Pending
    <3> QED BY <3>1, OrderQueueAssumption DEF Alive
  <2>4. Alive(c)' => Alive(c)
    BY <1>i, <1>p, <1>r, <2>2, <2>3
  <2>5. StatusMove(c)
    BY <1>o, <1>p, <1>t, <1>7, <2>4 DEF StatusMove, StatusOf
  <2>6. ASSUME NEW d \in Calls, d # c PROVE StatusOf(d)' = StatusOf(d) /\ made'[d] = made[d]
    <3>1. Alive(d) <=> store[KeyOf[d]].by = d /\ store[KeyOf[d]].state \in Pending
      BY AliveIsItsRow DEF IInv
    <3>2. Alive(d)' <=> Alive(d)
      BY <1>i, <1>r, <2>3, <2>6, <3>1, OrderQueueAssumption
    <3> QED BY <1>o, <1>7, <3>2, SameStatus
  <2>7. ExactlyOnceExecution'
    BY <1>7 DEF ExactlyOnceExecution
  <2> QED BY <1>3, <1>4, <1>p, <2>1, <2>5, <2>6, <2>7 DEF OnlyMoves
<1> QED BY <1>2, <1>6, <1>7

(* Steps that touch neither the items nor the rows nor the trades *)
LEMMA QuietStepFaultless ==
    ASSUME IInv, FaultlessInv,
           \/ \E c \in Calls : Submit(c) \/ ValidationFails(c) \/ (Insert(c) /\ item' = item)
           \/ CleanupLocks \/ Shutdown \/ Restart \/ Listen
           \/ \E k \in Keys : ReloadOther(k)
           \/ UNCHANGED vars
    PROVE  FaultlessInv' /\ AllKept
<1> USE DEF FaultlessInv
<1>t. call \in [Calls -> Outcomes \cup {"ready", "validating", "saving"}]
  BY DEF IInv, TypeOK
<1>1. UNCHANGED <<item, store, chainOk, worker, ending, made>>
  BY DEF Submit, ValidationFails, Insert, CleanupLocks, Shutdown, Restart, Listen, ReloadOther,
         vars
<1>2. \A c \in Calls : \/ call'[c] = call[c]
                       \/ /\ call[c] \in {"ready", "validating"}
                          /\ call'[c] # "QUEUED"
  <2>1. ASSUME NEW c \in Calls, Submit(c) \/ ValidationFails(c) \/ Insert(c)
        PROVE  /\ \A d \in Calls : d # c => call'[d] = call[d]
               /\ call[c] \in {"ready", "validating"} /\ call'[c] # "QUEUED"
    BY <1>t, <2>1 DEF Submit, ValidationFails, Insert
  <2>2. CASE UNCHANGED call
    BY <2>2
  <2> QED BY <2>1, <2>2 DEF CleanupLocks, Shutdown, Restart, Listen, ReloadOther, vars
<1>3. \/ phase' = phase /\ todo' = todo
      \/ phase # "down" /\ phase' # "down" /\ todo' = todo
      \/ phase = "down" /\ todo' = Recoverable
  BY DEF Submit, ValidationFails, Insert, CleanupLocks, Shutdown, Restart, Listen, ReloadOther,
         vars
<1>4. \A k \in Keys : /\ Present(k) => call'[item[k].by] = call[item[k].by]
                      /\ store[k].state # "NONE" => call'[store[k].by] = call[store[k].by]
  BY <1>2 DEF IInv, OwnedByKey, OwnersAreAnswered
<1>5. OwnersAreAnswered'
  BY <1>1, <1>4 DEF OwnersAreAnswered, Present
<1>6. RowsFollowItems'
  <2>1. \A k \in Keys : item[k].state \in Pending => Present(k)
    BY DEF Present, Pending
  <2>2. \A k \in Keys : store[k].state \in Pending /\ ~Present(k) =>
                           (phase' = "down" \/ k \in todo')
    BY <1>3 DEF RowsFollowItems, Recoverable
  <2> QED BY <1>1, <1>4, <2>1, <2>2 DEF RowsFollowItems, Present
<1>7. MayBeMade' /\ ExactlyOnceExecution'
  BY <1>1 DEF MayBeMade, ExactlyOnceExecution
<1>8. AllKept
  <2> SUFFICES ASSUME NEW c \in Calls PROVE StatusOf(c)' = StatusOf(c) /\ made'[c] = made[c]
    BY DEF AllKept
  <2>1. Alive(c)' <=> Alive(c)
    BY <1>1 DEF Alive
  <2>2. call'[c] = "QUEUED" <=> call[c] = "QUEUED"
    BY <1>2
  <2> QED BY <1>1, <2>1, <2>2, SameStatus
<1> QED BY <1>5, <1>6, <1>7, <1>8

LEMMA InsertFaultless ==
    ASSUME IInv, FaultlessInv, NEW c \in Calls, Insert(c), item' # item
    PROVE  FaultlessInv' /\ AllKept
<1> USE DEF FaultlessInv
<1> DEFINE k == KeyOf[c]
<1>t. /\ k \in Keys /\ item \in [Keys -> Item]
      /\ call \in [Calls -> Outcomes \cup {"ready", "validating", "saving"}]
  BY OrderQueueAssumption DEF IInv, TypeOK
<1>1. /\ call[c] = "validating" /\ call' = [call EXCEPT ![c] = "saving"] /\ ~Present(k)
      /\ item' = [item EXCEPT ![k] = [state |-> "QUEUED", attempts |-> 0, by |-> c]]
      /\ UNCHANGED <<phase, store, chainOk, worker, ending, todo, made>>
  BY DEF Insert
<1>2. /\ item'[k].state = "QUEUED" /\ item'[k].by = c
      /\ \A j \in Keys : j # k => item'[j] = item[j]
      /\ call'[c] = "saving" /\ \A d \in Calls : d # c => call'[d] = call[d]
  BY <1>1, <1>t
<1>3. made[c] = 0 /\ \A j \in Keys : item[j].by # c /\ store[j].by # c
  BY <1>1 DEF IInv, CallsOwnNothingYet
<1>4. store[k].state \notin Pending
  <2>1. phase # "down" /\ k \notin todo
    BY <1>1 DEF IInv, StartUp, Open
  <2> QED BY <1>1, <1>t, <2>1 DEF RowsFollowItems
<1>o. \A j \in Keys : /\ Present(j) => item[j].by \in Calls \ {c}
                      /\ store[j].state # "NONE" => store[j].by \in Calls \ {c}
  BY <1>3 DEF IInv, OwnedByKey
<1>5. OwnersAreAnswered'
  BY <1>1, <1>2, <1>o DEF OwnersAreAnswered, Present
<1>6. RowsFollowItems'
  <2> SUFFICES ASSUME NEW j \in Keys
               PROVE  /\ store[j].state \in Pending =>
                            \/ Present(j)' /\ item'[j].by = store[j].by
                            \/ ~Present(j)' /\ (phase = "down" \/ j \in todo)
                      /\ item'[j].state \in Pending /\ call'[item'[j].by] = "QUEUED" =>
                            store[j].state \in Pending /\ store[j].by = item'[j].by
                      /\ item'[j].state \in Terminal /\ worker.key # j /\ j \notin ending =>
                            store[j].state \in Terminal
    BY <1>1 DEF RowsFollowItems
  <2>1. CASE j = k
    BY <1>2, <1>4, <2>1 DEF Terminal
  <2>2. CASE j # k
    <3>1. item[j].state \in Pending => Present(j)
      BY DEF Present, Pending
    <3> QED BY <1>2, <1>o, <2>2, <3>1 DEF RowsFollowItems, Present
  <2> QED BY <2>1, <2>2
<1>7. MayBeMade' /\ ExactlyOnceExecution'
  BY <1>1, <1>2, <1>3, <1>4 DEF MayBeMade, ExactlyOnceExecution, InFlight
<1>8. AllKept
  <2> SUFFICES ASSUME NEW d \in Calls PROVE StatusOf(d)' = StatusOf(d) /\ made'[d] = made[d]
    BY DEF AllKept
  <2>1. (Alive(d)' <=> Alive(d)) /\ (call'[d] = "QUEUED" <=> call[d] = "QUEUED")
    BY <1>1, <1>2 DEF Alive
  <2> QED BY <1>1, <2>1, SameStatus
<1> QED BY <1>5, <1>6, <1>7, <1>8

(* The row is written and the request is accepted. *)
LEMMA SubmitFaultless ==
    ASSUME IInv, FaultlessInv, NEW c \in Calls, SubmitSaved(c)
    PROVE  FaultlessInv' /\ OnlyMoves(c)
<1> USE DEF FaultlessInv
<1> DEFINE k == KeyOf[c]
<1>t. /\ TypeOK /\ k \in Keys /\ store \in [Keys -> Item]
      /\ call \in [Calls -> Outcomes \cup {"ready", "validating", "saving"}]
      /\ made \in [Calls -> Nat]
  BY OrderQueueAssumption DEF IInv, TypeOK
<1>1. /\ call[c] = "saving" /\ call' = [call EXCEPT ![c] = "QUEUED"]
      /\ store' = [store EXCEPT ![k] = item[k]]
      /\ UNCHANGED <<phase, item, chainOk, worker, ending, todo, made>>
  BY DEF SubmitSaved, Saved
<1>2. /\ item[k].state = "QUEUED" /\ item[k].by = c /\ Present(k)
      /\ store'[k] = item[k] /\ \A j \in Keys : j # k => store'[j] = store[j]
      /\ call'[c] = "QUEUED" /\ \A d \in Calls : d # c => call'[d] = call[d]
  BY <1>1, <1>t DEF IInv, SavingIsQueued, Present
<1>o. \A j \in Keys :
         j # k => /\ Present(j) => item[j].by \in Calls \ {c}
                  /\ store[j].state # "NONE" => store[j].by \in Calls \ {c}
  BY DEF IInv, OwnedByKey
<1>3. OwnersAreAnswered'
  BY <1>1, <1>2, <1>o DEF OwnersAreAnswered, Present
<1>4. RowsFollowItems'
  <2> SUFFICES ASSUME NEW j \in Keys
               PROVE  /\ store'[j].state \in Pending =>
                            \/ Present(j) /\ item[j].by = store'[j].by
                            \/ ~Present(j) /\ (phase = "down" \/ j \in todo)
                      /\ item[j].state \in Pending /\ call'[item[j].by] = "QUEUED" =>
                            store'[j].state \in Pending /\ store'[j].by = item[j].by
                      /\ item[j].state \in Terminal /\ worker.key # j /\ j \notin ending =>
                            store'[j].state \in Terminal
    BY <1>1 DEF RowsFollowItems, Present
  <2>1. CASE j = k
    BY <1>2, <2>1 DEF Terminal
  <2>2. CASE j # k
    <3>1. item[j].state \in Pending => Present(j)
      BY DEF Present, Pending
    <3> QED BY <1>2, <1>o, <2>2, <3>1 DEF RowsFollowItems
  <2> QED BY <2>1, <2>2
<1>5. made[c] = 0
  BY <1>2, <1>t DEF MayBeMade
<1>6. MayBeMade' /\ ExactlyOnceExecution'
  BY <1>1, <1>2, <1>5 DEF MayBeMade, ExactlyOnceExecution
<1>7. StatusMove(c)
  <2>1. Alive(c)'
    BY <1>2, <1>t DEF Alive, Pending
  <2> QED BY <1>1, <1>2, <1>5, <2>1 DEF StatusOf, StatusMove
<1>8. ASSUME NEW d \in Calls, d # c PROVE StatusOf(d)' = StatusOf(d) /\ made'[d] = made[d]
  <2>1. call[d] = "QUEUED" => (Alive(d)' <=> Alive(d))
    <3>1. ~(store[k].by = d /\ store[k].state \in Pending)
      <4>1. phase # "down" /\ k \notin todo
        BY <1>1 DEF IInv, StartUp, Open
      <4> QED BY <1>2, <1>t, <1>8, <4>1 DEF RowsFollowItems
    <3> QED BY <1>2, <1>t, <1>8, <3>1 DEF Alive
  <2> QED BY <1>1, <1>2, <1>8, <2>1, SameStatus
<1> QED BY <1>3, <1>4, <1>6, <1>7, <1>8 DEF OnlyMoves

(* A user or a job ends an item; its row follows, and with it the request. *)
LEMMA EndQueuedFaultless ==
    ASSUME IInv, FaultlessInv, NEW k \in Keys, Cancel(k) \/ Expire(k)
    PROVE  FaultlessInv' /\ AllKept
<1> USE DEF FaultlessInv
<1>t. item \in [Keys -> Item]
  BY DEF IInv, TypeOK
<1>1. PICK s \in {"CANCELLED", "EXPIRED"} :
         /\ item' = [item EXCEPT ![k] = WithState(item[k], s)]
         /\ ending' = ending \cup {k} /\ chainOk
         /\ item[k].state = "QUEUED"
         /\ UNCHANGED <<phase, store, chainOk, worker, call, todo, made>>
  BY DEF Cancel, Expire, EndQueued, Listening, CanTransition, TransitionTable
<1>2. /\ item'[k].state \in {"CANCELLED", "EXPIRED"} /\ item'[k].by = item[k].by
      /\ \A j \in Keys : j # k => item'[j] = item[j]
      /\ Present(k)
  BY <1>1, <1>t DEF WithState, Item, Present
<1>3. OwnersAreAnswered'
  BY <1>1, <1>2 DEF OwnersAreAnswered, Present
<1>4. RowsFollowItems'
  BY <1>1, <1>2 DEF RowsFollowItems, Present, Pending
<1>5. MayBeMade' /\ ExactlyOnceExecution'
  BY <1>1, <1>2 DEF MayBeMade, ExactlyOnceExecution
<1>6. ASSUME NEW c \in Calls PROVE StatusOf(c)' = StatusOf(c) /\ made'[c] = made[c]
  <2>1. Alive(c)' <=> Alive(c)
    BY <1>1 DEF Alive
  <2> QED BY <1>1, <2>1, SameStatus
<1> QED BY <1>3, <1>4, <1>5, <1>6 DEF AllKept

LEMMA EndSavedFaultless ==
    ASSUME IInv, FaultlessInv, NEW k \in Keys, EndSaved(k)
    PROVE  FaultlessInv' /\ \E c \in Calls : OnlyMoves(c)
<1> USE DEF FaultlessInv
<1> DEFINE c == item[k].by
<1>t. store \in [Keys -> Item] /\ made \in [Calls -> Nat]
  BY DEF IInv, TypeOK
<1>1. /\ k \in ending /\ ending' = ending \ {k} /\ store' = [store EXCEPT ![k] = item[k]]
      /\ UNCHANGED <<phase, item, chainOk, worker, call, todo, made>>
  BY DEF EndSaved, Saved
<1>2. /\ item[k].state \in {"CANCELLED", "EXPIRED"} /\ Present(k)
      /\ store'[k] = item[k] /\ \A j \in Keys : j # k => store'[j] = store[j]
  BY <1>1, <1>t DEF IInv, EndingIsOver, Present
<1>3. c \in Calls /\ KeyOf[c] = k /\ call[c] = "QUEUED" /\ made[c] = 0
  <2>1. c \in Calls /\ KeyOf[c] = k
    BY <1>2 DEF IInv, OwnedByKey
  <2> QED BY <1>2, <2>1 DEF IInv, SavingIsQueued, OwnersAreAnswered, MayBeMade
<1>4. OwnersAreAnswered'
  BY <1>1, <1>2, <1>3 DEF OwnersAreAnswered, Present
<1>5. RowsFollowItems'
  BY <1>1, <1>2 DEF RowsFollowItems, Present, Pending, Terminal
<1>6. MayBeMade' /\ ExactlyOnceExecution'
  BY <1>1, <1>2 DEF MayBeMade, ExactlyOnceExecution, Pending
<1>7. StatusMove(c)
  <2>1. ~Alive(c)'
    <3>1. \A j \in Keys : store'[j].by = c /\ store'[j].state \in Pending => j = k
      BY <1>2, <1>3 DEF IInv, OwnedByKey, Pending
    <3> QED BY <1>1, <1>2, <3>1 DEF Alive, Pending
  <2> QED BY <1>1, <1>3, <2>1 DEF StatusOf, StatusMove
<1>8. ASSUME NEW d \in Calls, d # c PROVE StatusOf(d)' = StatusOf(d) /\ made'[d] = made[d]
  <2>1. ~(store[k].by = d /\ store[k].state \in Pending)
    <3>1. phase # "down" /\ k \notin todo
      BY <1>2 DEF IInv, StartUp
    <3> QED BY <1>2, <1>8, <3>1 DEF RowsFollowItems
  <2>2. Alive(d)' <=> Alive(d)
    BY <1>2, <1>8, <2>1 DEF Alive, Pending
  <2> QED BY <1>1, <2>2, SameStatus
<1> QED BY <1>3, <1>4, <1>5, <1>6, <1>7, <1>8 DEF OnlyMoves

LEMMA PruneFaultless ==
    ASSUME IInv, FaultlessInv, NEW k \in Keys, Prune(k)
    PROVE  FaultlessInv' /\ AllKept
<1> USE DEF FaultlessInv
<1>1. /\ item[k].state \in Terminal /\ worker.key # k /\ k \notin ending
      /\ item' = [item EXCEPT ![k] = Absent]
      /\ UNCHANGED <<phase, store, chainOk, worker, call, ending, todo, made>>
  BY DEF Prune
<1>2. /\ item'[k].state = "NONE" /\ \A j \in Keys : j # k => item'[j] = item[j]
      /\ store[k].state \in Terminal
  BY <1>1 DEF IInv, TypeOK, Absent, RowsFollowItems
<1>3. OwnersAreAnswered' /\ RowsFollowItems'
  BY <1>1, <1>2 DEF OwnersAreAnswered, RowsFollowItems, Present, Pending, Terminal
<1>4. MayBeMade' /\ ExactlyOnceExecution'
  BY <1>1, <1>2 DEF MayBeMade, ExactlyOnceExecution, Pending, Terminal, InFlight
<1>5. ASSUME NEW c \in Calls PROVE StatusOf(c)' = StatusOf(c) /\ made'[c] = made[c]
  <2>1. Alive(c)' <=> Alive(c)
    BY <1>1 DEF Alive
  <2> QED BY <1>1, <2>1, SameStatus
<1> QED BY <1>3, <1>4, <1>5 DEF AllKept

LEMMA ReloadFaultless ==
    ASSUME IInv, FaultlessInv, (\E k \in Keys : ReloadQueued(k)) \/ ReloadSaved
    PROVE  FaultlessInv' /\ AllKept
<1> USE DEF FaultlessInv
<1>t. item \in [Keys -> Item] /\ store \in [Keys -> Item]
  BY DEF IInv, TypeOK
<1>1. PICK k \in Keys, it \in Item : ReloadEffect(k, it)
  BY ReloadIsSuch
<1>2. UNCHANGED <<made, worker, ending>>
  BY DEF ReloadQueued, ReloadSaved
<1>3. /\ item'[k] = it /\ \A j \in Keys : j # k => item'[j] = item[j]
      /\ store'[k] = it /\ \A j \in Keys : j # k => store'[j] = store[j]
      /\ k \in todo /\ todo' = todo \ {k} /\ store[k].state \in Pending /\ ~Present(k)
      /\ it.by = store[k].by /\ it.state \in {"QUEUED", "COMPLETED"}
      /\ UNCHANGED <<phase, chainOk, call>>
  BY <1>t, <1>1 DEF ReloadEffect
<1>s. /\ it.state = "COMPLETED" => made[it.by] >= 1
      /\ it.state = "QUEUED" => store[k].state # "SUBMITTED"
  <2>1. IInv'
    BY NextKeepsIInv DEF Next, RecoveryStep
  <2>2. it.state = "COMPLETED" => made'[it.by] >= 1
    BY <1>3, <2>1 DEF IInv, SubmittedRowHasTrade
  <2>3. it.state = "QUEUED" => store[k].state # "SUBMITTED"
    <3>1. CASE ReloadSaved
      <4>1. reload \in Keys /\ store[reload] \in Item
        BY <1>t, <3>1 DEF ReloadSaved, IInv, TypeOK
      <4>2. todo' = todo \ {reload} /\ item' = [item EXCEPT ![reload] = Recovered(store[reload])]
        BY <3>1 DEF ReloadSaved
      <4>3. reload = k
        BY <1>3, <4>2
      <4>4. it = Recovered(store[k])
        BY <1>t, <1>3, <4>1, <4>2, <4>3
      <4> QED BY <4>1, <4>3, <4>4, RecoveredRow
    <3>2. ASSUME NEW j \in Keys, ReloadQueued(j)
          PROVE  store[k].state # "SUBMITTED"
      <4>1. todo' = todo \ {j} /\ store[j].state = "QUEUED"
        BY <3>2 DEF ReloadQueued
      <4> QED BY <1>3, <4>1
    <3> QED BY <3>1, <3>2
  <2> QED BY <1>2, <2>2, <2>3
<1>4. OwnersAreAnswered'
  BY <1>3 DEF OwnersAreAnswered, Present, Pending
<1>5. RowsFollowItems'
  BY <1>2, <1>3 DEF RowsFollowItems, Present, Pending, Terminal
<1>m. it.state = "QUEUED" => made[it.by] = 0
  BY <1>3, <1>s DEF MayBeMade, Present
<1>6. MayBeMade' /\ ExactlyOnceExecution'
  <2>1. \A j \in Keys : item'[j].state \notin {"NONE", "SUBMITTED", "COMPLETED"} =>
           made[item'[j].by] = 0
    BY <1>3, <1>m DEF MayBeMade
  <2>2. ASSUME NEW j \in Keys, store'[j].state \in Pending \ {"SUBMITTED"}
        PROVE  \/ made[store'[j].by] = 0
               \/ item'[j].state = "SUBMITTED" /\ item'[j].by = store'[j].by
    <3>1. CASE j = k
      BY <1>3, <1>m, <2>2, <3>1 DEF Pending
    <3>2. CASE j # k
      BY <1>3, <2>2, <3>2 DEF MayBeMade
    <3> QED BY <3>1, <3>2
  <2>3. ~chainOk' => \A j \in Keys : item'[j].state \notin InFlight
    BY <1>3 DEF MayBeMade, InFlight, Pending
  <2> QED BY <1>2, <2>1, <2>2, <2>3 DEF MayBeMade, ExactlyOnceExecution
<1>7. ASSUME NEW c \in Calls PROVE StatusOf(c)' = StatusOf(c) /\ made'[c] = made[c]
  <2>1. ASSUME made[c] = 0 PROVE Alive(c)' <=> Alive(c)
    <3>1. it.by = c => it.state = "QUEUED"
      BY <1>3, <1>s, <2>1
    <3> QED BY <1>3, <3>1 DEF Alive, Pending
  <2> QED BY <1>2, <1>3, <2>1, SameStatus
<1> QED BY <1>4, <1>5, <1>6, <1>7 DEF AllKept

(* The drain ends with no item in flight, and so does a rejection. *)
LEMMA DieFaultless ==
    ASSUME IInv, FaultlessInv, UnhandledRejection \/ Exit
    PROVE  FaultlessInv' /\ AllKept
<1> USE DEF FaultlessInv
<1>1. /\ phase' = "down" /\ item' = [k \in Keys |-> Absent] /\ chainOk'
      /\ call' = [c \in Calls |-> IF Open(c) THEN "LOST" ELSE call[c]]
      /\ UNCHANGED <<store, made>>
  BY DEF UnhandledRejection, Exit, Die
<1>2. /\ \A k \in Keys : item'[k].state = "NONE"
      /\ \A c \in Calls : call'[c] = "QUEUED" <=> call[c] = "QUEUED"
  BY <1>1 DEF Absent, Open
<1>3. \A k \in Keys : item[k].state # "SUBMITTED"
  BY DEF UnhandledRejection, Exit, Drained, Idle, IInv, InFlightIsWorked, MayBeMade, InFlight,
         Pending
<1>4. OwnersAreAnswered' /\ RowsFollowItems'
  <2>1. \A k \in Keys : store[k].state # "NONE" => store[k].by \in Calls
    BY DEF IInv, OwnedByKey
  <2> QED BY <1>1, <1>2, <2>1
      DEF OwnersAreAnswered, RowsFollowItems, Present, Pending, Terminal
<1>5. MayBeMade' /\ ExactlyOnceExecution'
  BY <1>1, <1>2, <1>3 DEF MayBeMade, ExactlyOnceExecution
<1>6. ASSUME NEW c \in Calls PROVE StatusOf(c)' = StatusOf(c) /\ made'[c] = made[c]
  <2>1. Alive(c)' <=> Alive(c)
    BY <1>1 DEF Alive
  <2> QED BY <1>1, <1>2, <2>1, SameStatus
<1> QED BY <1>4, <1>5, <1>6 DEF AllKept

LEMMA FaultlessStep ==
    ASSUME IInv, PlacesInv, FaultlessInv, Faultless, [Next]_vars
    PROVE  FaultlessInv' /\ [Promise!Next]_(Promise!vars)
<1>t. TypeOK /\ TypeOK'
  <2>1. IInv'
    BY NextKeepsIInv
  <2> QED BY <2>1 DEF IInv
<1>1. ASSUME FaultlessInv', AllKept
      PROVE  FaultlessInv' /\ [Promise!Next]_(Promise!vars)
  BY <1>t, <1>1, NoMoveIsAStutter
<1>m. ASSUME FaultlessInv', NEW c \in Calls, OnlyMoves(c)
      PROVE  FaultlessInv' /\ [Promise!Next]_(Promise!vars)
  BY <1>t, <1>m, OneMoveIsAPromiseStep
<1>2. ASSUME NEW c \in Calls, CallStep(c)
      PROVE  FaultlessInv' /\ [Promise!Next]_(Promise!vars)
  <2>1. CASE SubmitSaved(c)
    BY <1>m, <2>1, SubmitFaultless
  <2>2. CASE Submit(c) \/ ValidationFails(c) \/ Insert(c)
    BY <1>1, <2>2, QuietStepFaultless, InsertFaultless
  <2>3. ~SubmitSaveThrows(c)
    BY NothingFails, OrderQueueAssumption DEF SubmitSaveThrows, IInv, TypeOK
  <2> QED BY <1>2, <2>1, <2>2, <2>3 DEF CallStep
<1>3. ASSUME NEW k \in Keys, Cancel(k) \/ Expire(k) \/ EndStep(k) \/ Prune(k)
      PROVE  FaultlessInv' /\ [Promise!Next]_(Promise!vars)
  <2>1. CASE EndSaved(k)
    BY <1>m, <2>1, EndSavedFaultless
  <2>2. CASE Cancel(k) \/ Expire(k) \/ Prune(k)
    BY <1>1, <2>2, EndQueuedFaultless, PruneFaultless
  <2>3. ~EndSaveThrows(k)
    BY NothingFails DEF EndSaveThrows, IInv, TypeOK
  <2> QED BY <1>3, <2>1, <2>2, <2>3 DEF EndStep
<1>4. CASE WorkerStep
  BY <1>m, <1>4, WorkerKeepsFaultless
<1>5. CASE RecoveryStep
  BY <1>1, <1>5, NothingFails, QuietStepFaultless, ReloadFaultless DEF RecoveryStep
<1>6. CASE CleanupLocks \/ Shutdown \/ UNCHANGED vars
  BY <1>1, <1>6, QuietStepFaultless
<1>7. CASE Crash \/ UnhandledRejection \/ Exit
  BY <1>1, <1>7, NothingFails, DieFaultless
<1> QED BY <1>2, <1>3, <1>4, <1>5, <1>6, <1>7 DEF Next

LEMMA InitFaultless == Init => FaultlessInv /\ Promise!Init
<1> SUFFICES ASSUME Init PROVE FaultlessInv /\ Promise!Init
  OBVIOUS
<1>1. FaultlessInv
  BY DEF Init, FaultlessInv, OwnersAreAnswered, RowsFollowItems, MayBeMade,
         ExactlyOnceExecution, Present, Absent, Pending, Terminal, InFlight
<1>2. \A c \in Calls : StatusOf(c) = "none"
  BY DEF Init, StatusOf
<1> QED BY <1>1, <1>2 DEF Init, Promise!Init

LEMMA FaultlessHolds ==
    ASSUME Faultless
    PROVE  Spec => [](IInv /\ PlacesInv /\ FaultlessInv)
<1>1. Init => IInv /\ PlacesInv /\ FaultlessInv
  BY InitIInv, InitPlacesInv, InitFaultless
<1>2. (IInv /\ PlacesInv /\ FaultlessInv) /\ [Next]_vars =>
         (IInv /\ PlacesInv /\ FaultlessInv)'
  BY NextKeepsIInv, NextKeepsPlacesInv, FaultlessStep
<1> QED BY <1>1, <1>2, PTL DEF Spec

(* "OrderQueueService guarantees exactly-once execution" (README.md) is true as
   long as nothing crashes and no save fails: no request makes two trades. *)
THEOREM OnceWithoutFaults ==
    ASSUME Faultless
    PROVE  Spec => []ExactlyOnceExecution
<1>1. FaultlessInv => ExactlyOnceExecution
  BY DEF FaultlessInv
<1> QED BY <1>1, FaultlessHolds, PTL

(* Without crashes and failed saves the queue implements ExactlyOnce, as far as
   safety goes: from the initial state, every step of it accepts, executes or
   drops one request, or none. *)
THEOREM PromiseIsKeptSafely ==
    ASSUME Faultless
    PROVE  Spec => Promise!Init /\ [][Promise!Next]_(Promise!vars)
<1>1. Init => Promise!Init
  BY InitFaultless
<1>2. (IInv /\ PlacesInv /\ FaultlessInv) /\ [Next]_vars => [Promise!Next]_(Promise!vars)
  BY FaultlessStep
<1> QED BY <1>1, <1>2, FaultlessHolds, PTL DEF Spec
=============================================================================
