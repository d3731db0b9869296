----------------------------- MODULE OrderQueue -----------------------------
(***************************************************************************)
(* The order queue of the backend: OrderQueueService (submitTrade, cancel, *)
(* expireStaleItems, pruneCompletedItems, onModuleInit), its QueueWorker,  *)
(* LockManager and the Mongo repository that persists every QueueItem.     *)
(*                                                                         *)
(* Node runs one event loop, so an action is the code between two awaits.  *)
(* An await on repository.save() is a state of its own: the worker is at   *)
(* the pc named after the row being written, a submitTrade call is at      *)
(* "saving", and a cancel or an expiry has its key in `ending`.  A save    *)
(* that ends may have failed, with or without the write having landed.     *)
(*                                                                         *)
(* A rejected processingChain has no handler, here or in main.ts: the next *)
(* turn of the loop ends the process (Node's default since v15).           *)
(*                                                                         *)
(* A Mutant_ operator is a plausible wrong version of the definition after *)
(* it, used only to show that a property notices the difference.           *)
(***************************************************************************)
EXTENDS Integers, Sequences, FiniteSets

CONSTANTS
    Keys,            \* idempotency keys
    Calls,           \* submitTrade calls, each made once
    Instruments,     \* lock keys
    InstrumentOf,    \* the instrument a key's request resolves to
    KeyOf,           \* the key a call's request yields
    MaxRetries,      \* RetryOptions.maxRetries
    MaxQueueSize,    \* MAX_QUEUE_SIZE
    KillSwitchSettings,  \* the values KILL_SWITCH_ENABLED may have at a start
    MaxCancels,      \* bound on requests to cancel
    MaxExpiries,     \* bound on items that outgrow the expiry threshold
    CanPrune,        \* does an item outlive the retention of terminal items?
    MaxCrashes,      \* bound on crashes of the environment
    MaxStops,        \* bound on graceful shutdowns
    MaxSaveFaults,   \* bound on failed saves
    NoKey, NoCall    \* "none" values

ASSUME OrderQueueAssumption ==
    /\ InstrumentOf \in [Keys -> Instruments]
    /\ KeyOf \in [Calls -> Keys]
    /\ MaxRetries \in Nat
    /\ MaxQueueSize \in Nat
    /\ KillSwitchSettings \subseteq BOOLEAN
    /\ CanPrune \in BOOLEAN
    /\ {MaxCancels, MaxExpiries, MaxCrashes, MaxStops, MaxSaveFaults} \subseteq Nat
    /\ NoKey \notin Keys
    /\ NoCall \notin Calls

VARIABLES
    killSwitch, \* ConfigService.killSwitchEnabled, fixed while a process lives
    phase,    \* the process: "down", "recovering" (onModuleInit), "up", "stopping"
    item,     \* OrderQueueService.items
    store,    \* the queue item collection in Mongo
    chain,    \* items chained behind processingChain, not yet at processGate
    chainOk,  \* FALSE once processingChain is rejected
    worker,   \* the item in processOnce, and the await it is at
    locks,    \* LockManager.locks: who holds an instrument
    call,     \* submitTrade calls and their outcomes
    ending,   \* keys whose save(CANCELLED) or save(EXPIRED) is in flight
    todo,     \* rows onModuleInit has still to reload
    reload,   \* the row onModuleInit is re-saving
    made,     \* trades created on behalf of a call, ever (auxiliary)
    used      \* how much of each bound is used, and deaths of the process

vars == <<killSwitch, phase, item, store, chain, chainOk, worker, locks, call, ending,
          todo, reload, made, used>>

-----------------------------------------------------------------------------
(* QueueItem and its transition table *)

Terminal == {"COMPLETED", "FAILED", "CANCELLED", "EXPIRED"}
Pending  == {"QUEUED", "LOCKED", "PROCESSING", "SUBMITTED", "RETRYING"}
InFlight == Pending \ {"QUEUED"}
ItemState == Terminal \cup Pending

TransitionTable ==
    {<<"QUEUED", s>> : s \in {"LOCKED", "CANCELLED", "EXPIRED", "FAILED", "RETRYING"}}
    \cup {<<"LOCKED", s>> : s \in {"PROCESSING", "FAILED"}}
    \cup {<<"PROCESSING", s>> : s \in {"SUBMITTED", "RETRYING", "FAILED"}}
    \cup {<<"SUBMITTED", "COMPLETED">>}
    \cup {<<"RETRYING", s>> : s \in {"LOCKED", "FAILED"}}

Mutant_AnyLive(from, to) == from \in Pending
Mutant_SubmittedRetries(from, to) ==
    <<from, to>> \in TransitionTable \cup {<<"SUBMITTED", "RETRYING">>}

(* QueueItemTransitions.canTransition *)
CanTransition(from, to) == <<from, to>> \in TransitionTable

(* A QueueItem, or the absence of one. *)
Item == [state : ItemState \cup {"NONE"}, attempts : Nat, by : Calls \cup {NoCall}]

Absent == [state |-> "NONE", attempts |-> 0, by |-> NoCall]

Present(k) == item[k].state # "NONE"

WithState(it, s) == [it EXCEPT !.state = s]

(* scheduleRetry on an item that is not RETRYING yet, or already is *)
CanRetry(it) == it.state = "RETRYING" \/ CanTransition(it.state, "RETRYING")

Retried(it) == [it EXCEPT !.state = "RETRYING", !.attempts = @ + 1]

-----------------------------------------------------------------------------
Idle == [pc |-> "idle", key |-> NoKey]

WorkerPc == {"idle", "saveLocked", "saveProcessing", "building", "saveSubmitted",
             "saveCompleted", "saveRetrying", "backoff", "saveFailed"}

(* A worker step that leaves the calls, the clean-up and the start-up alone *)
OutsideWorker == <<killSwitch, phase, call, ending, todo, reload>>

(* Requests and jobs run; nothing does once the chain has rejected *)
Listening == phase \in {"up", "stopping"} /\ chainOk

Outcomes == {"QUEUED", "DUPLICATE", "VALIDATION_FAILED", "QUEUE_FULL",
             "REJECTED_KILL_SWITCH", "THROWN", "LOST"}

Open(c) == call[c] \in {"validating", "saving"}

Init ==
    /\ killSwitch \in KillSwitchSettings
    /\ phase = "up"
    /\ item = [k \in Keys |-> Absent]
    /\ store = [k \in Keys |-> Absent]
    /\ chain = <<>>
    /\ chainOk = TRUE
    /\ worker = Idle
    /\ locks = [i \in Instruments |-> NoKey]
    /\ call = [c \in Calls |-> "ready"]
    /\ ending = {}
    /\ todo = {}
    /\ reload = NoKey
    /\ made = [c \in Calls |-> 0]
    /\ used = [crash |-> 0, stop |-> 0, save |-> 0, cancel |-> 0, expiry |-> 0]

-----------------------------------------------------------------------------
(* Mongo: how a save of the item in `it` under key k can end *)

Saved(k, it) ==
    /\ store' = [store EXCEPT ![k] = it]
    /\ UNCHANGED used

SaveThrows(k, it) ==
    /\ used.save < MaxSaveFaults
    /\ used' = [used EXCEPT !.save = @ + 1]
    /\ \/ store' = [store EXCEPT ![k] = it]
       \/ UNCHANGED store

-----------------------------------------------------------------------------
Mutant_UpOnly(k) == chain' = IF phase # "up" THEN chain ELSE Append(chain, k)

(* QueueWorker.enqueue: nothing is chained once the worker is paused *)
Enqueue(k) == chain' = IF phase = "stopping" THEN chain ELSE Append(chain, k)

(* OrderQueueService.submitTrade, up to the await on validation *)
Submit(c) ==
    /\ Listening
    /\ call[c] = "ready"
    /\ call' = [call EXCEPT ![c] =
           IF killSwitch THEN "REJECTED_KILL_SWITCH"
           ELSE IF Present(KeyOf[c]) THEN "DUPLICATE"
           ELSE "validating"]
    /\ UNCHANGED <<killSwitch, phase, item, store, chain, chainOk, worker, locks, ending,
                   todo, reload, made, used>>

ValidationFails(c) ==
    /\ call[c] = "validating"
    /\ call' = [call EXCEPT ![c] = "VALIDATION_FAILED"]
    /\ UNCHANGED <<killSwitch, phase, item, store, chain, chainOk, worker, locks, ending,
                   todo, reload, made, used>>

QueueSize == Cardinality({k \in Keys : Present(k)})

Mutant_NoSecondLook(c) ==
    LET outcome == IF QueueSize >= MaxQueueSize THEN "QUEUE_FULL" ELSE "saving"
    IN /\ call[c] = "validating"
       /\ call' = [call EXCEPT ![c] = outcome]
       /\ item' = IF outcome = "saving"
                  THEN [item EXCEPT ![KeyOf[c]] =
                           [state |-> "QUEUED", attempts |-> 0, by |-> c]]
                  ELSE item
       /\ UNCHANGED <<killSwitch, phase, store, chain, chainOk, worker, locks,
                      ending, todo, reload, made, used>>

(* The size check, the second look at the map and the insert: one step *)
Insert(c) ==
    LET k == KeyOf[c]
        outcome == IF QueueSize >= MaxQueueSize THEN "QUEUE_FULL"
                   ELSE IF Present(k) THEN "DUPLICATE"
                   ELSE "saving"
    IN /\ call[c] = "validating"
       /\ call' = [call EXCEPT ![c] = outcome]
       /\ item' = IF outcome = "saving"
                  THEN [item EXCEPT ![k] =
                           [state |-> "QUEUED", attempts |-> 0, by |-> c]]
                  ELSE item
       /\ UNCHANGED <<killSwitch, phase, store, chain, chainOk, worker, locks, ending,
                      todo, reload, made, used>>

(* The row is written and the item handed to the worker *)
SubmitSaved(c) ==
    LET k == KeyOf[c]
    IN /\ call[c] = "saving"
       /\ Saved(k, item[k])
       /\ Enqueue(k)
       /\ call' = [call EXCEPT ![c] = "QUEUED"]
       /\ UNCHANGED <<killSwitch, phase, item, chainOk, worker, locks, ending, todo, reload, made>>

(* The call rejects; the item stays in the map and is never enqueued *)
SubmitSaveThrows(c) ==
    /\ call[c] = "saving"
    /\ SaveThrows(KeyOf[c], item[KeyOf[c]])
    /\ call' = [call EXCEPT ![c] = "THROWN"]
    /\ UNCHANGED <<killSwitch, phase, item, chain, chainOk, worker, locks, ending, todo,
                   reload, made>>

BeingSubmitted(k) == \E c \in Calls : call[c] = "saving" /\ KeyOf[c] = k

(* cancel (a request of the user) and expireStaleItems (a scheduled job): the
   item leaves QUEUED at once, the row follows.  Neither reaches an item whose
   first save is in flight: its key has not been given out, and it is younger
   than the expiry threshold.  A user can cancel what submitTrade answered
   QUEUED for. *)
EndQueued(k, s) ==
    /\ Listening
    /\ CanTransition(item[k].state, s)
    /\ ~BeingSubmitted(k)
    /\ item' = [item EXCEPT ![k] = WithState(@, s)]
    /\ ending' = ending \cup {k}
    /\ UNCHANGED <<killSwitch, phase, store, chain, chainOk, worker, locks, call, todo,
                   reload, made>>

Cancel(k) ==
    /\ used.cancel < MaxCancels
    /\ used' = [used EXCEPT !.cancel = @ + 1]
    /\ Present(k) /\ call[item[k].by] = "QUEUED"
    /\ EndQueued(k, "CANCELLED")

Expire(k) ==
    /\ used.expiry < MaxExpiries
    /\ used' = [used EXCEPT !.expiry = @ + 1]
    /\ EndQueued(k, "EXPIRED")

EndSaved(k) ==
    /\ k \in ending
    /\ ending' = ending \ {k}
    /\ Saved(k, item[k])
    /\ UNCHANGED <<killSwitch, phase, item, chain, chainOk, worker, locks, call, todo,
                   reload, made>>

EndSaveThrows(k) ==
    /\ k \in ending
    /\ ending' = ending \ {k}
    /\ SaveThrows(k, item[k])
    /\ UNCHANGED <<killSwitch, phase, item, chain, chainOk, worker, locks, call, todo,
                   reload, made>>

InChain(k) == \E i \in 1..Len(chain) : chain[i] = k

(* pruneCompletedItems.  An item older than the retention (24 h) is neither
   being saved nor still waiting for its turn. *)
Prune(k) ==
    /\ CanPrune
    /\ Listening
    /\ item[k].state \in Terminal
    /\ ~InChain(k) /\ worker.key # k /\ k \notin ending
    /\ item' = [item EXCEPT ![k] = Absent]
    /\ UNCHANGED <<killSwitch, phase, store, chain, chainOk, worker, locks, call, ending,
                   todo, reload, made, used>>

(* LockManager.cleanupStaleLocks: any lock may have passed its time-out *)
CleanupLocks ==
    /\ Listening
    /\ \E i \in Instruments :
          /\ locks[i] # NoKey
          /\ locks' = [locks EXCEPT ![i] = NoKey]
    /\ UNCHANGED <<killSwitch, phase, item, store, chain, chainOk, worker, call, ending,
                   todo, reload, made, used>>

-----------------------------------------------------------------------------
(* QueueWorker.processOnce *)

At(pc) == phase # "down" /\ chainOk /\ worker.pc = pc

GoTo(pc, k) == worker' = [pc |-> pc, key |-> k]

Mutant_KeepsLock(k) == locks

(* LockManager.release by the item's own owner *)
Released(k) ==
    [locks EXCEPT ![InstrumentOf[k]] = IF @ = k THEN NoKey ELSE @]

(* An error nothing catches: processingChain rejects *)
Reject == chainOk' = FALSE /\ worker' = Idle

(* handleFailure.  A step that the transition table forbids throws, after the
   attempt has been counted or the error recorded. *)
HandleFailure(k, permanent) ==
    LET it == item[k]
    IN IF permanent \/ it.attempts + 1 > MaxRetries
       THEN IF CanTransition(it.state, "FAILED")
            THEN /\ item' = [item EXCEPT ![k] = WithState(it, "FAILED")]
                 /\ GoTo("saveFailed", k)
                 /\ UNCHANGED chainOk
            ELSE Reject /\ UNCHANGED item
       ELSE IF CanRetry(it)
            THEN /\ item' = [item EXCEPT ![k] = Retried(it)]
                 /\ GoTo("saveRetrying", k)
                 /\ UNCHANGED chainOk
            ELSE /\ item' = [item EXCEPT ![k].attempts = @ + 1]
                 /\ Reject

(* tryAcquire, then item.lock(), which throws outside the try block *)
StartAttempt(k) ==
    IF locks[InstrumentOf[k]] # NoKey
    THEN HandleFailure(k, FALSE) /\ UNCHANGED locks
    ELSE /\ locks' = [locks EXCEPT ![InstrumentOf[k]] = k]
         /\ IF CanTransition(item[k].state, "LOCKED")
            THEN /\ item' = [item EXCEPT ![k] = WithState(@, "LOCKED")]
                 /\ GoTo("saveLocked", k)
                 /\ UNCHANGED chainOk
            ELSE Reject /\ UNCHANGED item

(* processGate of the next chained item *)
Dequeue ==
    /\ At("idle")
    /\ chain # <<>>
    /\ chain' = Tail(chain)
    /\ IF killSwitch
       THEN UNCHANGED <<item, locks, worker, chainOk>>
       ELSE StartAttempt(Head(chain))
    /\ UNCHANGED <<store, made, used, OutsideWorker>>

(* The backoff delay is over *)
Retry ==
    /\ At("backoff")
    /\ StartAttempt(worker.key)
    /\ UNCHANGED <<store, chain, made, used, OutsideWorker>>

LockedSaved ==
    LET k == worker.key
    IN /\ At("saveLocked")
       /\ Saved(k, item[k])
       /\ item' = [item EXCEPT ![k] = WithState(@, "PROCESSING")]
       /\ GoTo("saveProcessing", k)
       /\ UNCHANGED <<chain, chainOk, locks, made, OutsideWorker>>

ProcessingSaved ==
    LET k == worker.key
    IN /\ At("saveProcessing")
       /\ Saved(k, item[k])
       /\ GoTo("building", k)
       /\ UNCHANGED <<item, chain, chainOk, locks, made, OutsideWorker>>

(* These two saves are outside the try block: the lock is not released *)
EarlySaveThrows ==
    /\ At("saveLocked") \/ At("saveProcessing")
    /\ SaveThrows(worker.key, item[worker.key])
    /\ Reject
    /\ UNCHANGED <<item, chain, locks, made, OutsideWorker>>

(* The mode is read, createTrade() succeeds and markSubmitted() follows *)
CreateTrade ==
    LET k == worker.key
    IN /\ At("building")
       /\ made' = [made EXCEPT ![item[k].by] = @ + 1]
       /\ item' = [item EXCEPT ![k] = WithState(@, "SUBMITTED")]
       /\ GoTo("saveSubmitted", k)
       /\ UNCHANGED <<store, chain, chainOk, locks, used, OutsideWorker>>

(* buildCreateTradeParams rejects (transient), or createTrade throws an
   InvalidTradeDefinition (permanent) *)
AttemptFails ==
    LET k == worker.key
    IN /\ At("building")
       /\ locks' = Released(k)
       /\ \E permanent \in BOOLEAN : HandleFailure(k, permanent)
       /\ UNCHANGED <<store, chain, made, used, OutsideWorker>>

SubmittedSaved ==
    LET k == worker.key
    IN /\ At("saveSubmitted")
       /\ Saved(k, item[k])
       /\ item' = [item EXCEPT ![k] = WithState(@, "COMPLETED")]
       /\ GoTo("saveCompleted", k)
       /\ UNCHANGED <<chain, chainOk, locks, made, OutsideWorker>>

CompletedSaved ==
    LET k == worker.key
    IN /\ At("saveCompleted")
       /\ Saved(k, item[k])
       /\ locks' = Released(k)
       /\ worker' = Idle
       /\ UNCHANGED <<item, chain, chainOk, made, OutsideWorker>>

(* These two are inside it: the lock is released and the failure handled *)
LateSaveThrows ==
    LET k == worker.key
    IN /\ At("saveSubmitted") \/ At("saveCompleted")
       /\ SaveThrows(k, item[k])
       /\ locks' = Released(k)
       /\ HandleFailure(k, FALSE)
       /\ UNCHANGED <<chain, made, OutsideWorker>>

RetryingSaved ==
    /\ At("saveRetrying")
    /\ Saved(worker.key, item[worker.key])
    /\ GoTo("backoff", worker.key)
    /\ UNCHANGED <<item, chain, chainOk, locks, made, OutsideWorker>>

FailedSaved ==
    /\ At("saveFailed")
    /\ Saved(worker.key, item[worker.key])
    /\ worker' = Idle
    /\ UNCHANGED <<item, chain, chainOk, locks, made, OutsideWorker>>

FailureSaveThrows ==
    /\ At("saveRetrying") \/ At("saveFailed")
    /\ SaveThrows(worker.key, item[worker.key])
    /\ Reject
    /\ UNCHANGED <<item, chain, locks, made, OutsideWorker>>

-----------------------------------------------------------------------------
(* The process: death, graceful shutdown, restart and recovery *)

(* What dies with the process *)
Die ==
    /\ phase' = "down"
    /\ item' = [k \in Keys |-> Absent]
    /\ chain' = <<>>
    /\ chainOk' = TRUE
    /\ worker' = Idle
    /\ locks' = [i \in Instruments |-> NoKey]
    /\ call' = [c \in Calls |-> IF Open(c) THEN "LOST" ELSE call[c]]
    /\ ending' = {}
    /\ todo' = {}
    /\ reload' = NoKey
    /\ UNCHANGED <<killSwitch, store, made>>

Crash ==
    /\ phase # "down"
    /\ used.crash < MaxCrashes
    /\ used' = [used EXCEPT !.crash = @ + 1]
    /\ Die

(* Node ends the process when the rejected chain is found unhandled *)
UnhandledRejection ==
    /\ ~chainOk
    /\ used' = [used EXCEPT !.crash = @ + 1]
    /\ Die

(* onModuleDestroy: pause(), then drain() *)
Shutdown ==
    /\ phase = "up"
    /\ used.stop < MaxStops
    /\ used' = [used EXCEPT !.stop = @ + 1]
    /\ phase' = "stopping"
    /\ UNCHANGED <<killSwitch, item, store, chain, chainOk, worker, locks, call, ending,
                   todo, reload, made>>

Drained == chain = <<>> /\ worker = Idle /\ chainOk

Exit ==
    /\ phase = "stopping"
    /\ Drained
    /\ Die
    /\ UNCHANGED used

Mutant_SkipsQueued == {k \in Keys : store[k].state \in InFlight}
Mutant_SkipsInFlight == {k \in Keys : store[k].state = "QUEUED"}
Mutant_EveryRow == {k \in Keys : store[k].state # "NONE"}

(* QueueItemRepository.findRecoverable *)
Recoverable == {k \in Keys : store[k].state \in Pending}

(* The supervisor starts a new process *)
Restart ==
    /\ phase = "down"
    /\ phase' = "recovering"
    /\ killSwitch' \in KillSwitchSettings
    /\ todo' = Recoverable
    /\ UNCHANGED <<item, store, chain, chainOk, worker, locks, call, ending,
                   reload, made, used>>

(* fromSnapshot, then markCompleted or resetForRecovery *)
Recovered(it) ==
    WithState(it, IF it.state = "SUBMITTED" THEN "COMPLETED" ELSE "QUEUED")

(* onModuleInit, one row: a QUEUED row is enqueued as it is *)
ReloadQueued(k) ==
    /\ phase = "recovering"
    /\ reload = NoKey
    /\ k \in todo
    /\ store[k].state = "QUEUED"
    /\ item' = [item EXCEPT ![k] = store[k]]
    /\ Enqueue(k)
    /\ todo' = todo \ {k}
    /\ UNCHANGED <<killSwitch, phase, store, chainOk, worker, locks, call, ending, reload,
                   made, used>>

(* onModuleInit, one row: any other is saved back before anything else *)
ReloadOther(k) ==
    /\ phase = "recovering"
    /\ reload = NoKey
    /\ k \in todo
    /\ store[k].state # "QUEUED"
    /\ reload' = k
    /\ UNCHANGED <<killSwitch, phase, item, store, chain, chainOk, worker, locks, call,
                   ending, todo, made, used>>

ReloadSaved ==
    LET k == reload
    IN /\ reload # NoKey
       /\ Saved(k, Recovered(store[k]))
       /\ item' = [item EXCEPT ![k] = Recovered(store[k])]
       /\ IF store[k].state = "SUBMITTED" THEN UNCHANGED chain ELSE Enqueue(k)
       /\ todo' = todo \ {k}
       /\ reload' = NoKey
       /\ UNCHANGED <<killSwitch, phase, chainOk, worker, locks, call, ending, made>>

(* onModuleInit rejects: bootstrap() fails and main.ts calls process.exit(1) *)
ReloadSaveThrows ==
    /\ reload # NoKey
    /\ used.save < MaxSaveFaults
    /\ used' = [used EXCEPT !.save = @ + 1, !.crash = @ + 1]
    /\ phase' = "down"
    /\ item' = [k \in Keys |-> Absent]
    /\ chain' = <<>>
    /\ chainOk' = TRUE
    /\ worker' = Idle
    /\ locks' = [i \in Instruments |-> NoKey]
    /\ todo' = {}
    /\ reload' = NoKey
    /\ store' \in {store, [store EXCEPT ![reload] = Recovered(store[reload])]}
    /\ UNCHANGED <<killSwitch, call, ending, made>>

Listen ==
    /\ phase = "recovering"
    /\ todo = {}
    /\ phase' = "up"
    /\ UNCHANGED <<killSwitch, item, store, chain, chainOk, worker, locks, call, ending,
                   todo, reload, made, used>>

-----------------------------------------------------------------------------
CallStep(c) ==
    \/ Submit(c)
    \/ ValidationFails(c)
    \/ Insert(c)
    \/ SubmitSaved(c)
    \/ SubmitSaveThrows(c)

EndStep(k) == EndSaved(k) \/ EndSaveThrows(k)

WorkerStep ==
    \/ Dequeue
    \/ Retry
    \/ LockedSaved
    \/ ProcessingSaved
    \/ EarlySaveThrows
    \/ CreateTrade
    \/ AttemptFails
    \/ SubmittedSaved
    \/ CompletedSaved
    \/ LateSaveThrows
    \/ RetryingSaved
    \/ FailedSaved
    \/ FailureSaveThrows

RecoveryStep ==
    \/ Restart
    \/ \E k \in Keys : ReloadQueued(k) \/ ReloadOther(k)
    \/ ReloadSaved
    \/ ReloadSaveThrows
    \/ Listen

Next ==
    \/ \E c \in Calls : CallStep(c)
    \/ \E k \in Keys : Cancel(k) \/ Expire(k) \/ EndStep(k) \/ Prune(k)
    \/ CleanupLocks
    \/ WorkerStep
    \/ Crash
    \/ UnhandledRejection
    \/ Shutdown
    \/ Exit
    \/ RecoveryStep

(* Promises settle, timers fire and the supervisor restarts the process; no
   fairness is asked of users, of jobs, of faults or of shutdowns. *)
Fairness ==
    /\ \A c \in Calls : WF_vars(call[c] # "ready" /\ CallStep(c))
    /\ \A k \in Keys : WF_vars(EndStep(k))
    /\ WF_vars(WorkerStep)
    /\ WF_vars(RecoveryStep)
    /\ WF_vars(UnhandledRejection)
    /\ WF_vars(Exit)

Spec == Init /\ [][Next]_vars

FairSpec == Spec /\ Fairness

-----------------------------------------------------------------------------
(* Properties *)

(* Every variable keeps its type, and the worker has a key exactly while it is
   in processOnce. *)
TypeOK ==
    /\ killSwitch \in BOOLEAN
    /\ phase \in {"down", "recovering", "up", "stopping"}
    /\ item \in [Keys -> Item]
    /\ store \in [Keys -> Item]
    /\ chain \in Seq(Keys)
    /\ chainOk \in BOOLEAN
    /\ worker \in {Idle} \cup [pc : WorkerPc \ {"idle"}, key : Keys]
    /\ locks \in [Instruments -> Keys \cup {NoKey}]
    /\ call \in [Calls -> Outcomes \cup {"ready", "validating", "saving"}]
    /\ ending \subseteq Keys
    /\ todo \subseteq Keys
    /\ reload \in Keys \cup {NoKey}
    /\ made \in [Calls -> Nat]
    /\ used \in [crash : Nat, stop : Nat, save : Nat, cancel : Nat, expiry : Nat]

(* "Processing is always strictly sequential - never two items in flight at
   once" (queue-worker.service.ts): while the chain lives, the only item
   between its lock and its last save is the one the worker is at. *)
StrictlySequential ==
    chainOk => \A k \in Keys : item[k].state \in InFlight => worker.key = k

(* A lock is held only for the item being attempted, so none is left behind
   when the worker is idle or waits out a backoff: an acquisition never finds
   its instrument taken, and the stale-lock time-out is never what frees one. *)
NoLockLeftBehind ==
    chainOk => \A i \in Instruments :
        locks[i] # NoKey =>
            /\ locks[i] = worker.key
            /\ worker.pc \notin {"idle", "backoff", "saveRetrying", "saveFailed"}

(* An accepted request becomes a trade at most once in the life of a process:
   retries, failed saves after createTrade and graceful restarts never repeat
   it; each death of the process can add one. *)
OncePerProcess == \A c \in Calls : made[c] <= 1 + used.crash

(* OrderFailed, a cancellation and an expiry give the margin back, so an item
   that ends that way must not have created a trade in this process. *)
DroppedMeansNoTrade ==
    \A k \in Keys : item[k].state \in {"FAILED", "CANCELLED", "EXPIRED"} =>
        made[item[k].by] <= used.crash

(* What start-up recovery relies on: a row that says SUBMITTED or COMPLETED has
   its trade, so completing it without replaying it loses nothing. *)
SubmittedRowHasTrade ==
    \A k \in Keys : store[k].state \in {"SUBMITTED", "COMPLETED"} =>
        made[store[k].by] >= 1

(* While a process listens, an accepted item that is not yet terminal is in
   the chain or in the worker, unless its first save failed or the chain was
   paused when it came: nothing is silently dropped between the two. *)
NothingStranded ==
    phase = "up" /\ chainOk /\ ~killSwitch =>
        \A k \in Keys :
            item[k].state \in Pending =>
                InChain(k) \/ worker.key = k \/ BeingSubmitted(k)
                    \/ call[item[k].by] = "THROWN"

(* No item waits in the chain twice, or once more while it is processed: the
   duplicate checks and the reload at start-up never enqueue an item again. *)
ChainedOnce ==
    /\ \A i, j \in 1..Len(chain) : chain[i] = chain[j] => i = j
    /\ worker.pc # "idle" => ~InChain(worker.key)

(* Nothing that waits is out of the chain, or in it twice. *)
NoneStranded == NothingStranded /\ ChainedOnce

(* createTrade runs only when the row says PROCESSING on behalf of the same
   request, so a crash right after it is always noticed at the restart. *)
CreateIsRecorded ==
    [][\A c \in Calls : made'[c] # made[c] =>
          \E k \in Keys : store[k].by = c /\ store[k].state = "PROCESSING"]_vars

(* A row that says COMPLETED, FAILED, CANCELLED or EXPIRED is final: only a new
   submission under the same key overwrites it. *)
TerminalRowIsFinal ==
    [][\A k \in Keys :
          store[k].state \in Terminal /\ store'[k] # store[k] =>
              store'[k].by # store[k].by]_vars

(* A graceful shutdown drains: it leaves every row terminal or QUEUED, so the
   next start never has to guess how far an item got. *)
GracefulExitLeavesNoHalfDoneRow ==
    [][phase = "stopping" /\ phase' = "down" /\ used'.crash = used.crash =>
          \A k \in Keys : store[k].state \notin InFlight]_vars

(* What the next start goes by: final rows, and no half-done ones. *)
RowsAreFinal == TerminalRowIsFinal /\ GracefulExitLeavesNoHalfDoneRow

(* Two concurrent submissions of a key: the later one never replaces the item
   of the earlier one in the map. *)
FirstSubmissionWins ==
    [][\A k \in Keys : Present(k) /\ item'[k].state # "NONE" =>
          item'[k].by = item[k].by]_vars

(* The refinement mapping to ExactlyOnce: an answered request is accepted as
   long as its row is not terminal. *)
Alive(c) == \E k \in Keys : store[k].by = c /\ store[k].state \in Pending

StatusOf(c) ==
    IF made[c] > 0 THEN "executed"
    ELSE IF call[c] # "QUEUED" THEN "none"
    ELSE IF Alive(c) THEN "accepted"
    ELSE "dropped"

Promise == INSTANCE ExactlyOnce WITH
    Requests <- Calls,
    status <- [c \in Calls |-> StatusOf(c)],
    executions <- made

(* Without crashes and failed saves the queue is exactly-once, whatever users
   cancel and jobs expire, and through graceful restarts and the rejections that
   an item ended in the chain causes: every answered request is executed once or
   dropped, and never waits for ever. *)
KeepsPromise == Promise!Spec

(* With the kill switch off at every start, a persisted request reaches a
   terminal row through retries, failed saves, crashes and restarts.  The
   exception is a first save that failed although its write landed: nothing
   enqueues that item before the next start. *)
EveryRowSettles ==
    \A k \in Keys :
        store[k].state \in Pending /\ call[store[k].by] # "THROWN"
            ~> store[k].state \in Terminal

(* The inductive invariant behind OncePerProcess and the three before it; its
   parts say what ties the map, the rows, the worker and the calls together. *)

(* An item and a row belong to a call of their key. *)
OwnedByKey ==
    \A k \in Keys :
        /\ Present(k) => item[k].by \in Calls /\ KeyOf[item[k].by] = k
        /\ store[k].state # "NONE" => store[k].by \in Calls /\ KeyOf[store[k].by] = k

(* Before SUBMITTED this process has created no trade for the item ... *)
ItemNotMade ==
    \A k \in Keys : item[k].state \notin {"NONE", "SUBMITTED", "COMPLETED"} =>
        made[item[k].by] <= used.crash

(* ... and the row of an item that has one says so, or says PROCESSING. *)
RowNotMade ==
    \A k \in Keys : store[k].state \in Pending \ {"SUBMITTED"} =>
        \/ made[store[k].by] <= used.crash
        \/ /\ store[k].state = "PROCESSING"
           /\ item[k].state = "SUBMITTED"
           /\ item[k].by = store[k].by

(* From SUBMITTED on, the item has its trade. *)
ItemHasTrade ==
    \A k \in Keys : item[k].state \in {"SUBMITTED", "COMPLETED"} =>
        made[item[k].by] >= 1

StateAt ==
    [pc \in WorkerPc \ {"idle"} |->
        CASE pc = "saveLocked" -> "LOCKED"
          [] pc \in {"saveProcessing", "building"} -> "PROCESSING"
          [] pc = "saveSubmitted" -> "SUBMITTED"
          [] pc = "saveCompleted" -> "COMPLETED"
          [] pc \in {"saveRetrying", "backoff"} -> "RETRYING"
          [] pc = "saveFailed" -> "FAILED"]

(* The worker's place in processOnce is the state of its item. *)
WorkerAtItem ==
    worker.pc # "idle" =>
        /\ chainOk
        /\ item[worker.key].state = StateAt[worker.pc]
        /\ worker.pc = "building" =>
              /\ store[worker.key].state = "PROCESSING"
              /\ store[worker.key].by = item[worker.key].by

InFlightIsWorked ==
    chainOk => \A k \in Keys :
        item[k].state \in InFlight => worker.pc # "idle" /\ worker.key = k

(* A call that has inserted nothing owns nothing. *)
CallsOwnNothingYet ==
    \A c \in Calls : call[c] \in {"ready", "validating"} =>
        /\ made[c] = 0
        /\ \A k \in Keys : item[k].by # c /\ store[k].by # c

(* A call that saves has a QUEUED item nobody else has got hold of. *)
SavingIsQueued ==
    \A c \in Calls : call[c] = "saving" =>
        /\ item[KeyOf[c]].by = c
        /\ item[KeyOf[c]].state = "QUEUED"
        /\ ~InChain(KeyOf[c])

ChainedIsPresent == \A k \in Keys : InChain(k) => Present(k)

EndingIsOver ==
    \A k \in ending : item[k].state \in {"CANCELLED", "EXPIRED"}

(* Calls are open only once start-up is over; until then the rows still to be
   reloaded have no item. *)
StartUp ==
    /\ \A c \in Calls : Open(c) => phase \in {"up", "stopping"}
    /\ ending # {} => phase \in {"up", "stopping"}
    /\ phase = "down" => \A k \in Keys : ~Present(k)
    /\ phase \in {"down", "up", "stopping"} => todo = {}
    /\ \A k \in todo : ~Present(k) /\ store[k].state \in Pending
    /\ reload # NoKey => reload \in todo

IInv ==
    /\ TypeOK
    /\ OwnedByKey
    /\ ItemNotMade
    /\ RowNotMade
    /\ ItemHasTrade
    /\ SubmittedRowHasTrade
    /\ OncePerProcess
    /\ WorkerAtItem
    /\ InFlightIsWorked
    /\ CallsOwnNothingYet
    /\ SavingIsQueued
    /\ ChainedIsPresent
    /\ EndingIsOver
    /\ StartUp

(* A second layer on top of IInv, behind NoLockLeftBehind, NoneStranded and
   RowsAreFinal: what ties the locks, the chain and the rows to the worker. *)

(* A key holds no lock but its own instrument's. *)
LocksFit == \A i \in Instruments : locks[i] # NoKey => InstrumentOf[locks[i]] = i

(* NothingStranded, from the reload of the first row on *)
PendingIsPlaced ==
    phase \in {"recovering", "up"} /\ chainOk /\ ~killSwitch =>
        \A k \in Keys :
            item[k].state \in Pending =>
                InChain(k) \/ worker.key = k \/ BeingSubmitted(k)
                    \/ call[item[k].by] = "THROWN"

(* Nobody is about to write the row of an item that is over. *)
FinalRowIsLeft ==
    \A k \in Keys :
        store[k].state \in Terminal /\ Present(k) /\ item[k].by = store[k].by =>
            /\ item[k].state \in Terminal
            /\ k \notin ending /\ worker.key # k /\ ~BeingSubmitted(k)

(* A half-done row is the worker's, or has still to be reloaded. *)
HalfDoneIsWorked ==
    phase # "down" /\ chainOk =>
        \A k \in Keys : store[k].state \in InFlight => worker.key = k \/ k \in todo

PlacesInv ==
    /\ LocksFit
    /\ NoLockLeftBehind
    /\ ChainedOnce
    /\ PendingIsPlaced
    /\ FinalRowIsLeft
    /\ HalfDoneIsWorked

(* A third layer, behind the steps of KeepsPromise: what else holds as long as
   nothing crashes and no save fails. *)

(* Items and rows are there on behalf of calls that were answered QUEUED. *)
OwnersAreAnswered ==
    \A k \in Keys :
        /\ Present(k) => call[item[k].by] \in {"saving", "QUEUED"}
        /\ store[k].state # "NONE" => call[store[k].by] = "QUEUED"

(* The rows of an item: pending with it, and over with it at the latest when
   the worker or the end of the item has written it. *)
RowsFollowItems ==
    \A k \in Keys :
        /\ store[k].state \in Pending =>
              \/ Present(k) /\ item[k].by = store[k].by
              \/ ~Present(k) /\ (phase = "down" \/ k \in todo)
        /\ item[k].state \in Pending /\ call[item[k].by] = "QUEUED" =>
              store[k].state \in Pending /\ store[k].by = item[k].by
        /\ item[k].state \in Terminal /\ worker.key # k /\ k \notin ending =>
              store[k].state \in Terminal

(* No trade was created for what may still have one created: the chain rejects
   only between two items. *)
MayBeMade ==
    /\ \A k \in Keys : item[k].state \notin {"NONE", "SUBMITTED", "COMPLETED"} =>
          made[item[k].by] = 0
    /\ \A k \in Keys : store[k].state \in Pending \ {"SUBMITTED"} =>
          \/ made[store[k].by] = 0
          \/ item[k].state = "SUBMITTED" /\ item[k].by = store[k].by
    /\ ~chainOk => \A k \in Keys : item[k].state \notin InFlight

(* README.md: "OrderQueueService guarantees exactly-once execution". *)
ExactlyOnceExecution == \A c \in Calls : made[c] <= 1

FaultlessInv ==
    /\ OwnersAreAnswered
    /\ RowsFollowItems
    /\ MayBeMade
    /\ ExactlyOnceExecution

=============================================================================
