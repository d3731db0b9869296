------------------------------ MODULE Recovery ------------------------------
(* What becomes of the trades when the process dies: the snapshots that     *)
(* RecoverySnapshotService takes of the engine, the runs of                 *)
(* RecoveryCoordinator that restore them, and the reconciliation with the   *)
(* broker that repairs what a crash left behind.                            *)
(*                                                                          *)
(* Everything here is one process of callbacks that await I/O: a step of    *)
(* the model is what runs between two awaits.  The engine and the broker    *)
(* are cut down to the entry of each trade; TradeEngine has the rest.       *)
(*                                                                          *)
(* A Mutant_ operator is a plausible wrong version of the definition after  *)
(* it, that some property rules out.                                        *)
EXTENDS Integers, Sequences, FiniteSets, SequencesExt

CONSTANTS
    Trades,         \* the trades ever made
    Runs,           \* calls of RecoveryCoordinator.run by POST /recovery/...
    Boot,           \* one of them, which the start-up makes if it is enabled
    Resuming,       \* the runs called with resume: true
    Others,         \* reconciliations that are not a step of a run: those of
                    \* RecoveryScheduler's interval and of POST /reconciliation/run
    NoTrade,
    MaxRetries,     \* RecoveryConfig.maxRetries
    MaxWrites, MaxDeaths, MaxFaults     \* bounds of the model

ASSUME RecoveryAssumption ==
    /\ Boot \in Runs /\ Boot \in Resuming /\ Resuming \subseteq Runs
    /\ Runs \cap Others = {}
    /\ MaxRetries \in Nat /\ MaxWrites \in Nat
    /\ MaxDeaths \in Nat /\ MaxFaults \in Nat

VARIABLES
    process,    \* down, boot (onModuleInit), serving, stopping
    engine,     \* the trades of TradingEngineService
    order,      \* the entry order of each trade, as the broker has it
    asked,      \* trades with a placeEntryOrder under way
    market,     \* MarketDataService: off, up, or `started` but not connected
    debounce,   \* a capture is scheduled
    writing,    \* the captures that are being saved, oldest first
    snapshot,   \* what findLatest returns
    state,      \* RecoveryStateMachine
    running,    \* RecoveryCoordinator.running
    run,        \* the runs
    recon,      \* the reconciliations
    scheduled,  \* RecoveryScheduler has its interval
    owed,       \* history: the open trades of the snapshot at the last start
    deaths,     \* crashes and shutdowns so far
    faults      \* reads and writes that failed

engineVars == <<engine, order, asked>>
captureVars == <<debounce, writing, snapshot>>
runVars == <<state, running, run, scheduled>>
bounds == <<deaths, faults>>
vars == <<process, engineVars, market, captureVars, runVars, recon, owed, bounds>>

-----------------------------------------------------------------------------
(* Trades, orders, snapshots *)

Rank == [WAITING_ENTRY |-> 1, ENTRY_PENDING |-> 2, ACTIVE |-> 3, ENDED |-> 4]
Phases == {"WAITING_ENTRY", "ENTRY_PENDING", "ACTIVE", "ENDED"}

(* filled: 0, 1 for a part, 2 for all; id: the entryOrderId is known *)
Trade == [phase : Phases, filled : 0..2, id : BOOLEAN]

(* new: there is no such trade yet; none: no order has reached the broker *)
Orders == {"new", "none", "open", "partial", "filled"}

FilledBy(o) == CASE o = "partial" -> 1 [] o = "filled" -> 2 [] OTHER -> 0

ASSUME NoTradeAssumption == NoTrade \notin Trade

(* What a trade of a capture can be; no trade before it was captured *)
Book == [Trades -> Trade \cup {NoTrade}]

Advances(e, f) ==
    e # NoTrade /\ f # NoTrade => Rank[e.phase] <= Rank[f.phase] /\ e.filled <= f.filled

Open(e) == e # NoTrade /\ e.phase # "ENDED"

NewTrade == [phase |-> "WAITING_ENTRY", filled |-> 0, id |-> FALSE]

(* Trade.applyEntryOrderResponse for an order the broker has taken *)
Answered(e, o) ==
    IF o = "open" THEN [e EXCEPT !.id = TRUE]
    ELSE [phase |-> "ACTIVE", filled |-> FilledBy(o), id |-> TRUE]

Mutant_AddsTheFill(e, o) ==
    IF e = NoTrade THEN e ELSE [e EXCEPT !.filled = IF @ + FilledBy(o) > 2 THEN 2 ELSE @ + FilledBy(o)]

(* The same command on the trade as it is when a repair arrives.  The       *)
(* entry's life cycle refuses what it has already seen; of a trade that is  *)
(* not ENTRY_PENDING it is the transition of the state that throws, after   *)
(* the fill (and the initial stop loss) have been written.                  *)
Repaired(e, o) ==
    CASE e = NoTrade -> e
      [] e # NoTrade /\ e.phase = "ENTRY_PENDING" -> Answered(e, o)
      [] OTHER -> [e EXCEPT !.filled = IF @ < FilledBy(o) THEN FilledBy(o) ELSE @]

NoTrades == [t \in Trades |-> NoTrade]

(* The captures that wait for their save: those that were taken before the  *)
(* one that has just been saved can no longer become the latest             *)
AfterSave(i) ==
    RemoveAt([j \in DOMAIN writing |->
                [writing[j] EXCEPT !.stale = @ \/ j < i]], i)

Mutant_LastSavedWins(i) == writing[i].trades

(* findLatest goes by capturedAt, not by the order of the saves *)
LatestAfter(i) == IF writing[i].stale THEN snapshot ELSE writing[i].trades

Capture(owner) == [trades |-> engine, owner |-> owner, stale |-> FALSE]

-----------------------------------------------------------------------------
(* Runs and reconciliations *)

(* The steps of a run that await something, and what follows them *)
After == [VERIFY_DATABASE |-> "RESTORE_FEATURE_FLAGS",
          RESTORE_FEATURE_FLAGS |-> "RESTORE_BROKER_AUTHENTICATION",
          RESTORE_BROKER_AUTHENTICATION |-> "RECONNECT_MARKET_DATA",
          RECONNECT_MARKET_DATA |-> "RELOAD_INSTRUMENT_MASTER",
          RELOAD_INSTRUMENT_MASTER |-> "RESTORE_ACTIVE_TRADES",
          RESTORE_ACTIVE_TRADES |-> "RESTORE_TRADING_ENGINE",
          RESTORE_TRADING_ENGINE |-> "RESTORE_RISK_STATE",
          RESTORE_RISK_STATE |-> "VERIFY_POSITIONS",
          VERIFY_POSITIONS |-> "CAPTURE",
          CAPTURE |-> "SAVE"]

Retryable == {"VERIFY_DATABASE", "RESTORE_BROKER_AUTHENTICATION",
              "RECONNECT_MARKET_DATA", "RELOAD_INSTRUMENT_MASTER"}

Working == DOMAIN After
Saving == {"SAVE", "SAVE_FAILURE"}
Results == {"succeeded", "failed", "threw"}

(* The state the machine has while a step is awaited *)
StateDuring == [VERIFY_DATABASE |-> "LOADING_CONFIG",
                RESTORE_FEATURE_FLAGS |-> "DATABASE_CONNECTED",
                RESTORE_BROKER_AUTHENTICATION |-> "BROKER_AUTHENTICATING",
                RECONNECT_MARKET_DATA |-> "BROKER_CONNECTED",
                RELOAD_INSTRUMENT_MASTER |-> "MARKET_CONNECTED",
                RESTORE_ACTIVE_TRADES |-> "INSTRUMENT_LOADED",
                RESTORE_TRADING_ENGINE |-> "INSTRUMENT_LOADED",
                RESTORE_RISK_STATE |-> "ENGINE_RECOVERED",
                VERIFY_POSITIONS |-> "VERIFYING_POSITIONS",
                CAPTURE |-> "VERIFYING_POSITIONS",
                SAVE |-> "COMPLETED"]

Terminal == {"COMPLETED", "FAILED"}

(* The steps after which nothing is asked of the machine *)
NoTransition == {"RESTORE_ACTIVE_TRADES", "VERIFY_POSITIONS"}

NoRun == [pc |-> "off", tries |-> 0, loaded |-> NoTrades]

Reconcilers == Runs \cup Others

(* views: the trades whose orders are still to be looked up; found: the     *)
(* reports to apply - what the broker said of an order that is to be        *)
(* replayed, or "none" without a repair                                     *)
NoReports == [t \in Trades |-> "no report"]
NoRecon == [pc |-> "idle", views |-> NoTrades, found |-> NoReports]

Active(r) == run[r].pc \in Working \cup Saving

Up == process # "down"

Init ==
    /\ process = "down"
    /\ engine = NoTrades
    /\ order = [t \in Trades |-> "new"]
    /\ asked = {}
    /\ market = "off"
    /\ debounce = FALSE /\ writing = <<>> /\ snapshot = NoTrades
    /\ state = "IDLE" /\ running = FALSE /\ scheduled = FALSE
    /\ run = [r \in Runs |-> NoRun]
    /\ recon = [a \in Reconcilers |-> NoRecon]
    /\ owed = {}
    /\ deaths = 0 /\ faults = 0

-----------------------------------------------------------------------------
(* The process *)

(* What a process that ends leaves: the database and the broker *)
Dead ==
    /\ process' = "down"
    /\ engine' = NoTrades /\ asked' = {} /\ market' = "off"
    /\ debounce' = FALSE /\ writing' = <<>>
    /\ state' = "IDLE" /\ running' = FALSE /\ scheduled' = FALSE
    /\ run' = [r \in Runs |-> NoRun]
    /\ recon' = [a \in Reconcilers |-> NoRecon]

Crash ==
    /\ Up /\ deaths < MaxDeaths
    /\ deaths' = deaths + 1
    /\ Dead
    /\ UNCHANGED <<order, snapshot, owed, faults>>

(* RecoveryBootstrapService.onModuleInit; the flag may be off *)
Start ==
    /\ process = "down"
    /\ owed' = {t \in Trades : Open(snapshot[t])}
    /\ \/ /\ process' = "boot"
          /\ run' = [run EXCEPT ![Boot].pc = "LOOKUP"]
       \/ /\ process' = "serving"
          /\ UNCHANGED run
    /\ UNCHANGED <<engineVars, market, captureVars, state, running, scheduled, recon, bounds>>

(* A graceful shutdown: the timers are cleared, and the captures that are   *)
(* being saved are waited for; no last capture is taken                     *)
Stop ==
    /\ process = "serving" /\ deaths < MaxDeaths
    /\ deaths' = deaths + 1
    /\ process' = "stopping"
    /\ debounce' = FALSE /\ scheduled' = FALSE
    /\ UNCHANGED <<engineVars, market, writing, snapshot, state, running, run, recon, owed, faults>>

Exit ==
    /\ process = "stopping" /\ writing = <<>>
    /\ Dead
    /\ UNCHANGED <<order, snapshot, owed, bounds>>

-----------------------------------------------------------------------------
(* How a run goes on and ends *)

Goes(r, pc) == run' = [run EXCEPT ![r].pc = pc, ![r].tries = 0]

(* finally, and what RecoveryBootstrapService does with the result *)
Ends(r, result) ==
    /\ Goes(r, result)
    /\ running' = FALSE
    /\ process' = IF r = Boot /\ process = "boot" THEN "serving" ELSE process
    /\ scheduled' = (scheduled \/ (r = Boot /\ result = "succeeded" /\ process = "boot"))

(* RecoveryStateMachine.reset *)
CanReset == state \in Terminal \cup {"IDLE"}

(* The catch of run(): from a terminal state FAILED is not to be had, and   *)
(* the run throws                                                           *)
Fails(r) ==
    IF state \in Terminal
    THEN Ends(r, "threw") /\ UNCHANGED state
    ELSE /\ Goes(r, "SAVE_FAILURE")
         /\ state' = "FAILED"
         /\ UNCHANGED <<process, running, scheduled>>

(* A step is done.  Every transition has one state it may come from, and    *)
(* the machine is shared: if it is not there the transition throws.         *)
Proceeds(r, step) ==
    IF step \in NoTransition \/ state = StateDuring[step]
    THEN /\ Goes(r, After[step])
         /\ state' = IF step \in NoTransition THEN state ELSE StateDuring[After[step]]
         /\ UNCHANGED <<process, running, scheduled>>
    ELSE Fails(r)

-----------------------------------------------------------------------------
(* Snapshots *)

Mutant_WaitsForTheSave == debounce' = (process # "stopping" /\ writing = <<>>)

(* A domain event: subscribeToAll schedules a capture unless there is one,  *)
(* or the service is destroyed                                              *)
Published == debounce' = (process # "stopping")

TimerFires ==
    /\ debounce /\ Len(writing) < MaxWrites
    /\ debounce' = FALSE
    /\ writing' = Append(writing, Capture("timer"))
    /\ UNCHANGED <<process, engineVars, market, snapshot, runVars, recon, owed, bounds>>

(* The save of the i-th capture returns.  A run goes on with what follows   *)
(* its captureAndPersist.                                                   *)
CaptureSaved(i) ==
    /\ snapshot' = LatestAfter(i)
    /\ writing' = AfterSave(i)
    /\ IF writing[i].owner \in Runs THEN Proceeds(writing[i].owner, "CAPTURE")
       ELSE UNCHANGED <<process, runVars>>
    /\ UNCHANGED <<engineVars, market, debounce, recon, owed, bounds>>

(* A capture whose save fails ends the process when nobody waits for it,    *)
(* fails the run that does, and is ignored in a shutdown                    *)
CaptureFails(i) ==
    /\ faults < MaxFaults
    /\ faults' = faults + 1
    /\ LET owner == writing[i].owner IN
       IF owner = "timer" /\ process # "stopping" THEN Dead
       ELSE /\ writing' = RemoveAt(writing, i)
            /\ IF owner = "timer" THEN UNCHANGED <<process, runVars>>
               ELSE IF process = "stopping" THEN Proceeds(owner, "CAPTURE")
               ELSE Fails(owner)
            /\ UNCHANGED <<engine, asked, market, debounce, recon>>
    /\ UNCHANGED <<order, snapshot, owed, deaths>>

-----------------------------------------------------------------------------
(* The engine and the broker *)

EngineOnly == UNCHANGED <<process, market, writing, snapshot, runVars, recon, owed, bounds>>

(* An item of the order queue, or in boot one it has reloaded *)
CreateTrade(t) ==
    /\ Up /\ order[t] = "new"
    /\ order' = [order EXCEPT ![t] = "none"]
    /\ engine' = [engine EXCEPT ![t] = NewTrade]
    /\ Published
    /\ UNCHANGED asked /\ EngineOnly

(* A price triggers the entry: the order is on its way, and may reach the   *)
(* broker whether or not its answer comes back                              *)
TriggerEntry(t) ==
    /\ Up /\ market = "up" /\ Open(engine[t]) /\ engine[t].phase = "WAITING_ENTRY"
    /\ engine' = [engine EXCEPT ![t].phase = "ENTRY_PENDING"]
    /\ asked' = asked \cup {t}
    /\ \E o \in Orders \ {"new"} : order' = [order EXCEPT ![t] = o]
    /\ Published
    /\ EngineOnly

(* The answer; or a rejection, or none, and the trade is over.  An OPEN     *)
(* order changes the trade without an event.                                *)
EntryAnswered(t) ==
    /\ t \in asked
    /\ asked' = asked \ {t}
    /\ Open(engine[t]) /\ engine[t].phase = "ENTRY_PENDING"
    /\ \/ /\ order[t] \in {"open", "partial", "filled"}
          /\ engine' = [engine EXCEPT ![t] = Answered(@, order[t])]
          /\ IF order[t] = "open" THEN UNCHANGED debounce ELSE Published
       \/ /\ engine' = [engine EXCEPT ![t].phase = "ENDED"]
          /\ Published
    /\ UNCHANGED order /\ EngineOnly

BrokerFills(t) ==
    /\ order[t] \in {"open", "partial"}
    /\ \E o \in {"partial", "filled"} \ {order[t]} : order' = [order EXCEPT ![t] = o]
    /\ UNCHANGED <<engine, asked, debounce>> /\ EngineOnly

(* An exit or a cancel *)
TradeEnds(t) ==
    /\ Up /\ Open(engine[t]) /\ t \notin asked
    /\ engine' = [engine EXCEPT ![t].phase = "ENDED"]
    /\ Published
    /\ UNCHANGED <<order, asked>> /\ EngineOnly

(* The scheduler's morning job; its refresh of the instruments publishes *)
(* before the market data is started                                    *)
MorningStartup ==
    /\ process = "serving" /\ market = "off"
    /\ \/ market' = "up" /\ Published
       \/ market' = "broken" /\ (Published \/ UNCHANGED debounce)
    /\ UNCHANGED <<process, engineVars, writing, snapshot, runVars, recon, owed, bounds>>

-----------------------------------------------------------------------------
(* A run of RecoveryCoordinator *)

RunOnly == UNCHANGED <<order, asked, writing, snapshot, owed, deaths>>

(* run() after its look-up; a run that may not reset the machine throws     *)
(* with `running` set, outside the try                                      *)
Begin(r) ==
    IF CanReset
    THEN /\ running' = TRUE
         /\ Goes(r, "VERIFY_DATABASE")
         /\ state' = StateDuring["VERIFY_DATABASE"]
         /\ UNCHANGED <<process, scheduled>>
    ELSE /\ running' = TRUE
         /\ Goes(r, "threw")
         /\ UNCHANGED <<process, state, scheduled>>

RunUnchanged == UNCHANGED <<engine, market, debounce, recon, faults>>

Call(r) ==
    /\ process = "serving" /\ run[r].pc = "off"
    /\ IF running
       THEN Goes(r, "threw") /\ UNCHANGED <<process, state, running, scheduled>>
       ELSE IF r \in Resuming
       THEN Goes(r, "LOOKUP") /\ UNCHANGED <<process, state, running, scheduled>>
       ELSE Begin(r)
    /\ RunUnchanged /\ RunOnly

(* findLastIncomplete asks for `succeeded: null`, which no run ever writes: *)
(* there is never anything to resume                                        *)
LookedUp(r) ==
    /\ run[r].pc = "LOOKUP"
    /\ Begin(r)
    /\ RunUnchanged /\ RunOnly

LookupFails(r) ==
    /\ run[r].pc = "LOOKUP" /\ faults < MaxFaults
    /\ faults' = faults + 1
    /\ Goes(r, "threw")
    /\ process' = IF r = Boot /\ process = "boot" THEN "serving" ELSE process
    /\ UNCHANGED <<engine, market, debounce, recon, state, running, scheduled>> /\ RunOnly

StepDone(r, step) ==
    /\ run[r].pc = step
    /\ Proceeds(r, step)
    /\ UNCHANGED faults

(* Steps that only read, or write what is not modelled here; logging in and *)
(* downloading the instruments publish events, which schedule a capture     *)
PlainStep(r) ==
    /\ \/ /\ \E step \in {"VERIFY_DATABASE", "RESTORE_FEATURE_FLAGS", "RESTORE_RISK_STATE"} :
             StepDone(r, step)
          /\ UNCHANGED debounce
       \/ /\ \E step \in {"RESTORE_BROKER_AUTHENTICATION", "RELOAD_INSTRUMENT_MASTER"} :
             StepDone(r, step)
          /\ Published
    /\ UNCHANGED <<engine, market, recon>> /\ RunOnly

(* MarketDataService.start returns at once when it was called before, even  *)
(* if it failed.  The next step publishes before its download.              *)
ConnectMarket(r) ==
    /\ StepDone(r, "RECONNECT_MARKET_DATA")
    /\ market' = IF market = "off" THEN "up" ELSE market
    /\ Published
    /\ UNCHANGED <<engine, recon>> /\ RunOnly

LoadSnapshot(r) ==
    /\ run[r].pc = "RESTORE_ACTIVE_TRADES"
    /\ run' = [run EXCEPT ![r] = [pc |-> "RESTORE_TRADING_ENGINE", tries |-> 0, loaded |-> snapshot]]
    /\ UNCHANGED <<process, state, running, scheduled>>
    /\ RunUnchanged /\ RunOnly

Mutant_Overwrites(e, saved) == saved

(* hasTrade, restoreTrade: what the engine has is not replaced *)
Restored(e, saved) == IF e = NoTrade THEN saved ELSE e

(* One trade of the snapshot, and enterRecovery and resumeFromRecovery if   *)
(* it is open.  What the subscription answers makes no difference.          *)
RestoreTrade(r) ==
    /\ run[r].pc = "RESTORE_TRADING_ENGINE"
    /\ \E t \in Trades :
        /\ run[r].loaded[t] # NoTrade
        /\ run' = [run EXCEPT ![r].loaded[t] = NoTrade]
        /\ engine' = [engine EXCEPT ![t] = Restored(@, run[r].loaded[t])]
        /\ IF engine[t] = NoTrade /\ Open(run[r].loaded[t]) THEN Published ELSE UNCHANGED debounce
    /\ UNCHANGED <<process, state, running, scheduled, market, recon, faults>> /\ RunOnly

EngineRestored(r) ==
    /\ run[r].loaded = NoTrades
    /\ StepDone(r, "RESTORE_TRADING_ENGINE")
    /\ UNCHANGED <<engine, market, debounce, recon>> /\ RunOnly

CanRetry(r) == run[r].pc \in Retryable /\ run[r].tries < MaxRetries

(* A step throws; it is tried again unless that is over, or the error       *)
(* cannot be saved.  A start of the market data that failed has set its     *)
(* flag.                                                                    *)
StepFails(r) ==
    /\ run[r].pc \in Working \ {"RESTORE_TRADING_ENGINE", "VERIFY_POSITIONS", "CAPTURE"}
    /\ run[r].pc = "RECONNECT_MARKET_DATA" => market = "off"
    /\ faults < MaxFaults
    /\ faults' = faults + 1
    /\ market' = IF run[r].pc = "RECONNECT_MARKET_DATA" THEN "broken" ELSE market
    /\ \/ /\ CanRetry(r)
          /\ run' = [run EXCEPT ![r].tries = @ + 1]
          /\ UNCHANGED <<process, state, running, scheduled>>
       \/ Fails(r)
    /\ IF run[r].pc = "RELOAD_INSTRUMENT_MASTER" THEN Published ELSE UNCHANGED debounce
    /\ UNCHANGED <<engine, recon>> /\ RunOnly

(* VERIFY_POSITIONS awaits a reconciliation, whose errors it ignores; then  *)
(* the last capture of the run is taken                                     *)
PositionsVerified(r) ==
    /\ run[r].pc = "VERIFY_POSITIONS" /\ recon[r].pc = "done"
    /\ StepDone(r, "VERIFY_POSITIONS")
    /\ recon' = [recon EXCEPT ![r] = NoRecon]
    /\ writing' = Append(writing, Capture(r))
    /\ UNCHANGED <<engineVars, market, debounce, snapshot, owed, deaths>>

(* The history is saved.  When that fails after COMPLETED it is the catch's *)
(* turn, and when it fails in the catch nothing is left to try.             *)
HistorySaved(r) ==
    /\ \/ run[r].pc = "SAVE" /\ Ends(r, "succeeded")
       \/ run[r].pc = "SAVE_FAILURE" /\ Ends(r, "failed")
    /\ UNCHANGED state /\ RunUnchanged /\ RunOnly

HistoryFails(r) ==
    /\ run[r].pc \in Saving /\ faults < MaxFaults
    /\ faults' = faults + 1
    /\ IF run[r].pc = "SAVE" THEN Fails(r) ELSE Ends(r, "threw") /\ UNCHANGED state
    /\ UNCHANGED <<engine, market, debounce, recon>> /\ RunOnly

-----------------------------------------------------------------------------
(* PositionReconciliationService.reconcile *)

ReconOnly == UNCHANGED <<order, asked, market, writing, snapshot, owed, deaths>>

(* The open trades, as they are now *)
BeginRecon(a) ==
    /\ recon[a].pc = "idle"
    /\ IF a \in Runs THEN run[a].pc = "VERIFY_POSITIONS" ELSE process = "serving"
    /\ recon' = [recon EXCEPT ![a] =
                    [pc |-> "fetch",
                     views |-> [t \in Trades |-> IF Open(engine[t]) THEN engine[t] ELSE NoTrade],
                     found |-> NoReports]]
    /\ UNCHANGED <<process, engine, debounce, runVars, faults>> /\ ReconOnly

(* MismatchDetector and AutoRepairService.isSafeToRepair.  The broker is    *)
(* asked only for an order whose id is known; a view that waits for its     *)
(* entry has filled nothing, so that nothing about it is CRITICAL.          *)
SafeToRepair(view, o) ==
    /\ view.id
    /\ view.phase \in {"WAITING_ENTRY", "ENTRY_PENDING"}
    /\ o \in {"partial", "filled"}

(* The broker's answer for one trade, or none: then the trade is skipped    *)
Fetch(a) ==
    /\ recon[a].pc = "fetch"
    /\ \E t \in Trades :
        LET view == recon[a].views[t]
            asks == [recon EXCEPT ![a].views[t] = NoTrade]
            replay == IF SafeToRepair(view, order[t]) THEN order[t] ELSE "none" IN
        /\ view # NoTrade
        /\ \/ /\ recon' = [asks EXCEPT ![a].found[t] = replay]
              /\ UNCHANGED faults
           \/ /\ view.id /\ faults < MaxFaults
              /\ faults' = faults + 1
              /\ recon' = asks
    /\ UNCHANGED <<process, engine, debounce, runVars>> /\ ReconOnly

(* One report: the repair, and the events about it.  A repair of a trade    *)
(* that has moved on throws and is caught.  Then the report is saved.       *)
Apply(a) ==
    /\ recon[a].pc = "fetch" /\ recon[a].views = NoTrades
    /\ \E t \in Trades :
        /\ recon[a].found[t] # "no report"
        /\ engine' = IF recon[a].found[t] = "none" THEN engine
                     ELSE [engine EXCEPT ![t] = Repaired(@, recon[a].found[t])]
        /\ recon' = [recon EXCEPT ![a].found[t] = "no report"]
    /\ Published
    /\ UNCHANGED <<process, runVars, faults>> /\ ReconOnly

Reported(a) ==
    /\ recon[a].pc = "fetch" /\ recon[a].views = NoTrades /\ recon[a].found = NoReports
    /\ recon' = [recon EXCEPT ![a] = IF a \in Runs THEN [NoRecon EXCEPT !.pc = "done"] ELSE NoRecon]
    /\ UNCHANGED <<process, engine, debounce, runVars, faults>> /\ ReconOnly

(* A report, or the record of a repair, cannot be saved: the rest of the    *)
(* reports is dropped.  A run ignores that, a request is answered with an   *)
(* error, and of the interval's call nobody takes the rejection.            *)
ReconFails(a) ==
    /\ recon[a].pc = "fetch" /\ recon[a].views = NoTrades
    /\ faults < MaxFaults
    /\ faults' = faults + 1
    /\ \/ /\ recon' = [recon EXCEPT ![a] =
                            IF a \in Runs THEN [NoRecon EXCEPT !.pc = "done"] ELSE NoRecon]
          /\ UNCHANGED <<process, engine, asked, market, debounce, writing, runVars>>
       \/ /\ a \notin Runs /\ scheduled
          /\ Dead
    /\ UNCHANGED <<order, snapshot, owed, deaths>>

-----------------------------------------------------------------------------
RunStep(r) ==
    \/ LookedUp(r) \/ LookupFails(r)
    \/ PlainStep(r) \/ ConnectMarket(r) \/ LoadSnapshot(r) \/ RestoreTrade(r)
    \/ EngineRestored(r) \/ StepFails(r) \/ PositionsVerified(r)
    \/ HistorySaved(r) \/ HistoryFails(r)

ReconStep(a) == Fetch(a) \/ Apply(a) \/ Reported(a) \/ ReconFails(a)

WriteStep == \E i \in DOMAIN writing : CaptureSaved(i) \/ CaptureFails(i)

EngineStep == \E t \in Trades :
    CreateTrade(t) \/ TriggerEntry(t) \/ EntryAnswered(t) \/ BrokerFills(t) \/ TradeEnds(t)

Next ==
    \/ Crash \/ Start \/ Stop \/ Exit
    \/ TimerFires \/ WriteStep \/ EngineStep \/ MorningStartup
    \/ \E r \in Runs : Call(r) \/ RunStep(r)
    \/ \E a \in Reconcilers : BeginRecon(a) \/ ReconStep(a)

Spec == Init /\ [][Next]_vars

-----------------------------------------------------------------------------
Captures == [trades : Book, owner : Runs \cup {"timer"}, stale : BOOLEAN]
Places == {"off", "LOOKUP"} \cup Working \cup Saving \cup Results
Reconciliations ==
    [pc : {"idle", "fetch", "done"}, views : Book,
     found : [Trades -> {"no report", "none", "partial", "filled"}]]

TypeOK ==
    /\ process \in {"down", "boot", "serving", "stopping"}
    /\ engine \in Book
    /\ order \in [Trades -> Orders]
    /\ asked \subseteq Trades
    /\ market \in {"off", "up", "broken"}
    /\ debounce \in BOOLEAN
    /\ writing \in Seq(Captures)
    /\ snapshot \in Book
    /\ state \in {"IDLE", "FAILED"} \cup {StateDuring[step] : step \in DOMAIN StateDuring}
    /\ running \in BOOLEAN /\ scheduled \in BOOLEAN
    /\ run \in [Runs -> [pc : Places, tries : 0..MaxRetries, loaded : Book]]
    /\ recon \in [Reconcilers -> Reconciliations]
    /\ deaths \in Nat /\ faults \in Nat
    /\ owed \subseteq Trades

(* However a run ends - a step that fails, a history that cannot be saved,  *)
(* a FAILED that throws, a second run that throws after it has set          *)
(* `running` - the next one can be started: without a run under way the     *)
(* flag is down and the machine can be reset.                               *)
NextRunCanStart == (\A r \in Runs : ~Active(r)) => ~running /\ CanReset

(* The newest capture that has been taken, saved or not *)
Newest == IF writing = <<>> \/ Last(writing).stale THEN snapshot ELSE Last(writing).trades

(* A crash loses what happened since the last capture, and a capture is     *)
(* never far: while a trade of the engine differs from the newest capture,  *)
(* the timer is set (recovery-snapshot.service.ts:147-166).  What is        *)
(* excepted is that an entry was answered OPEN, which publishes nothing,    *)
(* and what changes in a shutdown.                                          *)
SameCapture(e, f) ==
    \/ e = f
    \/ e # NoTrade /\ f # NoTrade /\ e.phase = "ENTRY_PENDING" /\ f = [e EXCEPT !.id = FALSE]
    \/ ~Open(e) /\ ~Open(f)

CaptureCovers ==
    process \in {"boot", "serving"} =>
        \A t \in Trades : engine[t] # NoTrade /\ ~SameCapture(engine[t], Newest[t]) => debounce

(* In one process a trade is never set back and never dropped: not by a     *)
(* second run that restores an old snapshot over it, nor by a repair from   *)
(* an old look at the broker (trading-engine.service.ts:128-133).  Trades   *)
(* that ended a day ago are pruned, which is left out here.                 *)
TradesNeverGoBack ==
    [][process' # "down" =>
        \A t \in Trades : engine[t] # NoTrade =>
            engine'[t] # NoTrade /\ Advances(engine[t], engine'[t])]_vars

(* What the engine believes to have bought, the broker has filled: not an   *)
(* answer applied twice - by the request, and by a repair of the            *)
(* reconciliation - nor one that overtakes another (trade.aggregate.ts:     *)
(* 373-422).                                                                *)
FillsAreReal == \A t \in Trades : engine[t] # NoTrade => engine[t].filled <= FilledBy(order[t])

(* What findLatest returns does not go back either, whatever order the      *)
(* saves return in.                                                         *)
SnapshotNeverGoesBack ==
    [][\A t \in Trades : Advances(snapshot[t], snapshot'[t])]_vars

(* "rebuilds exact in-memory state on restart" (README.md:320): a trade     *)
(* that was open in the snapshot at the start is in the engine once the     *)
(* start-up's run has succeeded, which is when the scheduler is set.        *)
RebuildsState ==
    scheduled => \A t \in owed : engine[t] # NoTrade

-----------------------------------------------------------------------------
(* Inductive invariants, for the proofs *)

(* The machine is in the middle of a run only while some run is, and        *)
(* `running` is only left set while a run is there to clear it.             *)
RunInv ==
    /\ state \notin Terminal \cup {"IDLE"} => \E r \in Runs : run[r].pc \in Working
    /\ running => \E r \in Runs : Active(r)

(* Nothing of a process outlives it *)
DownIsIdle == process = "down" =>
    /\ \A r \in Runs : run[r].pc = "off"
    /\ \A a \in Reconcilers : recon[a].pc = "idle"
    /\ writing = <<>> /\ ~debounce /\ asked = {}

(* What is known of a trade outside the engine: in the snapshot, captures   *)
(* and loaded snapshots; what reconciliations look at, and will replay      *)
Written(t) == {writing[i].trades[t] : i \in DOMAIN writing}
Kept(t) == {snapshot[t]} \cup Written(t) \cup {run[r].loaded[t] : r \in Runs}
Views(t) == {recon[a].views[t] : a \in Reconcilers}
Found(t) == {recon[a].found[t] : a \in Reconcilers}

(* Of a trade that still waits for its entry nothing has been bought, and   *)
(* no order is known before it was sent.                                    *)
Sound(e) == e # NoTrade =>
    /\ e.phase \in {"WAITING_ENTRY", "ENTRY_PENDING"} => e.filled = 0
    /\ e.phase = "WAITING_ENTRY" => ~e.id

(* The parts of the invariant, of a trade that the engine has as e and the  *)
(* broker as o                                                              *)
Real(e, kept, o) ==
    \A f \in kept \cup {e} : Sound(f) /\ (f # NoTrade => f.filled <= FilledBy(o))

NewLeavesNoTrace(e, kept, o) == o = "new" => \A f \in kept \cup {e} : f = NoTrade

(* The engine is ahead of what is kept; what it does not have yet is known  *)
(* from one capture only, of an earlier process                             *)
EngineIsAhead(e, kept) == \A f \in kept : Advances(f, e)
OneToRestore(e, kept, written) == e = NoTrade =>
    /\ \A f, g \in kept : f # NoTrade /\ g # NoTrade => f = g
    /\ \A f \in written : f = NoTrade

(* What a reconciliation looks at the engine has, and what it will replay   *)
(* is of a trade that has sent its entry.                                   *)
ViewsAreBehind(e, views) ==
    \A v \in views : v # NoTrade => Sound(v) /\ e # NoTrade /\ Advances(v, e)
RepairsAreReal(e, found, o) == \A f \in found \cap {"partial", "filled"} :
    e # NoTrade /\ e.phase # "WAITING_ENTRY" /\ FilledBy(f) <= FilledBy(o)

TradeInv(e, kept, written, o, views, found) ==
    /\ Real(e, kept, o) /\ NewLeavesNoTrace(e, kept, o)
    /\ EngineIsAhead(e, kept) /\ OneToRestore(e, kept, written)
    /\ ViewsAreBehind(e, views) /\ RepairsAreReal(e, found, o)

DataInv == \A t \in Trades :
    TradeInv(engine[t], Kept(t), Written(t), order[t], Views(t), Found(t))

IInv == TypeOK /\ RunInv /\ DownIsIdle /\ DataInv

(* The second layer: the captures that wait for their save.  Those that can *)
(* no longer become the latest are the oldest, and each of the others is    *)
(* ahead of the snapshot and of those before it.                            *)
CapturesInOrder ==
    /\ \A i, j \in DOMAIN writing : i < j /\ writing[j].stale => writing[i].stale
    /\ \A i, j \in DOMAIN writing : i < j =>
         \A t \in Trades : Advances(writing[i].trades[t], writing[j].trades[t])
    /\ \A i \in DOMAIN writing : ~writing[i].stale =>
         \A t \in Trades : Advances(snapshot[t], writing[i].trades[t])

Covers(book) == \A t \in Trades : engine[t] # NoTrade => SameCapture(engine[t], book[t])

(* With no timer set the engine is captured: by the snapshot and all that   *)
(* may replace it, or by a capture of the timer and all that were taken     *)
(* after it.  A save of the timer's that fails ends the process; one of a   *)
(* run's does not.                                                          *)
Covered ==
    \/ /\ Covers(snapshot)
       /\ \A i \in DOMAIN writing : ~writing[i].stale => Covers(writing[i].trades)
    \/ \E k \in DOMAIN writing :
         /\ writing[k].owner = "timer" /\ ~writing[k].stale
         /\ \A i \in DOMAIN writing : k <= i => Covers(writing[i].trades)

CaptureInv ==
    /\ CapturesInOrder
    /\ process \in {"boot", "serving"} /\ ~debounce => Covered
    /\ process = "down" => engine = NoTrades
=============================================================================
