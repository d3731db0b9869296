# Vertrade: a verification project

Vertrade lets users of a web front end trade options, on paper or through a
broker. Its back end (`src/Backend/src`, NestJS, one Node process, MongoDB)
takes a request, validates it, puts it into an order queue, turns it into a
trade, watches market prices for the trade's entry, targets and stop loss,
sends orders to an executor (a simulator or the broker Dhan), and keeps a
virtual account for each user of paper trading. Around this core it guards the
trader with risk controls, keeps the sessions with the broker alive, feeds
prices to browsers, resolves what a user types to a contract, and recovers what
a restart has interrupted.

This directory holds TLA+ modules that model that program, TLC configurations
that check them on small instances, and proofs checked by TLAPS.

## 1. Inventory

Paths are relative to `src/Backend/src`; `m/` stands for `modules/`. The front
end is `src/Frontend/src`. The status of every component, and why a part of it
is left out, is in `PROJECT.json` under `components`.

### The core

**Order queue** (`m/order-queue`). *State*: a map of queue items by
idempotency key, one Mongo row per item, the promise chain that serialises the
worker, in-memory instrument locks. *Operations*: `submitTrade` (duplicate
check, validation, insert, save, enqueue), `cancel`, `expireStaleItems`,
`pruneCompletedItems`, `onModuleInit` (reload rows that are not terminal),
`QueueWorker.processOnce` (lock, process, `createTrade`, submitted, completed;
retry with backoff), `onModuleDestroy` (drain), lock clean-up. *Talks to*:
validation before, the trading engine after, the event bus for every
transition. *Hard*: awaits between every two writes, failing saves, a crash
between `createTrade` and the row that says so, items cancelled while they wait
in the chain. *Correct if*: a request becomes a trade at most once, rows always
tell a restart enough, nothing accepted is stranded.

**Trade aggregate and trading engine** (`m/trading-engine`). *State*: the map of
trades; per trade a state (13 of them), two order life cycles, filled and exited
quantities, remaining targets, the current stop loss, `isAwaitingExit`.
*Operations*: `createTrade`, `handleMarketPriceUpdate`, `cancelTrade`,
`requestExit`, `requestPartialExit`, `updateTrailingStopLoss`, and the calls of
recovery. *Talks to*: an executor for orders, the managers of trade-lifecycle
through events, the event bus. *Hard*: every executor call is an await during
which prices, exits and cancels go on; answers come late, in part, never.
*Correct if*: one entry is asked for per trade, the books record nothing that was not
executed, on paper no trade sells more than it bought, a stop loss that is hit is
honoured.

**Executors** (`m/broker/executors`). `PaperExecutor` keeps prices and orders in
memory; `DhanExecutor` is HTTP, with retries of the same POST, each of which may be
an order of its own; a router picks one by the mode of the trade; a safety gate may
refuse live orders.

**Trade lifecycle** (`m/trade-lifecycle`). *State*: an extension row per trade,
patched by read-merge-write; a cache of positions; the archive of ended trades.
*Operations*: `TargetManager` turns a target hit into the planned partial exit,
`ExitManager` requests exits with a reason, `TrailingManager` evaluates a
strategy on every price, `PositionManager` composes what the screens show,
`TradeLifecycleService` archives, `CleanupJob` evicts. *Hard*: an evaluation
uses an extension read before an await; a reader may cache a copy that is out of
date; an archive may fail before the eviction. *Correct if*: what was evicted is
found as it ended, a trailing stop never gives back what was locked in, and the
figures add up.

**Paper account and paper trading** (`m/paper-account`, `m/paper-trading`).
*State*: one account document per user (initial, available, reserved, PnL) and
one ownership document per trade (PENDING, OPEN, CLOSED, FAILED, CANCELLED).
*Operations*: `createTrade` (reserve, submit, write the row), `cancelTrade`
(cancel in the queue, mark, give back), `resetPaperBalance`, and a listener of six
events of the queue and the engine that marks rows and gives margin back. *Hard*:
two documents, no transaction; events that are delivered once, to a handler that
may not find its row yet; double clicks; crashes. *Correct if*: margin is given
back once, never early, and the figures always add up.

**Recovery and reconciliation** (`m/recovery`, `m/position-reconciliation`).
*State*: snapshot documents (the latest by `capturedAt` counts), a debounce timer
and the captures being saved, a state machine and a `running` flag that all runs
share, a history of runs. *Operations*: a capture two seconds after a domain
event, or at the end of a run; a run of steps (database, flags, broker login,
market data, instruments, load the snapshot, restore the trades, risk state,
reconcile, capture, history) with retries; a reconciliation of the open trades with
the broker, which replays the answer to an entry that was missed. *Hard*:
captures that overlap a run, the engine or each other; two runs on one machine;
repairs from an old look; a crash anywhere. *Correct if*: trades come back
and do not go back, fills are real, a run can always be started.

### What stands before the engine

**Trade validation** (`m/trade-validation`). Ten rules in a fixed order, without
state of their own. *Correct if*: what passes does not throw in the aggregate.

**Risk management** (`m/risk-management`). *State*: kill switch, emergency stop,
cooldown, the day's books and the policy, each a cached value and a document;
circuit breakers in memory. *Operations*: activate and deactivate, trigger and
reset, the emergency pass (cancel what is pending, exit what is open), outcomes
recorded one behind the other, the maintenance job, the evaluation of a request.
*Hard*: cache and document change at different moments, calls overlap, a write
fails half way, a position fills during the pass. *Correct if*: a stop that is
known stays on, one pass runs and reaches every position, each outcome is counted
once, and a cooldown ends.

**Instrument master and resolver** (`m/instrument-master`,
`m/instrument-resolver`, and `NewTrade` of the front end). *State*: a cached
catalogue with a version, a backup in Mongo saved in batches, the form a trade is
typed in. *Operations*: refresh (fetch, swap, save, prune), start from the newest
backup, resolve a typed call to contracts, list the expiries. *Hard*: refreshes
overlap; a save is cut short; the catalogue or the day changes between what was
shown and what is submitted. *Correct if*: the next start serves what is served
now, and a call is never taken for another contract.

### What the program keeps open

**Broker sessions, accounts, trading mode** (`m/broker/broker-auth`,
`m/broker/broker-accounts`, `m/trading-mode`, requests of `DhanExecutor`).
*State*: per account a session, a pending login or renewal, a token document, an
account document; per user the mode and the account selected. *Operations*:
login, refresh, restore, ensure, logout, the renewal timer, adding, activating,
reconnecting, disconnecting and removing an account, the switches of mode, the
bootstrap of a restarted process. *Hard*: all of them overlap; a renewal kills the
token it renews; answers are lost. *Correct if*: one attempt per account at a
time, nobody waits for none, and memory does not keep a dead token.

**Market data and real-time gateway** (`m/market-data`, `m/realtime`, the price
hooks of the front end). *State*: one provider with a web socket, retry timers and
a watchdog; reference counts of instruments; rooms of browsers. *Operations*:
start, stop, connect, drop, retry, subscribe, unsubscribe; connect and join on the
gateway's side. *Hard*: a failing socket raises two events and rejects a call; a
browser leaves while its subscription is awaited. *Correct if*: what is asked for
is what is watched, a chart gets the price there is, a drop makes one connection
out of one.

**Users, sign-in and password reset** (`m/auth`, `m/users`, `m/password-reset`,
`m/email`, `ForgotPassword` and `AuthProvider` of the front end). *State*: users'
rows, codes, attempts, the wizard and the session of each tab, the socket.
*Operations*: request, verify, reset, login, register, `me`, logout; deliveries by
Gmail or SMTP. *Hard*: read-modify-write of rows and codes by overlapping
calls of several tabs, answers of an earlier session. *Correct if*: a reset
changes the account that asked for it and ends every code, and the socket speaks
for the user who is signed in.

**Scheduler and broker health** (`m/scheduler`, `m/broker-health`). *State*:
intervals, jobs in flight, job executions; the status, its snapshot and the
recovery attempts. *Operations*: start, stop, six jobs, ten indicators and their
aggregate, the announcement of a transition, the recovery with backoff. *Hard*:
jobs overlap, fail before, in and after their report, or never answer. *Correct if*:
a failure does not silence the health check, and what is shown was announced.

**Event bus** (`core/event-bus`). Synchronous delivery; `void handler(event)`: a
rejection is unhandled and ends the process.

Configuration, feature flags, logging, audit, settings, app-config and the pages
of the front end that only show what the server answers keep no state that
another part depends on.

Every hazard found in this code is listed in `PROJECT.json` under `hazards`,
at its line, with the properties that watch it or the reason why none does.

## 2. Modules

| module | models | theorems |
|---|---|---|
| `ExactlyOnce` | what a queue promises: a request is accepted, then executed once or dropped | |
| `OrderQueue` | the order queue, its worker, rows, crashes and restarts; the refinement of `ExactlyOnce` | `OrderQueueProofs` |
| `Trade` | the aggregate: its two transition tables and its commands | |
| `Position` | what a trade promises: asked to be bought once, nothing sold before it opens, no more recorded than was executed, ended once; on paper bought in its quantity, sold to the last piece and no further | |
| `TradeEngine` | the engine with its executors, managers and prices; EXTENDS `Trade`; the refinement of `Position` | `TradeEngineProofs` |
| `PaperLedger` | account, ownership rows, requests, cancels, listener; the queue and the engine as the stages a trade goes through | `PaperLedgerProofs` |
| `Recovery` | snapshots, runs, reconciliations, and the entries of the trades they restore | `RecoveryProofs` |
| `TradeRules` | validation rules and the decision of the risk engine, as operators | |
| `RiskControls` | the risk services and a request's way to a trade; EXTENDS `TradeRules` | `RiskControlsProofs` |
| `Instruments` | instrument master, resolver and the form of a new trade | `RequestsProofs` |
| `TradeFigures` | trailing strategies, stages, charges, profit, archived records, net positions; EXTENDS `Trade` | `RequestsProofs` |
| `TradeViews` | extensions, trailing, exits, the cache of positions, archive and eviction; EXTENDS `TradeFigures` | `RequestsProofs` |
| `Figures` | what the figures are asked to satisfy, of a trailing configuration, a position and the positions of an instrument; EXTENDS `TradeViews` | `RequestsProofs` |
| `BrokerSession` | accounts, sessions, mode, renewal, and the requests that need them | `BrokerSessionProofs` |
| `MarketFeed` | the feed from its sockets to the browsers' charts | `ConnectionsProofs` |
| `SignIn` | wizard, reset, registration, login and the session of a tab | `ConnectionsProofs` |
| `Housekeeping` | scheduler, jobs, health indicators and recovery | `ConnectionsProofs` |

`MCOrderQueue`, `MCOrderQueueAll`, `MCTradeEngine`, `MCTradeEngineAll`,
`MCPaperLedger`, `MCRecovery`, `MCRequests` (with the values of `MCRiskValues` and
the grids of `MCFigures`, which it gives to `Figures`), `MCConnections` and
`MCProgress` instantiate them.

Node runs one event loop: **an action is the code between two awaits**. What is
awaited decides what may come in between. A write to Mongo or a call to Dhan lets
anything happen, and is a state of its own (`saveLocked`, `mark`, a handler at
`exit`). `PaperExecutor` resolves at once: only other continuations of the same
turn of the loop can come in between, which `TradeEngine` expresses with `Hot` and
`NewTurn`. A write may be answered, may be lost, or may land without an answer;
the last two throw at the caller.

Operators named `Mutant_...` are wrong versions of the definition after them. No
specification uses them: replacing a definition by its mutant makes a property
fail, which shows what the property is sensitive to.

**Scenarios.** Commands that many operators may give at any time make state spaces
of no interest: `RiskControls`, `Instruments`, `TradeViews`, `BrokerSession`,
`MarketFeed`, `SignIn` and `Housekeeping` have a variable that holds, from the
start, a set of the kinds of events a behaviour may see (`"switch"`, `"crash"`,
`"drop"`, ...), and every action that begins something asks for its kind. The
configurations list the sets; each puts together what meets in the code.

### OrderQueue

| code | here |
|---|---|
| `OrderQueueService.items`, rows, `processingChain`, locks | `item`, `store`, `chain` and `chainOk`, `locks` |
| `submitTrade` | `Submit`, `ValidationFails`, `Insert`, `SubmitSaved`, `SubmitSaveThrows` |
| `cancel`, `expireStaleItems` | `Cancel`, `Expire`, then `EndSaved` or `EndSaveThrows` |
| `processOnce`, `handleFailure` | `Dequeue`, `LockedSaved`, `ProcessingSaved`, `CreateTrade`, `SubmittedSaved`, `CompletedSaved`, `AttemptFails`, `RetryingSaved`, `Retry`, `FailedSaved`, and what happens when one of the saves throws |
| process death | `Crash`, `UnhandledRejection` (the chain was rejected; no handler is installed), `Shutdown` and `Exit` |
| `onModuleInit` | `Restart`, `ReloadQueued`, `ReloadOther`, `ReloadSaved`, `ReloadSaveThrows`, `Listen` |

`made` counts the trades ever created for a call; it is auxiliary. Instruments,
prices and payloads are left out; validation is a choice. The clock appears as
the choice that an item is old enough to expire or to be pruned.

### Trade and TradeEngine

A trade is a record; operators such as `AdvancePrice`, `EntryFills`, `ExitFills`
and `MoveStopLoss` translate the methods of the aggregate, and yield the trade
afterwards and whether the command returned or threw: a command that throws half way
keeps the fields it had written (`Thrown`).

| code | here |
|---|---|
| `TradingEngineService.trades`, the executors' orders | `trade`, `order` |
| a call under way, of a price, an exit or a cancel | `handler[h]` |
| `handleMarketPriceUpdate`, `evaluateTrade` | `Tick`, `NextTrade`, `EvaluateTrade`; `EndOfRead` |
| `placeEntryOrder`, `exitPosition`, `cancelOrder` and their continuations | `PaperEntry`, `PaperExit`, `LiveEntry`, `LiveExit`, `LiveCancel`, `Continue` |
| `createTrade`, `cancelTrade`, `requestExit`, `requestPartialExit`, `updateTrailingStopLoss` | `CreateTrade`, `CancelTrade`, `RequestFullExit`, `RequestPartialExit`, `UpdateTrailingStopLoss` |
| the broker's side | `BrokerFills` |

`order` is what the executor has executed or holds, so that the books of a trade can
be compared with the truth. `safeSend` repeats a POST that was answered with a 5xx or
not at all: `Copies` is what the broker may make of the repetitions, `stray` what they
have bought (what they have sold is in `sold`); no part of the program learns of them. `burst` says that a second frame was read from the socket
together with the first and will be dispatched in the same turn. Average prices and
profit are in `TradeFigures`: no decision of the engine depends on them.

`Positions` maps a trade and its order to its `Position`: the 13 states to four
phases (`PhaseOf`: waiting, open, completed, ended), what the orders came to
(`entries`, `bought`, `sold`) and what the trade has recorded of them (`filled`,
`exited`). Every step of the engine is then a step of one position, a purchase, an
execution nobody was told of, a sale or an end, or shows in none
(`PositionsAreKept`). `Position` says what a live trade promises and what only a paper
trade does: of a live one, one request may come to several orders (`OrdersPerCall`), of
which it records one at most, its entry may be bought after it has ended, and more may
be sold than was bought.

### PaperLedger

`order[t]` is how far the queue and the engine are with trade t. `UNCHAINED` is
an item saved but not enqueued, `DROPPED` one cancelled in memory whose row still
says QUEUED; `Reloaded` says what a restart makes of each. `task` are the
listener's running handlers, `click` the cancel requests. A task reads the row,
waits, and overwrites the whole document, as the code does. `LAPSED` is an item
expired in memory whose row still says QUEUED.

### Recovery

| code | here |
|---|---|
| `RecoverySnapshotService`: timer, `activeWritePromises`, `findLatest` | `debounce`, `writing`, `snapshot`; `Published`, `TimerFires`, `CaptureSaved`, `CaptureFails` |
| `RecoveryCoordinator.run`, its steps, `running`, the state machine | `run`, `running`, `state`; `Call`, `LookedUp`, `Begin`, one action per kind of step, `Proceeds`, `Fails`, `Ends` |
| `RecoveryBootstrapService`, `RecoveryScheduler` | `Start`, the run `Boot`, `scheduled` |
| `restoreTrade`, `applyRecoveredOrderResponse` | `Restored`, `Repaired` |
| `PositionReconciliationService.reconcile` | `BeginRecon`, `Fetch`, `Apply`, `Reported`, `ReconFails` |
| `MarketDataService.start` | `market`, where `broken` is `started` without a connection |
| the engine and the broker, up to the entry | `CreateTrade`, `TriggerEntry`, `EntryAnswered`, `BrokerFills`, `TradeEnds` |

A trade is its phase, what it believes to have filled, and whether its
`entryOrderId` is known; `order` is the truth at the broker. The state machine
is one for all runs and each transition has one predecessor, so that a run that
overlaps another finds the machine elsewhere and fails: `StateDuring` and
`Proceeds` are that table. Two runs get past `if (this.running)` only through the
await of `findLastIncomplete`. That look-up asks for `succeeded: null`, which no
run writes, so nothing is ever resumed from a step, whatever `README.md:340-343`
says of it; the model has the await and no more. A run that may not reset the
machine throws outside the `try` with the flag set, against the comment in
`RecoveryBootstrapService` that `run()` always resolves.

### TradeRules and RiskControls

| code | here |
|---|---|
| the rules of `TradeValidationModule`, in their order | `Validate`, a sequence of verdicts of which the first failure counts |
| `evaluateTradeRisk` and its checks | `EvaluateTradeRisk`, `CheckExposure`, `CheckCapital`, ... |
| the services' caches, their documents | `memory`, `doc` |
| a request or handler that awaits a write | `call[c]`: what it is, where it goes on, the write it waits for; `Applied` and `Fail` end the wait |
| `KillSwitchService.activate`, its pass | `Activate`, `KillSaved`, `CancelOne`, `Cancelled`, `ExitOne`, `PassEnds` |
| `EmergencyStopService`, `CooldownService`, `RiskPolicyService` | `Trigger`, `StopSaved`, `Reset`; `StopLossHit`, `Expire`; `UpdatePolicy` |
| `DailyRiskStateService` with its `updateChain` | `chain`, `TradeCompleted`, `FindDay`, `ApplyOutcome`, `Recorded` |
| `CircuitBreakerService` | `BreakerEvent`, `Recovered` |
| `RiskMaintenanceJob` | `Maintain` |
| `submitTrade` to `createTrade` | `Submit`, `Decide`, `Proceed` |

`told` is auxiliary: the books as the outcomes make them; `lowered` says that an
operator has asked to lower a control. In the scenarios with `"vet"` all candidate
requests are submitted, else a few.

### Instruments

Rows of the broker's file and entries of the mock become contracts
(`MapDhanInstrument`, `BuildIndexOptions`, `BuildEquities`); a symbol is a sequence of
words, so that `ParseSymbolInput` works on words and not on characters. A refresh is
`RefreshStarts`, `RefreshFetched`, one `BatchSaved` per batch, `PruneListed`,
`Pruned`; `SaveFails` and a crash leave a version that is cut short (`lost`).
`OnModuleInit` serves `FindLatestSnapshot`. `Resolve` and `ResolveExpiries` translate
the resolver; `Types`, `ExpiriesAnswered`, `SelectExpiry`, `Submits` and
`TradeAnswered` the form, whose answers may come after more was typed. An instant is
half a day, since a contract expires with its day.

### TradeFigures and TradeViews

`TradeFigures` has the arithmetic (`Compute` of the trailing calculator, `Stage`,
`Charges`, `BookedPnl`, `UnrealizedPnl`, `Record` and `ToRecord`,
`AggregateOneInstrument`) in integers: prices, and millionths of a rupee. In
`TradeViews` a market price calls `TrailingManager` (`MarketPrice`, `Evaluate` with
the extension it has read, `Moved`), a patch is read, merged and saved
(`PatchFound`, `PatchSaved`), an exit is requested and answered later, an end is
archived (`Archived`, `ArchiveFails`), and readers compose and cache positions
(`GetPosition`, `Composed`, `FoundInArchive`) until `Prune` evicts them. The
retention of 24 hours outlasts every call: a trade is evicted when no call about it is
under way.

`NetPosition` folds the positions of an instrument as `aggregateOneInstrument` does:
`Counted` adds one position to what was counted, and `Totals` goes through them. `Figures`
says of samples, a trailing configuration with what it is asked about, a position
with a price, or the positions of one instrument, what their figures must satisfy
(`FiguresHold`): a proposed stop is not worse than the one there is, an archived
record reads back as what was archived, what is shown as profit is what is booked when
all is sold, and net figures are those of the positions together.

### BrokerSession

| code | here |
|---|---|
| `AccountSessionState`: session, `reauthRequired`, `pendingAuth` | `held`, `reauth`, `pending` |
| `broker_tokens`, `broker_accounts`, the user's preference | `stored`, `record`, `mode` and `selected` |
| the broker: tokens issued, and those it honours | `broker` |
| a call in progress, or the renewal of an account by the timer | `call[c]` |
| `login`, `refresh` and who joins them | `Authenticates`, `Refreshes`, `Settle`; `LoginAnswered`, `LoginSaved`, `RenewAnswered`, `RenewSaved`, `RenewalFails`, `RenewCleared` |
| `logout`, `restoreSession`, `ensureSession` | `LogoutCleared`, `LoggedOut`; `FindToken`, `Restored`; `Ensure` |
| `BrokerAccountService` | `AddAccount`, `Activate`, `Reconnects`, `Marked`, `Disconnect`, `Remove`, `Deleted` |
| `TradingModeService` | `SwitchToPaper`, `SwitchToLive`, `Select`, `Upserted`, `SwitchEnds` |
| `DhanExecutor.request`, with its renewal and retry | `Request`, `Sent`, `Resumed` |
| the timer, the bootstrap, the end of the process | `Renew`, `Tick`, `Bootstrap`, `Crash`, `Shutdown` |

A renewal makes the broker forget the token it renews, whether or not the answer
arrives.

### MarketFeed

The provider is a record (`feed`: state, attempts, timers, what is wanted, the sockets
in the order they were made), changed by the functions `Connects`, `Scheduled`,
`Dropped`; all sockets call the same handlers, and the client forgets one only for a
new one, as in the code. `service` is `MarketDataService` with its watchdog,
`subscribers` its reference counts, `inbox` what a browser has sent and the gateway has
not read, `rooms` where it is. Frames are kinds (`IsTick`): a price, a heartbeat or
something else.

### SignIn

`handleSendCode`, `handleVerifyCode`, `handleResetPassword` and their neighbours are the
wizard's handlers under their own names; what they call goes on by steps
(`RequestChecked`, `RequestRecorded`, `RequestDeletes`, `RequestCreates`,
`RequestSends`; `VerifyFinds`, `VerifyMarks` or `VerifyMisses`; `ResetFinds`,
`ResetSaves`, `ResetCloses`). A code is its number; `codes` are the documents,
`posted` what was delivered. A tab has a session, a shared `localToken`, and requests
whose answers may come after the next login (`Answered`).

### Housekeeping

`Start`, `Enabled`, `Stop`, `Fires` and `Triggered` are the scheduler; a run of a job
goes through the steps of its `Script` (`Works`, `Throws`, `Reported`, `ReportFails`).
The health check is `Probed` (indicators, aggregate, `Transition`), `SnapshotSaved` or
`SnapshotLost`, `MaybeAttemptRecovery`, `Recovers`. `Hangs` is a job whose `stop()` of
the feed waits for the close of a socket that is closed already, in a recovery or in
MARKET_CLOSE: it never ends, and its kind of job stays in `inFlightJobs`. `outside` is
what the indicators read; it changes by itself. Nothing in the application calls
`SchedulerService.start()`, `triggerMorningStartup`, `triggerMarketClose` or
`setMaintenanceMode` (`src/Backend/README.md:296-299` says the first is by design):
their callers are assumed.


## 3. Runs

| run | module | distinct states | what it asks |
|---|---|---|---|
| `queue` | `MCOrderQueueAll` | 381,504 | Overlapping submissions of the same key and of another, against the worker, reloads and ends of the process. A call makes one trade at most per life of the process (`OncePerProcess`), a dropped one makes none (`DroppedMeansNoTrade`), locks go with their trades (`NoLockLeftBehind`), what waits is in the chain exactly once (`NoneStranded`), rows are what the next start needs (`RowsAreFinal`), the first submission of a key is the one that counts (`FirstSubmissionWins`), every row settles (`RowsSettle`) |
| `engine` | `MCTradeEngineAll` | 789,449 | Prices, exits, cancels and trailing moves that overlap, on a pair of paper trades, on a live one, and on a live one whose POSTs are sent again. One entry is asked for (`EntryPlacedOnce`), books that follow the orders (`BooksFollowOrders`), every step a step of the trade's `Position` (`PositionsAreKept`), so that a paper trade is never oversold and is completed by the sale that leaves nothing, a stop loss that follows the targets (`StopFollowsTargets`), and a stop that was hit stays hit until it is served (`StopHitIsKept`) |
| `progress` | `MCProgress` | 91,891 | With fairness: the queue implements `ExactlyOnce`, also when the item that was cancelled in the chain ends the process (`PromiseIsKept`), a stop that is hit closes the trade (`StopsAreHonoured`), a cooldown ends (`CooldownsDoLapse`), a feed that stays down is announced, unless a health check hangs (`OutagesAreAnnounced`) |
| `ledger_faults` | `MCPaperLedger` | 1.6 million | Margin is given back once (`ReleasedOnce`) and never early (`LiveTradeKeepsItsMargin`), the reserved amount covers the open rows and is explained to the rupee where nothing failed (`ReservedAddsUp`), final rows stay (`FinalRowStays`) |
| `recovery_faults` | `MCRecovery` | 1.6 million | Captures cover what the engine did (`CaptureCovers`), fills are real (`FillsAreReal`), neither trades nor snapshots go back (`TradesNeverGoBack`, `SnapshotNeverGoesBack`) |
| `requests` | `MCRequests` | 897,316 | Risk: `OutcomesCounted`, `OneEmergencyPass`, `PassReachesAll`, `AcceptedIsCreatable`, `StopIsNotForgotten`. Instruments: `BackupIsTheLatest`, `NeverAnother`. Views and figures: `PrunedIsFindable`, `FiguresHold` |
| `connections` | `MCConnections` | 718,237 | Sessions: `SingleFlight`, `HeldIsHonoured`. Feed: `WatchersAreServed`, `DropIsRetried`. Users: `ResetIsSafe`, `SocketIsTheUsers`. Health: `SnapshotIsAnnounced` |
| `queue_exactly_once` | `MCOrderQueue` | | *violated*: "exactly-once execution" (`src/Backend/README.md:165`): a crash between `createTrade` and the row SUBMITTED |
| `engine_duplicate_exit` | `MCTradeEngine` | | *violated*: "the broker never receives a duplicate order" (`src/Backend/README.md:164`): the next price sends the exit again |
| `ledger_pending` | `MCPaperLedger` | | *violated*: PENDING means that the engine has not created the trade (`paper-trade-status.enum.ts:2`) |
| `recovery_rebuilds` | `MCRecovery` | | *violated*: "rebuilds exact in-memory state on restart" (`src/Backend/README.md:319-320`): a run's own events capture the engine while it is still empty |
| `expiry_choice` | `MCRequests` | | *violated*: a caller who lists the expiries and takes one can trade it (`instrument-resolver.service.ts:39-41`): the request carries the typed symbol only |

A run marked *violated* states what the repository says and finds a behaviour of
the code that contradicts it; `PROJECT.json` tells each story under `findings`.
The passing runs take from one and a half to four minutes each with two workers.

**Several instances in one run.** `MCOrderQueueAll`, `MCTradeEngineAll`,
`MCRequests`, `MCConnections` and `MCProgress` put instances or parts beside each
other: a variable (`instance`, `part`) says from the start which of them a
behaviour is about, and what belongs to the others stays in one of its initial states
(in `MCProgress`, at 0). The state space is the sum of those of the parts, not
their product, and an invariant holds of each part as if it were checked alone.
Parts that do interact are composed in the modules themselves: `TradeEngine` has
the aggregate, executors and managers, `PaperLedger` the stages of queue and engine,
`Recovery` the engine, the broker and reconciliation, `RiskControls` the way
of a request to a trade, `BrokerSession` the requests that need a session,
`MarketFeed` provider, service, gateway and browsers.

**Bounds, and why they are enough.**

- *Queue.* Two keys and three calls give two users of one key and a stranger on the same
  instrument, which is what duplicate checks and locks distinguish. `queue` has an
  instance with a crash, a failed save, a graceful stop and an expiry, in which
  the second submission of a key is never made, and one with a cancellation,
  pruning, lock clean-up and a kill switch set or not at each start, in which it is.
  Each fault may strike at every step, and every property that counts compares with
  the number of crashes. One retry: the second attempt takes the path of every
  later one; none in `progress`, whose queue has a stop and a cancellation instead, and
  two calls for one key.
- *Engine.* Two trades, because the loop over the trades needs one behind the trade
  that waits; two handlers, because a race needs two calls; bursts of two frames; four
  prices (below the stop, the entry, two targets). One live trade with two
  exit orders, so that an answer may be late while the next is out; and one with one,
  of which every POST may be sent again once: a second repetition adds to the same
  orders nobody knows of. The proofs of
  section 4 are for any number of each.
- *Ledger.* Amounts 1 and 2 against a balance of 2 or 3: the trades fit one at a time
  or together. Two clicks are a double click; a third finds what the second finds. One
  crash, one failed access, one reset.
- *Recovery.* One trade: trades meet only in captures and loops that treat them alike.
  Two runs, which is what overlapping takes, one of them resuming and so with
  an await before the flag is set; one death, after which the second life restores what
  the first left; one fault; the timer's capture waits for one write in flight, beside
  which a run's own is the second; one retry.
- *Risk, instruments, views.* Two calls, as every race of the services is of a pair; a
  clock of 3 instants in a day of 3; three events of the kinds of the scenario. Two
  editions of the listing differ by a contract that lapsed, one that is new and one
  whose lot size changed; two refreshes and three versions overlap. One viewed trade
  with three prices, at one of which its target is hit, and one reader.
  `FiguresHold` goes over the grids of `MCFigures` (`Configs`, `Contexts`, `Positions`,
  `Marks` and `Books` of `Figures`: stops, prices, quantities, stages, and up to
  two positions of an instrument), as initial states of a part that has no steps.
- *Sessions.* One account with two calls beside its renewal timer, four tokens: the
  state is per account, apart from the mode and the token of the environment, with
  which any account may be logged in: `HeldIsHonoured` leaves out the sessions that
  share that token among accounts (`Shared`), and its proof is for any number of them.
- *Feed.* One browser, two instruments, two trades, three sockets, two reconnects (the
  code's ten attempts differ in their delay only).
- *Users.* Two users, two tabs of which one has the wizard, two codes, one lapse of
  time; the users are exchangeable (`UserSymmetry`; `HandlerSymmetry` in
  `engine`). Both runs check invariants, and properties of single steps, only.
- *Jobs.* Two runs of jobs, so that one overlaps another; two retries and two starts.
- *What must happen* (`progress`). Two calls of the queue for one key and one for
  another, with a cancellation and a graceful stop; paper trades whose prices come one
  at a time; a loss, the emergency stop and the maintenance job around a cooldown; a
  health check with another job, a database and a feed that come and go.

Bounds are conjuncts of guards: `MaxCrashes`, `MaxStops`, `MaxSaveFaults`,
`MaxCancels`, `MaxExpiries`, `MaxFailures`, `MaxResets`, `MaxDeaths`, `MaxFaults`,
`MaxWrites`, `MaxOrders`, `MaxTime`, `MaxEvents`, `MaxNow`, `MaxVersion`,
`MaxPrices`, `MaxTokens`, `MaxSockets`, `MaxMessages`, `MaxCodes`, `MaxLapses`,
`MaxStarts`. `MaxRetries`, `MaxQueueSize`, `RetryCount`, `MaxReconnects`,
`RateLimit`, `MaxAttempts`, `BatchSize`, `MaxResends` and the limits of the risk policy are
limits of the code itself, made small.

**Fairness.** Weak fairness for continuations: what the code awaits ends, by a result
or an exception, and the event loop runs it, but for a `stop()` of the feed that hangs
(`CallStep`, `WorkerStep`, `RecoveryStep`; `HandlerStep`, `EndOfRead`; `Continue`;
`Advances`). A process that died is restarted, as the recovery in `onModuleInit` presumes; one
that shuts down exits. `StopsAreHonoured` needs a feed that goes on quoting
(`Tick`), without which no stop could be honoured. `CooldownsDoLapse` needs the
clock and the maintenance job, which the scheduler triggers. `OutagesAreAnnounced`
needs the health check to fire; it is about a feed that stays down while Mongo answers,
the process lives, the scheduler is running, nobody has asked for maintenance and no
check hangs.
`MCProgress` joins the formulas of its parts into one per role (`Continues(n)`,
`Drives`, `Recurs`, and `Exit` with `UnhandledRejection`), which asks no more than each part does: a
behaviour is of one part, so the disjuncts of the others are never enabled. No fairness
is assumed for users, faults or brokers.

**Deadlock** checking is off: calls, faults and clocks are bounded, and when they are
used up, or when all has ended, the system rests.

### What else the models show

Behaviours of the code that the models contain and no run is devoted to:

- *Queue.* An item cancelled while it waits in the chain rejects the chain and ends the
  process (`UnhandledRejection`, against the "crash-freedom" of
  `order-queue.chaos.spec.ts:35`).
- *Engine.* A cancel while `placeEntryOrder` is under way makes a live trade CANCELLED
  whose order then fills (`CancelTrade` with `LiveEntry`, against "only valid
  pre-fill", `trade.aggregate.ts:585`). Live exits that overlap with partial answers can
  leave more exited than filled; the negative quantity asked for next is refused at
  `dhan.executor.ts:224`. A POST that is sent again after a 5xx or a time-out
  (`dhan.executor.ts:390-421`) may be a second order: the trade then holds, or has sold,
  more than it records, and nothing in the code looks for the rest. A partial exit on
  paper makes the executor refuse every later exit (`paper.executor.ts:298`): what is
  left cannot be sold, nor the stop loss honoured.
- *Recovery.* An `entryOrderId` is known only with the answer, so that an entry whose
  answer was lost in a crash is never repaired. A snapshot lags by up to two
  seconds: a trade whose entry was sent can come back as WAITING_ENTRY and send
  another. A graceful shutdown drops the capture that was scheduled.
- *Risk.* An outcome recorded while the day changes is added to the books of the day
  before. Two first readers of a new day race, as `getState` is not in the
  `updateChain` (`daily-risk-state.service.ts:58-73`): each replaces what the other
  has cached, and an outcome in between is lost. `OutcomesCounted` asks
  for the day the services were started. A breaker that leaves OPEN is HALF_OPEN, which
  refuses every request as OPEN does (`risk-evaluator.ts:112-146`), although
  `circuit-breaker.ts:31` lets an attempt through; that of ORDER_EXECUTION leaves it by
  the outcome of an order, for which a request must have been accepted. So trading may
  stay blocked, and `CooldownsDoLapse` is about the cooldown alone.
- *Views.* A target that is hit sets the stop without asking whether that is better
  (`trade.aggregate.ts:465-472`): a stop that was trailed beyond it goes back, although
  `src/Backend/README.md:459-463` has it never move backward. `ExitManager`
  remembers one reason per trade and not per request: the
  reason shown may be another's. The trailing configuration is applied
  by a listener and may be missing. A reader that read before a trade ended may cache
  it as open (`position-manager.service.ts:19-27`) until it is evicted.
- *Sessions.* A logout while a renewal is out is undone by its answer
  (`broker-session-manager.ts:265`). An entry that passed the safety gate and waits
  for a renewal is sent although the account was disconnected meanwhile, which the comment
  at `live-order-safety-gate.service.ts:71-77` has the gate prevent.
- *Feed.* The watchdog makes one attempt: if it fails, nothing retries
  (`market-data.service.ts:210`). A failed start leaves `started` set
  (`market-data.service.ts:90`). `stop()` on a socket that is already closed waits for
  ever (`native-websocket-client.ts:57`).
- *Users.* `UsersService` saves the document it has read: a save of the profile in
  between undoes a reset (`users.service.ts:65-74`). A second login without a logout
  keeps the socket of the first user (`socket-client.ts:15`); `SignIn` has the events
  `"switch"` and `"impatient"` for this, and the scenarios checked leave them out.
- *Jobs.* The report of a failed job is saved in the handler of the failure
  (`scheduler.service.ts:190`): when that save fails too, the run that an interval began
  rejects, nothing handles it, and the process ends. A health check whose recovery calls
  that `stop()` on a socket which has dropped (`recovery-manager.service.ts:60-62`) never
  ends; the scheduler takes it to be in flight and skips every later one, against
  `scheduler.service.ts:33-34`.

Where a property leaves something out, its scenarios say so: `HeldIsHonoured` is not
asked where a request renews on a refused token or accounts share the token of the
environment, `SocketIsTheUsers` not where somebody signs in over another user,
`OutagesAreAnnounced` not after a check that hangs, `StopsAreHonoured` on paper without
partial exits, `StepNeverAhead` only while no target was hit, `DropIsRetried` not where the feed
is stopped or the handshake hangs, and a subscription that a trade has leaked
counts as watching in `WatchersAreServed`.

## 4. Proofs

TLAPS proves what follows for all values of the constants that satisfy the named
assumptions:

- `OrderQueueAssumption`: the functions that give a call its key and a key its
  instrument are total, bounds are natural numbers.
- `TradeEngineAssumption`, `TradeViewsAssumption`: trades are defined as the
  validation and the aggregate let them be, in the engine with prices among
  `Prices`; planned exits are quantities; a trailing configuration is a strategy
  with numbers or without; counts and prices are positive; null is no value.
- `FiguresAssumption`: trailing configurations and contexts are of their types; a
  position has a fill price once something of it is filled, and proceeds once something
  is sold; what is shown of an instrument is a sequence of positions.
- `LedgerAssumption`: there are finitely many trades, amounts are positive, balances
  natural numbers.
- `RecoveryAssumption`, `NoTradeAssumption`: the start-up's run is one that resumes,
  runs and other reconciliations are different things, no trade is not a trade.
- `RiskControlsAssumption`: bounds are positive, results integers, the fields of a
  request integers or absent, its targets a sequence of integers.
- `MasterAssumption`: sizes are positive, and none is neither a refresh nor an error.
- `BrokerSessionAssumption`: no call and no account are not among the calls and
  accounts, a broker that is implemented is an account's, times and bounds are positive.
- `MarketFeedAssumption`, `SignInAssumption`, `HealthAssumption`: every trade has an
  instrument, browsers are not trades, wizards are tabs, users who are
  registered are users, the two passwords differ, there are runs, bounds are positive.

Each theorem about a specification rests on an inductive invariant: the initial states
satisfy it, every step preserves it, and it implies the property. The invariants differ
from the properties, and the paragraphs below say by what.

### The queue: `OrderQueueProofs`

`Inductive` (`Spec => []IInv`), and from it `TypeCorrect`,
`Sequential`, `AtMostOncePerProcess`, `DroppedItemsMadeNoTrade`,
`SubmittedRowsHaveTrades`, `CreatesAreRecorded`. "At most once per life of the
process" is not inductive: one must know that the worker's place is the state
of its item (`WorkerAtItem`), that nothing in flight is outside the worker
(`InFlightIsWorked`), that an item before SUBMITTED has no trade of this process
(`ItemNotMade`), that a row which does not yet say SUBMITTED belongs to such an
item or to the one being saved (`RowNotMade`), and that calls and start-up
do not touch what the worker has (`SavingIsQueued`, `StartUp`). The proof groups
the actions by their effect: a predicate such as `WorkerEffect` says what any step of
the worker does to one item and its row, one lemma shows that this keeps the invariant,
and each action is shown to have the effect.

`PlacesInductive`, and from it `LocksAreReleased`, `NothingIsStranded`,
`FinalRowsStay`, `FirstSubmissionStays`. `PlacesInv` says where things are: a pending
item is in the chain, with the worker or with the call that submits it, and in one of
them only (`PendingIsPlaced`, `ChainedOnce`); a lock is for the instrument of
the one who took it (`LocksFit`); a row that is final belongs to an item that is over
and that nobody will save again (`FinalRowIsLeft`), which is why it stays; and a row
that is half done is the worker's or still to be reloaded (`HalfDoneIsWorked`).

`PromiseIsKeptSafely`: without crashes and failed saves (`Faultless`), the initial
states of the queue are those of `ExactlyOnce` and each of its steps is a step of it or
a stutter, whatever users cancel and jobs expire or prune, through graceful restarts and
through the deaths that an item ended in the chain brings about; hence
`OnceWithoutFaults`, which says how far the sentence of the README holds that
`queue_exactly_once` refutes. A request counts as accepted as long as its row is
pending: rows survive, items do not. So the refinement needs the rows to follow the items
(`RowsFollowItems`), the owner of an item to have had its answer, but while it is being
saved (`OwnersAreAnswered`), and no trade to exist for what may still get one
(`MayBeMade`), whose last part is the heart of it: without a failed save the chain
rejects only between two items, so that the death of the process never falls between
`createTrade` and the row that records it.

### The trade: `TradeEngineProofs`

`Inductive`, `TypeCorrect`, `EntryOnce`, `BooksHold`,
`PaperFlat`, `StopsFollow`, `StopKept`, `PositionsKept`. The invariant is a predicate of one trade
(`TradeInv`) over the trade, its order and the handlers that are at it: who is
entering it (`Entering`, one handler at most, while no order was sent by
another: `Unsent`), what the books are behind the orders by, which is what those
handlers carry (`Books`), where the stop is after which target (`StopFollows`),
and for paper trades, whose executor answers in the same turn, that nobody else
has sold in between (`OnPaper`). It is needed because every property compares the trade
with the order, and the two agree only when nothing is carried. Beside it are
`World`, `Loops` (where each handler is in its loop) and `Dues` (the continuations of a
turn). Lemmas say what each command of the aggregate does to a trade
(`EntryMove`, `ExitMove`), what the end of a call does (`EntryFinishes`,
`ExitFinishes`), and that a step at one trade leaves the others alone (`Elsewhere`);
then there is one lemma per action. `StopKept` follows from what each action keeps
of a trade that waits for its exit (`Keeps`).

`PositionsKept` is the refinement: `Spec` implies `Position` under the mapping
`Positions`, for any number of trades, handlers and prices. What the invariant had to
learn for it is how far a trade is when its orders are (`Opens`): what is bought or
still resting of the order it knows is no more than the trade's quantity, the
repetitions of its POST have come to no more than `Extra` (`Copying`), a trade that waits has recorded
nothing, one that is open or completed has recorded its entry, and of any other
nothing was sold and no exit is under way. Each lemma of an
answer then says which of the four steps of a position it makes (`BuysIt`, `FillsIt`,
`SellsIt`, `EndsIt`; `Moves` is any of them, or none), and since one action changes one
trade, its step is one of `Position` (`TradeStep`). That a paper trade ends flat
(`PaperFlat`) is a theorem of its own, which no run checks separately.

### The ledger: `PaperLedgerProofs`

`Inductive`, `TypeCorrect`, `MarginReleasedOnce`,
`MarginNotReleasedEarly`, `FinalRowsStay`. That margin is given back once rests
on an argument about who may be about to do so: the stages of the queue separate
the rollback (nothing submitted), a click (CANCELLED, and one click only:
`ClickAgrees`, `OneCancels`) and the listener (OVER); and of two tasks on one
trade one is that of OrderSubmitted, which releases nothing (`Exclusive`). What a task
read is still true when it writes (`TaskAgrees`), which is why overwriting the whole
document is harmless here. The proof has the same shape as the queue's (`CallEffect`,
`ClickEffect`, `TaskEffect`).

`LedgerInductive` and `MarginAddsUp`: what is reserved covers the margins of the
trades in `Held`, through failures and crashes, and is explained to the rupee where
nothing failed. A sum over trades is the size of a set (`Rupees`: the pairs of a
trade and a rupee of its amount), so that adding a trade or taking one away is a
fact about finite sets, and no induction is needed.

### Recovery: `RecoveryProofs`

`Inductive`, `TypeCorrect`, `RunsCanStart`, `FillsReal`,
`NeverBack`. Trades are independent of each other, so the invariant is a
predicate of one trade (`TradeInv`) over the engine, the broker and the *sets* of
what captures, loaded snapshots, views and reports say of it; a step of the model
changes some of these sets, and lemmas about `TradeInv` say which changes
preserve it. Its parts: nothing kept claims a fill the broker does not have
(`Real`, `NewLeavesNoTrace`); the engine is ahead of everything kept
(`EngineIsAhead`), and what it lacks is known from one capture only, of an earlier
process (`OneToRestore`), which is why restoring an old snapshot cannot set a
trade back; views are behind the engine, and what will be replayed is of an entry
that was sent and no more than the broker has filled (`ViewsAreBehind`,
`RepairsAreReal`), which is why a stale repair is harmless. Beside it `RunInv` (the
machine is between states, or the flag up, only while a run is there to end that)
and `DownIsIdle`.

`CapturesInductive`, `CapturesCover`, `SnapshotsGoForward`: the captures that are being
saved go forward in the order in which they were taken, and from the snapshot, for
whatever order their saves return in (`CapturesInOrder`). While no timer is
set, the snapshot and every capture that may still replace it hold the engine, or
one of the timer's and every later one do (`Covered`).

### Risk: `RiskControlsProofs`

`Inductive`, `StopNotForgotten`, `OnePass`, `PassIsComplete`. A
stop in memory is in the document or was lowered by an operator, and for every call
under way `CallInv` says what the write it waits for will make true. One pass at a
time follows from who may enter it (`OneEnters`) and how many requests are being
vetted (`OneVets`).

`VettedIsCreatable`: what the validation lets through is what the aggregate's own
checks accept, whatever the direction, prices and quantity, though the two are
written in different files and in different terms. `BooksAreRight`: on the day the services
were started each result is counted once. Its invariant (`BooksOfTheDay`) is that one call at most
is in the `updateChain`, that at each place there it has read books that were settled
and is about to write and keep what they are with its result (`CountsOnce`), and
that maintenance and evaluations, which read the day outside of the chain, find
it there and leave it alone (`Elsewhere`).

### What stands around a trade: `RequestsProofs`

`LatestIsBackedUp` (`MasterInv`: the catalogue is the one a start has restored, or the
version served is whole in the backup, or is being saved by one refresh, or was cut
short, and no document is of a later one) and `NoOtherContract` (`FormInv`: what a form shows was
offered by the version it was shown at, and of a version that was replaced nothing is
concluded).

`EvictedIsFound` and `StepsStayBehind` rest on `ViewsInv`: every trade is a record of the
aggregate (`EngineInv`); what is archived is how it ended (`ArchiveInv`); what
a reader holds or has cached says nothing of an end that is not the trade's
(`ReadInv`); and every step kept for a trailing stop, wherever it was read
to (an extension row, a patch under way, a tick that waits), is behind the stop of the
trade (`StepInv`), which each command of the aggregate keeps (`KeepsBehind`).

`FiguresAlwaysHold`: the four parts of `FiguresHold`, for all configurations, contexts,
positions and prices and for any number of positions of an instrument
(`ProposalsHold`, `HistoryReadsBack`, `ShownIsBooked` are the first three by
themselves). The last is about a recursion over a sequence. The library's induction
theorems cannot be used, as they take an operator; what stands in for them is a fact
about sets: a set of numbers that has 0 and with each number the next is all of them
(`EveryNumber`, from the well-foundedness of `<`). With it, the recursive function
has a table of its values for every length (`TableExists`, `TotalsAre`), and what
holds of the totals of a prefix holds of the next.

### What is kept open: `BrokerSessionProofs`, `ConnectionsProofs`

`BrokerSessionProofs`: `Inductive`, `TypeCorrect`, `SingleFlightHolds`. That one
login or renewal per account is under way is not inductive: `pendingAuth` must be
known to name the one call that carries the attempt (`Carried`), a call that
carries one to be at a place of its script where it does (`Placed`), and one that
waits to wait for that call (`Joined`). Then a call that finds nothing pending may
start, one that finds something joins, and whoever carries it is the one to clear it.
`TokensInductive` and `SessionsAreGood`: the tokens of an account, in memory, in Mongo
and in the calls on its behalf, are no other account's, but for the token of the
environment (`TokensAreOwn`), so that the renewal that kills one is its own, whose
answer or failure replaces it.

`ConnectionsProofs`:

- `HealthIsAnnounced` (`HealthInv`): jobs that run are in flight, and so one health check
  runs at a time, whose status is the one shown until it is saved.
- `SocketSpeaks` (`TabsInv`): a tab that waits for `me` has no user and asks for
  nothing else, so that no late answer signs in over a user.
- `ResetsAreSafe` (`ResetInv`): a code that a wizard, a call or a reset knows of is its
  owner's and will not be made again (`Known`), as the codes that are awaited are
  new and each is of one call (`AwaitedAreNew`).
- `WatchersGetPrices` (`ServedInv`): the counts are the watchers (`WatchInv`), what is
  wanted is what is counted and was asked of an open socket (`FeedInv`), and of every
  chart a browser has, the messages it has sent and the rooms it is in agree
  (`GatewayInv`).
- `DropsAreRetried` (`RetryInv`): a socket that lives is the current one, beside which no
  timer runs, and a feed that is RECONNECTING has one timer.

**Only model-checked.** Liveness, which with fairness and ENABLED is beyond the
prover: everything of `progress`, where the refinement of `ExactlyOnce` is checked with
its fairness, and `RowsSettle`. All other properties of passing runs are stated by
theorems.

## 5. Plan

Done: the queue, the aggregate and engine, the ledger, recovery with
reconciliation, risk controls, instruments, views and figures, broker sessions, market
data, sign-in, scheduler and health, each checked and with the proofs of its safety
properties.

Left, in this order:

1. Compositions: `OrderQueue` in the place of the stages of `PaperLedger`; restored
   trades that go on to their exits in `TradeEngine`; the kill switch of
   `RiskControls` under the queue's worker.
2. Several accounts that share the token of the environment, as a run of their own.

## 6. Not modelled

Configuration, feature flags (a choice where they decide something), logging,
correlation, audit, logs, settings, app-config and the endpoints of health: values and
records that nothing else in the program waits for. The search of instruments, the
preview of risk and reward, history filters and paging, the content of reports and of
e-mails, the administration of profiles and roles, and the pages of the front end that
show what the server answers: reads. The bytes of a tick and the random walk of the
mock feed: prices are any of a set. The fields of an order beyond side, quantity and
trigger. The editing of broker credentials. `modifyOrder` and `resumeQueue`, which have
no callers. Several processes on one database: the locks and maps of the code are those
of one process, and it is run as one.

In `Recovery`, the pruning of ended trades and the exit legs of restored ones; in
`OrderQueue`, the payload of a request; in `PaperLedger`, accounts being
created. The note of each component in `PROJECT.json` says what of it is left out.
