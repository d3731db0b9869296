---------------------------- MODULE PaperLedger ----------------------------
(* The virtual account of one user of paper trading, and the rows that say  *)
(* which trades are that user's.  PaperTradingService reserves margin and   *)
(* submits a trade to the order queue; PaperTradeEventListener follows the  *)
(* events of the queue and the engine and gives the margin back.  Account   *)
(* and rows are separate documents of the database: every access is a step  *)
(* of its own, and a step may fail or the process die between any two.      *)
(* Accounts of different users share nothing.                               *)
(*                                                                          *)
(* A Mutant_ operator is a plausible wrong version of the definition after  *)
(* it, that some property rules out.                                        *)
EXTENDS Integers, FiniteSets

CONSTANTS
    Trades,         \* the createTrade requests of the user
    Amount,         \* Amount[t]: quantity times entry trigger price
    Balances,       \* the initial balances that may be configured
    Results,        \* the profits and losses a trade may end with
    Clicks,         \* cancel requests that may be under way at a time
    MaxCrashes, MaxFailures, MaxResets      \* bounds of the model

ASSUME LedgerAssumption ==
    /\ IsFiniteSet(Trades)
    /\ Amount \in [Trades -> Nat \ {0}]
    /\ Balances \subseteq Nat
    /\ Results \subseteq Int
    /\ MaxCrashes \in Nat /\ MaxFailures \in Nat /\ MaxResets \in Nat

VARIABLES
    account,    \* the balance figures
    row,        \* the status of each trade's ownership document
    order,      \* how far the order queue and the engine are with each trade
    call,       \* PaperTradingService.createTrade
    click,      \* PaperTradingService.cancelTrade
    task,       \* the listener's activeTasks
    reset,      \* AccountController.resetPaperBalance
    releases,   \* how often the margin of each trade was given back
    crashes, failures, resets

vars == <<account, row, order, call, click, task, reset, releases, crashes, failures, resets>>

-----------------------------------------------------------------------------
Statuses == {"PENDING", "OPEN", "CLOSED", "FAILED", "CANCELLED"}
OpenStatuses == {"PENDING", "OPEN"}
Final == Statuses \ OpenStatuses

(* The events the listener subscribes to, the status each asks for and the  *)
(* status it sets *)
Event == {"OrderSubmitted", "OrderFailed", "TradeCompleted", "TradeCancelled",
          "TradeRejected", "TradeFailed"}
TradeEnd == Event \ {"OrderSubmitted", "OrderFailed"}

Expected(event) == IF event \in TradeEnd THEN "OPEN" ELSE "PENDING"

Marked(event) ==
    CASE event = "OrderSubmitted" -> "OPEN"
      [] event = "TradeCompleted" -> "CLOSED"
      [] event = "TradeCancelled" -> "CANCELLED"
      [] OTHER -> "FAILED"

Releases(event) == event # "OrderSubmitted"

Idle == [pc |-> "idle"]

NewAccount(balance) ==
    [initial |-> balance, available |-> balance, reserved |-> 0, pnl |-> 0]

Init ==
    /\ account \in {NewAccount(balance) : balance \in Balances}
    /\ row = [t \in Trades |-> "NONE"]
    /\ order = [t \in Trades |-> "NONE"]
    /\ call = [t \in Trades |-> "new"]
    /\ click = [c \in Clicks |-> Idle]
    /\ task = {}
    /\ reset = "idle"
    /\ releases = [t \in Trades |-> 0]
    /\ crashes = 0 /\ failures = 0 /\ resets = 0

-----------------------------------------------------------------------------
(* A database write is answered, is lost, or lands without an answer; the   *)
(* last two throw at the caller.                                            *)
Outcome == {"answered", "lost", "unanswered"}

Counted(outcome) ==
    IF outcome = "answered"
    THEN UNCHANGED failures
    ELSE failures < MaxFailures /\ failures' = failures + 1

Lands(outcome) == outcome # "lost"

After(outcome, next, thrown) == IF outcome = "answered" THEN next ELSE thrown

Saved(t, status, outcome) ==
    row' = IF Lands(outcome) THEN [row EXCEPT ![t] = status] ELSE row

(* releaseMargin: one $inc on three fields *)
ReleaseMargin(t, pnl, outcome) ==
    IF Lands(outcome)
    THEN /\ account' = [account EXCEPT !.available = @ + Amount[t] + pnl,
                                       !.reserved = @ - Amount[t],
                                       !.pnl = @ + pnl]
         /\ releases' = [releases EXCEPT ![t] = @ + 1]
    ELSE UNCHANGED <<account, releases>>

-----------------------------------------------------------------------------
(* createTrade: reserve, submit, then write the row. *)
Reserve(t) ==
    /\ call[t] = "new"
    /\ account.available >= Amount[t]
    /\ \E outcome \in Outcome :
        /\ Counted(outcome)
        /\ account' = IF Lands(outcome)
                      THEN [account EXCEPT !.available = @ - Amount[t],
                                           !.reserved = @ + Amount[t]]
                      ELSE account
        /\ call' = [call EXCEPT ![t] = After(outcome, "submit", "done")]
    /\ UNCHANGED <<row, order, click, task, reset, releases, crashes, resets>>

Submit(t) ==
    /\ call[t] = "submit"
    /\ order' = [order EXCEPT ![t] = "QUEUED"]
    /\ call' = [call EXCEPT ![t] = "own"]
    /\ UNCHANGED <<account, row, click, task, reset, releases, crashes, failures, resets>>

(* VALIDATION_FAILED, QUEUE_FULL or REJECTED_KILL_SWITCH *)
Mutant_NoRollBack(t) ==
    /\ call[t] = "submit"
    /\ call' = [call EXCEPT ![t] = "done"]
    /\ UNCHANGED <<account, row, order, click, task, reset, releases, crashes, failures, resets>>

Refused(t) ==
    /\ call[t] = "submit"
    /\ call' = [call EXCEPT ![t] = "rollback"]
    /\ UNCHANGED <<account, row, order, click, task, reset, releases, crashes, failures, resets>>

(* submitTrade throws: the item is not enqueued, and its row may be saved. *)
SubmitThrows(t) ==
    /\ call[t] = "submit"
    /\ \E outcome \in {"lost", "unanswered"} :
        /\ Counted(outcome)
        /\ order' = IF Lands(outcome) THEN [order EXCEPT ![t] = "UNCHAINED"] ELSE order
    /\ call' = [call EXCEPT ![t] = "done"]
    /\ UNCHANGED <<account, row, click, task, reset, releases, crashes, resets>>

RollBack(t) ==
    /\ call[t] = "rollback"
    /\ \E outcome \in Outcome : Counted(outcome) /\ ReleaseMargin(t, 0, outcome)
    /\ call' = [call EXCEPT ![t] = "done"]
    /\ UNCHANGED <<row, order, click, task, reset, crashes, resets>>

Own(t) ==
    /\ call[t] = "own"
    /\ \E outcome \in Outcome : Counted(outcome) /\ Saved(t, "PENDING", outcome)
    /\ call' = [call EXCEPT ![t] = "done"]
    /\ UNCHANGED <<account, order, click, task, reset, releases, crashes, resets>>

-----------------------------------------------------------------------------
(* cancelTrade: read the row, cancel in the queue, mark the row read, and   *)
(* give the margin back.                                                    *)
CancelTrade(c, t) ==
    /\ click[c] = Idle
    /\ row[t] = "PENDING"
    /\ click' = [click EXCEPT ![c] = [pc |-> "queue", trade |-> t]]
    /\ UNCHANGED <<account, row, order, call, task, reset, releases, crashes, failures, resets>>

Cancellable(t) == order[t] = "QUEUED"

(* OrderQueueService.cancel: in memory first; it throws unless QUEUED. *)
Mutant_IgnoresRefusal(c) ==
    /\ click[c].pc = "queue"
    /\ order' = IF Cancellable(click[c].trade)
                THEN [order EXCEPT ![click[c].trade] = "DROPPED"]
                ELSE order
    /\ click' = [click EXCEPT ![c].pc = IF Cancellable(click[c].trade) THEN "save" ELSE "mark"]
    /\ UNCHANGED <<account, row, call, task, reset, releases, crashes, failures, resets>>

CancelInQueue(c) ==
    /\ click[c].pc = "queue"
    /\ LET t == click[c].trade
       IN  IF Cancellable(t)
           THEN /\ order' = [order EXCEPT ![t] = "DROPPED"]
                /\ click' = [click EXCEPT ![c].pc = "save"]
           ELSE click' = [click EXCEPT ![c] = Idle] /\ UNCHANGED order
    /\ UNCHANGED <<account, row, call, task, reset, releases, crashes, failures, resets>>

CancelSaved(c) ==
    /\ click[c].pc = "save"
    /\ \E outcome \in Outcome :
        /\ Counted(outcome)
        /\ order' = IF Lands(outcome)
                    THEN [order EXCEPT ![click[c].trade] = "CANCELLED"]
                    ELSE order
        /\ click' = [click EXCEPT ![c] = After(outcome, [@ EXCEPT !.pc = "mark"], Idle)]
    /\ UNCHANGED <<account, row, call, task, reset, releases, crashes, resets>>

CancelMarked(c) ==
    /\ click[c].pc = "mark"
    /\ \E outcome \in Outcome :
        /\ Counted(outcome)
        /\ Saved(click[c].trade, "CANCELLED", outcome)
        /\ click' = [click EXCEPT ![c] = After(outcome, [@ EXCEPT !.pc = "release"], Idle)]
    /\ UNCHANGED <<account, order, call, task, reset, releases, crashes, resets>>

CancelReleased(c) ==
    /\ click[c].pc = "release"
    /\ \E outcome \in Outcome : Counted(outcome) /\ ReleaseMargin(click[c].trade, 0, outcome)
    /\ click' = [click EXCEPT ![c] = Idle]
    /\ UNCHANGED <<row, order, call, task, reset, crashes, resets>>

-----------------------------------------------------------------------------
(* The order queue and the engine, whose own modules are OrderQueue and     *)
(* TradeEngine: here, how far a trade is and the events they publish.       *)
Publish(t, event, pnl) ==
    task' = task \cup {[trade |-> t, event |-> event, pnl |-> pnl, pc |-> "find"]}

Pipeline(t, from, to) ==
    /\ order[t] = from
    /\ order' = [order EXCEPT ![t] = to]
    /\ UNCHANGED <<account, row, call, click, reset, releases, crashes, failures, resets>>

Works(t) == Pipeline(t, "QUEUED", "WORKING") /\ UNCHANGED task
Submitted(t) == Pipeline(t, "WORKING", "LIVE") /\ Publish(t, "OrderSubmitted", 0)
FailsForGood(t) == Pipeline(t, "WORKING", "OVER") /\ Publish(t, "OrderFailed", 0)

Ends(t) ==
    /\ Pipeline(t, "LIVE", "OVER")
    /\ \E event \in TradeEnd : \E pnl \in IF event = "TradeCompleted" THEN Results ELSE {0} :
        Publish(t, event, pnl)

(* expireStaleItems: in memory first, then the row; it publishes nothing.   *)
Expires(t) ==
    /\ \/ Pipeline(t, "QUEUED", "LAPSED")
       \/ Pipeline(t, "UNCHAINED", "LAPSED")
       \/ Pipeline(t, "LAPSED", "EXPIRED")
    /\ UNCHANGED task

-----------------------------------------------------------------------------
(* A task of the listener: find the row, mark it, release its margin.  What *)
(* throws is logged and forgotten.                                          *)
Mutant_AnyStatus(k) ==
    /\ k.pc = "find"
    /\ task' = IF row[k.trade] # "NONE"
               THEN (task \ {k}) \cup {[k EXCEPT !.pc = "mark"]}
               ELSE task \ {k}
    /\ UNCHANGED <<account, row, order, call, click, reset, releases, crashes, failures, resets>>

Find(k) ==
    /\ k.pc = "find"
    /\ \E outcome \in {"answered", "lost"} :
        /\ Counted(outcome)
        /\ task' = IF outcome = "answered" /\ row[k.trade] = Expected(k.event)
                   THEN (task \ {k}) \cup {[k EXCEPT !.pc = "mark"]}
                   ELSE task \ {k}
    /\ UNCHANGED <<account, row, order, call, click, reset, releases, crashes, resets>>

Mark(k) ==
    /\ k.pc = "mark"
    /\ \E outcome \in Outcome :
        /\ Counted(outcome)
        /\ Saved(k.trade, Marked(k.event), outcome)
        /\ task' = IF outcome = "answered" /\ Releases(k.event)
                   THEN (task \ {k}) \cup {[k EXCEPT !.pc = "release"]}
                   ELSE task \ {k}
    /\ UNCHANGED <<account, order, call, click, reset, releases, crashes, resets>>

Release(k) ==
    /\ k.pc = "release"
    /\ \E outcome \in Outcome : Counted(outcome) /\ ReleaseMargin(k.trade, k.pnl, outcome)
    /\ task' = task \ {k}
    /\ UNCHANGED <<row, order, call, click, reset, crashes, resets>>

-----------------------------------------------------------------------------
(* resetPaperBalance: no open trade, then the balance of a new account. *)
ResetChecks ==
    /\ reset = "idle"
    /\ resets < MaxResets
    /\ \A t \in Trades : row[t] \notin OpenStatuses
    /\ resets' = resets + 1
    /\ reset' = "checked"
    /\ UNCHANGED <<account, row, order, call, click, task, releases, crashes, failures>>

ResetBalance ==
    /\ reset = "checked"
    /\ reset' = "idle"
    /\ \E outcome \in Outcome :
        /\ Counted(outcome)
        /\ account' = IF Lands(outcome) THEN NewAccount(account.initial) ELSE account
    /\ UNCHANGED <<row, order, call, click, task, releases, crashes, resets>>

-----------------------------------------------------------------------------
(* The process dies and restarts.  Requests and tasks are gone; the queue   *)
(* reloads the rows that are not terminal; a trade of the engine is in the  *)
(* snapshot or lost.                                                        *)
Reloaded(stage) ==
    CASE stage \in {"UNCHAINED", "DROPPED", "LAPSED"} -> {"QUEUED"}
      [] stage = "WORKING" -> {"QUEUED", "LIVE", "OVER"}
      [] stage = "LIVE" -> {"LIVE", "OVER"}
      [] OTHER -> {stage}

Crash ==
    /\ crashes < MaxCrashes
    /\ crashes' = crashes + 1
    /\ order' \in {o \in [Trades -> UNION {Reloaded(order[t]) : t \in Trades}] :
                      \A t \in Trades : o[t] \in Reloaded(order[t])}
    /\ call' = [t \in Trades |-> IF call[t] = "new" THEN "new" ELSE "done"]
    /\ click' = [c \in Clicks |-> Idle]
    /\ task' = {}
    /\ reset' = "idle"
    /\ UNCHANGED <<account, row, releases, failures, resets>>

-----------------------------------------------------------------------------
CallStep(t) == Submit(t) \/ Refused(t) \/ SubmitThrows(t) \/ RollBack(t) \/ Own(t)

ClickStep(c) == CancelInQueue(c) \/ CancelSaved(c) \/ CancelMarked(c) \/ CancelReleased(c)

TaskStep == \E k \in task : Find(k) \/ Mark(k) \/ Release(k)

PipelineStep(t) == Works(t) \/ Submitted(t) \/ FailsForGood(t) \/ Ends(t) \/ Expires(t)

Next ==
    \/ \E t \in Trades : Reserve(t) \/ CallStep(t) \/ PipelineStep(t)
    \/ \E c \in Clicks, t \in Trades : CancelTrade(c, t)
    \/ \E c \in Clicks : ClickStep(c)
    \/ TaskStep
    \/ ResetChecks
    \/ ResetBalance
    \/ Crash

Spec == Init /\ [][Next]_vars

(* Requests and tasks that have begun go on.  A trade makes a few tasks and *)
(* one call, so none of these waits for ever for another.                   *)
FairSpec ==
    /\ Spec
    /\ WF_vars(\E t \in Trades : CallStep(t))
    /\ \A c \in Clicks : WF_vars(ClickStep(c))
    /\ WF_vars(TaskStep)

-----------------------------------------------------------------------------
(* Properties *)

Stages == {"NONE", "QUEUED", "UNCHAINED", "WORKING", "LIVE", "OVER", "DROPPED",
           "CANCELLED", "LAPSED", "EXPIRED"}

Task == [trade : Trades, event : Event, pnl : Int, pc : {"find", "mark", "release"}]

ClickRecord == {Idle} \cup [pc : {"queue", "save", "mark", "release"}, trade : Trades]

(* The types of the variables. *)
TypeOK ==
    /\ account \in [initial : Nat, available : Int, reserved : Int, pnl : Int]
    /\ row \in [Trades -> Statuses \cup {"NONE"}]
    /\ order \in [Trades -> Stages]
    /\ call \in [Trades -> {"new", "submit", "own", "rollback", "done"}]
    /\ click \in [Clicks -> ClickRecord]
    /\ task \subseteq Task
    /\ reset \in {"idle", "checked"}
    /\ releases \in [Trades -> Nat]
    /\ crashes \in 0..MaxCrashes /\ failures \in 0..MaxFailures /\ resets \in 0..MaxResets

(* The inductive invariant, trade by trade.  First, how far the request, the *)
(* row, the queue and the margin of a trade can be from each other.          *)
MayTrade == {"QUEUED", "UNCHAINED", "WORKING", "LIVE", "DROPPED", "LAPSED"}

Unsubmitted(t) == order[t] = "NONE" /\ row[t] = "NONE"

CallAgrees(t) ==
    /\ call[t] \in {"new", "submit", "rollback"} => Unsubmitted(t) /\ releases[t] = 0
    /\ call[t] = "own" => order[t] # "NONE" /\ row[t] = "NONE"

RowAgrees(t) ==
    /\ row[t] # "NONE" => order[t] # "NONE"
    /\ row[t] = "OPEN" => order[t] \in {"LIVE", "OVER"}
    /\ row[t] \in Final => order[t] \in {"OVER", "CANCELLED"}
    /\ order[t] \in {"DROPPED", "CANCELLED"} => row[t] \in {"PENDING", "CANCELLED"}

ReleaseAgrees(t) ==
    /\ releases[t] \in {0, 1}
    /\ releases[t] = 1 => \/ row[t] \in Final
                         \/ (Unsubmitted(t) /\ call[t] = "done")

(* A task knows a status that is still the row's, and no other task or      *)
(* click is about to give back the same margin.                             *)
TaskAgrees(k) ==
    /\ order[k.trade] \in IF k.event = "OrderSubmitted" THEN {"LIVE", "OVER"} ELSE {"OVER"}
    /\ k.pc = "mark" => row[k.trade] = Expected(k.event)
    /\ k.pc = "release" =>
        row[k.trade] \in Final /\ releases[k.trade] = 0 /\ Releases(k.event)

Exclusive(k, l) ==
    k.trade = l.trade /\ k # l =>
        \/ k.event = "OrderSubmitted" /\ l.event \in TradeEnd
        \/ l.event = "OrderSubmitted" /\ k.event \in TradeEnd

(* A click past the queue has cancelled the trade there, and it alone.      *)
Cancelling(c) == click[c].pc \in {"save", "mark", "release"}

ClickAgrees(c) ==
    click[c] # Idle =>
        /\ row[click[c].trade] # "NONE"
        /\ click[c].pc = "save" => order[click[c].trade] = "DROPPED"
        /\ click[c].pc \in {"mark", "release"} => order[click[c].trade] = "CANCELLED"
        /\ click[c].pc \in {"save", "mark"} => row[click[c].trade] = "PENDING"
        /\ click[c].pc = "release" =>
            row[click[c].trade] = "CANCELLED" /\ releases[click[c].trade] = 0

OneCancels ==
    \A c, d \in Clicks :
        Cancelling(c) /\ Cancelling(d) /\ click[c].trade = click[d].trade => c = d

IInv ==
    /\ TypeOK
    /\ \A t \in Trades : CallAgrees(t) /\ RowAgrees(t) /\ ReleaseAgrees(t)
    /\ \A k \in task : TaskAgrees(k)
    /\ \A k, l \in task : Exclusive(k, l)
    /\ \A c \in Clicks : ClickAgrees(c)
    /\ OneCancels

(* The margin of a trade is given back at most once, by whichever of the    *)
(* rollback, the cancellation and the listener's tasks comes to it, with    *)
(* crashes, failures and double clicks.                                     *)
ReleasedOnce == \A t \in Trades : releases[t] <= 1

(* A trade that is live, or that the queue may still turn into one (after a *)
(* restart at the latest), has its margin: none is given back early.        *)
LiveTradeKeepsItsMargin ==
    \A t \in Trades : order[t] \in MayTrade => releases[t] = 0

(* A row never leaves a final status, although every mark overwrites the    *)
(* whole document with the copy its task or request read earlier.           *)
FinalRowStays ==
    [][\A t \in Trades : row[t] \in Final => row'[t] = row[t]]_vars

(* What the margins of the trades of S come to: one element for each rupee  *)
Rupees(S) == UNION {{t} \X (1..Amount[t]) : t \in S}
Total(S) == Cardinality(Rupees(S))

OpenRows == {t \in Trades : row[t] \in OpenStatuses}

(* No failure and no crash makes the account reserve less than its open     *)
(* rows stand for.                                                          *)
ReservedCoversRows == resets = 0 => account.reserved >= Total(OpenRows)

(* Trades whose margin some document or running request answers for *)
Releasing(t) ==
    \/ \E c \in Clicks : click[c].pc = "release" /\ click[c].trade = t
    \/ \E k \in task : k.pc = "release" /\ k.trade = t

Commits(t) ==
    \/ call[t] \in {"submit", "own", "rollback"}
    \/ row[t] \in OpenStatuses
    \/ Releasing(t)

Committed == {t \in Trades : Commits(t)}

(* Without failures, crashes and resets the margin reserved is that of the  *)
(* open rows and of the requests and tasks under way, to the rupee.         *)
Undisturbed == crashes + failures + resets = 0

ReservedIsExplained == Undisturbed => account.reserved = Total(Committed)

(* The figures add up; and a user whose trades lose no more than their      *)
(* margin never commits more than the account holds.                        *)
FiguresAddUp == account.available + account.reserved = account.initial + account.pnl

LossesWithinMargin == \A t \in Trades, r \in Results : r >= -Amount[t]

NeverOvercommitted ==
    /\ FiguresAddUp
    /\ resets = 0 => account.reserved >= 0
    /\ resets = 0 /\ LossesWithinMargin => account.available >= 0

(* The three: reserved covers what is open, is explained, and adds up.       *)
ReservedAddsUp == ReservedCoversRows /\ ReservedIsExplained /\ NeverOvercommitted

(* A second invariant, on top of IInv: the trades whose margin was reserved  *)
(* and not given back, whether a row says so or not, and what bounds them.   *)
Holds(t) ==
    \/ call[t] \in {"submit", "rollback"}
    \/ order[t] # "NONE" /\ releases[t] = 0

Held == {t \in Trades : Holds(t)}

LedgerInv ==
    /\ reset = "checked" => resets > 0
    /\ \A k \in task : k.pnl \in Results \cup {0}
    /\ resets = 0 => account.reserved >= Total(Held)
    /\ ReservedIsExplained
    /\ NeverOvercommitted

(* paper-trade-status.enum.ts says of PENDING: "the Trading Engine has not  *)
(* created the underlying trade yet."  Once it has, PENDING ends.           *)
PendingEnds ==
    \A t \in Trades :
        (row[t] = "PENDING" /\ order[t] = "LIVE") ~> (row[t] # "PENDING")
=============================================================================
