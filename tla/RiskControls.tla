----------------------------- MODULE RiskControls -----------------------------
(***************************************************************************)
(* The risk engine and what it protects.  KillSwitchService,               *)
(* EmergencyStopService, CooldownService, DailyRiskStateService and        *)
(* RiskPolicyService each keep a value in memory and its document in       *)
(* Mongo; CircuitBreakerService keeps its breakers in memory alone.        *)
(*                                                                         *)
(* A call is a request of an operator, an event handler or a maintenance   *)
(* job that is running.  Where it awaits a write, the write is applied,    *)
(* the call goes on some time later, and other calls come in between; so   *)
(* they do between two trades of an emergency pass.  A write may fail,     *)
(* which ends the call, and the process may end at any time.               *)
(*                                                                         *)
(* A scenario says which commands the operators and the system give: the   *)
(* services meet only in evaluations, and share no state otherwise.        *)
(***************************************************************************)
EXTENDS TradeRules

CONSTANTS
    Calls,       \* calls that may run at a time
    Scenarios,   \* sets of commands
    Trades,      \* names of the trades that may be asked for
    Candidates,  \* the requests that may be submitted where they are all tried
    Few,         \* and where they are not
    Policy,      \* the policy stored in Mongo
    Patches,     \* what PUT /risk/policy may be given
    Limits,      \* RISK_LIMITS_CONFIG
    Hours,       \* TRADING_HOURS_CONFIG, in the clock's unit
    Flags,       \* the environment's kill switch and the feature flag
    Outcomes,    \* realised results a trade may complete with
    MaxTime,     \* bound on the clock
    DayLength,   \* how long a day is
    MaxEvents    \* bound on the events of breakers and trades

Breakers == {"BROKER", "MARKET_DATA", "ORDER_EXECUTION"}
KillStatuses == {"ACTIVE", "TRADING_DISABLED", "EMERGENCY_STOP"}
Never == 0

(* The numbers of a request are numbers, or missing. *)
ASSUME RiskControlsAssumption ==
    /\ {MaxTime, DayLength, MaxEvents} \subseteq Nat \ {0}
    /\ Outcomes \subseteq Int
    /\ \A r \in Candidates \cup Few :
         /\ {r.quantity, r.entryTriggerPrice, r.initialStopLoss} \subseteq Int \cup {Absent}
         /\ r.targets \in Seq(Int)

VARIABLES
    scenario,  \* the commands of this behaviour
    clock,
    memory,    \* the services' cached values
    doc,       \* their documents
    breaker,
    call,
    chain,     \* DailyRiskStateService.updateChain: outcomes not yet recorded
    request,   \* what was asked for
    trade,     \* and what became of it
    events,    \* events published so far
    told,      \* this day's books, as the results handed to recordTradeOutcome make them
    lowered    \* an operator has asked to lower a control

vars == <<scenario, clock, memory, doc, breaker, call, chain, request, trade, events, told, lowered>>

-----------------------------------------------------------------------------
Today == clock \div DayLength

NoDay == [date |-> -1, count |-> 0, losses |-> 0, pnl |-> 0]
EmptyDay(date) == [date |-> date, count |-> 0, losses |-> 0, pnl |-> 0]

(* What a call is, where it goes on, the write it waits for, and what it    *)
(* holds meanwhile                                                          *)
Idle == [op |-> "idle", at |-> "idle", write |-> <<>>, trade |-> "none", pnl |-> 0,
         status |-> "ACTIVE", force |-> FALSE, list |-> {}, existed |-> {},
         until |-> Never, day |-> NoDay, policy |-> Policy, cooldown |-> FALSE]

(* Who has not ended, and who can still be cancelled before its entry *)
Open(tr) == {t \in Trades : tr[t] \in {"waiting", "entering", "active"}}
Pending(tr) == {t \in Trades : tr[t] \in {"waiting", "entering"}}

(* OpenPositionView *)
Position(t) == [id |-> t, token |-> Instruments[request[t].rawSymbol].token,
                direction |-> request[t].direction, quantity |-> request[t].quantity,
                price |-> request[t].entryTriggerPrice]

Init ==
    /\ scenario \in Scenarios
    /\ clock = 0
    /\ memory = [kill |-> "ACTIVE", stop |-> FALSE, cooldown |-> Never,
                 day |-> EmptyDay(0), policy |-> Policy]
    /\ doc = [kill |-> "ACTIVE", stop |-> FALSE, cooldown |-> Never,
              day |-> [d \in 0..(MaxTime \div DayLength) |-> IF d = 0 THEN EmptyDay(0) ELSE NoDay],
              policy |-> Policy]
    /\ breaker = [b \in Breakers |-> [status |-> "CLOSED", failures |-> 0, openedAt |-> 0]]
    /\ call = [c \in Calls |-> Idle]
    /\ chain = <<>>
    /\ request = [t \in Trades |-> Absent]
    /\ trade = [t \in Trades |-> "none"]
    /\ events = 0
    /\ told = EmptyDay(0)
    /\ lowered = FALSE

-----------------------------------------------------------------------------
(* Calls *)
Free(c) == call[c].at = "idle"
Goes(c, k) == call' = [call EXCEPT ![c] = k]
Returns(c) == Goes(c, Idle)

(* The call awaits the save of one document, and then goes on at `at`. *)
Saving(k, field, value, at) ==
    [k EXCEPT !.write = <<field, value>>, !.at = at]

Answered(c, at) == call[c].at = at /\ call[c].write = <<>>

DayAfter(days, day) == [days EXCEPT ![day.date] = day]

Applied(field, value) ==
    IF field = "day" THEN [doc EXCEPT !.day = DayAfter(@, value)]
    ELSE [doc EXCEPT ![field] = value]

(* Mongo applies the write a call waits for. *)
Apply(c) ==
    /\ call[c].write # <<>>
    /\ doc' = Applied(call[c].write[1], call[c].write[2])
    /\ Goes(c, [call[c] EXCEPT !.write = <<>>])
    /\ UNCHANGED <<scenario, clock, memory, breaker, chain, request, trade, events, told, lowered>>

(* The process ends.  A new one loads the documents; the breakers are       *)
(* closed, the calls and the chain of outcomes are gone, and the trades are *)
(* restored.                                                                *)
Restart ==
    /\ LET stored == doc.day[Today]
           day == IF stored = NoDay THEN EmptyDay(Today) ELSE stored
       IN  /\ memory' = [doc EXCEPT !.day = day]
           /\ doc' = [doc EXCEPT !.day = [doc.day EXCEPT ![Today] = day]]
           /\ told' = day
    /\ breaker' = [b \in Breakers |-> [status |-> "CLOSED", failures |-> 0, openedAt |-> 0]]
    /\ call' = [c \in Calls |-> Idle]
    /\ chain' = <<>>

Crash ==
    /\ "crash" \in scenario
    /\ \E c \in Calls : ~Free(c)
    /\ Restart
    /\ UNCHANGED <<scenario, clock, request, trade, events, lowered>>

(* A write fails, and the call rejects.  Operators are told, maintenance    *)
(* and the emergency pass log it; nobody handles the rejection of an event  *)
(* handler, so the process ends.                                            *)
Fail(c) ==
    /\ "fail" \in scenario
    /\ call[c].write # <<>>
    /\ IF call[c].op \in {"loss", "outcome"} THEN Restart
       ELSE Returns(c) /\ UNCHANGED <<memory, doc, breaker, chain, told>>
    /\ UNCHANGED <<scenario, clock, request, trade, events, lowered>>

Tick ==
    /\ "tick" \in scenario
    /\ clock < MaxTime
    /\ clock' = clock + 1
    /\ told' = IF Today' # Today THEN EmptyDay(Today') ELSE told
    /\ UNCHANGED <<scenario, memory, doc, breaker, call, chain, request, trade, events, lowered>>

Mutant_ActivatingAgain(c, k, status, force) ==
    /\ memory' = [memory EXCEPT !.kill = status]
    /\ Goes(c, Saving([k EXCEPT !.status = status, !.force = force, !.existed = Open(trade)],
                      "kill", status, "killSaved"))

-----------------------------------------------------------------------------
(* KillSwitchService.activate up to its first await: the cache first.  `k`  *)
(* is the call.                                                             *)
Activating(c, k, status, force) ==
    /\ memory.kill # status
    /\ memory' = [memory EXCEPT !.kill = status]
    /\ Goes(c, Saving([k EXCEPT !.status = status, !.force = force, !.existed = Open(trade)],
                      "kill", status, "killSaved"))

Activate(c) ==
    /\ "activate" \in scenario
    /\ Free(c)
    /\ \E status \in KillStatuses \ {"ACTIVE"}, force \in BOOLEAN :
         /\ Activating(c, [Idle EXCEPT !.op = "activate"], status, force)
         /\ lowered' = (lowered \/ (memory.kill = "EMERGENCY_STOP" /\ status # "EMERGENCY_STOP"))
    /\ UNCHANGED <<scenario, clock, doc, breaker, chain, request, trade, events, told>>

(* CooldownService.start: the document, then the cache *)
Starting(k, duration) ==
    Saving([k EXCEPT !.until = clock + duration], "cooldown", clock + duration, "cooldownSaved")

(* The emergency stop goes on to its cooldown, a kill switch call returns. *)
AfterPass(c) ==
    IF call[c].op = "trigger" /\ memory.policy.cooldownAfterEmergencyExitMs > 0
    THEN Goes(c, Starting(call[c], memory.policy.cooldownAfterEmergencyExitMs))
    ELSE Returns(c)

Mutant_KillSavedExitsOnly(c) ==
    /\ Answered(c, "killSaved")
    /\ IF call[c].status = "EMERGENCY_STOP"
       THEN Goes(c, [call[c] EXCEPT !.at = "exiting", !.list = Open(trade) \ Pending(trade)])
       ELSE AfterPass(c)
    /\ UNCHANGED <<scenario, clock, memory, doc, breaker, chain, request, trade, events, told, lowered>>

KillSaved(c) ==
    /\ Answered(c, "killSaved")
    /\ IF call[c].status = "EMERGENCY_STOP"
       THEN Goes(c, [call[c] EXCEPT !.at = "cancelling", !.list = Pending(trade)])
       ELSE AfterPass(c)
    /\ UNCHANGED <<scenario, clock, memory, doc, breaker, chain, request, trade, events, told, lowered>>

(* cancelPendingEntries, one trade.  A trade that meanwhile filled cannot   *)
(* be cancelled: cancelTrade throws, which is logged.  An entry order that  *)
(* cannot be cancelled leaves its trade failed, which ends it too.          *)
CancelOne(c) ==
    /\ call[c].at = "cancelling"
    /\ \E t \in call[c].list :
         /\ trade' = IF t \in Pending(trade) THEN [trade EXCEPT ![t] = "ended"] ELSE trade
         /\ Goes(c, [call[c] EXCEPT !.list = @ \ {t}])
    /\ UNCHANGED <<scenario, clock, memory, doc, breaker, chain, request, events, told, lowered>>

(* The list is done: emergencyExitAll lists every open trade anew. *)
Cancelled(c) ==
    /\ call[c].at = "cancelling" /\ call[c].list = {}
    /\ IF call[c].force
       THEN Goes(c, [call[c] EXCEPT !.at = "exiting", !.list = Open(trade)])
       ELSE AfterPass(c)
    /\ UNCHANGED <<scenario, clock, memory, doc, breaker, chain, request, trade, events, told, lowered>>

(* One exit: the trade is asked to exit, and ends if it was filled and the  *)
(* order is. A trade that has no position refuses, which is logged.         *)
ExitOne(c) ==
    /\ call[c].at = "exiting"
    /\ \E t \in call[c].list :
         /\ trade' \in {trade} \cup
              (IF trade[t] = "active" THEN {[trade EXCEPT ![t] = "ended"]} ELSE {})
         /\ Goes(c, [call[c] EXCEPT !.list = @ \ {t}, !.existed = @ \ {t}])
    /\ UNCHANGED <<scenario, clock, memory, doc, breaker, chain, request, events, told, lowered>>

PassEnds(c) ==
    /\ call[c].at = "exiting" /\ call[c].list = {}
    /\ AfterPass(c)
    /\ UNCHANGED <<scenario, clock, memory, doc, breaker, chain, request, trade, events, told, lowered>>

(* deactivate: the document, then the cache *)
Deactivate(c) ==
    /\ "deactivate" \in scenario
    /\ Free(c)
    /\ memory.kill # "ACTIVE"
    /\ lowered' = TRUE
    /\ Goes(c, Saving([Idle EXCEPT !.op = "deactivate"], "kill", "ACTIVE", "deactivated"))
    /\ UNCHANGED <<scenario, clock, memory, doc, breaker, chain, request, trade, events, told>>

Deactivated(c) ==
    /\ Answered(c, "deactivated")
    /\ memory' = [memory EXCEPT !.kill = "ACTIVE"]
    /\ Returns(c)
    /\ UNCHANGED <<scenario, clock, doc, breaker, chain, request, trade, events, told, lowered>>

Mutant_TriggerCacheFirst(c) ==
    /\ "trigger" \in scenario
    /\ Free(c)
    /\ ~memory.stop
    /\ memory' = [memory EXCEPT !.stop = TRUE]
    /\ Goes(c, Saving([Idle EXCEPT !.op = "trigger"], "stop", TRUE, "stopSaved"))
    /\ UNCHANGED <<scenario, clock, doc, breaker, chain, request, trade, events, told, lowered>>

-----------------------------------------------------------------------------
(* EmergencyStopService *)
Trigger(c) ==
    /\ "trigger" \in scenario
    /\ Free(c)
    /\ ~memory.stop
    /\ Goes(c, Saving([Idle EXCEPT !.op = "trigger"], "stop", TRUE, "stopSaved"))
    /\ UNCHANGED <<scenario, clock, memory, doc, breaker, chain, request, trade, events, told, lowered>>

StopSaved(c) ==
    /\ Answered(c, "stopSaved")
    /\ LET stopped == [memory EXCEPT !.stop = TRUE]
           k == [call[c] EXCEPT !.status = "EMERGENCY_STOP",
                                !.force = memory.policy.killSwitchForceExitsPositions,
                                !.existed = Open(trade)]
       IN  IF memory.kill = "EMERGENCY_STOP"
           THEN memory' = stopped /\ AfterPass(c)
           ELSE /\ memory' = [stopped EXCEPT !.kill = "EMERGENCY_STOP"]
                /\ Goes(c, Saving(k, "kill", "EMERGENCY_STOP", "killSaved"))
    /\ UNCHANGED <<scenario, clock, doc, breaker, chain, request, trade, events, told, lowered>>

Reset(c) ==
    /\ "reset" \in scenario
    /\ Free(c)
    /\ memory.stop
    /\ lowered' = TRUE
    /\ Goes(c, Saving([Idle EXCEPT !.op = "reset"], "stop", FALSE, "resetSaved"))
    /\ UNCHANGED <<scenario, clock, memory, doc, breaker, chain, request, trade, events, told>>

ResetSaved(c) ==
    /\ Answered(c, "resetSaved")
    /\ memory' = [memory EXCEPT !.stop = FALSE]
    /\ Returns(c)
    /\ UNCHANGED <<scenario, clock, doc, breaker, chain, request, trade, events, told, lowered>>

-----------------------------------------------------------------------------
(* CooldownService *)
StopLossHit(c) ==
    /\ "loss" \in scenario
    /\ events < MaxEvents
    /\ Free(c)
    /\ memory.policy.cooldownAfterLossMs > 0
    /\ events' = events + 1
    /\ Goes(c, Starting([Idle EXCEPT !.op = "loss"], memory.policy.cooldownAfterLossMs))
    /\ UNCHANGED <<scenario, clock, memory, doc, breaker, chain, request, trade, told, lowered>>

CooldownSaved(c) ==
    /\ Answered(c, "cooldownSaved")
    /\ memory' = [memory EXCEPT !.cooldown = call[c].until]
    /\ Returns(c)
    /\ UNCHANGED <<scenario, clock, doc, breaker, chain, request, trade, events, told, lowered>>

(* getActiveCooldown for the call `k`: one that is due is ended first, the  *)
(* document before the cache.                                               *)
Due == memory.cooldown # Never /\ memory.cooldown <= clock

-----------------------------------------------------------------------------
(* CircuitBreaker *)
Recovered(b) ==
    IF b.status = "OPEN" /\ clock - b.openedAt >= Policy.circuitBreakerOpenDurationMs
    THEN [b EXCEPT !.status = "HALF_OPEN"] ELSE b

Failed(b) ==
    LET failures == IF b.status = "HALF_OPEN" THEN b.failures ELSE b.failures + 1
        opens == b.status = "HALF_OPEN" \/ failures >= Policy.circuitBreakerFailureThreshold
    IN  [b EXCEPT !.failures = failures,
                  !.status = IF opens THEN "OPEN" ELSE @,
                  !.openedAt = IF opens THEN clock ELSE @]

(* An event of the broker, the feed or the queue *)
BreakerEvent(b) ==
    /\ "breaker" \in scenario
    /\ events < MaxEvents
    /\ events' = events + 1
    /\ \/ breaker' = [breaker EXCEPT ![b] = Failed(@)]
       \/ breaker' = [breaker EXCEPT ![b] = [@ EXCEPT !.status = "CLOSED", !.failures = 0]]
    /\ UNCHANGED <<scenario, clock, memory, doc, call, chain, request, trade, told, lowered>>

-----------------------------------------------------------------------------
(* DailyRiskStateService.getState, in the steps between which it awaits.    *)
(* The day it returns is the call's value when it is at "dayRead".          *)
ReadDay(c) ==
    /\ Answered(c, "day")
    /\ Goes(c, IF memory.day.date = Today
               THEN [call[c] EXCEPT !.at = "dayRead", !.day = memory.day]
               ELSE [call[c] EXCEPT !.at = "finding", !.day = EmptyDay(Today)])
    /\ UNCHANGED <<scenario, clock, memory, doc, breaker, chain, request, trade, events, told, lowered>>

FindDay(c) ==
    /\ Answered(c, "finding")
    /\ LET stored == doc.day[call[c].day.date] IN
         Goes(c, IF stored = NoDay THEN [call[c] EXCEPT !.at = "missing"]
                 ELSE [call[c] EXCEPT !.at = "found", !.day = stored])
    /\ UNCHANGED <<scenario, clock, memory, doc, breaker, chain, request, trade, events, told, lowered>>

(* The cache takes what was found, whatever it has become meanwhile. *)
Found(c) ==
    /\ \/ /\ Answered(c, "found")
          /\ Goes(c, [call[c] EXCEPT !.at = "dayRead"])
       \/ /\ Answered(c, "missing")
          /\ Goes(c, Saving(call[c], "day", call[c].day, "dayKept"))
    /\ memory' = [memory EXCEPT !.day = call[c].day]
    /\ UNCHANGED <<scenario, clock, doc, breaker, chain, request, trade, events, told, lowered>>

DayKept(c) ==
    /\ Answered(c, "dayKept")
    /\ Goes(c, [call[c] EXCEPT !.at = "dayRead", !.day = memory.day])
    /\ UNCHANGED <<scenario, clock, memory, doc, breaker, chain, request, trade, events, told, lowered>>

(* A day's books after one more result *)
With(day, pnl) ==
    [day EXCEPT !.count = @ + 1, !.pnl = @ + pnl, !.losses = IF pnl < 0 THEN @ + 1 ELSE 0]

(* TradeCompleted is published: recordTradeOutcome joins the chain. *)
TradeCompleted ==
    /\ "outcome" \in scenario
    /\ events < MaxEvents
    /\ events' = events + 1
    /\ \E pnl \in Outcomes : chain' = Append(chain, pnl)
    /\ UNCHANGED <<scenario, clock, memory, doc, breaker, call, request, trade, told, lowered>>

Mutant_MayApplyUnchained == chain # <<>>

(* The first of the chain is applied, when the one before has been. *)
MayApply == chain # <<>> /\ \A c \in Calls : call[c].op # "outcome"

ApplyOutcome(c) ==
    /\ Free(c)
    /\ MayApply
    /\ Goes(c, [Idle EXCEPT !.op = "outcome", !.at = "day", !.pnl = Head(chain)])
    /\ chain' = Tail(chain)
    /\ UNCHANGED <<scenario, clock, memory, doc, breaker, request, trade, events, told, lowered>>

RecordOutcome(c) ==
    /\ Answered(c, "dayRead") /\ call[c].op = "outcome"
    /\ LET day == With(call[c].day, call[c].pnl) IN
         Goes(c, Saving([call[c] EXCEPT !.day = day], "day", day, "recorded"))
    /\ told' = IF call[c].day.date = Today THEN With(told, call[c].pnl) ELSE told
    /\ UNCHANGED <<scenario, clock, memory, doc, breaker, chain, request, trade, events, lowered>>

Recorded(c) ==
    /\ Answered(c, "recorded")
    /\ memory' = [memory EXCEPT !.day = call[c].day]
    /\ Returns(c)
    /\ UNCHANGED <<scenario, clock, doc, breaker, chain, request, trade, events, told, lowered>>

-----------------------------------------------------------------------------
(* RiskMaintenanceJob: the day, then the cooldown, then the breakers *)
Maintain(c) ==
    /\ "maintain" \in scenario
    /\ Free(c)
    /\ Goes(c, [Idle EXCEPT !.op = "maintain", !.at = "day"])
    /\ UNCHANGED <<scenario, clock, memory, doc, breaker, chain, request, trade, events, told, lowered>>

(* Where a call goes once it knows the cooldown *)
CooldownKnown(c, active) ==
    IF call[c].op = "maintain"
    THEN /\ breaker' = [b \in Breakers |-> Recovered(breaker[b])]
         /\ Returns(c)
    ELSE /\ Goes(c, [call[c] EXCEPT !.at = "gathered", !.cooldown = active])
         /\ UNCHANGED breaker

(* A cooldown that is due is ended, for maintenance or an evaluation. *)
Expire(c) ==
    /\ Answered(c, "dayRead") /\ call[c].op # "outcome"
    /\ IF Due
       THEN /\ Goes(c, [call[c] EXCEPT !.at = "expired", !.write = <<"cooldown", Never>>])
            /\ UNCHANGED breaker
       ELSE CooldownKnown(c, memory.cooldown # Never)
    /\ UNCHANGED <<scenario, clock, memory, doc, chain, request, trade, events, told, lowered>>

Mutant_EndsTheDocumentOnly(c) ==
    /\ Answered(c, "expired")
    /\ CooldownKnown(c, FALSE)
    /\ UNCHANGED <<scenario, clock, memory, doc, chain, request, trade, events, told, lowered>>

Expired(c) ==
    /\ Answered(c, "expired")
    /\ memory' = [memory EXCEPT !.cooldown = Never]
    /\ CooldownKnown(c, FALSE)
    /\ UNCHANGED <<scenario, clock, doc, chain, request, trade, events, told, lowered>>

-----------------------------------------------------------------------------
(* RiskPolicyService.updatePolicy: the patch on top of the cached policy *)
Merged(patch) ==
    [f \in DOMAIN memory.policy |-> IF f \in DOMAIN patch THEN patch[f] ELSE memory.policy[f]]

UpdatePolicy(c) ==
    /\ "policy" \in scenario
    /\ Free(c)
    /\ \E patch \in Patches :
         Goes(c, Saving([Idle EXCEPT !.op = "policy", !.policy = Merged(patch)],
                        "policy", Merged(patch), "policySaved"))
    /\ UNCHANGED <<scenario, clock, memory, doc, breaker, chain, request, trade, events, told, lowered>>

PolicySaved(c) ==
    /\ Answered(c, "policySaved")
    /\ memory' = [memory EXCEPT !.policy = call[c].policy]
    /\ Returns(c)
    /\ UNCHANGED <<scenario, clock, doc, breaker, chain, request, trade, events, told, lowered>>
-----------------------------------------------------------------------------
(* RiskRule's view of the day.  Every trade of these behaviours is of the   *)
(* first day, and what it earned is what the books say.                     *)
TodaysTrades == [count |-> Cardinality({t \in Trades : trade[t] \notin {"none", "vetted", "rejected", "queued"}}),
                 realizedPnl |-> told.pnl]

(* OrderQueueService.submitTrade: the rules up to RiskManagementRule, which *)
(* starts the evaluation with the positions open at this moment.            *)
Submit(c) ==
    /\ "submit" \in scenario
    /\ Free(c)
    /\ \E t \in Trades, r \in (IF "vet" \in scenario THEN Candidates ELSE Few) :
         /\ trade[t] = "none"
         /\ request' = [request EXCEPT ![t] = r]
         /\ IF Validate(r, clock, Hours, {Position(u) : u \in Open(trade)}, TodaysTrades, Limits) = Passed
            THEN /\ trade' = [trade EXCEPT ![t] = "vetted"]
                 /\ Goes(c, [Idle EXCEPT !.op = "submit", !.at = "day", !.trade = t,
                                         !.list = {Position(u) : u \in Open(trade)}])
            ELSE trade' = [trade EXCEPT ![t] = "rejected"] /\ UNCHANGED call
    /\ UNCHANGED <<scenario, clock, memory, doc, breaker, chain, events, told, lowered>>

(* What an evaluation knows: the day and the cooldown as they were read,    *)
(* and the switches and breakers as they are now                            *)
RiskInput(c) == [emergencyStopActive |-> memory.stop, killSwitchStatus |-> memory.kill,
             breakers |-> [b \in Breakers |-> breaker[b].status],
             cooldown |-> call[c].cooldown,
             consecutiveLosses |-> call[c].day.losses, realizedPnl |-> call[c].day.pnl]

Decision(c) ==
    FirstFailure(<<EvaluateTradeRisk(memory.policy, request[call[c].trade], call[c].list, RiskInput(c)),
                   FeatureFlag(Flags)>>)

(* The decision, and FeatureFlagRule after it.  An approved request is      *)
(* queued.                                                                  *)
Decide(c) ==
    /\ Answered(c, "gathered")
    /\ trade' = [trade EXCEPT ![call[c].trade] = IF Decision(c) = Passed THEN "queued" ELSE "rejected"]
    /\ Returns(c)
    /\ UNCHANGED <<scenario, clock, memory, doc, breaker, chain, request, events, told, lowered>>

(* The queue's worker creates the trade, and the engine enters it. *)
Proceed(t) ==
    /\ \E step \in {<<"queued", "waiting">>, <<"waiting", "entering">>,
                     <<"entering", "active">>, <<"active", "ended">>} :
         /\ trade[t] = step[1]
         /\ trade' = [trade EXCEPT ![t] = step[2]]
    /\ UNCHANGED <<scenario, clock, memory, doc, breaker, call, chain, request, events, told, lowered>>

-----------------------------------------------------------------------------
(* A call begins, and goes on. *)
Begin(c) ==
    \/ Activate(c) \/ Deactivate(c) \/ Trigger(c) \/ Reset(c) \/ StopLossHit(c)
    \/ ApplyOutcome(c) \/ Maintain(c) \/ UpdatePolicy(c) \/ Submit(c)

Continue(c) ==
    \/ Apply(c)
    \/ KillSaved(c) \/ CancelOne(c) \/ Cancelled(c) \/ ExitOne(c) \/ PassEnds(c)
    \/ Deactivated(c) \/ StopSaved(c) \/ ResetSaved(c) \/ CooldownSaved(c)
    \/ ReadDay(c) \/ FindDay(c) \/ Found(c) \/ DayKept(c) \/ RecordOutcome(c) \/ Recorded(c)
    \/ Expire(c) \/ Expired(c) \/ PolicySaved(c) \/ Decide(c)

Next ==
    \/ \E c \in Calls : Begin(c) \/ Continue(c) \/ Fail(c)
    \/ \E t \in Trades : Proceed(t)
    \/ \E b \in Breakers : BreakerEvent(b)
    \/ TradeCompleted \/ Tick \/ Crash

Spec == Init /\ [][Next]_vars

(* Where the scheduler runs: a call that can go on does, the clock runs, and *)
(* the maintenance job is started at every interval.                        *)
Scheduled == "maintain" \in scenario
FairSpec ==
    /\ Spec
    /\ WF_clock(Tick)
    /\ \A c \in Calls : WF_call(Scheduled /\ Continue(c))
    /\ WF_call(Scheduled /\ \E c \in Calls : Maintain(c))

-----------------------------------------------------------------------------
(* Properties *)

(* The books of the day on which the services were started count every      *)
(* result once, in the cache and in the document, whenever no result waits  *)
(* to be recorded: recordTradeOutcome puts the handlers of TradeCompleted   *)
(* one after the other.  Reading a new day is not in that chain, and makes  *)
(* no such promise: getState sets the cache to what it found some time ago. *)
OutcomesCounted ==
    (Today = 0 /\ chain = <<>> /\ \A c \in Calls : call[c].op # "outcome")
        => memory.day = told /\ doc.day[0] = told

(* Once the emergency stop is known, nothing but an operator lifts it: not  *)
(* the end of the process, nor another call (trigger saves the document     *)
(* before it sets the cache).                                               *)
KeepsStop == memory.stop /\ ~lowered => memory'.stop
StopIsNotForgotten == [][KeepsStop]_vars

InPass(c) == call[c].at \in {"cancelling", "exiting"}

(* Two operators who stop everything at once start one pass over the        *)
(* positions (activate sets its cache before it awaits the save).           *)
OneEmergencyPass == ~lowered => Cardinality({c \in Calls : InPass(c)}) <= 1

(* A pass that forces exits has, when it ends, ended or asked to exit every *)
(* trade that was open when the switch was set, those included that filled  *)
(* while the pending ones were being cancelled.                             *)
PassReachesAll ==
    \A c \in Calls :
        (call[c].at = "exiting" /\ call[c].list = {}) => \A t \in call[c].existed : trade[t] = "ended"

Agg == INSTANCE Trade

(* A request that was vetted makes a trade definition the aggregate takes:  *)
(* the worker's createTrade does not throw for it.                          *)
AcceptedIsCreatable ==
    \A t \in Trades : trade[t] \notin {"none", "rejected"} =>
        Agg!ValidDefinition([direction |-> request[t].direction, quantity |-> request[t].quantity,
                             stop |-> request[t].initialStopLoss,
                             trigger |-> request[t].entryTriggerPrice,
                             targets |-> request[t].targets])

(* A cooldown that is running ends once the clock gets there, whatever       *)
(* evaluations, losses and emergency passes overlap the maintenance job: a   *)
(* loss does not block the trader for ever.  (No such thing holds of the     *)
(* circuit breakers: OPEN becomes HALF_OPEN, which blocks as well.)          *)
Cooling == Scheduled /\ memory.cooldown \in 1..(MaxTime - 1)
CooldownsLapse == Cooling ~> ~Cooling
=============================================================================
