------------------------------ MODULE MCProgress ------------------------------
(* What must happen, in the parts that something is waiting in: the queue    *)
(* (with one graceful shutdown and one cancellation), two paper trades whose *)
(* prices come one at a time, the scheduled maintenance of the risk controls *)
(* and the health check.  A behaviour is of one part from its start; the     *)
(* variables of the others are 0.                                            *)
EXTENDS MCRiskValues

CONSTANT NoKey

VARIABLES
    part,
    killSwitch, phase, item, store, worker, locks, ending, todo, reload, made, used, chainOk,
    created, handler, due, mark, burst, order,
    scenario, clock, memory, doc, breaker, request, events, told, lowered,
    healthScenario, outside, elapsed, scheduler, inFlightJobs, run, health,
    chain, call,    \* of the queue, and of the risk controls
    trade,          \* of the engine, and of the risk controls
    alive           \* of the engine, and of the health check

-----------------------------------------------------------------------------
Keys == {"k1", "k2"}
Requests == 1..3
KeyOf == <<"k1", "k1", "k2">>
Contracts == {"i1"}
ContractOf == [k \in Keys |-> "i1"]
Off == {FALSE}
Q == INSTANCE OrderQueue WITH
    Calls <- Requests, NoCall <- 0, Instruments <- Contracts, InstrumentOf <- ContractOf,
    KillSwitchSettings <- Off, MaxRetries <- 0, MaxQueueSize <- 2, MaxCancels <- 1,
    MaxExpiries <- 0, CanPrune <- TRUE, MaxCrashes <- 0, MaxStops <- 1, MaxSaveFaults <- 0

Paper(direction, market, stop, trigger, targets) ==
    [direction |-> direction, mode |-> "PAPER", market |-> market, quantity |-> 2,
     stop |-> stop, trigger |-> trigger, targets |-> targets, plan |-> <<0, 0>>]
Definition == <<Paper("LONG", TRUE, 1, 2, <<3, 4>>), Paper("SHORT", FALSE, 4, 3, <<2, 1>>)>>
Prices == 1..4
Trailing == {}
Two == {1, 2}
E == INSTANCE TradeEngine WITH
    Count <- 2, Handlers <- Two, Burst <- 1, MaxOrders <- 1, MaxResends <- 0

Scenarios == {{"loss", "maintain", "tick", "trigger"}}
Trades == {"T1"}
R == INSTANCE RiskControls WITH
    Instruments <- MCSymbols, Calls <- Two, Candidates <- MCFew, Few <- MCFew, Absent <- Missing,
    Policy <- MCPolicy, Patches <- MCPatches, Limits <- MCLimits, Hours <- MCHours,
    Flags <- MCFlags, Outcomes <- MCOutcomes,
    MaxTime <- 3, DayLength <- 3, MaxEvents <- 1

HealthScenarios ==
    {{"HEALTH_CHECK", "CLEANUP", "mongo", "feed", "recovery"},
     {"HEALTH_CHECK", "slow", "mongo", "feed", "recovery"}}
H == INSTANCE Housekeeping WITH
    Runs <- Two, RetryCount <- 2, BaseDelay <- 1, MaxDelay <- 2, HeartbeatLimit <- 1,
    MaxStarts <- 2

-----------------------------------------------------------------------------
(* The variables of one part only, and what the part is without.             *)
ofQueue == <<killSwitch, phase, item, store, worker, locks, ending, todo, reload, made, used, chainOk>>
ofEngine == <<created, handler, due, mark, burst, order>>
ofRisk == <<scenario, clock, memory, doc, breaker, request, events, told, lowered>>
ofHealth == <<healthScenario, outside, elapsed, scheduler, inFlightJobs, run, health>>

NoQueue ==
    /\ killSwitch = 0 /\ phase = 0 /\ item = 0 /\ store = 0 /\ worker = 0 /\ locks = 0
    /\ ending = 0 /\ todo = 0 /\ reload = 0 /\ made = 0 /\ used = 0 /\ chainOk = 0
NoEngine == created = 0 /\ handler = 0 /\ due = 0 /\ mark = 0 /\ burst = 0 /\ order = 0
NoRisk ==
    /\ scenario = 0 /\ clock = 0 /\ memory = 0 /\ doc = 0 /\ breaker = 0 /\ request = 0 /\ events = 0
    /\ told = 0 /\ lowered = 0
NoHealth ==
    /\ healthScenario = 0 /\ outside = 0 /\ elapsed = 0 /\ scheduler = 0 /\ inFlightJobs = 0 /\ run = 0 /\ health = 0

InitProgress ==
    \/ /\ part = "queue" /\ Q!Init
       /\ NoEngine /\ NoRisk /\ NoHealth /\ trade = 0 /\ alive = 0
    \/ /\ part = "engine" /\ E!Init
       /\ NoQueue /\ NoRisk /\ NoHealth /\ chain = 0 /\ call = 0
    \/ /\ part = "risk" /\ R!Init
       /\ NoQueue /\ NoEngine /\ NoHealth /\ alive = 0
    \/ /\ part = "health" /\ H!InitHousekeeping
       /\ NoQueue /\ NoEngine /\ NoRisk /\ chain = 0 /\ call = 0 /\ trade = 0

InQueue(A) ==
    part = "queue" /\ A /\ UNCHANGED <<part, ofEngine, ofRisk, ofHealth, trade, alive>>
InEngine(A) ==
    part = "engine" /\ A /\ UNCHANGED <<part, ofQueue, ofRisk, ofHealth, chain, call>>
InRisk(A) ==
    part = "risk" /\ A /\ UNCHANGED <<part, ofQueue, ofEngine, ofHealth, alive>>
InHealth(A) ==
    part = "health" /\ A /\ UNCHANGED <<part, ofQueue, ofEngine, ofRisk, chain, call, trade>>

QueueStep == InQueue(Q!Next)
EngineStep == InEngine(E!Next)
RiskStep == InRisk(R!Next)
HealthStep == InHealth(H!HealthNext)

progressVars == <<part, ofQueue, ofEngine, ofRisk, ofHealth, chain, call, trade, alive>>

(* The fairness of each part, as its module states it, one disjunct each (a  *)
(* behaviour is of one part): calls go on; what drives the part runs; and so *)
(* does what runs at times.                                                  *)
Continues(n) ==
    \/ InQueue(call[n] # "ready" /\ Q!CallStep(n))
    \/ n < 3 /\ (InEngine(E!HandlerStep(n)) \/ InRisk(R!Continue(n)) \/ InHealth(H!Advances(n)))
Drives ==
    \/ InQueue(Q!WorkerStep)
    \/ InEngine(\E h \in {1, 2}, price \in 1..4 : E!Tick(h, price))
    \/ InRisk(R!Tick)
    \/ InHealth(\E r \in {1, 2} : H!Fires("HEALTH_CHECK", r))
Recurs ==
    \/ InQueue(Q!RecoveryStep \/ \E k \in Keys : Q!EndStep(k))
    \/ InEngine(E!EndOfRead)
    \/ InRisk(\E c \in {1, 2} : R!Maintain(c))

ProgressSpec ==
    /\ InitProgress
    /\ [][QueueStep \/ EngineStep \/ RiskStep \/ HealthStep]_progressVars
    /\ \A n \in Requests : WF_progressVars(Continues(n))
    /\ WF_progressVars(Drives)
    /\ WF_progressVars(Recurs)
    /\ WF_progressVars(InQueue(Q!Exit \/ Q!UnhandledRejection))

-----------------------------------------------------------------------------
Kept == INSTANCE ExactlyOnce WITH
    Requests <- Requests,
    status <- [c \in Requests |-> IF part = "queue" THEN Q!StatusOf(c) ELSE "none"],
    executions <- [c \in Requests |-> IF part = "queue" THEN made[c] ELSE 0]

(* OrderQueue's KeepsPromise, where an item that is cancelled in the chain   *)
(* rejects it and ends the process.                                          *)
PromiseIsKept == Kept!Spec

(* The other promises, each of its part.                                     *)
StopsAreHonoured ==
    \A t \in {1, 2} :
        part = "engine" /\ trade[t].awaiting ~> part = "engine" /\ trade[t].state = "COMPLETED"
CooldownsDoLapse == part = "risk" /\ R!Cooling ~> part = "risk" /\ ~R!Cooling
OutagesAreAnnounced ==
    <>[](part = "health" /\ H!Outage /\ ~H!CheckHangs) => <>[](part = "health" /\ H!Announced)
=============================================================================
