------------------------------ MODULE Housekeeping ------------------------------
(***************************************************************************)
(* The scheduler and the health of the broker: intervals start jobs, a job *)
(* never beside itself, and the health check samples the indicators, saves *)
(* a snapshot, announces the change of status and, at times, recovers the  *)
(* feed, the sessions and the instruments.  The scheduler is started by a  *)
(* call that nothing in the application makes; so are the two jobs of the  *)
(* trading day.                                                            *)
(*                                                                         *)
(* The outside is the state that the indicators read, which fails and is   *)
(* repaired on its own.  What the jobs do to the queue, the risk controls  *)
(* and the trades is in the modules of those.                              *)
(***************************************************************************)
EXTENDS Integers, Sequences, FiniteSets, FiniteSetsExt

CONSTANTS
    Runs,           \* the runs of jobs that can be in progress
    HealthScenarios,
    RetryCount,     \* retryCount of the recovery
    BaseDelay, MaxDelay,
    HeartbeatLimit, \* heartbeatTimeoutMs, in ticks
    MaxStarts       \* bound on the calls of start() in progress

HealthAssumption ==
    /\ {RetryCount, BaseDelay, MaxDelay, HeartbeatLimit, MaxStarts} \subseteq Nat \ {0}
    /\ Runs # {}

VARIABLES
    healthScenario,
    outside,
    elapsed,   \* heartbeat's age and the time since the last recovery
    scheduler,
    inFlightJobs,
    run,
    health,
    alive

healthVars == <<healthScenario, outside, elapsed, scheduler, inFlightJobs, run, health, alive>>

-----------------------------------------------------------------------------
(* The indicators *)

SeverityOrder == <<"HEALTHY", "UNKNOWN", "WARNING", "RECOVERING", "DEGRADED", "DISCONNECTED">>
SeverityOf(status) == CHOOSE i \in DOMAIN SeverityOrder : SeverityOrder[i] = status
AggregateStatuses(statuses) ==
    CHOOSE s \in statuses \cup {"HEALTHY"} : \A t \in statuses : SeverityOf(t) <= SeverityOf(s)

(* The sessions that are held: "partly" when some of them are valid.         *)
BrokerAuth(sessions) ==
    IF sessions \in {"none", "invalid", "partly"} THEN "DISCONNECTED"
    ELSE IF sessions = "expiring" THEN "WARNING" ELSE "HEALTHY"

RestApi(sessions) ==
    IF sessions \in {"none", "invalid"} THEN "DISCONNECTED"
    ELSE IF sessions = "partly" THEN "DEGRADED" ELSE "HEALTHY"
OrderApi(sessions) == RestApi(sessions)

Database(mongo) == IF mongo THEN "HEALTHY" ELSE "DISCONNECTED"

WebSocket(feed, stale) ==
    IF feed = "DISCONNECTED" THEN "DISCONNECTED"
    ELSE IF feed = "RECONNECTING" THEN "RECOVERING"
    ELSE IF stale THEN "WARNING"
    ELSE IF feed = "CONNECTING" THEN "UNKNOWN" ELSE "HEALTHY"

MarketDataProvider(feed, slow) ==
    IF feed # "CONNECTED" THEN "DISCONNECTED" ELSE IF slow THEN "DEGRADED" ELSE "HEALTHY"

InstrumentMaster(instruments) ==
    IF instruments = "empty" THEN "DISCONNECTED"
    ELSE IF instruments = "stale" THEN "WARNING" ELSE "HEALTHY"

InternetConnectivity(internet) ==
    IF internet = "reachable" THEN "HEALTHY"
    ELSE IF internet = "refusing" THEN "DEGRADED" ELSE "DISCONNECTED"

SchedulerHealth(started) == IF started THEN "HEALTHY" ELSE "UNKNOWN"

(* From five outcomes on: more than half failed; a fifth, after a retry.     *)
OrderQueueHealth(failures) ==
    IF failures = "many" THEN "DEGRADED" ELSE IF failures = "some" THEN "WARNING" ELSE "HEALTHY"

(* All but the one that awaits an answer read the state at once.             *)
ReadAtOnce ==
    {BrokerAuth(outside.sessions), RestApi(outside.sessions), OrderApi(outside.sessions),
     Database(outside.mongo),
     WebSocket(outside.feed, elapsed.heartbeat > HeartbeatLimit),
     MarketDataProvider(outside.feed, outside.slow), InstrumentMaster(outside.instruments),
     SchedulerHealth(scheduler.started), OrderQueueHealth(outside.failures)}

Values ==
    [sessions |-> {"none", "invalid", "partly", "expiring", "valid"}, mongo |-> BOOLEAN,
     feed |-> {"DISCONNECTED", "CONNECTING", "RECONNECTING", "CONNECTED"}, slow |-> BOOLEAN,
     instruments |-> {"empty", "stale", "fresh"},
     internet |-> {"reachable", "refusing", "silent"}, failures |-> {"few", "some", "many"}]

(* The outside changes on its own, in the respects that are given.           *)
Changes(what) ==
    /\ alive /\ what \in healthScenario
    /\ \E value \in Values[what] \ {outside[what]} :
         outside' = [outside EXCEPT ![what] = value]
    /\ UNCHANGED <<healthScenario, elapsed, scheduler, inFlightJobs, run, health, alive>>

(* HeartbeatMonitorService: a beat, and the watchdog, whose timeout is       *)
(* announced once until the next beat.                                       *)
Beats ==
    /\ alive /\ outside.feed = "CONNECTED"
    /\ elapsed' = [elapsed EXCEPT !.heartbeat = 0, !.timedOut = FALSE]
    /\ UNCHANGED <<healthScenario, outside, scheduler, inFlightJobs, run, health, alive>>

TimePasses ==
    /\ alive /\ "time" \in healthScenario
    /\ elapsed' = [elapsed EXCEPT !.heartbeat = IF @ > HeartbeatLimit THEN @ ELSE @ + 1,
                              !.recovery = IF @ = MaxDelay THEN @ ELSE @ + 1]
    /\ elapsed' # elapsed
    /\ UNCHANGED <<healthScenario, outside, scheduler, inFlightJobs, run, health, alive>>

CheckTimeout ==
    /\ alive /\ ~elapsed.timedOut /\ elapsed.heartbeat > HeartbeatLimit
    /\ elapsed' = [elapsed EXCEPT !.timedOut = TRUE]
    /\ UNCHANGED <<healthScenario, outside, scheduler, inFlightJobs, run, health, alive>>

-----------------------------------------------------------------------------
(* The scheduler *)

IntervalJobs == {"HEALTH_CHECK", "INSTRUMENT_REFRESH", "CLEANUP", "RISK_MAINTENANCE"}
TriggeredJobs == {"MORNING_STARTUP", "MARKET_CLOSE"}

(* What each job does, step by step, as far as another part can tell.        *)
InstrumentRefreshJob == <<"refresh">>
CleanupJob == <<"database">>
RiskMaintenanceJob == <<"database", "database">>
MarketCloseJob == <<"stop", "database">>
MorningStartupJob == <<"database", "login", "refresh", "start">>
Script == [INSTRUMENT_REFRESH |-> InstrumentRefreshJob, CLEANUP |-> CleanupJob,
           RISK_MAINTENANCE |-> RiskMaintenanceJob, MARKET_CLOSE |-> MarketCloseJob,
           MORNING_STARTUP |-> MorningStartupJob]

NoRun == [pc |-> "idle"]

InitHousekeeping ==
    /\ healthScenario \in HealthScenarios
    /\ outside = [sessions |-> "valid", mongo |-> TRUE, feed |-> "CONNECTED", slow |-> FALSE,
                  instruments |-> "fresh", internet |-> "reachable", failures |-> "few"]
    /\ elapsed = [heartbeat |-> 0, timedOut |-> FALSE, recovery |-> MaxDelay]
    /\ scheduler = [started |-> FALSE, starting |-> 0, intervals |-> 0, held |-> FALSE]
    /\ inFlightJobs = {} /\ run = [r \in Runs |-> NoRun]
    /\ health = [snapshot |-> "UNKNOWN", saved |-> TRUE, previous |-> "UNKNOWN",
                 connected |-> FALSE, announced |-> "none", attempts |-> 0]
    /\ alive = TRUE

(* start() looks at `started` before it awaits the feature flag, and only    *)
(* then; stop() clears the intervals whose handles are held.                 *)
Start ==
    /\ alive /\ ~scheduler.started
    /\ scheduler.starting + scheduler.intervals < IF "races" \in healthScenario THEN MaxStarts ELSE 1
    /\ scheduler' = [scheduler EXCEPT !.starting = @ + 1]
    /\ UNCHANGED <<healthScenario, outside, elapsed, inFlightJobs, run, health, alive>>

Enabled ==
    /\ alive /\ scheduler.starting > 0
    /\ \E enabled \in BOOLEAN :
         /\ enabled \/ "flag" \in healthScenario
         /\ scheduler' = IF enabled
                      THEN [started |-> TRUE, starting |-> scheduler.starting - 1,
                            intervals |-> scheduler.intervals + 1, held |-> TRUE]
                      ELSE [scheduler EXCEPT !.starting = @ - 1]
    /\ UNCHANGED <<healthScenario, outside, elapsed, inFlightJobs, run, health, alive>>

Stop ==
    /\ alive /\ "stop" \in healthScenario /\ scheduler.held
    /\ scheduler' = [scheduler EXCEPT !.started = FALSE, !.held = FALSE, !.intervals = @ - 1]
    /\ UNCHANGED <<healthScenario, outside, elapsed, inFlightJobs, run, health, alive>>

BeginRun(job, by) ==
    [pc |-> IF job = "HEALTH_CHECK" THEN "probing" ELSE "working", job |-> job, by |-> by,
     at |-> 1, overall |-> AggregateStatuses(ReadAtOnce)]

(* A run that finds another of its job in progress returns at once.          *)
Mutant_RunsBeside(job, by, r) ==
    /\ alive /\ run[r] = NoRun
    /\ inFlightJobs' = inFlightJobs \cup {job}
    /\ run' = [run EXCEPT ![r] = BeginRun(job, by)]
    /\ UNCHANGED <<healthScenario, outside, elapsed, scheduler, health, alive>>
RunJob(job, by, r) ==
    /\ alive /\ run[r] = NoRun /\ job \notin inFlightJobs
    /\ inFlightJobs' = inFlightJobs \cup {job}
    /\ run' = [run EXCEPT ![r] = BeginRun(job, by)]
    /\ UNCHANGED <<healthScenario, outside, elapsed, scheduler, health, alive>>

Fires(job, r) == scheduler.intervals > 0 /\ job \in healthScenario /\ RunJob(job, "interval", r)
Triggered(job, r) == job \in healthScenario /\ RunJob(job, "caller", r)

Ended(r, ok) == run' = [run EXCEPT ![r] = [pc |-> "reporting", job |-> @.job, by |-> @.by, ok |-> ok]]

(* One step of a job that is done, or has thrown.                            *)
DoesOutside(step) ==
    CASE step = "stop" -> [outside EXCEPT !.feed = "DISCONNECTED"]
      [] step = "start" -> [outside EXCEPT !.feed = "CONNECTED"]
      [] step = "refresh" -> [outside EXCEPT !.instruments = "fresh"]
      [] step = "login" -> [outside EXCEPT !.sessions = IF @ = "none" \/ outside.internet # "reachable"
                                                               THEN @ ELSE "valid"]
      [] OTHER -> outside

CanDo(step) ==
    /\ step = "database" => outside.mongo
    /\ step \in {"refresh", "start"} => outside.internet = "reachable"

Works(r) ==
    /\ alive /\ run[r].pc = "working"
    /\ LET script == Script[run[r].job]
       IN  /\ CanDo(script[run[r].at])
           /\ outside' = DoesOutside(script[run[r].at])
           /\ IF run[r].at = Len(script) THEN Ended(r, TRUE)
              ELSE run' = [run EXCEPT ![r].at = @ + 1]
    /\ UNCHANGED <<healthScenario, elapsed, scheduler, inFlightJobs, health, alive>>

Throws(r) ==
    /\ alive /\ run[r].pc = "working" /\ ~CanDo(Script[run[r].job][run[r].at])
    /\ Ended(r, FALSE)
    /\ UNCHANGED <<healthScenario, outside, elapsed, scheduler, inFlightJobs, health, alive>>

(* The result is saved and the run is over, in the `finally` of runJob.      *)
Reported(r) ==
    /\ alive /\ run[r].pc = "reporting" /\ outside.mongo
    /\ run' = [run EXCEPT ![r] = NoRun] /\ inFlightJobs' = inFlightJobs \ {run[r].job}
    /\ UNCHANGED <<healthScenario, outside, elapsed, scheduler, health, alive>>

(* A result that cannot be saved is reported once more, as a failure; when   *)
(* that is not saved either, the run rejects, and no one handles the         *)
(* rejection of a run that an interval began.                                *)
Mutant_KeepsTheJobBusy(r) ==
    /\ alive /\ run[r].pc = "reporting" /\ ~outside.mongo
    /\ run' = [run EXCEPT ![r] = IF @.ok THEN [@ EXCEPT !.ok = FALSE] ELSE NoRun]
    /\ UNCHANGED <<healthScenario, outside, elapsed, scheduler, health, inFlightJobs, alive>>
ReportFails(r) ==
    /\ alive /\ run[r].pc = "reporting" /\ ~outside.mongo
    /\ run' = [run EXCEPT ![r] = IF @.ok THEN [@ EXCEPT !.ok = FALSE] ELSE NoRun]
    /\ inFlightJobs' = IF run[r].ok THEN inFlightJobs ELSE inFlightJobs \ {run[r].job}
    /\ alive' = (run[r].ok \/ run[r].by = "caller")
    /\ UNCHANGED <<healthScenario, outside, elapsed, scheduler, health>>

-----------------------------------------------------------------------------
(* The health check *)

RecoverableStatuses == {"DISCONNECTED", "DEGRADED"}

Probed(r) ==
    /\ alive /\ run[r].pc = "probing"
    /\ LET overall == IF "maintenance" \in healthScenario THEN "MAINTENANCE"
                      ELSE AggregateStatuses({run[r].overall, InternetConnectivity(outside.internet)})
       IN  /\ run' = [run EXCEPT ![r].pc = "saving", ![r].overall = overall]
           /\ health' = [health EXCEPT !.snapshot = overall, !.saved = FALSE]
    /\ UNCHANGED <<healthScenario, outside, elapsed, scheduler, inFlightJobs, alive>>

(* What handleTransition makes of the new status.                            *)
Transition(overall) ==
    IF overall = health.previous \/ overall \notin {"HEALTHY", "WARNING", "DISCONNECTED"}
    THEN [health EXCEPT !.previous = overall, !.saved = TRUE]
    ELSE [health EXCEPT !.previous = overall, !.saved = TRUE, !.announced = overall,
                        !.connected = overall = "HEALTHY" \/ (@ /\ overall = "WARNING")]

SnapshotSaved(r) ==
    /\ alive /\ run[r].pc = "saving" /\ outside.mongo
    /\ IF run[r].overall \in RecoverableStatuses
       THEN health' = Transition(run[r].overall) /\ run' = [run EXCEPT ![r].pc = "deciding"]
       ELSE health' = [Transition(run[r].overall) EXCEPT !.attempts = 0] /\ Ended(r, TRUE)
    /\ UNCHANGED <<healthScenario, outside, elapsed, scheduler, inFlightJobs, alive>>

SnapshotLost(r) ==
    /\ alive /\ run[r].pc = "saving" /\ ~outside.mongo /\ Ended(r, FALSE)
    /\ UNCHANGED <<healthScenario, outside, elapsed, scheduler, inFlightJobs, health, alive>>

ComputeDelay(attempt) == Min({MaxDelay, BaseDelay * 2^(attempt - 1)})
HasExceededRetryCount(attempt) == attempt > RetryCount

MaybeAttemptRecovery(r) ==
    /\ alive /\ run[r].pc = "deciding"
    /\ LET attempt == health.attempts + 1
           enabled == "recovery" \in healthScenario /\ ~HasExceededRetryCount(attempt)
       IN  IF enabled /\ elapsed.recovery >= ComputeDelay(attempt)
           THEN /\ health' = [health EXCEPT !.attempts = attempt]
                /\ elapsed' = [elapsed EXCEPT !.recovery = 0]
                /\ run' = [run EXCEPT ![r].pc = "recovering"]
           ELSE Ended(r, TRUE) /\ UNCHANGED <<health, elapsed>>
    /\ UNCHANGED <<healthScenario, outside, scheduler, inFlightJobs, alive>>

Recovery == <<"stop", "start", "login", "refresh">>

(* A recovery that fails is caught, and so is one that cannot be recorded;   *)
(* one that never answers is not (Hangs).                                    *)
Recovers(r) ==
    /\ alive /\ run[r].pc = "recovering"
    /\ LET step == Recovery[run[r].at]
       IN IF CanDo(step) /\ run[r].at < Len(Recovery)
          THEN run' = [run EXCEPT ![r].at = @ + 1] /\ outside' = DoesOutside(step)
          ELSE /\ Ended(r, TRUE)
               /\ outside' = IF CanDo(step) THEN DoesOutside(step) ELSE outside
    /\ UNCHANGED <<healthScenario, elapsed, scheduler, inFlightJobs, health, alive>>

(* stop() of the feed waits for the close of its socket.  A socket that is   *)
(* closed already - the feed was stopped before, has dropped, or has not     *)
(* come up again - closes no more: the job never answers and stays in        *)
(* inFlightJobs.  Where there was no socket yet, stop() returns.             *)
Stopping(r) ==
    \/ run[r].pc = "working" /\ Script[run[r].job][run[r].at] = "stop"
    \/ run[r].pc = "recovering" /\ Recovery[run[r].at] = "stop"

Hangs(r) ==
    /\ alive /\ Stopping(r) /\ outside.feed # "CONNECTED"
    /\ run' = [run EXCEPT ![r].pc = "hung"]
    /\ UNCHANGED <<healthScenario, outside, elapsed, scheduler, inFlightJobs, health, alive>>

-----------------------------------------------------------------------------
Advances(r) ==
    \/ Works(r) \/ Throws(r) \/ Reported(r) \/ ReportFails(r)
    \/ Probed(r) \/ SnapshotSaved(r) \/ SnapshotLost(r) \/ MaybeAttemptRecovery(r)
    \/ Recovers(r) \/ Hangs(r)

HealthNext ==
    \/ Start \/ Enabled \/ Stop \/ Beats \/ TimePasses \/ CheckTimeout
    \/ \E what \in DOMAIN Values : Changes(what)
    \/ \E r \in Runs :
         \/ \E job \in IntervalJobs : Fires(job, r)
         \/ \E job \in TriggeredJobs : Triggered(job, r)
         \/ Advances(r)

HealthSpec == InitHousekeeping /\ [][HealthNext]_healthVars

(* The steps of a run come, unless it hangs: the probe of the internet times *)
(* out, and so do the calls of the database.  An interval fires.             *)
HealthFairness ==
    /\ \A r \in Runs : WF_healthVars(Advances(r))
    /\ WF_healthVars(\E r \in Runs : Fires("HEALTH_CHECK", r))

-----------------------------------------------------------------------------
(* When no check is under way and the last snapshot was saved, the change it *)
(* made was announced: what the breaker and the exits were told last is the  *)
(* status that is shown, and no uptime is counted for a broker that is       *)
(* disconnected.                                                             *)
SnapshotIsAnnounced ==
    (/\ \A r \in Runs : run[r].pc \notin {"probing", "saving"}
     /\ health.saved)
      => /\ health.previous = health.snapshot
         /\ health.snapshot \in {"HEALTHY", "WARNING", "DISCONNECTED"}
              => health.announced = health.snapshot
         /\ health.snapshot = "DISCONNECTED" => ~health.connected

(* A feed that stays down is announced while the database answers and the   *)
(* scheduler runs, whatever jobs have thrown before and whatever results     *)
(* could not be saved: a job that fails does not "prevent the next scheduled *)
(* run" (scheduler.service.ts).  A check whose recovery hangs does, as it    *)
(* stays in inFlightJobs: nothing is claimed after one.                      *)
Outage ==
    /\ outside.feed = "DISCONNECTED" /\ outside.mongo /\ alive
    /\ scheduler.intervals > 0 /\ "maintenance" \notin healthScenario
CheckHangs == \E r \in Runs : run[r].pc = "hung" /\ run[r].job = "HEALTH_CHECK"
Announced == health.previous = "DISCONNECTED"
OutageIsAnnounced == <>[](Outage /\ ~CheckHangs) => <>[]Announced
=============================================================================
