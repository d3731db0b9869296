--------------------------- MODULE ConnectionsProofs ---------------------------
(* What the program keeps open, for any number of jobs, of tabs and users,    *)
(* and of instruments and browsers: the broker's health that is shown was     *)
(* announced; a tab's socket speaks for the user who is signed in; a password *)
(* is reset by its owner only, and once; who watches an instrument gets its   *)
(* prices; and a connection to the broker that drops is tried again.          *)
EXTENDS MarketFeed, SignIn, Housekeeping, FiniteSetTheorems, SequenceTheorems,
        WellFoundedInduction, TLAPS

-----------------------------------------------------------------------------
(* The health of the broker *)

CheckPlaces == {"probing", "saving", "deciding", "recovering"}
Announceable == {"HEALTHY", "WARNING", "DISCONNECTED"}

IsHealth(h) ==
    /\ h = [snapshot |-> h.snapshot, saved |-> h.saved, previous |-> h.previous,
            connected |-> h.connected, announced |-> h.announced, attempts |-> h.attempts]
    /\ h.connected \in BOOLEAN

(* A run is under way with its job and who began it; only a health check     *)
(* probes, saves and decides.                                                *)
IsRun(k) ==
    \/ k = NoRun
    \/ /\ k.pc \in CheckPlaces \cup {"working", "hung"}
       /\ k = [pc |-> k.pc, job |-> k.job, by |-> k.by, at |-> k.at, overall |-> k.overall]
       /\ k.pc \in CheckPlaces => k.job = "HEALTH_CHECK"
    \/ /\ k.pc = "reporting"
       /\ k = [pc |-> k.pc, job |-> k.job, by |-> k.by, ok |-> k.ok]

(* The check that is about to save holds the status that is shown.           *)
Saves(k, h) == k.pc = "saving" => k.overall = h.snapshot /\ h.saved = FALSE

(* What the last saved status has made of the announcement                   *)
Told(h) ==
    /\ h.saved => h.previous = h.snapshot
    /\ h.previous \in Announceable => h.announced = h.previous
    /\ h.previous = "DISCONNECTED" => ~h.connected

HealthInv ==
    /\ IsHealth(health) /\ Told(health)
    /\ run = [r \in Runs |-> run[r]]
    /\ \A r \in Runs : IsRun(run[r]) /\ Saves(run[r], health)
    /\ \A r \in Runs : run[r] # NoRun => run[r].job \in inFlightJobs
    /\ \A r, s \in Runs :
         run[r] # NoRun /\ run[s] # NoRun /\ run[r].job = run[s].job => r = s

LEMMA InitHealthInv == InitHousekeeping => HealthInv
BY DEF InitHousekeeping, HealthInv, IsHealth, Told, IsRun, Saves, NoRun, Announceable

(* A run that goes on keeps its job, and no other run is touched.            *)
LEMMA RunGoesOn ==
    ASSUME NEW r \in Runs, NEW k, HealthInv, run[r] # NoRun,
           run' = [run EXCEPT ![r] = k],
           IsRun(k), k # NoRun, k.job = run[r].job, Saves(k, health'),
           IsHealth(health'), Told(health'),
           health' = health \/ run[r].job = "HEALTH_CHECK",
           UNCHANGED inFlightJobs
    PROVE  HealthInv'
<1>1. \A s \in Runs : run'[s] = IF s = r THEN k ELSE run[s]
  BY DEF HealthInv
<1>2. run' = [s \in Runs |-> run'[s]]
  BY DEF HealthInv
<1>3. ASSUME NEW s \in Runs
      PROVE  IsRun(run'[s]) /\ Saves(run'[s], health')
  <2>1. CASE s = r
    BY <1>1, <2>1
  <2>2. CASE s # r
    <3>1. run'[s] = run[s] /\ IsRun(run[s]) /\ Saves(run[s], health)
      BY <1>1, <2>2 DEF HealthInv
    <3>2. CASE health' = health
      BY <3>1, <3>2
    <3>3. CASE run[r].job = "HEALTH_CHECK"
      <4>1. run[s].pc # "saving"
        BY <2>2, <3>1, <3>3 DEF HealthInv, IsRun, CheckPlaces, NoRun
      <4>2. QED
        BY <3>1, <4>1 DEF Saves
    <3>4. QED
      BY <3>2, <3>3
  <2>3. QED
    BY <2>1, <2>2
<1>4. \A s \in Runs : run'[s] # NoRun => run[s] # NoRun /\ run'[s].job = run[s].job
  BY <1>1
<1>5. \A s \in Runs : run'[s] # NoRun => run'[s].job \in inFlightJobs'
  BY <1>4 DEF HealthInv
<1>6. \A s, t \in Runs :
        run'[s] # NoRun /\ run'[t] # NoRun /\ run'[s].job = run'[t].job => s = t
  BY <1>4 DEF HealthInv
<1>7. QED
  BY <1>2, <1>3, <1>5, <1>6 DEF HealthInv

LEMMA OthersKeep ==
    ASSUME HealthInv, UNCHANGED <<inFlightJobs, run, health>>
    PROVE  HealthInv'
BY DEF HealthInv

LEMMA RunJobKeeps ==
    ASSUME HealthInv, NEW job \in IntervalJobs \cup TriggeredJobs, NEW by, NEW r \in Runs,
           RunJob(job, by, r)
    PROVE  HealthInv'
<1> DEFINE k == BeginRun(job, by)
<1>1. PICK all : all = AggregateStatuses(ReadAtOnce)
  OBVIOUS
<1>2. /\ k = [pc |-> k.pc, job |-> k.job, by |-> k.by, at |-> k.at, overall |-> k.overall]
      /\ k.pc \in {"probing", "working"} /\ k.job = job
      /\ k.pc = "probing" => job = "HEALTH_CHECK"
  BY <1>1 DEF BeginRun
<1>3. run' = [run EXCEPT ![r] = k] /\ inFlightJobs' = inFlightJobs \cup {job} /\ health' = health
      /\ job \notin inFlightJobs
  BY DEF RunJob
<1> HIDE DEF k
<1>4. IsRun(k) /\ Saves(k, health)
  BY <1>2 DEF IsRun, CheckPlaces, Saves
<1>5. \A s \in Runs : run'[s] = IF s = r THEN k ELSE run[s]
  BY <1>3 DEF HealthInv
<1>6. run' = [s \in Runs |-> run'[s]]
  BY <1>3 DEF HealthInv
<1>7. \A s \in Runs : IsRun(run'[s]) /\ Saves(run'[s], health')
  BY <1>3, <1>4, <1>5 DEF HealthInv
<1>8. \A s \in Runs : run'[s] # NoRun => run'[s].job \in inFlightJobs'
  BY <1>2, <1>3, <1>5 DEF HealthInv
<1>9. \A s, t \in Runs :
        run'[s] # NoRun /\ run'[t] # NoRun /\ run'[s].job = run'[t].job => s = t
  BY <1>2, <1>3, <1>5 DEF HealthInv
<1>10. QED
  BY <1>3, <1>6, <1>7, <1>8, <1>9 DEF HealthInv

(* The run ends, whatever it was.                                            *)
LEMMA EndedKeeps ==
    ASSUME HealthInv, NEW r \in Runs, NEW ok, run[r] # NoRun, Ended(r, ok),
           IsHealth(health'), Told(health'),
           health' = health \/ run[r].job = "HEALTH_CHECK", UNCHANGED inFlightJobs
    PROVE  HealthInv'
<1> DEFINE k == [pc |-> "reporting", job |-> run[r].job, by |-> run[r].by, ok |-> ok]
<1>1. run' = [run EXCEPT ![r] = k]
  BY DEF Ended, HealthInv
<1>2. IsRun(k) /\ k # NoRun /\ k.job = run[r].job /\ Saves(k, health')
  BY DEF IsRun, NoRun, Saves
<1> HIDE DEF k
<1>3. QED
  BY <1>1, <1>2, RunGoesOn

(* A run leaves, and its job with it.                                        *)
LEMMA LeavingKeeps ==
    ASSUME HealthInv, NEW r \in Runs, run[r] # NoRun, run' = [run EXCEPT ![r] = NoRun],
           inFlightJobs' = inFlightJobs \ {run[r].job}, UNCHANGED health
    PROVE  HealthInv'
<1>1. \A s \in Runs : run'[s] = IF s = r THEN NoRun ELSE run[s]
  BY DEF HealthInv
<1>2. run' = [s \in Runs |-> run'[s]]
  BY DEF HealthInv
<1>3. \A s \in Runs : IsRun(run'[s]) /\ Saves(run'[s], health')
  BY <1>1 DEF HealthInv, IsRun, Saves, NoRun
<1>4. \A s \in Runs : run'[s] # NoRun => s # r /\ run[s] # NoRun /\ run'[s] = run[s]
  BY <1>1
<1>5. \A s \in Runs : run'[s] # NoRun => run'[s].job \in inFlightJobs'
  BY <1>4 DEF HealthInv
<1>6. \A s, t \in Runs :
        run'[s] # NoRun /\ run'[t] # NoRun /\ run'[s].job = run'[t].job => s = t
  BY <1>4 DEF HealthInv
<1>7. QED
  BY <1>2, <1>3, <1>5, <1>6 DEF HealthInv

(* A step of a run that stays where it is                                    *)
LEMMA StepKeeps ==
    ASSUME HealthInv, NEW r \in Runs, run[r].pc \in {"working", "recovering"}, NEW n,
           run' = [run EXCEPT ![r].at = n], UNCHANGED <<inFlightJobs, health>>
    PROVE  HealthInv'
<1> DEFINE k == [run[r] EXCEPT !.at = n]
<1>1. IsRun(run[r]) /\ run[r] # NoRun
  BY DEF HealthInv, NoRun
<1>2. run' = [run EXCEPT ![r] = k]
  BY DEF HealthInv
<1>3. k = [pc |-> run[r].pc, job |-> run[r].job, by |-> run[r].by, at |-> n,
           overall |-> run[r].overall]
  BY <1>1 DEF IsRun, NoRun
<1>4. IsRun(k) /\ k # NoRun /\ k.job = run[r].job /\ Saves(k, health)
  BY <1>1, <1>3 DEF IsRun, NoRun, Saves, CheckPlaces
<1> HIDE DEF k
<1>5. QED
  BY <1>1, <1>2, <1>4, RunGoesOn DEF HealthInv

(* Its fields, of a check and of a run that reports                          *)
LEMMA CheckFields ==
    ASSUME NEW k, IsRun(k), k # NoRun, k.pc \in CheckPlaces, NEW pc, NEW overall
    PROVE  /\ [k EXCEPT !.pc = pc] =
                [pc |-> pc, job |-> k.job, by |-> k.by, at |-> k.at, overall |-> k.overall]
           /\ [k EXCEPT !.pc = pc, !.overall = overall] =
                [pc |-> pc, job |-> k.job, by |-> k.by, at |-> k.at, overall |-> overall]
<1> DEFINE m == [k EXCEPT !.pc = pc]
<1>1. k = [pc |-> k.pc, job |-> k.job, by |-> k.by, at |-> k.at, overall |-> k.overall]
  BY DEF IsRun, CheckPlaces, NoRun
<1>2. m = [pc |-> pc, job |-> k.job, by |-> k.by, at |-> k.at, overall |-> k.overall]
  BY <1>1
<1> HIDE DEF m
<1>3. m = [pc |-> m.pc, job |-> m.job, by |-> m.by, at |-> m.at, overall |-> m.overall]
  BY <1>2
<1>4. [m EXCEPT !.overall = overall] =
        [pc |-> m.pc, job |-> m.job, by |-> m.by, at |-> m.at, overall |-> overall]
  BY <1>3
<1>5. m.pc = pc /\ m.job = k.job /\ m.by = k.by /\ m.at = k.at
  BY <1>2
<1>6. [m EXCEPT !.overall = overall] =
        [pc |-> pc, job |-> k.job, by |-> k.by, at |-> k.at, overall |-> overall]
  BY <1>4, <1>5
<1>7. QED
  BY <1>2, <1>6 DEF m

LEMMA ReportFields ==
    ASSUME NEW k, IsRun(k), k # NoRun, k.pc = "reporting", NEW ok
    PROVE  [k EXCEPT !.ok = ok] =
             [pc |-> "reporting", job |-> k.job, by |-> k.by, ok |-> ok]
<1>1. k = [pc |-> "reporting", job |-> k.job, by |-> k.by, ok |-> k.ok]
  BY DEF IsRun, CheckPlaces, NoRun
<1>2. QED
  BY <1>1

LEMMA WorksKeeps ==
    ASSUME HealthInv, NEW r \in Runs, Works(r)
    PROVE  HealthInv'
<1>1. run[r].pc = "working" /\ run[r] # NoRun /\ UNCHANGED <<inFlightJobs, health>>
  BY DEF Works, NoRun
<1>2. CASE Ended(r, TRUE)
  BY <1>1, <1>2, EndedKeeps DEF HealthInv
<1>3. CASE run' = [run EXCEPT ![r].at = run[r].at + 1]
  BY <1>1, <1>3, StepKeeps
<1>4. QED
  BY <1>2, <1>3 DEF Works, HealthInv

LEMMA ReportFailsKeeps ==
    ASSUME HealthInv, NEW r \in Runs, ReportFails(r)
    PROVE  HealthInv'
<1>1. run[r].pc = "reporting" /\ run[r] # NoRun /\ IsRun(run[r]) /\ UNCHANGED health
  BY DEF ReportFails, NoRun, HealthInv
<1>2. CASE run[r].ok
  <2> DEFINE k == [run[r] EXCEPT !.ok = FALSE]
  <2>1. run' = [run EXCEPT ![r] = k] /\ UNCHANGED inFlightJobs
    BY <1>2 DEF ReportFails, HealthInv
  <2>2. k = [pc |-> "reporting", job |-> run[r].job, by |-> run[r].by, ok |-> FALSE]
    BY <1>1, ReportFields
  <2>3. IsRun(k) /\ k # NoRun /\ k.job = run[r].job /\ Saves(k, health')
    BY <2>2 DEF IsRun, NoRun, Saves
  <2> HIDE DEF k
  <2>4. QED
    BY <1>1, <2>1, <2>3, RunGoesOn DEF HealthInv
<1>3. CASE ~run[r].ok
  <2>1. run' = [run EXCEPT ![r] = NoRun] /\ inFlightJobs' = inFlightJobs \ {run[r].job}
    BY <1>3 DEF ReportFails, HealthInv
  <2>2. QED
    BY <1>1, <2>1, LeavingKeeps
<1>4. QED
  BY <1>2, <1>3

LEMMA ProbedKeeps ==
    ASSUME HealthInv, NEW r \in Runs, Probed(r)
    PROVE  HealthInv'
<1>1. /\ run[r].pc = "probing" /\ run[r] # NoRun /\ IsRun(run[r])
      /\ run[r].job = "HEALTH_CHECK" /\ UNCHANGED inFlightJobs
  BY DEF Probed, NoRun, HealthInv, IsRun, CheckPlaces
<1>2. PICK overall : /\ run' = [run EXCEPT ![r].pc = "saving", ![r].overall = overall]
                     /\ health' = [health EXCEPT !.snapshot = overall, !.saved = FALSE]
  BY DEF Probed
<1> DEFINE k == [run[r] EXCEPT !.pc = "saving", !.overall = overall]
<1>3. run' = [run EXCEPT ![r] = k]
  BY <1>2 DEF HealthInv
<1>4. k = [pc |-> "saving", job |-> run[r].job, by |-> run[r].by, at |-> run[r].at,
           overall |-> overall]
  BY <1>1, CheckFields DEF CheckPlaces
<1>5. /\ health' = [snapshot |-> overall, saved |-> FALSE, previous |-> health.previous,
                    connected |-> health.connected, announced |-> health.announced,
                    attempts |-> health.attempts]
  BY <1>2 DEF HealthInv, IsHealth
<1>6. IsHealth(health') /\ Told(health')
  BY <1>5 DEF HealthInv, IsHealth, Told
<1>7. IsRun(k) /\ k # NoRun /\ k.job = run[r].job /\ Saves(k, health')
  BY <1>1, <1>4, <1>5 DEF IsRun, NoRun, Saves, CheckPlaces
<1> HIDE DEF k
<1>8. QED
  BY <1>1, <1>3, <1>6, <1>7, RunGoesOn

(* The attempts at a recovery do not matter to that.                         *)
LEMMA AttemptsAreApart ==
    ASSUME NEW h, IsHealth(h), Told(h), NEW n
    PROVE  IsHealth([h EXCEPT !.attempts = n]) /\ Told([h EXCEPT !.attempts = n])
<1> DEFINE k == [h EXCEPT !.attempts = n]
<1>1. k = [snapshot |-> h.snapshot, saved |-> h.saved, previous |-> h.previous,
           connected |-> h.connected, announced |-> h.announced, attempts |-> n]
  BY DEF IsHealth
<1> HIDE DEF k
<1>2. IsHealth(k) /\ Told(k)
  BY <1>1 DEF IsHealth, Told
<1>3. QED
  BY <1>2 DEF k

(* The status that is saved is the one that is shown, and the announcement   *)
(* follows it.                                                               *)
LEMMA TransitionTells ==
    ASSUME IsHealth(health), Told(health)
    PROVE  IsHealth(Transition(health.snapshot)) /\ Told(Transition(health.snapshot))
<1> DEFINE overall == health.snapshot
           new == Transition(overall)
           changed == ~(overall = health.previous \/ overall \notin Announceable)
           connected == overall = "HEALTHY" \/ (health.connected /\ overall = "WARNING")
<1>1. connected \in BOOLEAN /\ (overall = "DISCONNECTED" => ~connected)
  OBVIOUS
<1> HIDE DEF connected
<1>2. CASE ~changed
  <2>1. new = [snapshot |-> overall, saved |-> TRUE, previous |-> overall,
               connected |-> health.connected, announced |-> health.announced,
               attempts |-> health.attempts]
    BY <1>2 DEF Transition, IsHealth, Announceable
  <2> HIDE DEF new
  <2>2. IsHealth(new)
    BY <2>1 DEF IsHealth
  <2>3. Told(new)
    BY <1>2, <2>1 DEF Told, Announceable
  <2>4. QED
    BY <2>2, <2>3 DEF new
<1>3. CASE changed
  <2>1. new = [snapshot |-> overall, saved |-> TRUE, previous |-> overall,
               connected |-> connected, announced |-> overall,
               attempts |-> health.attempts]
    BY <1>3 DEF Transition, IsHealth, Announceable, connected
  <2> HIDE DEF new
  <2>2. IsHealth(new)
    BY <1>1, <2>1 DEF IsHealth
  <2>3. Told(new)
    BY <1>1, <2>1 DEF Told, Announceable
  <2>4. QED
    BY <2>2, <2>3 DEF new
<1>4. QED
  BY <1>2, <1>3

LEMMA SnapshotSavedKeeps ==
    ASSUME HealthInv, NEW r \in Runs, SnapshotSaved(r)
    PROVE  HealthInv'
<1>1. /\ run[r].pc = "saving" /\ run[r] # NoRun /\ IsRun(run[r])
      /\ run[r].job = "HEALTH_CHECK" /\ run[r].overall = health.snapshot /\ UNCHANGED inFlightJobs
  BY DEF SnapshotSaved, NoRun, HealthInv, IsRun, CheckPlaces, Saves
<1>2. CASE health' = Transition(run[r].overall) /\ run' = [run EXCEPT ![r].pc = "deciding"]
  <2> DEFINE k == [run[r] EXCEPT !.pc = "deciding"]
  <2>1. run' = [run EXCEPT ![r] = k]
    BY <1>2 DEF HealthInv
  <2>2. k = [pc |-> "deciding", job |-> run[r].job, by |-> run[r].by, at |-> run[r].at,
             overall |-> run[r].overall]
    BY <1>1, CheckFields DEF CheckPlaces
  <2>3. IsRun(k) /\ k # NoRun /\ k.job = run[r].job /\ Saves(k, health')
    BY <1>1, <2>2 DEF IsRun, NoRun, Saves, CheckPlaces
  <2>4. IsHealth(health') /\ Told(health')
    BY <1>1, <1>2, TransitionTells DEF HealthInv
  <2> HIDE DEF k
  <2>5. QED
    BY <1>1, <2>1, <2>3, <2>4, RunGoesOn
<1>3. CASE health' = [Transition(run[r].overall) EXCEPT !.attempts = 0] /\ Ended(r, TRUE)
  <2>1. PICK h : h = Transition(health.snapshot)
    OBVIOUS
  <2>2. IsHealth(h) /\ Told(h)
    BY <2>1, TransitionTells DEF HealthInv
  <2>3. health' = [h EXCEPT !.attempts = 0]
    BY <1>1, <1>3, <2>1
  <2>4. IsHealth([h EXCEPT !.attempts = 0]) /\ Told([h EXCEPT !.attempts = 0])
    BY <2>2, AttemptsAreApart
  <2>5. IsHealth(health') /\ Told(health')
    BY <2>3, <2>4
  <2>6. QED
    BY <1>1, <1>3, <2>5, EndedKeeps
<1>4. QED
  BY <1>2, <1>3 DEF SnapshotSaved

LEMMA MaybeAttemptKeeps ==
    ASSUME HealthInv, NEW r \in Runs, MaybeAttemptRecovery(r)
    PROVE  HealthInv'
<1>1. /\ run[r].pc = "deciding" /\ run[r] # NoRun /\ IsRun(run[r])
      /\ run[r].job = "HEALTH_CHECK" /\ UNCHANGED inFlightJobs
  BY DEF MaybeAttemptRecovery, NoRun, HealthInv, IsRun, CheckPlaces
<1>2. CASE Ended(r, TRUE) /\ UNCHANGED health
  BY <1>1, <1>2, EndedKeeps DEF HealthInv
<1>3. ASSUME NEW attempt, health' = [health EXCEPT !.attempts = attempt],
             run' = [run EXCEPT ![r].pc = "recovering"]
      PROVE  HealthInv'
  <2> DEFINE k == [run[r] EXCEPT !.pc = "recovering"]
  <2>1. run' = [run EXCEPT ![r] = k]
    BY <1>3 DEF HealthInv
  <2>2. k = [pc |-> "recovering", job |-> run[r].job, by |-> run[r].by, at |-> run[r].at,
             overall |-> run[r].overall]
    BY <1>1, CheckFields DEF CheckPlaces
  <2>3. IsRun(k) /\ k # NoRun /\ k.job = run[r].job /\ Saves(k, health')
    BY <1>1, <2>2 DEF IsRun, NoRun, Saves, CheckPlaces
  <2>4. health' = [snapshot |-> health.snapshot, saved |-> health.saved,
                   previous |-> health.previous, connected |-> health.connected,
                   announced |-> health.announced, attempts |-> attempt]
    BY <1>3 DEF HealthInv, IsHealth
  <2>5. IsHealth(health') /\ Told(health')
    BY <2>4 DEF HealthInv, IsHealth, Told
  <2> HIDE DEF k
  <2>6. QED
    BY <1>1, <2>1, <2>3, <2>5, RunGoesOn
<1>4. QED
  BY <1>2, <1>3 DEF MaybeAttemptRecovery

LEMMA RecoversKeeps ==
    ASSUME HealthInv, NEW r \in Runs, Recovers(r)
    PROVE  HealthInv'
<1>1. run[r].pc = "recovering" /\ run[r] # NoRun /\ UNCHANGED <<inFlightJobs, health>>
  BY DEF Recovers, NoRun
<1>2. CASE Ended(r, TRUE)
  BY <1>1, <1>2, EndedKeeps DEF HealthInv
<1>3. CASE run' = [run EXCEPT ![r].at = run[r].at + 1]
  BY <1>1, <1>3, StepKeeps
<1>4. QED
  BY <1>2, <1>3 DEF Recovers, HealthInv

(* A run that hangs is still under way with its job.                         *)
LEMMA HangsKeeps ==
    ASSUME HealthInv, NEW r \in Runs, Hangs(r)
    PROVE  HealthInv'
<1> DEFINE k == [run[r] EXCEPT !.pc = "hung"]
<1>1. /\ run[r].pc \in {"working", "recovering"}
      /\ run' = [run EXCEPT ![r].pc = "hung"] /\ UNCHANGED <<inFlightJobs, health>>
  BY DEF Hangs, Stopping
<1>2. IsRun(run[r]) /\ run[r] # NoRun
  BY <1>1 DEF HealthInv, NoRun
<1>3. run' = [run EXCEPT ![r] = k]
  BY <1>1 DEF HealthInv
<1>4. k = [pc |-> "hung", job |-> run[r].job, by |-> run[r].by, at |-> run[r].at,
           overall |-> run[r].overall]
  BY <1>1, <1>2 DEF IsRun, NoRun
<1>5. IsRun(k) /\ k # NoRun /\ k.job = run[r].job /\ Saves(k, health)
  BY <1>4 DEF IsRun, NoRun, Saves, CheckPlaces
<1> HIDE DEF k
<1>6. QED
  BY <1>1, <1>2, <1>3, <1>5, RunGoesOn DEF HealthInv

LEMMA AdvancesKeeps ==
    ASSUME HealthInv, NEW r \in Runs, Advances(r)
    PROVE  HealthInv'
<1>1. CASE Works(r)
  BY <1>1, WorksKeeps
<1>2. CASE Throws(r) \/ SnapshotLost(r)
  <2>1. /\ run[r].pc = "working" \/ run[r].pc = "saving"
        /\ Ended(r, FALSE) /\ inFlightJobs' = inFlightJobs /\ health' = health
    BY <1>2, Zenon DEF Throws, SnapshotLost
  <2>2. run[r] # NoRun
    BY <2>1 DEF NoRun
  <2>3. IsHealth(health') /\ Told(health')
    BY <2>1 DEF HealthInv
  <2>4. QED
    BY <2>1, <2>2, <2>3, EndedKeeps
<1>3. CASE Reported(r)
  <2>1. /\ run[r] # NoRun /\ run' = [run EXCEPT ![r] = NoRun]
        /\ inFlightJobs' = inFlightJobs \ {run[r].job} /\ UNCHANGED health
    BY <1>3 DEF Reported, NoRun
  <2>2. QED
    BY <2>1, LeavingKeeps
<1>4. CASE ReportFails(r)
  BY <1>4, ReportFailsKeeps
<1>5. CASE Probed(r)
  BY <1>5, ProbedKeeps
<1>6. CASE SnapshotSaved(r)
  BY <1>6, SnapshotSavedKeeps
<1>7. CASE MaybeAttemptRecovery(r)
  BY <1>7, MaybeAttemptKeeps
<1>8. CASE Recovers(r)
  BY <1>8, RecoversKeeps
<1>9. CASE Hangs(r)
  BY <1>9, HangsKeeps
<1>10. QED
  BY <1>1, <1>2, <1>3, <1>4, <1>5, <1>6, <1>7, <1>8, <1>9 DEF Advances

LEMMA HealthNextKeeps ==
    ASSUME HealthInv, [HealthNext]_healthVars
    PROVE  HealthInv'
<1>1. CASE Start \/ Enabled \/ Stop \/ Beats \/ TimePasses \/ CheckTimeout
  BY <1>1, OthersKeep DEF Start, Enabled, Stop, Beats, TimePasses, CheckTimeout
<1>2. ASSUME NEW what \in DOMAIN Values, Changes(what) PROVE HealthInv'
  BY <1>2, OthersKeep DEF Changes
<1>3. ASSUME NEW r \in Runs, NEW job \in IntervalJobs, Fires(job, r) PROVE HealthInv'
  BY <1>3, RunJobKeeps DEF Fires
<1>4. ASSUME NEW r \in Runs, NEW job \in TriggeredJobs, Triggered(job, r) PROVE HealthInv'
  BY <1>4, RunJobKeeps DEF Triggered
<1>5. ASSUME NEW r \in Runs, Advances(r) PROVE HealthInv'
  BY <1>5, AdvancesKeeps
<1>6. CASE UNCHANGED healthVars
  BY <1>6, OthersKeep DEF healthVars
<1>7. QED
  BY <1>1, <1>2, <1>3, <1>4, <1>5, <1>6 DEF HealthNext

(* The status that is shown is the one that was announced, whatever jobs     *)
(* run beside the health check and fail.                                     *)
THEOREM HealthIsAnnounced == HealthSpec => []SnapshotIsAnnounced
<1>1. HealthInv => SnapshotIsAnnounced
  BY DEF HealthInv, Told, SnapshotIsAnnounced, Announceable
<1>2. HealthInv /\ [HealthNext]_healthVars => HealthInv'
  BY HealthNextKeeps
<1>3. QED
  BY InitHealthInv, <1>1, <1>2, PTL DEF HealthSpec

-----------------------------------------------------------------------------
(* The tabs of the users *)

(* What is asked of the server "me" is of the token that the tab was loaded  *)
(* with, and alone; meanwhile, and while a login runs, nobody is signed in,  *)
(* and there is no socket.                                                   *)
TabInv(t) ==
    LET s == session[t] IN
    /\ s = [token |-> s.token, user |-> s.user, initializing |-> s.initializing, socket |-> s.socket]
    /\ \A q \in asked[t] :
         q.what = "me" => /\ q = [what |-> "me", user |-> s.token]
                          /\ asked[t] = {q} /\ s.initializing = TRUE
    /\ s.initializing = TRUE => s.user = NoUser /\ login[t].at = "idle"
    /\ s.initializing \in BOOLEAN
    /\ s.user = NoUser => s.socket = NoUser
    /\ s.user # NoUser => s.token = s.user /\ s.socket \in {NoUser, s.user}
    /\ login[t].at # "idle" => s.user = NoUser

TabShapes ==
    /\ session = [t \in Tabs |-> session[t]] /\ asked = [t \in Tabs |-> asked[t]]
    /\ login = [t \in Tabs |-> [at |-> login[t].at, user |-> login[t].user,
                                password |-> login[t].password]]

TabsInv == TabShapes /\ \A t \in Tabs : TabInv(t)

LEMMA InitTabsInv == InitSignIn => TabsInv
<1> SUFFICES ASSUME InitSignIn PROVE TabsInv
  OBVIOUS
<1>1. /\ session = [t \in Tabs |-> Signed(NoUser)] /\ asked = [t \in Tabs |-> {}]
      /\ login = [t \in Tabs |-> [at |-> "idle", user |-> NoUser, password |-> NoUser]]
  BY DEF InitSignIn
<1>2. TabShapes
  BY <1>1 DEF TabShapes
<1>3. ASSUME NEW t \in Tabs PROVE TabInv(t)
  <2>1. /\ session[t] = [token |-> NoUser, user |-> NoUser, initializing |-> FALSE,
                         socket |-> NoUser]
        /\ asked[t] = {} /\ login[t].at = "idle"
    BY <1>1 DEF Signed
  <2>2. QED
    BY <2>1 DEF TabInv
<1>4. QED
  BY <1>2, <1>3 DEF TabsInv

(* A step is of one tab, which has to keep what holds of it.                 *)
OtherTabs(t) ==
    \A v \in Tabs \ {t} :
        session'[v] = session[v] /\ asked'[v] = asked[v] /\ login'[v].at = login[v].at

LEMMA OneTab ==
    ASSUME TabsInv, NEW t \in Tabs, OtherTabs(t), TabShapes', TabInv(t)'
    PROVE  TabsInv'
<1>1. ASSUME NEW v \in Tabs \ {t} PROVE TabInv(v)'
  BY <1>1 DEF TabsInv, TabInv, OtherTabs
<1>2. QED
  BY <1>1 DEF TabsInv, TabShapes

LEMMA TabsApart ==
    ASSUME TabsInv, UNCHANGED <<session, asked, login>>
    PROVE  TabsInv'
BY DEF TabsInv, TabShapes, TabInv

(* A login that goes on                                                      *)
LEMMA LoginMoves ==
    ASSUME TabsInv, NEW t \in Tabs, NEW k,
           login' = [login EXCEPT ![t] = k],
           k = [at |-> k.at, user |-> k.user, password |-> k.password],
           k.at # "idle" => session[t].user = NoUser /\ session[t].initializing = FALSE,
           UNCHANGED <<session, asked>>
    PROVE  TabsInv'
<1>1. \A v \in Tabs : login'[v] = IF v = t THEN k ELSE login[v]
  BY DEF TabsInv, TabShapes
<1>2. OtherTabs(t)
  BY <1>1 DEF OtherTabs
<1>3. TabShapes'
  BY <1>1 DEF TabsInv, TabShapes
<1>4. TabInv(t)'
  BY <1>1 DEF TabsInv, TabInv
<1>5. QED
  BY <1>2, <1>3, <1>4, OneTab

(* Of the requests of a tab, "me" is alone                                   *)
MeIsAlone(qs, s) ==
    \A q \in qs : q.what = "me" => /\ q = [what |-> "me", user |-> s.token]
                                   /\ qs = {q} /\ s.initializing = TRUE

(* A session that changes while no login ends                                *)
LEMMA SessionMoves ==
    ASSUME TabsInv, NEW t \in Tabs, NEW k, NEW qs,
           session' = [session EXCEPT ![t] = k], asked' = [asked EXCEPT ![t] = qs],
           UNCHANGED login,
           k = [token |-> k.token, user |-> k.user, initializing |-> k.initializing,
                socket |-> k.socket],
           MeIsAlone(qs, k), k.initializing \in BOOLEAN,
           k.initializing = TRUE => k.user = NoUser /\ login[t].at = "idle",
           k.user = NoUser => k.socket = NoUser,
           k.user # NoUser => k.token = k.user /\ k.socket \in {NoUser, k.user},
           login[t].at # "idle" => k.user = NoUser
    PROVE  TabsInv'
<1>1. \A v \in Tabs : /\ session'[v] = IF v = t THEN k ELSE session[v]
                      /\ asked'[v] = IF v = t THEN qs ELSE asked[v]
  BY DEF TabsInv, TabShapes
<1>2. OtherTabs(t)
  BY <1>1 DEF OtherTabs
<1>3. TabShapes'
  BY <1>1 DEF TabsInv, TabShapes
<1>4. TabInv(t)'
  BY <1>1 DEF TabsInv, TabInv, MeIsAlone
<1>5. QED
  BY <1>2, <1>3, <1>4, OneTab

(* A login that ends: nobody was signed in, and there was no socket.         *)
LEMMA SignsInKeeps ==
    ASSUME TabsInv, NEW t \in Tabs, NEW u, login[t].at # "idle", SignsIn(t, u), UNCHANGED asked
    PROVE  TabsInv'
<1>1. /\ session[t].user = NoUser /\ session[t].socket = NoUser
      /\ session[t].initializing = FALSE /\ TabInv(t)
  BY DEF TabsInv, TabShapes, TabInv
<1>2. \A q \in asked[t] : q.what # "me"
  BY <1>1 DEF TabInv
<1>3. session' = [session EXCEPT ![t] = [token |-> u, user |-> u, initializing |-> FALSE,
                                         socket |-> NoUser]]
  <2>1. PICK x, m : x = session[t].socket /\ m = Signed(u)
    OBVIOUS
  <2>2. /\ m = [token |-> m.token, user |-> m.user, initializing |-> m.initializing,
                socket |-> m.socket]
        /\ m.token = u /\ m.user = u /\ m.initializing = FALSE
    BY <2>1 DEF Signed
  <2>3. [m EXCEPT !.socket = x] =
          [token |-> m.token, user |-> m.user, initializing |-> m.initializing, socket |-> x]
    BY <2>2
  <2>4. session' = [session EXCEPT ![t] = [m EXCEPT !.socket = x]]
    BY <2>1 DEF SignsIn
  <2>5. QED
    BY <1>1, <2>1, <2>2, <2>3, <2>4
<1>4. login' = [login EXCEPT ![t].at = "idle"]
  BY DEF SignsIn
<1>5. \A v \in Tabs : /\ login'[v] = IF v = t THEN [login[v] EXCEPT !.at = "idle"] ELSE login[v]
                      /\ session'[v] = IF v = t THEN [token |-> u, user |-> u, initializing |-> FALSE,
                                                      socket |-> NoUser]
                                                ELSE session[v]
  BY <1>3, <1>4 DEF TabsInv, TabShapes
<1>6. [login[t] EXCEPT !.at = "idle"] =
        [at |-> "idle", user |-> login[t].user, password |-> login[t].password]
  <2>1. login[t] = [at |-> login[t].at, user |-> login[t].user, password |-> login[t].password]
    BY DEF TabsInv, TabShapes
  <2>2. QED
    BY <2>1
<1>7. OtherTabs(t)
  BY <1>5 DEF OtherTabs
<1>8. TabShapes'
  BY <1>3, <1>4, <1>5, <1>6 DEF TabsInv, TabShapes
<1>9. TabInv(t)'
  <2>1. /\ session'[t] = [token |-> u, user |-> u, initializing |-> FALSE, socket |-> NoUser]
        /\ login'[t].at = "idle" /\ asked'[t] = asked[t]
    BY <1>5, <1>6
  <2>2. /\ session'[t].token = u /\ session'[t].user = u /\ session'[t].socket = NoUser
        /\ session'[t].initializing = FALSE
    BY <2>1
  <2>3. QED
    BY <1>2, <2>1, <2>2 DEF TabInv
<1>10. QED
  BY <1>7, <1>8, <1>9, OneTab

Undisturbed == signInScenario \cap {"switch", "impatient"} = {}

LEMMA LoginSteps ==
    ASSUME TabsInv, Undisturbed, NEW t \in Tabs,
           \/ LoginChecks(t) \/ LoginReads(t)
           \/ \E u \in Users, p \in {OldPassword, NewPassword, NoUser} : LoginSubmit(t, u, p)
    PROVE  TabsInv'
<1>1. login[t] = [at |-> login[t].at, user |-> login[t].user, password |-> login[t].password]
  BY DEF TabsInv, TabShapes
<1>2. /\ session[t].initializing \in BOOLEAN
      /\ login[t].at # "idle" => session[t].user = NoUser /\ session[t].initializing = FALSE
  BY DEF TabsInv, TabInv
<1>3. ASSUME NEW u, NEW p, LoginSubmit(t, u, p) PROVE TabsInv'
  <2>1. session[t].user = NoUser /\ session[t].initializing = FALSE
    BY <1>2, <1>3 DEF LoginSubmit, Undisturbed
  <2>2. PICK at : at = IF p = NoUser THEN "register" ELSE "check"
    OBVIOUS
  <2> DEFINE k == [at |-> at, user |-> u, password |-> p]
  <2>3. login' = [login EXCEPT ![t] = k] /\ UNCHANGED <<session, asked>>
    BY <1>3, <2>2 DEF LoginSubmit
  <2>4. k = [at |-> k.at, user |-> k.user, password |-> k.password]
    OBVIOUS
  <2> HIDE DEF k
  <2>5. QED
    BY <2>1, <2>3, <2>4, LoginMoves
<1>4. ASSUME NEW at, login' = [login EXCEPT ![t].at = at], login[t].at # "idle",
             UNCHANGED <<session, asked>>
      PROVE  TabsInv'
  <2> DEFINE k == [login[t] EXCEPT !.at = at]
  <2>1. login' = [login EXCEPT ![t] = k]
    BY <1>4
  <2>2. k = [at |-> at, user |-> login[t].user, password |-> login[t].password]
    BY <1>1
  <2> HIDE DEF k
  <2>3. k = [at |-> k.at, user |-> k.user, password |-> k.password]
    BY <2>2
  <2>4. QED
    BY <1>2, <1>4, <2>1, <2>3, LoginMoves
<1>5. CASE LoginChecks(t)
  BY <1>4, <1>5 DEF LoginChecks
<1>6. ASSUME LoginReads(t) PROVE TabsInv'
  <2>1. PICK p : p = account[login[t].user]
    OBVIOUS
  <2> DEFINE j == [login[t] EXCEPT !.at = "save"]
             k == [j EXCEPT !.password = p]
  <2>2. login' = [login EXCEPT ![t] = k]
    BY <1>6, <2>1 DEF LoginReads, TabsInv, TabShapes
  <2>3. j = [at |-> "save", user |-> login[t].user, password |-> login[t].password]
    BY <1>1
  <2> HIDE DEF j
  <2>4. j = [at |-> j.at, user |-> j.user, password |-> j.password]
    BY <2>3
  <2>5. k = [at |-> j.at, user |-> j.user, password |-> p]
    BY <2>4
  <2> HIDE DEF k
  <2>6. k = [at |-> k.at, user |-> k.user, password |-> k.password]
    BY <2>5
  <2>7. QED
    BY <1>2, <1>6, <2>2, <2>6, LoginMoves DEF LoginReads
<1>7. QED
  BY <1>3, <1>5, <1>6

LEMMA SignInEnds ==
    ASSUME TabsInv, NEW t \in Tabs, LoginSaves(t) \/ Registers(t)
    PROVE  TabsInv'
<1>1. login[t].at # "idle" /\ UNCHANGED asked
  BY DEF LoginSaves, Registers
<1>2. CASE SignsIn(t, login[t].user)
  BY <1>1, <1>2, SignsInKeeps
<1>3. CASE login' = [login EXCEPT ![t].at = "idle"] /\ UNCHANGED session
  <2> DEFINE k == [login[t] EXCEPT !.at = "idle"]
  <2>1. login' = [login EXCEPT ![t] = k]
    BY <1>3
  <2>2. login[t] = [at |-> login[t].at, user |-> login[t].user, password |-> login[t].password]
    BY DEF TabsInv, TabShapes
  <2>3. k = [at |-> "idle", user |-> login[t].user, password |-> login[t].password]
    BY <2>2
  <2> HIDE DEF k
  <2>4. k = [at |-> k.at, user |-> k.user, password |-> k.password] /\ k.at = "idle"
    BY <2>3
  <2>5. QED
    BY <1>1, <1>3, <2>1, <2>4, LoginMoves
<1>4. QED
  BY <1>2, <1>3 DEF LoginSaves, Registers

LEMMA LoggedOutKeeps ==
    ASSUME TabsInv, NEW t \in Tabs, NEW qs, \A q \in qs : q.what # "me",
           session' = [session EXCEPT ![t] = TabLoggedOut(t)],
           asked' = [asked EXCEPT ![t] = qs], UNCHANGED login
    PROVE  TabsInv'
<1> DEFINE k == TabLoggedOut(t)
<1>1. k = [token |-> NoUser, user |-> NoUser, initializing |-> FALSE, socket |-> NoUser]
  BY DEF TabLoggedOut, Signed
<1> HIDE DEF k
<1>2. /\ k = [token |-> k.token, user |-> k.user, initializing |-> k.initializing,
              socket |-> k.socket]
      /\ k.initializing = FALSE /\ k.user = NoUser /\ k.socket = NoUser
  BY <1>1
<1>3. session' = [session EXCEPT ![t] = k]
  BY DEF k
<1>4. k.initializing \in BOOLEAN /\ ~(k.initializing = TRUE)
  BY <1>2
<1>5. MeIsAlone(qs, k)
  BY DEF MeIsAlone
<1>6. QED
  BY <1>2, <1>3, <1>4, <1>5, SessionMoves

LEMMA PageSteps ==
    ASSUME TabsInv, NEW t \in Tabs, LoadPage(t) \/ Asks(t) \/ logout(t) \/ getSocket(t)
    PROVE  TabsInv'
<1>1. TabInv(t) /\ asked = [v \in Tabs |-> asked[v]]
  BY DEF TabsInv, TabShapes
<1>2. CASE LoadPage(t)
  <2>1. PICK b \in BOOLEAN : b = (localToken # NoUser)
    OBVIOUS
  <2>2. PICK qs : qs = IF localToken = NoUser THEN {} ELSE {[what |-> "me", user |-> localToken]}
    OBVIOUS
  <2> DEFINE k == [token |-> localToken, user |-> NoUser, initializing |-> b, socket |-> NoUser]
  <2>3. /\ session' = [session EXCEPT ![t] = k] /\ asked' = [asked EXCEPT ![t] = qs]
        /\ UNCHANGED login /\ login[t].at = "idle"
    BY <1>2, <2>1, <2>2 DEF LoadPage
  <2>4. /\ k = [token |-> k.token, user |-> k.user, initializing |-> k.initializing,
                socket |-> k.socket]
        /\ k.user = NoUser /\ k.socket = NoUser /\ k.initializing = b /\ k.token = localToken
    OBVIOUS
  <2> HIDE DEF k
  <2>5. ASSUME NEW q \in qs, q.what = "me"
        PROVE  q = [what |-> "me", user |-> k.token] /\ qs = {q} /\ k.initializing = TRUE
    BY <2>1, <2>2, <2>4, <2>5
  <2>6. MeIsAlone(qs, k)
    BY <2>5 DEF MeIsAlone
  <2>7. QED
    BY <2>3, <2>4, <2>6, SessionMoves
<1>3. CASE Asks(t)
  <2>1. PICK qs : qs = asked[t] \cup {[what |-> "query", user |-> session[t].token]}
    OBVIOUS
  <2>2. asked' = [asked EXCEPT ![t] = qs] /\ session[t].user # NoUser /\ UNCHANGED <<session, login>>
    BY <1>3, <2>1 DEF Asks
  <2>3. MeIsAlone(qs, session[t])
    BY <1>1, <2>1, <2>2 DEF TabInv, MeIsAlone
  <2>4. session' = [session EXCEPT ![t] = session[t]]
    BY <2>2 DEF TabsInv, TabShapes
  <2>5. QED
    BY <1>1, <2>2, <2>3, <2>4, SessionMoves DEF TabInv
<1>4. CASE logout(t)
  <2>1. \A q \in asked[t] : q.what # "me"
    BY <1>1, <1>4 DEF TabInv, logout
  <2>2. asked' = [asked EXCEPT ![t] = asked[t]]
    BY <1>1, <1>4 DEF logout
  <2>3. QED
    BY <1>4, <2>1, <2>2, LoggedOutKeeps DEF logout
<1>5. CASE getSocket(t)
  <2> DEFINE k == [session[t] EXCEPT !.socket = session[t].token]
  <2>1. session' = [session EXCEPT ![t] = k] /\ UNCHANGED <<asked, login>> /\ session[t].user # NoUser
    BY <1>5 DEF getSocket
  <2>2. k = [token |-> session[t].token, user |-> session[t].user,
             initializing |-> session[t].initializing, socket |-> session[t].token]
    BY <1>1 DEF TabInv
  <2> HIDE DEF k
  <2>3. /\ k = [token |-> k.token, user |-> k.user, initializing |-> k.initializing,
                socket |-> k.socket]
        /\ k.user = session[t].user /\ k.socket = session[t].token /\ k.token = session[t].token
        /\ k.initializing = session[t].initializing
    BY <2>2
  <2>4. asked' = [asked EXCEPT ![t] = asked[t]]
    BY <1>1, <2>1
  <2>5. MeIsAlone(asked[t], k)
    BY <1>1, <2>1 DEF TabInv, MeIsAlone
  <2>6. QED
    BY <1>1, <2>1, <2>3, <2>4, <2>5, SessionMoves DEF TabInv
<1>6. QED
  BY <1>2, <1>3, <1>4, <1>5

LEMMA AnsweredKeeps ==
    ASSUME TabsInv, NEW t \in Tabs, NEW q \in asked[t], NEW answer, Answered(t, q, answer)
    PROVE  TabsInv'
<1>1. TabInv(t) /\ asked = [v \in Tabs |-> asked[v]] /\ session = [v \in Tabs |-> session[v]]
  BY DEF TabsInv, TabShapes
<1>2. PICK qs : qs = asked[t] \ {q}
  OBVIOUS
<1>3. asked' = [asked EXCEPT ![t] = qs] /\ UNCHANGED login
  BY <1>2 DEF Answered
<1>4. \A p \in qs : p.what # "me"
  BY <1>1, <1>2 DEF TabInv
<1>5. CASE answer = "unauthorized"
  BY <1>3, <1>4, <1>5, LoggedOutKeeps DEF Answered
<1>6. CASE q.what = "me" /\ answer # "unauthorized"
  <2>1. /\ session[t].initializing = TRUE /\ session[t].user = NoUser /\ login[t].at = "idle"
        /\ session[t].socket = NoUser /\ q.user = session[t].token
    BY <1>1, <1>6 DEF TabInv
  <2>2. PICK u : u = IF answer = "ok" THEN q.user ELSE session[t].user
    OBVIOUS
  <2>3. PICK b : b = FALSE
    OBVIOUS
  <2> DEFINE j == [session[t] EXCEPT !.initializing = b]
             k == [j EXCEPT !.user = u]
  <2>4. session' = [session EXCEPT ![t] = k]
    BY <1>1, <1>6, <2>2, <2>3 DEF Answered, TabInv
  <2>5. j = [token |-> session[t].token, user |-> session[t].user, initializing |-> b,
             socket |-> session[t].socket]
    BY <1>1 DEF TabInv
  <2> HIDE DEF j
  <2>6. /\ j = [token |-> j.token, user |-> j.user, initializing |-> j.initializing,
                socket |-> j.socket]
        /\ j.token = session[t].token /\ j.initializing = b /\ j.socket = session[t].socket
    BY <2>5
  <2>7. k = [token |-> j.token, user |-> u, initializing |-> j.initializing,
             socket |-> j.socket]
    BY <2>6
  <2> HIDE DEF k
  <2>8. /\ k = [token |-> k.token, user |-> k.user, initializing |-> k.initializing,
                socket |-> k.socket]
        /\ k.token = session[t].token /\ k.initializing = FALSE /\ k.socket = NoUser
        /\ k.user = u
    BY <2>1, <2>3, <2>6, <2>7
  <2>9. u = NoUser \/ u = session[t].token
    BY <2>1, <2>2
  <2>10. MeIsAlone(qs, k)
    BY <1>4 DEF MeIsAlone
  <2>11. QED
    BY <1>3, <2>1, <2>4, <2>8, <2>9, <2>10, SessionMoves
<1>7. CASE q.what # "me" /\ answer # "unauthorized"
  <2>1. session' = [session EXCEPT ![t] = session[t]]
    BY <1>1, <1>7 DEF Answered
  <2>2. MeIsAlone(qs, session[t])
    BY <1>4 DEF MeIsAlone
  <2>3. QED
    BY <1>1, <1>3, <2>1, <2>2, SessionMoves DEF TabInv
<1>8. QED
  BY <1>5, <1>6, <1>7

LEMMA ScenarioStays ==
    ASSUME [NextSignIn]_signInVars
    PROVE  UNCHANGED signInScenario
<1>1. ASSUME NEW t \in Wizards,
             \/ handleSendCode(t) \/ handleResend(t) \/ handleResetPassword(t)
             \/ changeEmail(t) \/ LoadWizard(t)
             \/ \E u \in Users : TypeEmail(t, u)
             \/ \E c \in posted \cup {0} : handleVerifyCode(t, c)
      PROVE  UNCHANGED signInScenario
  BY <1>1 DEF handleSendCode, handleResend, handleResetPassword, changeEmail, LoadWizard,
              TypeEmail, handleVerifyCode, StartsCall
<1>2. ASSUME NEW t \in Wizards, NEW s \in Slots,
             \/ RequestChecked(t, s) \/ RequestRecorded(t, s) \/ RequestDeletes(t, s)
             \/ RequestCreates(t, s) \/ RequestSends(t, s)
             \/ VerifyFinds(t, s) \/ VerifyMisses(t, s) \/ VerifyMarks(t, s)
             \/ ResetFinds(t, s) \/ ResetSaves(t, s) \/ ResetCloses(t, s)
      PROVE  UNCHANGED signInScenario
  BY <1>2 DEF RequestChecked, RequestRecorded, RequestDeletes, RequestCreates, RequestSends,
              VerifyFinds, VerifyMisses, VerifyMarks, ResetFinds, ResetSaves, ResetCloses
<1>3. ASSUME NEW t \in Tabs,
             \/ LoginChecks(t) \/ LoginReads(t) \/ LoginSaves(t) \/ Registers(t)
             \/ LoadPage(t) \/ Asks(t) \/ logout(t) \/ getSocket(t)
             \/ \E u \in Users, p \in {OldPassword, NewPassword, NoUser} : LoginSubmit(t, u, p)
      PROVE  UNCHANGED signInScenario
  BY <1>3 DEF LoginChecks, LoginReads, LoginSaves, Registers, LoadPage, Asks, logout, getSocket,
              LoginSubmit
<1>4. ASSUME NEW t \in Tabs, NEW q, NEW answer, Answered(t, q, answer)
      PROVE  UNCHANGED signInScenario
  BY <1>4 DEF Answered
<1>5. CASE \/ \E c \in 1..made : CodeExpires(c) \/ SessionExpires(c)
           \/ \E u \in Users : ThrottleEases(u)
           \/ UNCHANGED signInVars
  BY <1>5 DEF CodeExpires, SessionExpires, ThrottleEases, signInVars
<1>6. QED
  BY <1>1, <1>2, <1>3, <1>4, <1>5 DEF NextSignIn

LEMMA TabsNextKeeps ==
    ASSUME TabsInv, Undisturbed, [NextSignIn]_signInVars
    PROVE  TabsInv'
<1>1. CASE UNCHANGED signInVars
  BY <1>1, TabsApart DEF signInVars, tabs
<1>2. ASSUME NEW t \in Wizards,
             \/ handleSendCode(t) \/ handleResend(t) \/ handleResetPassword(t)
             \/ changeEmail(t) \/ LoadWizard(t)
             \/ \E u \in Users : TypeEmail(t, u)
             \/ \E c \in posted \cup {0} : handleVerifyCode(t, c)
      PROVE  TabsInv'
  <2>1. UNCHANGED tabs
    BY <1>2 DEF handleSendCode, handleResend, handleResetPassword, changeEmail, LoadWizard,
                TypeEmail, handleVerifyCode, StartsCall
  <2>2. QED
    BY <2>1, TabsApart DEF tabs
<1>3. ASSUME NEW t \in Wizards, NEW s \in Slots,
             \/ RequestChecked(t, s) \/ RequestRecorded(t, s) \/ RequestDeletes(t, s)
             \/ RequestCreates(t, s) \/ RequestSends(t, s)
             \/ VerifyFinds(t, s) \/ VerifyMisses(t, s) \/ VerifyMarks(t, s)
             \/ ResetFinds(t, s) \/ ResetSaves(t, s) \/ ResetCloses(t, s)
      PROVE  TabsInv'
  <2>1. UNCHANGED tabs
    BY <1>3 DEF RequestChecked, RequestRecorded, RequestDeletes, RequestCreates, RequestSends,
                VerifyFinds, VerifyMisses, VerifyMarks, ResetFinds, ResetSaves, ResetCloses
  <2>2. QED
    BY <2>1, TabsApart DEF tabs
<1>4. CASE \/ \E c \in 1..made : CodeExpires(c) \/ SessionExpires(c)
           \/ \E u \in Users : ThrottleEases(u)
  <2>1. UNCHANGED tabs
    BY <1>4 DEF CodeExpires, SessionExpires, ThrottleEases
  <2>2. QED
    BY <2>1, TabsApart DEF tabs
<1>5. ASSUME NEW t \in Tabs,
             \/ LoginChecks(t) \/ LoginReads(t)
             \/ \E u \in Users, p \in {OldPassword, NewPassword, NoUser} : LoginSubmit(t, u, p)
      PROVE  TabsInv'
  BY <1>5, LoginSteps
<1>6. ASSUME NEW t \in Tabs, LoginSaves(t) \/ Registers(t)
      PROVE  TabsInv'
  BY <1>6, SignInEnds
<1>7. ASSUME NEW t \in Tabs, LoadPage(t) \/ Asks(t) \/ logout(t) \/ getSocket(t)
      PROVE  TabsInv'
  BY <1>7, PageSteps
<1>8. ASSUME NEW t \in Tabs, NEW q \in asked[t], NEW answer, Answered(t, q, answer)
      PROVE  TabsInv'
  BY <1>8, AnsweredKeeps
<1>9. QED
  BY <1>1, <1>2, <1>3, <1>4, <1>5, <1>6, <1>7, <1>8 DEF NextSignIn

(* The socket of a tab is of the user who is signed in, whatever answers     *)
(* come late and however the tabs share the token.                           *)
THEOREM SocketSpeaks == SignInSpec => []SocketIsTheUsers
<1> DEFINE Inv == Undisturbed => TabsInv
<1>1. InitSignIn => Inv
  BY InitTabsInv
<1>2. Inv /\ [NextSignIn]_signInVars => Inv'
  <2>1. [NextSignIn]_signInVars => UNCHANGED signInScenario
    BY ScenarioStays
  <2>2. QED
    BY <2>1, TabsNextKeeps DEF Undisturbed
<1>3. Inv => SocketIsTheUsers
  BY DEF TabsInv, TabInv, SocketIsTheUsers, Undisturbed
<1>4. QED
  BY <1>1, <1>2, <1>3, PTL DEF SignInSpec

-----------------------------------------------------------------------------
(* The resets of passwords *)

(* A set of numbers up to n has a greatest one.                              *)
LEMMA Greatest ==
    ASSUME NEW n \in Nat, NEW T, T \subseteq 1..n, T # {}
    PROVE  \E x \in T : \A y \in T : y <= x
<1> DEFINE R == {ss \in Nat \X Nat : ss[1] < ss[2]}
           U == {n - x : x \in T}
<1>1. IsWellFoundedOn(R, Nat)
  BY NatLessThanWellFounded DEF OpToRel
<1>2. \A x \in T : n - x \in Nat
  OBVIOUS
<1>3. U \subseteq Nat /\ U # {}
  BY <1>2
<1> HIDE DEF R
<1>4. PICK u \in U : \A v \in U : ~ (<<v, u>> \in R)
  <2> HIDE DEF U
  <2>1. QED
    BY <1>1, <1>3, WFMin
<1>5. PICK x \in T : u = n - x
  OBVIOUS
<1>6. ASSUME NEW y \in T PROVE y <= x
  <2>1. n - y \in U /\ n - y \in Nat /\ u \in Nat
    BY <1>3
  <2>2. ~(n - y < u)
    BY <1>4, <2>1 DEF R
  <2>3. n - x \in Nat /\ y \in Nat /\ x \in Nat
    BY <1>2
  <2>4. QED
    BY <1>5, <2>2, <2>3
<1>7. QED
  BY <1>6

LEMMA NewestIsOne ==
    ASSUME NEW n \in Nat, NEW T, T \subseteq 1..n, T # {}
    PROVE  Newest(T) \in T
BY Greatest DEF Newest

IsWizard(w) ==
    w = [step |-> w.step, email |-> w.email, holds |-> w.holds, counts |-> w.counts,
         cools |-> w.cools]
IsAsk(k) ==
    k = [op |-> k.op, at |-> k.at, user |-> k.user, code |-> k.code, holds |-> k.holds,
         heard |-> k.heard]
IsCode(d) == d = [user |-> d.user, attempts |-> d.attempts, session |-> d.session]
IsReset(r) == r = [user |-> r.user, by |-> r.by, left |-> r.left, closed |-> r.closed]

(* A call whose code has no document yet                                     *)
Awaits(k) == k.op = "request" /\ k.at \in {"record", "delete", "create"}

(* A number is of a code of the user when it was given out, and its          *)
(* document, while there is one, is the user's.                              *)
Known(c, u) ==
    /\ c \in 1..made
    /\ \A t \in Wizards, s \in Slots : Awaits(asking[t][s]) => asking[t][s].code # c
    /\ c \in DOMAIN codes => codes[c].user = u

(* What a call, a wizard and a reset know of codes                           *)
AskKnows(k) ==
    /\ (k.op = "verify" /\ k.at \in {"mark", "miss"}) => Known(k.code, k.user)
    /\ k.op = "reset" => Known(k.holds.code, k.holds.user)
    /\ (k.op = "reset" /\ k.at \in {"save", "close"}) => k.holds.user = k.user
WizardKnows(w) == w.step = "password" => Known(w.holds.code, w.holds.user)
ResetKnows(r) == r.by.user = r.user /\ \A c \in r.left : Known(c, r.user)

WizardShapes ==
    /\ wizard = [t \in Wizards |-> wizard[t]]
    /\ \A t \in Wizards : IsWizard(wizard[t])
AskingShapes ==
    /\ asking = [t \in Wizards |-> [s \in Slots |-> asking[t][s]]]
    /\ \A t \in Wizards, s \in Slots : IsAsk(asking[t][s])
CodeShapes == DOMAIN codes \subseteq 1..made /\ \A c \in DOMAIN codes : IsCode(codes[c])

(* The codes that are awaited are new, and each is of one call.              *)
AwaitedAreNew ==
    /\ \A t \in Wizards, s \in Slots :
         Awaits(asking[t][s]) => asking[t][s].code \in (1..made) \ DOMAIN codes
    /\ \A t, v \in Wizards, s, z \in Slots :
         /\ Awaits(asking[t][s]) /\ Awaits(asking[v][z])
         /\ asking[t][s].code = asking[v][z].code
         => t = v /\ s = z

ResetInv ==
    /\ made \in Nat /\ WizardShapes /\ AskingShapes /\ CodeShapes /\ AwaitedAreNew
    /\ \A t \in Wizards : WizardKnows(wizard[t])
    /\ \A t \in Wizards, s \in Slots : AskKnows(asking[t][s])
    /\ \A r \in resets : IsReset(r) /\ ResetKnows(r)
    /\ ResetClosesTheLoop

LEMMA InitResetInv == InitSignIn => ResetInv
<1> SUFFICES ASSUME InitSignIn PROVE ResetInv
  OBVIOUS
<1>1. /\ codes = <<>> /\ made = 0 /\ resets = {}
      /\ wizard = [t \in Wizards |-> EmptyWizard]
      /\ asking = [t \in Wizards |-> [s \in Slots |-> NoAsk]]
  BY DEF InitSignIn
<1>2. IsWizard(EmptyWizard) /\ EmptyWizard.step = "email"
  BY DEF IsWizard, EmptyWizard
<1>3. IsAsk(NoAsk) /\ NoAsk.op = "none"
  BY DEF IsAsk, NoAsk
<1>4. WizardShapes /\ \A t \in Wizards : WizardKnows(wizard[t])
  BY <1>1, <1>2 DEF WizardShapes, WizardKnows
<1>5. /\ AskingShapes /\ AwaitedAreNew
      /\ \A t \in Wizards, s \in Slots : AskKnows(asking[t][s])
  BY <1>1, <1>3 DEF AskingShapes, AwaitedAreNew, AskKnows, Awaits
<1>6. DOMAIN codes = {}
  BY <1>1
<1>7. QED
  BY <1>1, <1>4, <1>5, <1>6 DEF ResetInv, CodeShapes, ResetClosesTheLoop

-----------------------------------------------------------------------------
(* What the steps do to the codes: documents go, or keep their user; one     *)
(* comes for a call that awaited it; and what is awaited anew has a new      *)
(* number.                                                                   *)
Steady ==
    /\ made' \in Nat /\ made <= made'
    /\ \A d \in DOMAIN codes' :
         \/ d \in DOMAIN codes /\ codes'[d].user = codes[d].user
         \/ \E t \in Wizards, s \in Slots : Awaits(asking[t][s]) /\ asking[t][s].code = d
    /\ \A t \in Wizards, s \in Slots :
         Awaits(asking'[t][s]) =>
            \/ asking'[t][s].code > made
            \/ Awaits(asking[t][s]) /\ asking[t][s].code = asking'[t][s].code

LEMMA KnownStays ==
    ASSUME made \in Nat, Steady, NEW c, NEW u, Known(c, u)
    PROVE  Known(c, u)'
<1>1. c \in 1..made' /\ c <= made /\ c \in Nat
  BY DEF Known, Steady
<1>2. ASSUME NEW t \in Wizards, NEW s \in Slots, Awaits(asking'[t][s])
      PROVE  asking'[t][s].code # c
  BY <1>1, <1>2 DEF Known, Steady
<1>3. ASSUME c \in DOMAIN codes' PROVE codes'[c].user = u
  BY <1>3 DEF Known, Steady
<1>4. QED
  BY <1>1, <1>2, <1>3 DEF Known

LEMMA AskKnowsStays ==
    ASSUME made \in Nat, Steady, NEW k, AskKnows(k)
    PROVE  AskKnows(k)'
BY KnownStays DEF AskKnows

LEMMA WizardKnowsStays ==
    ASSUME made \in Nat, Steady, NEW w, WizardKnows(w)
    PROVE  WizardKnows(w)'
BY KnownStays DEF WizardKnows

LEMMA ResetKnowsStays ==
    ASSUME made \in Nat, Steady, NEW r, ResetKnows(r)
    PROVE  ResetKnows(r)'
BY KnownStays DEF ResetKnows

(* What a step leaves behind, told of the state before it                    *)
LEMMA KnowledgeKeeps ==
    ASSUME ResetInv, Steady, WizardShapes', AskingShapes', CodeShapes', AwaitedAreNew',
           \A t \in Wizards : \E w : wizard'[t] = w /\ WizardKnows(w),
           \A t \in Wizards, s \in Slots : \E k : asking'[t][s] = k /\ AskKnows(k),
           \A r \in resets' : IsReset(r) /\ ResetKnows(r),
           ResetClosesTheLoop'
    PROVE  ResetInv'
<1>1. made \in Nat /\ made' \in Nat
  BY DEF ResetInv, Steady
<1>2. ASSUME NEW t \in Wizards PROVE WizardKnows(wizard[t])'
  BY <1>1, WizardKnowsStays
<1>3. ASSUME NEW t \in Wizards, NEW s \in Slots PROVE AskKnows(asking[t][s])'
  BY <1>1, AskKnowsStays
<1>4. ASSUME NEW r \in resets' PROVE ResetKnows(r)'
  BY <1>1, ResetKnowsStays
<1>5. QED
  BY <1>1, <1>2, <1>3, <1>4 DEF ResetInv

(* The wizards may change; of the calls, only whether anyone waits for them. *)
LEMMA WizardsMove ==
    ASSUME ResetInv, UNCHANGED <<codes, made, resets>>,
           wizard' = [t \in Wizards |-> wizard'[t]],
           \A t \in Wizards : \E w : wizard'[t] = w /\ IsWizard(w) /\ WizardKnows(w),
           asking' = [t \in Wizards |-> [s \in Slots |-> asking'[t][s]]],
           \A t \in Wizards, s \in Slots :
              \E k : /\ asking'[t][s] = k /\ IsAsk(k) /\ AskKnows(k)
                     /\ (Awaits(k) => Awaits(asking[t][s])) /\ k.code = asking[t][s].code
    PROVE  ResetInv'
<1>1. Steady
  BY DEF ResetInv, Steady
<1>2. WizardShapes'
  BY DEF WizardShapes
<1>3. AskingShapes'
  BY DEF AskingShapes
<1>4. CodeShapes'
  BY DEF ResetInv, CodeShapes
<1>5. AwaitedAreNew'
  <2>1. \A t \in Wizards, s \in Slots :
          /\ Awaits(asking'[t][s]) => Awaits(asking[t][s])
          /\ asking'[t][s].code = asking[t][s].code
    OBVIOUS
  <2>2. QED
    BY <2>1 DEF ResetInv, AwaitedAreNew
<1>6. \A t \in Wizards : \E w : wizard'[t] = w /\ WizardKnows(w)
  OBVIOUS
<1>7. \A t \in Wizards, s \in Slots : \E k : asking'[t][s] = k /\ AskKnows(k)
  OBVIOUS
<1>8. \A r \in resets' : IsReset(r) /\ ResetKnows(r)
  BY DEF ResetInv
<1>9. ResetClosesTheLoop'
  BY DEF ResetInv, ResetClosesTheLoop
<1>10. QED
  BY <1>1, <1>2, <1>3, <1>4, <1>5, <1>6, <1>7, <1>8, <1>9, KnowledgeKeeps

(* A call goes on, and its wizard may hear of it.                            *)
WizardHears(t) ==
    \/ wizard' = wizard
    \/ \E w : wizard' = [wizard EXCEPT ![t] = w] /\ IsWizard(w) /\ WizardKnows(w)

LEMMA CallMoves ==
    ASSUME ResetInv, NEW t \in Wizards, NEW s \in Slots, NEW k,
           asking' = [asking EXCEPT ![t][s] = k], IsAsk(k), AskKnows(k), WizardHears(t),
           \/ made' = made
           \/ made' = made + 1,
           Awaits(k) => \/ Awaits(asking[t][s]) /\ k.code = asking[t][s].code
                        \/ k.code = made + 1 /\ made' = made + 1,
           \A d \in DOMAIN codes' :
              /\ IsCode(codes'[d])
              /\ \/ d \in DOMAIN codes /\ codes'[d].user = codes[d].user
                 \/ Awaits(asking[t][s]) /\ asking[t][s].code = d /\ ~Awaits(k),
           \A r \in resets' :
              IsReset(r) /\ ResetKnows(r) /\ (r.closed => r.left \cap DOMAIN codes' = {})
    PROVE  ResetInv'
<1>1. made \in Nat /\ made' \in Nat /\ made <= made'
  BY DEF ResetInv
<1>2. \A v \in Wizards, z \in Slots :
        asking'[v][z] = IF v = t /\ z = s THEN k ELSE asking[v][z]
  BY DEF ResetInv, AskingShapes
<1>3. AskingShapes'
  <2>1. asking' = [v \in Wizards |-> [z \in Slots |-> asking'[v][z]]]
    BY DEF ResetInv, AskingShapes
  <2>2. QED
    BY <1>2, <2>1 DEF ResetInv, AskingShapes
<1>4. WizardShapes' /\ \A v \in Wizards : \E w : wizard'[v] = w /\ WizardKnows(w)
  <2>1. CASE wizard' = wizard
    BY <2>1 DEF ResetInv, WizardShapes
  <2>2. ASSUME NEW w, wizard' = [wizard EXCEPT ![t] = w], IsWizard(w), WizardKnows(w)
        PROVE  WizardShapes' /\ \A v \in Wizards : \E x : wizard'[v] = x /\ WizardKnows(x)
    <3>1. \A v \in Wizards : wizard'[v] = IF v = t THEN w ELSE wizard[v]
      BY <2>2 DEF ResetInv, WizardShapes
    <3>2. wizard' = [v \in Wizards |-> wizard'[v]]
      BY <2>2 DEF ResetInv, WizardShapes
    <3>3. WizardShapes'
      BY <2>2, <3>1, <3>2 DEF ResetInv, WizardShapes
    <3>4. \A v \in Wizards : \E x : wizard'[v] = x /\ WizardKnows(x)
      BY <2>2, <3>1 DEF ResetInv
    <3>5. QED
      BY <3>3, <3>4
  <2>3. QED
    BY <2>1, <2>2 DEF WizardHears
<1>5. Steady
  <2>1. \A d \in DOMAIN codes' :
         \/ d \in DOMAIN codes /\ codes'[d].user = codes[d].user
         \/ \E v \in Wizards, z \in Slots : Awaits(asking[v][z]) /\ asking[v][z].code = d
    OBVIOUS
  <2>2. \A v \in Wizards, z \in Slots :
         Awaits(asking'[v][z]) =>
            \/ asking'[v][z].code > made
            \/ Awaits(asking[v][z]) /\ asking[v][z].code = asking'[v][z].code
    BY <1>1, <1>2
  <2>3. QED
    BY <1>1, <2>1, <2>2 DEF Steady
<1>6. AwaitedAreNew /\ \A d \in DOMAIN codes : d \in 1..made
  BY DEF ResetInv, CodeShapes
<1>7. CodeShapes'
  BY <1>1, <1>6 DEF CodeShapes, AwaitedAreNew
<1>8. AwaitedAreNew'
  <2>1. ASSUME NEW v \in Wizards, NEW z \in Slots, Awaits(asking'[v][z])
        PROVE  asking'[v][z].code \in (1..made') \ DOMAIN codes'
    <3>1. CASE v = t /\ z = s
      BY <1>1, <1>2, <1>6, <2>1, <3>1 DEF AwaitedAreNew
    <3>2. CASE ~(v = t /\ z = s)
      BY <1>1, <1>2, <1>6, <2>1, <3>2 DEF AwaitedAreNew
    <3>3. QED
      BY <3>1, <3>2
  <2>2. ASSUME NEW v \in Wizards, NEW z \in Slots, Awaits(asking'[v][z]), ~(v = t /\ z = s),
               Awaits(k)
        PROVE  asking'[v][z].code # k.code
    BY <1>1, <1>2, <1>6, <2>2 DEF AwaitedAreNew
  <2>3. ASSUME NEW v \in Wizards, NEW z \in Slots, NEW x \in Wizards, NEW y \in Slots,
               Awaits(asking'[v][z]), Awaits(asking'[x][y]),
               asking'[v][z].code = asking'[x][y].code
        PROVE  v = x /\ z = y
    BY <1>2, <1>6, <2>2, <2>3 DEF AwaitedAreNew
  <2>4. QED
    BY <2>1, <2>3 DEF AwaitedAreNew
<1>9. \A v \in Wizards, z \in Slots : \E x : asking'[v][z] = x /\ AskKnows(x)
  BY <1>2 DEF ResetInv
<1>10. ResetClosesTheLoop'
  BY DEF ResetClosesTheLoop
<1>11. QED
  BY <1>3, <1>4, <1>5, <1>7, <1>8, <1>9, <1>10, KnowledgeKeeps

(* A call goes on that changes neither the documents nor the resets.         *)
LEMMA CallGoes ==
    ASSUME ResetInv, NEW t \in Wizards, NEW s \in Slots, NEW k,
           asking' = [asking EXCEPT ![t][s] = k], IsAsk(k), AskKnows(k), WizardHears(t),
           Awaits(k) => Awaits(asking[t][s]) /\ k.code = asking[t][s].code,
           UNCHANGED <<codes, made, resets>>
    PROVE  ResetInv'
<1>1. \A d \in DOMAIN codes' : IsCode(codes'[d]) /\ d \in DOMAIN codes /\ codes'[d].user = codes[d].user
  BY DEF ResetInv, CodeShapes
<1>2. \A r \in resets' :
         IsReset(r) /\ ResetKnows(r) /\ (r.closed => r.left \cap DOMAIN codes' = {})
  BY DEF ResetInv, ResetClosesTheLoop
<1>3. QED
  BY <1>1, <1>2, CallMoves

(* A place is another, and the rest of the call the same.                    *)
LEMMA AskAt ==
    ASSUME NEW k, IsAsk(k), NEW at, NEW code
    PROVE  /\ [k EXCEPT !.at = at] =
                [op |-> k.op, at |-> at, user |-> k.user, code |-> k.code, holds |-> k.holds,
                 heard |-> k.heard]
           /\ [k EXCEPT !.at = at, !.code = code] =
                [op |-> k.op, at |-> at, user |-> k.user, code |-> code, holds |-> k.holds,
                 heard |-> k.heard]
<1> DEFINE m == [k EXCEPT !.at = at]
<1>1. m = [op |-> k.op, at |-> at, user |-> k.user, code |-> k.code, holds |-> k.holds,
           heard |-> k.heard]
  BY DEF IsAsk
<1> HIDE DEF m
<1>2. m = [op |-> m.op, at |-> m.at, user |-> m.user, code |-> m.code, holds |-> m.holds,
           heard |-> m.heard]
  BY <1>1
<1>3. [m EXCEPT !.code = code] =
        [op |-> m.op, at |-> m.at, user |-> m.user, code |-> code, holds |-> m.holds,
         heard |-> m.heard]
  BY <1>2
<1>4. /\ m.op = k.op /\ m.at = at /\ m.user = k.user /\ m.holds = k.holds /\ m.heard = k.heard
  BY <1>1
<1>5. QED
  BY <1>1, <1>3, <1>4 DEF m

LEMMA WizardAt ==
    ASSUME NEW w, IsWizard(w), NEW x, NEW m, m = [w EXCEPT !.step = x]
    PROVE  IsWizard(m) /\ m.step = x /\ m.holds = w.holds
<1>1. m = [step |-> x, email |-> w.email, holds |-> w.holds, counts |-> w.counts,
           cools |-> w.cools]
  BY DEF IsWizard
<1>2. QED
  BY <1>1 DEF IsWizard

LEMMA WizardHolding ==
    ASSUME NEW w, IsWizard(w), NEW x, NEW m, m = [w EXCEPT !.holds = x]
    PROVE  IsWizard(m) /\ m.holds = x /\ m.step = w.step
<1>1. m = [step |-> w.step, email |-> w.email, holds |-> x, counts |-> w.counts,
           cools |-> w.cools]
  BY DEF IsWizard
<1>2. QED
  BY <1>1 DEF IsWizard

(* What a wizard shows beside its step does not matter here.                 *)
LEMMA WizardShowing ==
    ASSUME NEW w, IsWizard(w), NEW x, NEW m,
           \/ m = [w EXCEPT !.email = x]
           \/ m = [w EXCEPT !.counts = x]
           \/ m = [w EXCEPT !.cools = x]
    PROVE  IsWizard(m) /\ m.step = w.step /\ m.holds = w.holds
<1>1. CASE m = [w EXCEPT !.email = x]
  <2>1. m = [step |-> w.step, email |-> x, holds |-> w.holds, counts |-> w.counts,
             cools |-> w.cools]
    BY <1>1 DEF IsWizard
  <2>2. QED
    BY <2>1 DEF IsWizard
<1>2. CASE m = [w EXCEPT !.counts = x]
  <2>1. m = [step |-> w.step, email |-> w.email, holds |-> w.holds, counts |-> x,
             cools |-> w.cools]
    BY <1>2 DEF IsWizard
  <2>2. QED
    BY <2>1 DEF IsWizard
<1>3. CASE m = [w EXCEPT !.cools = x]
  <2>1. m = [step |-> w.step, email |-> w.email, holds |-> w.holds, counts |-> w.counts,
             cools |-> x]
    BY <1>3 DEF IsWizard
  <2>2. QED
    BY <2>1 DEF IsWizard
<1>4. QED
  BY <1>1, <1>2, <1>3

LEMMA Goer ==
    ASSUME ResetInv, NEW t \in Wizards, NEW s \in Slots, NEW at, GoesOn(t, s, at)
    PROVE  /\ WizardHears(t)
           /\ \E k : /\ asking' = [asking EXCEPT ![t][s] = k] /\ IsAsk(k)
                     /\ k.op = asking[t][s].op /\ k.at = at /\ k.user = asking[t][s].user
                     /\ k.code = asking[t][s].code /\ k.holds = asking[t][s].holds
<1> DEFINE k == [asking[t][s] EXCEPT !.at = at]
<1>1. asking' = [asking EXCEPT ![t][s] = k] /\ wizard' = wizard
  BY DEF GoesOn
<1>2. k = [op |-> asking[t][s].op, at |-> at, user |-> asking[t][s].user,
           code |-> asking[t][s].code, holds |-> asking[t][s].holds,
           heard |-> asking[t][s].heard]
  BY AskAt DEF ResetInv, AskingShapes
<1> HIDE DEF k
<1>3. /\ IsAsk(k) /\ k.op = asking[t][s].op /\ k.at = at /\ k.user = asking[t][s].user
      /\ k.code = asking[t][s].code /\ k.holds = asking[t][s].holds
  BY <1>2 DEF IsAsk
<1>4. QED
  BY <1>1, <1>3 DEF WizardHears

LEMMA AnswerIsHeard ==
    ASSUME ResetInv, NEW t \in Wizards, NEW s \in Slots, NEW w, Answers(t, s, w),
           IsWizard(w), WizardKnows(w)
    PROVE  asking' = [asking EXCEPT ![t][s] = NoAsk] /\ WizardHears(t)
<1>1. asking' = [asking EXCEPT ![t][s] = NoAsk]
  BY DEF Answers
<1>2. \/ wizard' = wizard
      \/ wizard' = [wizard EXCEPT ![t] = w]
      \/ wizard' = [wizard EXCEPT ![t] = wizard[t]]
  BY DEF Answers
<1>3. IsWizard(wizard[t]) /\ WizardKnows(wizard[t])
  BY DEF ResetInv, WizardShapes
<1>4. QED
  BY <1>1, <1>2, <1>3 DEF WizardHears

LEMMA NoAskIsFine == IsAsk(NoAsk) /\ AskKnows(NoAsk) /\ ~Awaits(NoAsk)
BY DEF IsAsk, NoAsk, AskKnows, Awaits

LEMMA AcceptedIsFine ==
    ASSUME ResetInv, NEW t \in Wizards, NEW s \in Slots
    PROVE  IsWizard(Accepted(t, s)) /\ WizardKnows(Accepted(t, s))
<1>1. IsWizard(wizard[t]) /\ WizardKnows(wizard[t])
  BY DEF ResetInv, WizardShapes
<1>2. PICK c, step, cools : /\ c = asking[t][s].code /\ cools = TRUE
                            /\ step = IF s = "submit" THEN "code" ELSE wizard[t].step
  OBVIOUS
<1>3. PICK m : m = [wizard[t] EXCEPT !.counts = c]
  OBVIOUS
<1>4. PICK n : n = [m EXCEPT !.cools = cools]
  OBVIOUS
<1>5. PICK p : p = [n EXCEPT !.step = step]
  OBVIOUS
<1>6. Accepted(t, s) = p
  BY <1>2, <1>3, <1>4, <1>5 DEF Accepted
<1>7. IsWizard(m) /\ m.step = wizard[t].step /\ m.holds = wizard[t].holds
  BY <1>1, <1>3, WizardShowing
<1>8. IsWizard(n) /\ n.step = wizard[t].step /\ n.holds = wizard[t].holds
  BY <1>4, <1>7, WizardShowing
<1>9. IsWizard(p) /\ p.step = step /\ p.holds = wizard[t].holds
  BY <1>5, <1>8, WizardAt
<1>10. WizardKnows(p)
  BY <1>1, <1>2, <1>9 DEF WizardKnows
<1>11. QED
  BY <1>6, <1>9, <1>10

LEMMA StartsCallKeeps ==
    ASSUME ResetInv, NEW t \in Wizards, NEW s \in Slots, NEW op, NEW u, NEW code, NEW holds,
           StartsCall(t, s, op, u, code, holds),
           op = "reset" => Known(holds.code, holds.user)
    PROVE  ResetInv'
<1> DEFINE k == [op |-> op, at |-> "sent", user |-> u, code |-> code, holds |-> holds,
                 heard |-> TRUE]
<1>1. /\ asking' = [asking EXCEPT ![t][s] = k] /\ wizard' = wizard
      /\ UNCHANGED <<codes, made, resets>>
  BY DEF StartsCall
<1>2. IsAsk(k) /\ k.op = op /\ k.at = "sent" /\ k.holds = holds
  BY DEF IsAsk
<1> HIDE DEF k
<1>3. AskKnows(k) /\ ~Awaits(k)
  BY <1>2 DEF AskKnows, Awaits
<1>4. QED
  BY <1>1, <1>2, <1>3, CallGoes DEF WizardHears

LEMMA SameAsks ==
    ASSUME ResetInv, asking' = asking
    PROVE  /\ asking' = [t \in Wizards |-> [s \in Slots |-> asking'[t][s]]]
           /\ \A t \in Wizards, s \in Slots :
                \E k : /\ asking'[t][s] = k /\ IsAsk(k) /\ AskKnows(k)
                       /\ (Awaits(k) => Awaits(asking[t][s])) /\ k.code = asking[t][s].code
BY DEF ResetInv, AskingShapes

(* One wizard changes, and no call.                                          *)
LEMMA WizardMoves ==
    ASSUME ResetInv, NEW t \in Wizards, NEW w, wizard' = [wizard EXCEPT ![t] = w],
           IsWizard(w), WizardKnows(w), UNCHANGED <<codes, made, resets, asking>>
    PROVE  ResetInv'
<1>1. \A v \in Wizards : wizard'[v] = IF v = t THEN w ELSE wizard[v]
  BY DEF ResetInv, WizardShapes
<1>2. wizard' = [v \in Wizards |-> wizard'[v]]
  BY DEF ResetInv, WizardShapes
<1>3. \A v \in Wizards : \E x : wizard'[v] = x /\ IsWizard(x) /\ WizardKnows(x)
  BY <1>1 DEF ResetInv, WizardShapes
<1>4. QED
  BY <1>2, <1>3, SameAsks, WizardsMove

LEMMA ResetsApart ==
    ASSUME ResetInv, UNCHANGED <<codes, made, resets, asking, wizard>>
    PROVE  ResetInv'
<1>1. /\ wizard' = [v \in Wizards |-> wizard'[v]]
      /\ \A v \in Wizards : \E x : wizard'[v] = x /\ IsWizard(x) /\ WizardKnows(x)
  BY DEF ResetInv, WizardShapes
<1>2. QED
  BY <1>1, SameAsks, WizardsMove

LEMMA LoadWizardKeeps ==
    ASSUME ResetInv, NEW t \in Wizards, LoadWizard(t)
    PROVE  ResetInv'
<1>1. UNCHANGED <<codes, made, resets>>
  BY DEF LoadWizard
<1>2. PICK w : /\ wizard' = [wizard EXCEPT ![t] = w]
               /\ w = IF wizard[t].step = "code" THEN [wizard[t] EXCEPT !.holds = NoUser]
                      ELSE EmptyWizard
  BY DEF LoadWizard
<1>3. IsWizard(w) /\ w.step # "password"
  <2>1. CASE wizard[t].step = "code"
    BY <1>2, <2>1, WizardHolding DEF ResetInv, WizardShapes
  <2>2. CASE wizard[t].step # "code"
    BY <1>2, <2>2 DEF EmptyWizard, IsWizard
  <2>3. QED
    BY <2>1, <2>2
<1>4. /\ wizard' = [v \in Wizards |-> wizard'[v]]
      /\ \A v \in Wizards : wizard'[v] = IF v = t THEN w ELSE wizard[v]
  BY <1>2 DEF ResetInv, WizardShapes
<1>5. \A v \in Wizards : \E x : wizard'[v] = x /\ IsWizard(x) /\ WizardKnows(x)
  BY <1>3, <1>4 DEF ResetInv, WizardShapes, WizardKnows
<1>6. \A v \in Wizards, s \in Slots :
        asking'[v][s] = IF v # t \/ asking[v][s] = NoAsk THEN asking[v][s]
                        ELSE [asking[v][s] EXCEPT !.heard = FALSE]
  BY DEF LoadWizard, ResetInv, AskingShapes
<1>7. asking' = [v \in Wizards |-> [s \in Slots |-> asking'[v][s]]]
  BY DEF LoadWizard, ResetInv, AskingShapes
<1>8. ASSUME NEW v \in Wizards, NEW s \in Slots
      PROVE  \E k : /\ asking'[v][s] = k /\ IsAsk(k) /\ AskKnows(k)
                    /\ (Awaits(k) => Awaits(asking[v][s])) /\ k.code = asking[v][s].code
  <2> DEFINE old == asking[v][s]
  <2>1. IsAsk(old) /\ AskKnows(old)
    BY DEF ResetInv, AskingShapes
  <2>2. CASE asking'[v][s] = old
    BY <2>1, <2>2
  <2>3. CASE asking'[v][s] = [old EXCEPT !.heard = FALSE]
    <3>1. PICK b : b = FALSE
      OBVIOUS
    <3> DEFINE k == [old EXCEPT !.heard = b]
    <3>2. k = [op |-> old.op, at |-> old.at, user |-> old.user, code |-> old.code,
               holds |-> old.holds, heard |-> b]
      BY <2>1 DEF IsAsk
    <3>3. asking'[v][s] = k
      BY <2>3, <3>1
    <3> HIDE DEF k
    <3>4. /\ IsAsk(k) /\ k.op = old.op /\ k.at = old.at /\ k.user = old.user
          /\ k.code = old.code /\ k.holds = old.holds
      BY <3>2 DEF IsAsk
    <3>5. AskKnows(k) /\ (Awaits(k) => Awaits(old))
      BY <2>1, <3>4 DEF AskKnows, Awaits
    <3>6. QED
      BY <3>3, <3>4, <3>5
  <2>4. QED
    BY <1>6, <2>2, <2>3
<1>9. QED
  BY <1>1, <1>4, <1>5, <1>7, <1>8, WizardsMove

LEMMA ThrottleEasesKeeps ==
    ASSUME ResetInv, NEW u \in Users, ThrottleEases(u)
    PROVE  ResetInv'
<1>1. UNCHANGED <<codes, made, resets, asking>>
  BY DEF ThrottleEases
<1>2. CASE UNCHANGED wizard
  BY <1>1, <1>2, ResetsApart
<1>3. CASE wizard' = [t \in Wizards |-> Cooled(wizard[t], u)]
  <2>1. wizard' = [t \in Wizards |-> wizard'[t]]
    BY <1>3
  <2>2. ASSUME NEW t \in Wizards
        PROVE  \E w : wizard'[t] = w /\ IsWizard(w) /\ WizardKnows(w)
    <3>1. IsWizard(wizard[t]) /\ WizardKnows(wizard[t])
      BY DEF ResetInv, WizardShapes
    <3>2. CASE wizard[t].email # u
      BY <1>3, <3>1, <3>2 DEF Cooled
    <3>3. CASE wizard[t].email = u
      <4>1. PICK b, w : b = FALSE /\ w = [wizard[t] EXCEPT !.cools = b]
        OBVIOUS
      <4>2. IsWizard(w) /\ w.step = wizard[t].step /\ w.holds = wizard[t].holds
        BY <3>1, <4>1, WizardShowing
      <4>3. wizard'[t] = w
        BY <1>3, <3>3, <4>1 DEF Cooled
      <4>4. WizardKnows(w)
        BY <3>1, <4>2 DEF WizardKnows
      <4>5. QED
        BY <4>2, <4>3, <4>4
    <3>4. QED
      BY <3>2, <3>3
  <2>3. QED
    BY <1>1, <2>1, <2>2, SameAsks, WizardsMove
<1>4. QED
  BY <1>2, <1>3 DEF ThrottleEases

(* The steps that end a call without a word, and those that go on            *)
LEMMA RefusesKeeps ==
    ASSUME ResetInv, NEW t \in Wizards, NEW s \in Slots, Refuses(t, s),
           UNCHANGED <<codes, made, resets>>
    PROVE  ResetInv'
BY NoAskIsFine, CallGoes DEF Refuses, WizardHears

LEMMA AnswersKeeps ==
    ASSUME ResetInv, NEW t \in Wizards, NEW s \in Slots, NEW w, Answers(t, s, w),
           IsWizard(w), WizardKnows(w), UNCHANGED <<codes, made, resets>>
    PROVE  ResetInv'
BY NoAskIsFine, AnswerIsHeard, CallGoes

LEMMA RequestCheckedKeeps ==
    ASSUME ResetInv, NEW t \in Wizards, NEW s \in Slots, RequestChecked(t, s)
    PROVE  ResetInv'
<1>1. UNCHANGED <<codes, resets>> /\ asking[t][s].op = "request"
  BY DEF RequestChecked, At
<1>2. CASE Refuses(t, s) /\ UNCHANGED made
  BY <1>1, <1>2, RefusesKeeps
<1>3. CASE /\ made' = made + 1 /\ UNCHANGED wizard
           /\ asking' = [asking EXCEPT ![t][s].at = "record", ![t][s].code = made + 1]
  <2> DEFINE k == [asking[t][s] EXCEPT !.at = "record", !.code = made + 1]
  <2>1. asking' = [asking EXCEPT ![t][s] = k]
    BY <1>3 DEF ResetInv, AskingShapes
  <2>2. k = [op |-> asking[t][s].op, at |-> "record", user |-> asking[t][s].user,
             code |-> made + 1, holds |-> asking[t][s].holds, heard |-> asking[t][s].heard]
    BY AskAt DEF ResetInv, AskingShapes
  <2> HIDE DEF k
  <2>3. IsAsk(k) /\ k.op = "request" /\ k.at = "record" /\ k.code = made + 1
    BY <1>1, <2>2 DEF IsAsk
  <2>4. AskKnows(k)
    BY <2>3 DEF AskKnows
  <2>5. \A d \in DOMAIN codes' :
          IsCode(codes'[d]) /\ d \in DOMAIN codes /\ codes'[d].user = codes[d].user
    BY <1>1 DEF ResetInv, CodeShapes
  <2>6. \A r \in resets' :
          IsReset(r) /\ ResetKnows(r) /\ (r.closed => r.left \cap DOMAIN codes' = {})
    BY <1>1 DEF ResetInv, ResetClosesTheLoop
  <2>7. WizardHears(t)
    BY <1>3 DEF WizardHears
  <2>8. QED
    BY <1>3, <2>1, <2>3, <2>4, <2>5, <2>6, <2>7, CallMoves
<1>4. QED
  BY <1>2, <1>3 DEF RequestChecked

LEMMA RequestRecordedKeeps ==
    ASSUME ResetInv, NEW t \in Wizards, NEW s \in Slots, RequestRecorded(t, s)
    PROVE  ResetInv'
<1>1. /\ UNCHANGED <<codes, made, resets>> /\ asking[t][s].op = "request"
      /\ asking[t][s].at = "record"
  BY DEF RequestRecorded, At
<1>2. CASE Answers(t, s, Accepted(t, s))
  BY <1>1, <1>2, AcceptedIsFine, AnswersKeeps
<1>3. CASE GoesOn(t, s, "delete")
  <2>1. PICK k : /\ asking' = [asking EXCEPT ![t][s] = k] /\ IsAsk(k)
                 /\ k.op = "request" /\ k.at = "delete" /\ k.code = asking[t][s].code
    BY <1>1, <1>3, Goer
  <2>2. AskKnows(k) /\ Awaits(asking[t][s])
    BY <1>1, <2>1 DEF AskKnows, Awaits
  <2>3. QED
    BY <1>1, <1>3, <2>1, <2>2, Goer, CallGoes
<1>4. QED
  BY <1>2, <1>3 DEF RequestRecorded

LEMMA WithoutKeeps ==
    ASSUME ResetInv, NEW cs, codes' = Without(cs)
    PROVE  \A d \in DOMAIN codes' : /\ IsCode(codes'[d]) /\ d \in DOMAIN codes \ cs
                                    /\ codes'[d].user = codes[d].user
<1>1. DOMAIN codes' = DOMAIN codes \ cs /\ \A d \in DOMAIN codes' : codes'[d] = codes[d]
  BY DEF Without, Restrict
<1>2. QED
  BY <1>1 DEF ResetInv, CodeShapes

LEMMA RequestDeletesKeeps ==
    ASSUME ResetInv, NEW t \in Wizards, NEW s \in Slots, RequestDeletes(t, s)
    PROVE  ResetInv'
<1>1. /\ UNCHANGED <<made, resets>> /\ asking[t][s].op = "request"
      /\ asking[t][s].at = "delete" /\ GoesOn(t, s, "create")
  BY DEF RequestDeletes, At
<1>2. PICK k : /\ asking' = [asking EXCEPT ![t][s] = k] /\ IsAsk(k)
               /\ k.op = "request" /\ k.at = "create" /\ k.code = asking[t][s].code
  BY <1>1, Goer
<1>3. AskKnows(k) /\ Awaits(asking[t][s])
  BY <1>1, <1>2 DEF AskKnows, Awaits
<1>4. \A d \in DOMAIN codes' :
        IsCode(codes'[d]) /\ d \in DOMAIN codes /\ codes'[d].user = codes[d].user
  BY WithoutKeeps DEF RequestDeletes
<1>5. \A r \in resets' :
         IsReset(r) /\ ResetKnows(r) /\ (r.closed => r.left \cap DOMAIN codes' = {})
  BY <1>1, <1>4 DEF ResetInv, ResetClosesTheLoop
<1>6. QED
  BY <1>1, <1>2, <1>3, <1>4, <1>5, Goer, CallMoves, ZenonT(30)

LEMMA RequestCreatesKeeps ==
    ASSUME ResetInv, NEW t \in Wizards, NEW s \in Slots, RequestCreates(t, s)
    PROVE  ResetInv'
<1> DEFINE c == asking[t][s].code
           new == [user |-> asking[t][s].user, attempts |-> 0, session |-> NoUser]
<1>1. /\ UNCHANGED <<made, resets>> /\ asking[t][s].op = "request"
      /\ asking[t][s].at = "create" /\ GoesOn(t, s, "send")
  BY DEF RequestCreates, At
<1>2. PICK k : /\ asking' = [asking EXCEPT ![t][s] = k] /\ IsAsk(k)
               /\ k.op = "request" /\ k.at = "send" /\ k.code = asking[t][s].code
  BY <1>1, Goer
<1>3. AskKnows(k) /\ ~Awaits(k) /\ Awaits(asking[t][s])
  BY <1>1, <1>2 DEF AskKnows, Awaits
<1>4. codes' = [d \in DOMAIN codes \cup {c} |-> IF d = c THEN new ELSE codes[d]]
  BY DEF RequestCreates
<1>5. IsCode(new)
  BY DEF IsCode
<1> HIDE DEF new
<1>6. \A d \in DOMAIN codes' :
        /\ IsCode(codes'[d])
        /\ \/ d \in DOMAIN codes /\ codes'[d].user = codes[d].user
           \/ Awaits(asking[t][s]) /\ asking[t][s].code = d /\ ~Awaits(k)
  BY <1>3, <1>4, <1>5 DEF ResetInv, CodeShapes
<1>7. ASSUME NEW r \in resets'
      PROVE  IsReset(r) /\ ResetKnows(r) /\ (r.closed => r.left \cap DOMAIN codes' = {})
  <2>1. r \in resets /\ IsReset(r) /\ ResetKnows(r)
    BY <1>1 DEF ResetInv
  <2>2. c \notin r.left
    BY <1>3, <2>1 DEF ResetKnows, Known
  <2>3. r.closed => r.left \cap DOMAIN codes = {}
    BY <2>1 DEF ResetInv, ResetClosesTheLoop
  <2>4. DOMAIN codes' = DOMAIN codes \cup {c}
    BY <1>4
  <2>5. QED
    BY <2>1, <2>2, <2>3, <2>4
<1>8. QED
  BY <1>1, <1>2, <1>3, <1>6, <1>7, Goer, CallMoves

LEMMA RequestSendsKeeps ==
    ASSUME ResetInv, NEW t \in Wizards, NEW s \in Slots, RequestSends(t, s)
    PROVE  ResetInv'
<1>1. /\ UNCHANGED <<codes, made, resets>>
      /\ Answers(t, s, Accepted(t, s)) \/ Refuses(t, s)
  BY DEF RequestSends
<1>2. QED
  BY <1>1, AcceptedIsFine, AnswersKeeps, RefusesKeeps

LEMMA CodesAreKnown ==
    ASSUME ResetInv, NEW u, NEW c \in CodesOf(u)
    PROVE  Known(c, u)
BY DEF ResetInv, CodesOf, Known, AwaitedAreNew, CodeShapes

LEMMA VerifyFindsKeeps ==
    ASSUME ResetInv, NEW t \in Wizards, NEW s \in Slots, VerifyFinds(t, s)
    PROVE  ResetInv'
<1> DEFINE cs == CodesOf(asking[t][s].user)
           c == Newest(cs)
<1>1. UNCHANGED <<codes, made, resets>> /\ asking[t][s].op = "verify"
  BY DEF VerifyFinds, At
<1>2. CASE Refuses(t, s)
  BY <1>1, <1>2, RefusesKeeps
<1>3. ASSUME cs # {}, UNCHANGED wizard, NEW at, at \in {"mark", "miss"},
             asking' = [asking EXCEPT ![t][s].at = at, ![t][s].code = c]
      PROVE  ResetInv'
  <2> DEFINE k == [asking[t][s] EXCEPT !.at = at, !.code = c]
  <2>1. asking' = [asking EXCEPT ![t][s] = k]
    BY <1>3 DEF ResetInv, AskingShapes
  <2>2. k = [op |-> asking[t][s].op, at |-> at, user |-> asking[t][s].user,
             code |-> c, holds |-> asking[t][s].holds, heard |-> asking[t][s].heard]
    BY AskAt DEF ResetInv, AskingShapes
  <2> HIDE DEF k
  <2>3. IsAsk(k) /\ k.op = "verify" /\ k.at = at /\ k.code = c /\ k.user = asking[t][s].user
    BY <1>1, <2>2 DEF IsAsk
  <2>4. c \in cs
    <3>1. cs \subseteq 1..made /\ made \in Nat
      BY DEF ResetInv, CodeShapes, CodesOf
    <3>2. QED
      BY <1>3, <3>1, NewestIsOne
  <2>5. Known(c, asking[t][s].user)
    BY <2>4, CodesAreKnown
  <2>6. AskKnows(k) /\ ~Awaits(k)
    BY <2>3, <2>5 DEF AskKnows, Awaits
  <2>7. WizardHears(t)
    BY <1>3 DEF WizardHears
  <2>8. QED
    BY <1>1, <1>3, <2>1, <2>3, <2>6, <2>7, CallGoes
<1>4. QED
  BY <1>2, <1>3 DEF VerifyFinds

LEMMA VerifyMissesKeeps ==
    ASSUME ResetInv, NEW t \in Wizards, NEW s \in Slots, VerifyMisses(t, s)
    PROVE  ResetInv'
<1>1. /\ UNCHANGED <<made, resets>> /\ asking' = [asking EXCEPT ![t][s] = NoAsk] /\ WizardHears(t)
  BY DEF VerifyMisses, Refuses, WizardHears
<1>2. DOMAIN codes' = DOMAIN codes
  BY DEF VerifyMisses
<1>3. ASSUME NEW d \in DOMAIN codes'
      PROVE  IsCode(codes'[d]) /\ d \in DOMAIN codes /\ codes'[d].user = codes[d].user
  <2>1. IsCode(codes[d])
    BY <1>2 DEF ResetInv, CodeShapes
  <2>2. CASE codes'[d] = codes[d]
    BY <1>2, <2>1, <2>2
  <2>3. CASE codes'[d] = [codes[d] EXCEPT !.attempts = codes[d].attempts + 1]
    <3>1. PICK n : n = codes[d].attempts + 1
      OBVIOUS
    <3>2. codes'[d] = [user |-> codes[d].user, attempts |-> n, session |-> codes[d].session]
      BY <2>1, <2>3, <3>1 DEF IsCode
    <3>3. QED
      BY <1>2, <3>2 DEF IsCode
  <2>4. QED
    BY <1>2, <2>2, <2>3 DEF VerifyMisses
<1>4. \A r \in resets' :
         IsReset(r) /\ ResetKnows(r) /\ (r.closed => r.left \cap DOMAIN codes' = {})
  BY <1>1, <1>2 DEF ResetInv, ResetClosesTheLoop
<1>5. QED
  BY <1>1, <1>3, <1>4, NoAskIsFine, CallMoves

LEMMA VerifyMarksKeeps ==
    ASSUME ResetInv, NEW t \in Wizards, NEW s \in Slots, VerifyMarks(t, s)
    PROVE  ResetInv'
<1> DEFINE c == asking[t][s].code
           u == asking[t][s].user
<1>1. PICK h : h = [code |-> c, tab |-> t, user |-> u]
  OBVIOUS
<1>a. PICK m : m = [wizard[t] EXCEPT !.step = "password"]
  OBVIOUS
<1>b. PICK w : w = [m EXCEPT !.holds = h]
  OBVIOUS
<1>2. UNCHANGED <<made, resets>> /\ Answers(t, s, w)
  BY <1>1, <1>a, <1>b DEF VerifyMarks
<1>3. Known(c, u)
  BY DEF VerifyMarks, At, ResetInv, AskKnows
<1>4. IsWizard(wizard[t])
  BY DEF ResetInv, WizardShapes
<1>5. IsWizard(m) /\ m.step = "password"
  BY <1>a, <1>4, WizardAt
<1>6. IsWizard(w) /\ w.holds = h
  BY <1>b, <1>5, WizardHolding
<1>7. h.code = c /\ h.user = u
  BY <1>1
<1>8. WizardKnows(w)
  BY <1>3, <1>6, <1>7 DEF WizardKnows
<1>9. asking' = [asking EXCEPT ![t][s] = NoAsk] /\ WizardHears(t)
  BY <1>2, <1>6, <1>8, AnswerIsHeard
<1>10. DOMAIN codes' = DOMAIN codes
  BY DEF VerifyMarks
<1>11. ASSUME NEW d \in DOMAIN codes'
       PROVE  IsCode(codes'[d]) /\ d \in DOMAIN codes /\ codes'[d].user = codes[d].user
  <2>1. IsCode(codes[d])
    BY <1>10 DEF ResetInv, CodeShapes
  <2>2. CASE codes'[d] = codes[d]
    BY <1>10, <2>1, <2>2
  <2>3. CASE codes'[d] = [codes[d] EXCEPT !.session = t]
    <3>1. codes'[d] = [user |-> codes[d].user, attempts |-> codes[d].attempts, session |-> t]
      BY <2>1, <2>3 DEF IsCode
    <3>2. QED
      BY <1>10, <3>1 DEF IsCode
  <2>4. QED
    BY <1>10, <2>2, <2>3 DEF VerifyMarks
<1>12. \A r \in resets' :
         IsReset(r) /\ ResetKnows(r) /\ (r.closed => r.left \cap DOMAIN codes' = {})
  BY <1>2, <1>10 DEF ResetInv, ResetClosesTheLoop
<1>13. QED
  BY <1>2, <1>9, <1>11, <1>12, NoAskIsFine, CallMoves

LEMMA ResetFindsKeeps ==
    ASSUME ResetInv, NEW t \in Wizards, NEW s \in Slots, ResetFinds(t, s)
    PROVE  ResetInv'
<1> DEFINE u == asking[t][s].user
           holds == asking[t][s].holds
           cs == VerifiedCodes(u)
<1>1. UNCHANGED <<codes, made, resets>> /\ asking[t][s].op = "reset"
  BY DEF ResetFinds, At
<1>2. CASE Refuses(t, s)
  BY <1>1, <1>2, RefusesKeeps
<1>3. CASE GoesOn(t, s, "save") /\ cs # {} /\ Holds(holds, Newest(cs))
  <2>1. PICK k : /\ asking' = [asking EXCEPT ![t][s] = k] /\ IsAsk(k)
                 /\ k.op = "reset" /\ k.at = "save" /\ k.user = u /\ k.holds = holds
    BY <1>1, <1>3, Goer
  <2>2. Known(holds.code, holds.user)
    BY <1>1 DEF ResetInv, AskKnows
  <2>3. cs \subseteq 1..made /\ made \in Nat
    BY DEF ResetInv, CodeShapes, CodesOf, VerifiedCodes
  <2>4. holds.code \in cs
    BY <1>3, <2>3, NewestIsOne DEF Holds
  <2>5. holds.user = u
    BY <2>2, <2>4 DEF Known, VerifiedCodes, CodesOf
  <2>6. AskKnows(k) /\ ~Awaits(k)
    BY <2>1, <2>2, <2>5 DEF AskKnows, Awaits
  <2>7. QED
    BY <1>1, <1>3, <2>1, <2>6, Goer, CallGoes
<1>4. QED
  BY <1>2, <1>3 DEF ResetFinds

LEMMA ResetSavesKeeps ==
    ASSUME ResetInv, NEW t \in Wizards, NEW s \in Slots, ResetSaves(t, s)
    PROVE  ResetInv'
<1> DEFINE u == asking[t][s].user
           holds == asking[t][s].holds
<1>1. PICK new : new = [user |-> u, by |-> holds, left |-> CodesOf(u), closed |-> FALSE]
  OBVIOUS
<1>2. /\ UNCHANGED <<codes, made>> /\ resets' = resets \cup {new} /\ GoesOn(t, s, "close")
      /\ asking[t][s].op = "reset" /\ asking[t][s].at = "save"
  BY <1>1 DEF ResetSaves, At
<1>3. AskKnows(asking[t][s])
  BY DEF ResetInv
<1>4. PICK k : /\ asking' = [asking EXCEPT ![t][s] = k] /\ IsAsk(k)
               /\ k.op = "reset" /\ k.at = "close" /\ k.user = u /\ k.holds = holds
  BY <1>2, Goer
<1>5. AskKnows(k) /\ ~Awaits(k) /\ holds.user = u
  BY <1>2, <1>3, <1>4 DEF AskKnows, Awaits
<1>6. /\ new.user = u /\ new.by = holds /\ new.left = CodesOf(u) /\ new.closed = FALSE
      /\ IsReset(new)
  BY <1>1 DEF IsReset
<1>7. ResetKnows(new)
  <2>1. ASSUME NEW c \in CodesOf(u) PROVE Known(c, u)
    BY CodesAreKnown
  <2>2. QED
    BY <1>5, <1>6, <2>1 DEF ResetKnows
<1>8. \A d \in DOMAIN codes' :
        IsCode(codes'[d]) /\ d \in DOMAIN codes /\ codes'[d].user = codes[d].user
  BY <1>2 DEF ResetInv, CodeShapes
<1>9. \A r \in resets' :
         IsReset(r) /\ ResetKnows(r) /\ (r.closed => r.left \cap DOMAIN codes' = {})
  BY <1>2, <1>6, <1>7 DEF ResetInv, ResetClosesTheLoop
<1>10. QED
  BY <1>2, <1>4, <1>5, <1>8, <1>9, Goer, CallMoves

LEMMA ResetClosesKeeps ==
    ASSUME ResetInv, NEW t \in Wizards, NEW s \in Slots, ResetCloses(t, s)
    PROVE  ResetInv'
<1> DEFINE u == asking[t][s].user
           holds == asking[t][s].holds
<1>1. PICK m : m = [wizard[t] EXCEPT !.step = "done"]
  OBVIOUS
<1>a. PICK w : w = [m EXCEPT !.holds = NoUser]
  OBVIOUS
<1>2. made' = made /\ Answers(t, s, w) /\ codes' = Without(CodesOf(u))
  BY <1>1, <1>a DEF ResetCloses, ClosedCodes
<1>3. IsWizard(wizard[t])
  BY DEF ResetInv, WizardShapes
<1>4. IsWizard(m) /\ m.step = "done"
  BY <1>1, <1>3, WizardAt
<1>5. IsWizard(w) /\ w.step = "done"
  BY <1>a, <1>4, WizardHolding
<1>6. WizardKnows(w)
  BY <1>5 DEF WizardKnows
<1>7. asking' = [asking EXCEPT ![t][s] = NoAsk] /\ WizardHears(t)
  BY <1>2, <1>5, <1>6, AnswerIsHeard
<1>8. \A d \in DOMAIN codes' :
        IsCode(codes'[d]) /\ d \in DOMAIN codes \ CodesOf(u) /\ codes'[d].user = codes[d].user
  BY <1>2, WithoutKeeps
<1>9. ASSUME NEW r \in resets'
      PROVE  IsReset(r) /\ ResetKnows(r) /\ (r.closed => r.left \cap DOMAIN codes' = {})
  <2>1. PICK q \in resets : r = IF q.user = u /\ q.by = holds THEN [q EXCEPT !.closed = TRUE] ELSE q
    BY DEF ResetCloses
  <2>2. IsReset(q) /\ ResetKnows(q) /\ (q.closed => q.left \cap DOMAIN codes = {})
    BY DEF ResetInv, ResetClosesTheLoop
  <2>3. CASE r = q
    BY <1>8, <2>2, <2>3
  <2>4. ASSUME q.user = u, r = [q EXCEPT !.closed = TRUE]
        PROVE  IsReset(r) /\ ResetKnows(r) /\ (r.closed => r.left \cap DOMAIN codes' = {})
    <3>1. PICK b : b = TRUE
      OBVIOUS
    <3>2. r = [user |-> q.user, by |-> q.by, left |-> q.left, closed |-> b]
      BY <2>2, <2>4, <3>1 DEF IsReset
    <3>3. IsReset(r) /\ r.user = q.user /\ r.by = q.by /\ r.left = q.left
      BY <3>2 DEF IsReset
    <3>4. ResetKnows(r)
      BY <2>2, <3>3 DEF ResetKnows
    <3>5. ASSUME NEW c \in r.left, c \in DOMAIN codes' PROVE FALSE
      <4>1. Known(c, u)
        BY <2>2, <2>4, <3>3, <3>5 DEF ResetKnows
      <4>2. c \in CodesOf(u)
        BY <1>8, <3>5, <4>1 DEF Known, CodesOf
      <4>3. QED
        BY <1>8, <3>5, <4>2
    <3>6. QED
      BY <3>3, <3>4, <3>5
  <2>5. QED
    BY <2>1, <2>3, <2>4
<1>10. QED
  BY <1>2, <1>7, <1>8, <1>9, NoAskIsFine, CallMoves

LEMMA WizardStepsKeep ==
    ASSUME ResetInv, NEW t \in Wizards,
           \/ handleSendCode(t) \/ handleResend(t) \/ handleResetPassword(t)
           \/ changeEmail(t) \/ LoadWizard(t)
           \/ \E u \in Users : TypeEmail(t, u)
           \/ \E c \in posted \cup {0} : handleVerifyCode(t, c)
    PROVE  ResetInv'
<1>1. CASE handleSendCode(t) \/ handleResend(t)
  BY <1>1, StartsCallKeeps DEF handleSendCode, handleResend, Slots
<1>2. CASE handleResetPassword(t)
  <2>1. Known(wizard[t].holds.code, wizard[t].holds.user)
    BY <1>2 DEF handleResetPassword, Shows, ResetInv, WizardKnows
  <2>2. QED
    BY <1>2, <2>1, StartsCallKeeps DEF handleResetPassword, Slots
<1>3. ASSUME NEW c, handleVerifyCode(t, c) PROVE ResetInv'
  BY <1>3, StartsCallKeeps DEF handleVerifyCode, Slots
<1>4. CASE changeEmail(t)
  <2>1. IsWizard(EmptyWizard) /\ WizardKnows(EmptyWizard)
    BY DEF IsWizard, EmptyWizard, WizardKnows
  <2>2. QED
    BY <1>4, <2>1, WizardMoves DEF changeEmail
<1>5. CASE LoadWizard(t)
  BY <1>5, LoadWizardKeeps
<1>6. ASSUME NEW u, TypeEmail(t, u) PROVE ResetInv'
  <2>1. PICK w : w = [wizard[t] EXCEPT !.email = u]
    OBVIOUS
  <2>2. IsWizard(wizard[t]) /\ wizard[t].step = "email"
    BY <1>6 DEF ResetInv, WizardShapes, TypeEmail, Shows
  <2>3. IsWizard(w) /\ w.step = "email"
    BY <2>1, <2>2, WizardShowing
  <2>4. WizardKnows(w)
    BY <2>3 DEF WizardKnows
  <2>5. wizard' = [wizard EXCEPT ![t] = w] /\ UNCHANGED <<codes, made, resets, asking>>
    BY <1>6, <2>1 DEF TypeEmail
  <2>6. QED
    BY <2>3, <2>4, <2>5, WizardMoves
<1>7. QED
  BY <1>1, <1>2, <1>3, <1>4, <1>5, <1>6

LEMMA ServerStepsKeep ==
    ASSUME ResetInv, NEW t \in Wizards, NEW s \in Slots,
           \/ RequestChecked(t, s) \/ RequestRecorded(t, s) \/ RequestDeletes(t, s)
           \/ RequestCreates(t, s) \/ RequestSends(t, s)
           \/ VerifyFinds(t, s) \/ VerifyMisses(t, s) \/ VerifyMarks(t, s)
           \/ ResetFinds(t, s) \/ ResetSaves(t, s) \/ ResetCloses(t, s)
    PROVE  ResetInv'
BY RequestCheckedKeeps, RequestRecordedKeeps, RequestDeletesKeeps, RequestCreatesKeeps,
   RequestSendsKeeps, VerifyFindsKeeps, VerifyMissesKeeps, VerifyMarksKeeps, ResetFindsKeeps,
   ResetSavesKeeps, ResetClosesKeeps

LEMMA ResetNextKeeps ==
    ASSUME ResetInv, [NextSignIn]_signInVars
    PROVE  ResetInv'
<1>1. CASE UNCHANGED signInVars
  BY <1>1, ResetsApart DEF signInVars, reset
<1>2. ASSUME NEW t \in Tabs,
             \/ LoginChecks(t) \/ LoginReads(t) \/ LoginSaves(t) \/ Registers(t)
             \/ LoadPage(t) \/ Asks(t) \/ logout(t) \/ getSocket(t)
             \/ \E u \in Users, p \in {OldPassword, NewPassword, NoUser} : LoginSubmit(t, u, p)
      PROVE  ResetInv'
  <2>1. UNCHANGED reset
    BY <1>2 DEF LoginChecks, LoginReads, LoginSaves, Registers, LoadPage, Asks, logout,
                getSocket, LoginSubmit
  <2>2. QED
    BY <2>1, ResetsApart DEF reset
<1>3. ASSUME NEW t \in Tabs, NEW q, NEW answer, Answered(t, q, answer)
      PROVE  ResetInv'
  <2>1. UNCHANGED reset
    BY <1>3 DEF Answered
  <2>2. QED
    BY <2>1, ResetsApart DEF reset
<1>4. ASSUME NEW c, CodeExpires(c) \/ SessionExpires(c)
      PROVE  ResetInv'
  BY <1>4, ResetsApart DEF CodeExpires, SessionExpires
<1>5. ASSUME NEW u \in Users, ThrottleEases(u)
      PROVE  ResetInv'
  BY <1>5, ThrottleEasesKeeps
<1>6. QED
  BY <1>1, <1>2, <1>3, <1>4, <1>5, WizardStepsKeep, ServerStepsKeep DEF NextSignIn

(* A password is set for the user whose code was verified, and what could    *)
(* set it again is gone when the reset is over.                              *)
THEOREM ResetsAreSafe == SignInSpec => []ResetIsSafe
<1>1. ResetInv => ResetIsSafe
  BY DEF ResetInv, ResetIsSafe, ResetIsTheOwners, ResetKnows
<1>2. ResetInv /\ [NextSignIn]_signInVars => ResetInv'
  BY ResetNextKeeps
<1>3. QED
  BY InitResetInv, <1>1, <1>2, PTL DEF SignInSpec

-----------------------------------------------------------------------------
(* The feed: the record of the provider, and what its functions leave alone  *)

IsFeed(f) ==
    /\ f = [state |-> f.state, attempts |-> f.attempts, quitting |-> f.quitting,
            timers |-> f.timers, wanted |-> f.wanted, current |-> f.current,
            socket |-> f.socket, origin |-> f.origin, asked |-> f.asked]
    /\ f.current \in 0..MaxSockets
    /\ f.socket = [s \in Sockets |-> f.socket[s]]
    /\ f.origin = [s \in Sockets |-> f.origin[s]]
    /\ f.asked = [s \in Sockets |-> f.asked[s]]

SameSockets(m, f) ==
    m.current = f.current /\ m.socket = f.socket /\ m.origin = f.origin /\ m.quitting = f.quitting
SameWishes(m, f) == m.wanted = f.wanted /\ m.asked = f.asked
SameState(m, f) == m.state = f.state /\ m.timers = f.timers

LEMMA SubscribeFeedFields ==
    ASSUME NEW f, NEW i, NEW m, IsFeed(f), m = SubscribeFeed(f, i)
    PROVE  /\ IsFeed(m) /\ SameSockets(m, f) /\ SameState(m, f)
           /\ m.wanted = f.wanted \cup {i}
           /\ \A s \in Sockets : m.asked[s] = f.asked[s] \cup IF Hears(f, s) THEN {i} ELSE {}
BY DEF IsFeed, SubscribeFeed, SameSockets, SameState

LEMMA UnsubscribeFeedFields ==
    ASSUME NEW f, NEW gone, NEW m, IsFeed(f), m = UnsubscribeFeed(f, gone)
    PROVE  /\ IsFeed(m) /\ SameSockets(m, f) /\ SameState(m, f)
           /\ m.wanted = f.wanted \ gone
           /\ \A s \in Sockets : m.asked[s] = f.asked[s] \ IF Hears(f, s) THEN gone ELSE {}
BY DEF IsFeed, UnsubscribeFeed, SameSockets, SameState

LEMMA BecomesFields ==
    ASSUME NEW f, NEW s \in Sockets, NEW what, NEW m, IsFeed(f), m = Becomes(f, s, what)
    PROVE  /\ IsFeed(m) /\ SameState(m, f) /\ SameWishes(m, f)
           /\ m.current = f.current /\ m.origin = f.origin /\ m.quitting = f.quitting
           /\ \A r \in Sockets : m.socket[r] = IF r = s THEN what ELSE f.socket[r]
BY DEF IsFeed, Becomes, SameState, SameWishes

LEMMA WithState ==
    ASSUME NEW f, NEW what, NEW m, IsFeed(f), m = [f EXCEPT !.state = what]
    PROVE  /\ IsFeed(m) /\ SameSockets(m, f) /\ SameWishes(m, f)
           /\ m.state = what /\ m.timers = f.timers
BY DEF IsFeed, SameSockets, SameWishes

LEMMA WithTimers ==
    ASSUME NEW f, NEW n, NEW m, IsFeed(f), m = [f EXCEPT !.timers = n]
    PROVE  /\ IsFeed(m) /\ SameSockets(m, f) /\ SameWishes(m, f)
           /\ m.state = f.state /\ m.timers = n
BY DEF IsFeed, SameSockets, SameWishes

Opened(f, s) == [Becomes(f, s, "open") EXCEPT !.attempts = 0, !.state = "CONNECTED"]

LEMMA OpenedFields ==
    ASSUME NEW f, NEW s \in Sockets, NEW m, IsFeed(f), m = Opened(f, s)
    PROVE  /\ IsFeed(m) /\ SameWishes(m, f)
           /\ m.state = "CONNECTED" /\ m.timers = f.timers
           /\ m.current = f.current /\ m.origin = f.origin /\ m.quitting = f.quitting
           /\ \A r \in Sockets : m.socket[r] = IF r = s THEN "open" ELSE f.socket[r]
BY DEF IsFeed, Opened, Becomes, SameWishes

LEMMA ResubscribedFields ==
    ASSUME NEW f, NEW m, IsFeed(f), m = Resubscribed(f)
    PROVE  /\ IsFeed(m) /\ SameSockets(m, f) /\ SameState(m, f) /\ m.wanted = f.wanted
           /\ \A s \in Sockets :
                /\ Hears(f, s) => m.asked[s] = f.asked[s] \cup f.wanted
                /\ ~Hears(f, s) => m.asked[s] = f.asked[s]
BY DEF IsFeed, Resubscribed, SameSockets, SameState, Hears, IsOpen

LEMMA ScheduledFields ==
    ASSUME NEW f, NEW m, IsFeed(f), m = Scheduled(f)
    PROVE  /\ IsFeed(m) /\ SameSockets(m, f) /\ SameWishes(m, f)
           /\ \/ m.state = "DISCONNECTED" /\ m.timers = f.timers
              \/ m.state = "RECONNECTING" /\ m.timers = f.timers + 1
BY DEF IsFeed, Scheduled, SameSockets, SameWishes

LEMMA ConnectsFields ==
    ASSUME NEW f, NEW who, NEW m, IsFeed(f), CanConnect(f), m = Connects(f, who)
    PROVE  /\ IsFeed(m) /\ m.current = f.current + 1 /\ m.current \in Sockets
           /\ ~m.quitting /\ m.timers = f.timers /\ m.wanted = f.wanted
           /\ m.origin[m.current] = who
           /\ Mock => /\ m.state = "CONNECTED" /\ m.socket[m.current] = "open"
                      /\ m.asked[m.current] = f.wanted
           /\ ~Mock => /\ m.state = "CONNECTING" /\ m.socket[m.current] = "connecting"
                       /\ m.asked[m.current] = {}
           /\ \A s \in Sockets : s # m.current => m.socket[s] = f.socket[s]
<1>. DEFINE at == f.current + 1
<1>1. MaxSockets \in Nat /\ f.current \in 0..MaxSockets /\ f.current < MaxSockets
  BY MarketFeedAssumption DEF IsFeed, CanConnect
<1>2. at \in 0..MaxSockets /\ at \in Sockets
  BY <1>1 DEF Sockets
<1>3. /\ m.state = IF Mock THEN "CONNECTED" ELSE "CONNECTING"
      /\ ~m.quitting /\ m.timers = f.timers /\ m.wanted = f.wanted /\ m.current = at
      /\ m.socket = [f.socket EXCEPT ![at] = IF Mock THEN "open" ELSE "connecting"]
      /\ m.origin = [f.origin EXCEPT ![at] = who]
      /\ m.asked = [f.asked EXCEPT ![at] = IF Mock THEN f.wanted ELSE {}]
      /\ m = [state |-> m.state, attempts |-> m.attempts, quitting |-> m.quitting,
              timers |-> m.timers, wanted |-> m.wanted, current |-> m.current,
              socket |-> m.socket, origin |-> m.origin, asked |-> m.asked]
  BY DEF Connects
<1>. HIDE DEF at
<1>4. /\ m.socket = [s \in Sockets |-> m.socket[s]]
      /\ m.origin = [s \in Sockets |-> m.origin[s]]
      /\ m.asked = [s \in Sockets |-> m.asked[s]]
      /\ \A s \in Sockets :
           /\ m.socket[s] = IF s # at THEN f.socket[s] ELSE IF Mock THEN "open" ELSE "connecting"
           /\ m.origin[s] = IF s # at THEN f.origin[s] ELSE who
           /\ m.asked[s] = IF s # at THEN f.asked[s] ELSE IF Mock THEN f.wanted ELSE {}
  BY <1>2, <1>3 DEF IsFeed
<1>5. QED
  BY <1>2, <1>3, <1>4 DEF IsFeed, at

(* What a lost socket does to the provider: nothing to what is wanted.       *)
LEMMA DroppedFields ==
    ASSUME NEW f, NEW m, IsFeed(f), m = Dropped(f)
    PROVE  IsFeed(m) /\ SameSockets(m, f) /\ SameWishes(m, f)
<1>1. CASE m = f
  BY <1>1 DEF SameSockets, SameWishes
<1>2. CASE m = Scheduled(f)
  BY <1>2, ScheduledFields
<1>3. QED
  BY <1>1, <1>2 DEF Dropped

LEMMA ThrownFields ==
    ASSUME NEW f, NEW s, NEW m, IsFeed(f), m = ConnectThrows(f, s)
    PROVE  IsFeed(m) /\ SameSockets(m, f) /\ SameWishes(m, f)
<1>1. CASE m = f
  BY <1>1 DEF SameSockets, SameWishes
<1>2. CASE m = Scheduled(f)
  BY <1>2, ScheduledFields
<1>3. QED
  BY <1>1, <1>2 DEF ConnectThrows

LEMMA ClearedFields ==
    ASSUME NEW f, NEW m, IsFeed(f), m = TimerCleared(f)
    PROVE  IsFeed(m) /\ SameSockets(m, f) /\ SameWishes(m, f)
BY WithTimers DEF TimerCleared
-----------------------------------------------------------------------------
(* What has been asked for: an open socket that is the client's has asked for *)
(* all that is wanted, one that connects for nothing yet.                     *)

HasAsked(f) ==
    /\ IsOpen(f) => f.asked[f.current] = f.wanted
    /\ (f.current # 0 /\ f.socket[f.current] = "connecting") => f.asked[f.current] = {}

LEMMA SameHasAsked ==
    ASSUME NEW f, NEW m, HasAsked(f), m.current = f.current, m.socket = f.socket, SameWishes(m, f)
    PROVE  HasAsked(m)
BY DEF HasAsked, SameWishes, IsOpen

LEMMA SameSocketsAsked ==
    ASSUME NEW f, NEW m, HasAsked(f), SameSockets(m, f), SameWishes(m, f)
    PROVE  HasAsked(m)
BY SameHasAsked DEF SameSockets

(* A socket that closes leaves the client without an open one, or another    *)
(* one open.                                                                 *)
LEMMA BecomesAsked ==
    ASSUME NEW f, NEW s \in Sockets, NEW what, NEW m, IsFeed(f), HasAsked(f),
           what \in {"closing", "aborting", "closed"}, m = Becomes(f, s, what)
    PROVE  IsFeed(m) /\ HasAsked(m) /\ m.wanted = f.wanted
<1>1. MaxSockets \in Nat
  BY MarketFeedAssumption
<1>2. f.current # 0 => f.current \in Sockets
  BY <1>1 DEF IsFeed, Sockets
<1>3. QED
  BY <1>2, BecomesFields DEF HasAsked, IsOpen, SameWishes

LEMMA ConnectsAsked ==
    ASSUME NEW f, NEW who, NEW m, IsFeed(f), CanConnect(f), m = Connects(f, who)
    PROVE  IsFeed(m) /\ HasAsked(m) /\ m.wanted = f.wanted
<1>1. /\ IsFeed(m) /\ m.wanted = f.wanted
      /\ Mock => m.socket[m.current] = "open" /\ m.asked[m.current] = f.wanted
      /\ ~Mock => m.socket[m.current] = "connecting" /\ m.asked[m.current] = {}
  BY ConnectsFields
<1>2. HasAsked(m)
  BY <1>1 DEF HasAsked, IsOpen
<1>3. QED
  BY <1>1, <1>2

LEMMA DropsAsked ==
    ASSUME NEW f, NEW m, IsFeed(f), HasAsked(f), m = Dropped(f)
    PROVE  IsFeed(m) /\ HasAsked(m) /\ m.wanted = f.wanted
BY DroppedFields, SameSocketsAsked DEF SameWishes

LEMMA ThrowsAsked ==
    ASSUME NEW f, NEW s, NEW m, IsFeed(f), HasAsked(f), m = ConnectThrows(f, s)
    PROVE  IsFeed(m) /\ HasAsked(m) /\ m.wanted = f.wanted
BY ThrownFields, SameSocketsAsked DEF SameWishes

LEMMA ClosesAsked ==
    ASSUME NEW s, NEW f, IsFeed(f), HasAsked(f), Closes(s, f)
    PROVE  IsFeed(feed') /\ HasAsked(feed') /\ feed'.wanted = f.wanted
<1>1. CASE service.stopping # s
  BY <1>1 DEF Closes
<1>2. CASE service.stopping = s
  <2>1. PICK g : g = [f EXCEPT !.state = "DISCONNECTED"]
    OBVIOUS
  <2>2. IsFeed(g) /\ HasAsked(g) /\ g.wanted = f.wanted
    BY <2>1, WithState, SameSocketsAsked DEF SameWishes
  <2>3. feed' = g \/ (CanConnect(g) /\ feed' = Connects(g, "start"))
    BY <1>2, <2>1 DEF Closes
  <2>4. QED
    BY <2>2, <2>3, ConnectsAsked
<1>3. QED
  BY <1>1, <1>2

LEMMA OpensAsked ==
    ASSUME NEW s \in Sockets, IsFeed(feed), HasAsked(feed), Opens(s)
    PROVE  IsFeed(feed') /\ HasAsked(feed') /\ feed'.wanted = feed.wanted
<1>1. PICK f : f = Opened(feed, s)
  OBVIOUS
<1>2. feed.socket[s] = "connecting"
      /\ feed' = IF CanSend(f) THEN Resubscribed(f) ELSE ConnectThrows(f, s)
  BY <1>1 DEF Opens, Opened
<1>3. /\ IsFeed(f) /\ f.wanted = feed.wanted /\ f.asked = feed.asked /\ f.current = feed.current
      /\ \A r \in Sockets : f.socket[r] = IF r = s THEN "open" ELSE feed.socket[r]
  BY <1>1, OpenedFields DEF SameWishes
<1>4. f.current # 0 => f.current \in Sockets
  BY <1>3, MarketFeedAssumption DEF IsFeed, Sockets
<1>5. IsOpen(f) => f.asked[f.current] \in {{}, f.wanted}
  BY <1>2, <1>3, <1>4 DEF HasAsked, IsOpen
<1>6. (f.current # 0 /\ f.socket[f.current] = "connecting") => f.asked[f.current] = {}
  BY <1>3, <1>4 DEF HasAsked
<1>7. CASE CanSend(f)
  <2>1. /\ IsFeed(feed') /\ SameSockets(feed', f) /\ feed'.wanted = f.wanted
        /\ \A r \in Sockets :
             /\ Hears(f, r) => feed'.asked[r] = f.asked[r] \cup f.wanted
             /\ ~Hears(f, r) => feed'.asked[r] = f.asked[r]
    <3>1. PICK m : m = Resubscribed(f)
      OBVIOUS
    <3>2. feed' = m
      BY <1>2, <1>7, <3>1
    <3>3. QED
      BY <1>3, <3>1, <3>2, ResubscribedFields
  <2>2. HasAsked(feed')
    BY <1>4, <1>5, <1>6, <2>1 DEF HasAsked, SameSockets, IsOpen, Hears
  <2>3. QED
    BY <1>3, <2>1, <2>2
<1>8. CASE ~CanSend(f)
  <2>1. HasAsked(f)
    BY <1>6, <1>8 DEF HasAsked, CanSend
  <2>2. QED
    BY <1>2, <1>3, <1>8, <2>1, ThrowsAsked
<1>9. QED
  BY <1>7, <1>8

LEMMA StopFeedAsked ==
    ASSUME NEW next, IsFeed(feed), HasAsked(feed), StopFeed(next)
    PROVE  IsFeed(feed') /\ HasAsked(feed') /\ feed'.wanted = feed.wanted
<1>1. PICK q : q = [feed EXCEPT !.quitting = TRUE]
  OBVIOUS
<1>2. IsFeed(q) /\ q.current = feed.current /\ q.socket = feed.socket /\ SameWishes(q, feed)
  BY <1>1 DEF IsFeed, SameWishes
<1>3. PICK f : f = TimerCleared(q)
  OBVIOUS
<1>4. IsFeed(f) /\ HasAsked(f) /\ f.wanted = feed.wanted /\ f.current = feed.current
  BY <1>2, <1>3, ClearedFields, SameHasAsked DEF SameSockets, SameWishes
<1>5. PICK s : s = feed.current
  OBVIOUS
<1>6. s # 0 => s \in Sockets
  BY <1>4, <1>5, MarketFeedAssumption DEF IsFeed, Sockets
<1>7. CASE s = 0 \/ Mock
  <2>1. feed' = [f EXCEPT !.state = "DISCONNECTED",
                          !.socket = IF s = 0 THEN @ ELSE [@ EXCEPT ![s] = "closed"]]
    BY <1>1, <1>3, <1>5, <1>7 DEF StopFeed
  <2>2. PICK g : g = [f EXCEPT !.state = "DISCONNECTED"]
    OBVIOUS
  <2>3. IsFeed(g) /\ HasAsked(g) /\ g.wanted = f.wanted
    BY <1>4, <2>2, WithState, SameSocketsAsked DEF SameWishes
  <2>4. CASE s = 0
    <3>1. feed' = g
      BY <1>4, <2>1, <2>2, <2>4 DEF IsFeed
    <3>2. QED
      BY <1>4, <2>3, <3>1
  <2>5. CASE s # 0
    <3>1. feed' = Becomes(g, s, "closed")
      BY <1>4, <2>1, <2>2, <2>5 DEF IsFeed, Becomes
    <3>2. QED
      BY <1>4, <1>6, <2>3, <2>5, <3>1, BecomesAsked
  <2>6. QED
    BY <2>4, <2>5
<1>8. CASE ~(s = 0 \/ Mock)
  <2>1. feed' = CASE f.socket[s] = "open" -> Becomes(f, s, "closing")
                  [] f.socket[s] = "connecting" -> Becomes(f, s, "aborting")
                  [] OTHER -> f
    BY <1>1, <1>3, <1>5, <1>8 DEF StopFeed
  <2>2. \/ feed' = Becomes(f, s, "closing") \/ feed' = Becomes(f, s, "aborting")
        \/ feed' = f
    BY <2>1
  <2>3. QED
    BY <1>4, <1>6, <1>8, <2>2, BecomesAsked
<1>9. QED
  BY <1>7, <1>8

(* What the sockets, the timers and the service do *)
FeedMoves ==
    \/ StartFeed \/ TimerFires \/ WatchdogFires
    \/ \E next \in {"rest", "start"} : StopFeed(next)
    \/ \E s \in Sockets : Opens(s) \/ FailsToOpen(s) \/ Drops(s) \/ BeginsToClose(s) \/ Closed(s)

LEMMA FeedMovesAsked ==
    ASSUME IsFeed(feed), HasAsked(feed), FeedMoves
    PROVE  /\ IsFeed(feed') /\ HasAsked(feed') /\ feed'.wanted = feed.wanted
           /\ UNCHANGED <<subscribers, quoted, browser, inbox, link, rooms, trade>>
<1>1. UNCHANGED <<subscribers, quoted, browser, inbox, link, rooms, trade>>
  BY DEF FeedMoves, StartFeed, TimerFires, WatchdogFires, StopFeed, Opens, FailsToOpen, Drops,
         BeginsToClose, Closed, gateway
<1>2. CASE StartFeed
  BY <1>1, <1>2, ConnectsAsked DEF StartFeed
<1>3. CASE TimerFires
  <2>1. PICK f : f = [feed EXCEPT !.timers = @ - 1]
    OBVIOUS
  <2>2. IsFeed(f) /\ f.wanted = feed.wanted /\ f.current = feed.current
    BY <2>1, WithTimers DEF SameSockets, SameWishes
  <2>3. QED
    <3>1. CanConnect(f) /\ feed' = Connects(f, "timer")
      BY <1>3, <2>1, <2>2 DEF TimerFires, CanConnect
    <3>2. QED
      BY <1>1, <2>2, <3>1, ConnectsAsked
<1>4. CASE WatchdogFires
  <2>1. PICK f : f = TimerCleared(feed)
    OBVIOUS
  <2>2. IsFeed(f) /\ f.wanted = feed.wanted /\ f.current = feed.current
    BY <2>1, ClearedFields DEF SameSockets, SameWishes
  <2>3. QED
    BY <1>1, <1>4, <2>1, <2>2, ConnectsAsked DEF WatchdogFires, CanConnect
<1>5. ASSUME NEW next, StopFeed(next)
      PROVE  IsFeed(feed') /\ HasAsked(feed') /\ feed'.wanted = feed.wanted
  BY <1>5, StopFeedAsked
<1>6. ASSUME NEW s \in Sockets, Opens(s)
      PROVE  IsFeed(feed') /\ HasAsked(feed') /\ feed'.wanted = feed.wanted
  BY <1>6, OpensAsked
<1>7. ASSUME NEW s \in Sockets, FailsToOpen(s) \/ Drops(s) \/ Closed(s)
      PROVE  IsFeed(feed') /\ HasAsked(feed') /\ feed'.wanted = feed.wanted
  <2>1. PICK f : f = Becomes(feed, s, "closed")
    OBVIOUS
  <2>2. IsFeed(f) /\ HasAsked(f) /\ f.wanted = feed.wanted
    BY <2>1, BecomesAsked
  <2>3. PICK g : g = Dropped(f)
    OBVIOUS
  <2>4. IsFeed(g) /\ HasAsked(g) /\ g.wanted = feed.wanted
    BY <2>2, <2>3, DropsAsked
  <2>5. PICK h : h = Dropped(ConnectThrows(g, s))
    OBVIOUS
  <2>6. IsFeed(h) /\ HasAsked(h) /\ h.wanted = feed.wanted
    BY <2>4, <2>5, ThrowsAsked, DropsAsked
  <2>7. PICK k : k = Dropped(g)
    OBVIOUS
  <2>8. IsFeed(k) /\ HasAsked(k) /\ k.wanted = feed.wanted
    BY <2>4, <2>7, DropsAsked
  <2>9. Closes(s, h) \/ Closes(s, k) \/ Closes(s, g)
    BY <1>7, <2>1, <2>3, <2>5, <2>7 DEF FailsToOpen, Drops, Closed
  <2>10. QED
    BY <2>4, <2>6, <2>8, <2>9, ClosesAsked
<1>8. ASSUME NEW s \in Sockets, BeginsToClose(s)
      PROVE  IsFeed(feed') /\ HasAsked(feed') /\ feed'.wanted = feed.wanted
  BY <1>8, BecomesAsked DEF BeginsToClose
<1>9. QED
  BY <1>1, <1>2, <1>3, <1>4, <1>5, <1>6, <1>7, <1>8 DEF FeedMoves
-----------------------------------------------------------------------------
(* Who watches what: the subscribers are the watchers, what is wanted has    *)
(* some, and a browser in a room that has not seen a known price has asked   *)
(* for it again.                                                             *)

Wants(f, subs) == f.wanted = {i \in Instruments : subs[i] # {}}
AreSubscribers(subs) == subs = [i \in Instruments |-> subs[i]]

FeedInv ==
    IsFeed(feed) /\ HasAsked(feed) /\ AreSubscribers(subscribers) /\ Wants(feed, subscribers)

Messages == [name : {"subscribe", "unsubscribe"}, instrument : Instruments]

(* It has asked for what it shows and has not been answered.                 *)
AsksFor(q, i) == \E k \in 1..Len(q) : q[k] = Message("subscribe", i)

(* What one browser sees, sent, and is in                                    *)
Charted(v, q, l, r) ==
    /\ v = [shows |-> v.shows, seen |-> v.seen]
    /\ v.shows \in Instruments \cup {NoInstrument} /\ v.seen \in BOOLEAN
    /\ q \in Seq(Messages)
    /\ r \subseteq Instruments
    /\ l # "ready" => r = {}
Sees(v, q, r, known) ==
    v.shows # NoInstrument /\ v.shows \in r \cap known /\ ~v.seen => AsksFor(q, v.shows)

GatewayInv ==
    /\ browser = [b \in Browsers |-> browser[b]] /\ inbox = [b \in Browsers |-> inbox[b]]
    /\ link = [b \in Browsers |-> link[b]] /\ rooms = [b \in Browsers |-> rooms[b]]
    /\ \A b \in Browsers : Charted(browser[b], inbox[b], link[b], rooms[b])
    /\ \A b \in Browsers : Sees(browser[b], inbox[b], rooms[b], quoted)

WatchInv ==
    /\ trade = [t \in Trades |-> trade[t]]
    /\ \A i \in Instruments : subscribers[i] = Watching(i)

ServedInv == FeedInv /\ GatewayInv /\ WatchInv

LEMMA InitServedInv == InitFeed => ServedInv
<1>. SUFFICES ASSUME InitFeed PROVE ServedInv
  OBVIOUS
<1>. USE DEF InitFeed
<1>1. IsFeed(feed) /\ HasAsked(feed)
  BY MarketFeedAssumption DEF IsFeed, HasAsked, IsOpen
<1>2. AreSubscribers(subscribers) /\ Wants(feed, subscribers)
  BY DEF AreSubscribers, Wants
<1>3. <<>> \in Seq(Messages)
  BY EmptySeq
<1>4. GatewayInv
  BY <1>3 DEF GatewayInv, Charted, Sees
<1>5. \A i \in Instruments : Watching(i) = {}
  BY DEF Watching
<1>6. WatchInv
  BY <1>5 DEF WatchInv
<1>7. QED
  BY <1>1, <1>2, <1>4, <1>6 DEF ServedInv, FeedInv

(* A subscription and its end: the feed asks for what is still wanted.       *)
LEMMA SubscribesKeeps ==
    ASSUME NEW i \in Instruments, NEW who, FeedInv, Subscribes(i, who)
    PROVE  /\ FeedInv'
           /\ \A j \in Instruments :
                subscribers'[j] = subscribers[j] \cup IF j = i THEN {who} ELSE {}
<1>1. PICK m : m = SubscribeFeed(feed, i)
  OBVIOUS
<1>2. /\ IsFeed(m) /\ SameSockets(m, feed) /\ m.wanted = feed.wanted \cup {i}
      /\ \A s \in Sockets : m.asked[s] = feed.asked[s] \cup IF Hears(feed, s) THEN {i} ELSE {}
  BY <1>1, SubscribeFeedFields DEF FeedInv
<1>3. feed.current # 0 => feed.current \in Sockets
  BY MarketFeedAssumption DEF FeedInv, IsFeed, Sockets
<1>4. HasAsked(m)
  BY <1>2, <1>3 DEF FeedInv, HasAsked, SameSockets, IsOpen, Hears
<1>5. /\ subscribers' = [subscribers EXCEPT ![i] = @ \cup {who}]
      /\ feed' = IF subscribers[i] # {} THEN feed ELSE m
  BY <1>1 DEF Subscribes
<1>6. /\ AreSubscribers(subscribers')
      /\ \A j \in Instruments :
           subscribers'[j] = subscribers[j] \cup IF j = i THEN {who} ELSE {}
  BY <1>5 DEF FeedInv, AreSubscribers
<1>7. IsFeed(feed') /\ HasAsked(feed') /\ feed'.wanted = feed.wanted \cup {i}
  BY <1>2, <1>4, <1>5 DEF FeedInv, Wants
<1>8. Wants(feed', subscribers')
  BY <1>6, <1>7 DEF FeedInv, Wants
<1>9. QED
  BY <1>6, <1>7, <1>8 DEF FeedInv

LEMMA UnsubscribesKeeps ==
    ASSUME NEW is \in SUBSET Instruments, NEW who, FeedInv, Unsubscribes(is, who)
    PROVE  /\ FeedInv'
           /\ \A j \in Instruments :
                subscribers'[j] = subscribers[j] \ IF j \in is THEN {who} ELSE {}
<1>1. PICK gone : gone = {i \in is : subscribers[i] = {who}}
  OBVIOUS
<1>2. PICK m : m = UnsubscribeFeed(feed, gone)
  OBVIOUS
<1>3. /\ IsFeed(m) /\ SameSockets(m, feed) /\ m.wanted = feed.wanted \ gone
      /\ \A s \in Sockets : m.asked[s] = feed.asked[s] \ IF Hears(feed, s) THEN gone ELSE {}
  BY <1>2, UnsubscribeFeedFields DEF FeedInv
<1>4. feed.current # 0 => feed.current \in Sockets
  BY MarketFeedAssumption DEF FeedInv, IsFeed, Sockets
<1>5. HasAsked(m)
  BY <1>3, <1>4 DEF FeedInv, HasAsked, SameSockets, IsOpen, Hears
<1>6. feed' = m /\ subscribers' = Unsubscribed(subscribers, who, is)
  BY <1>1, <1>2 DEF Unsubscribes
<1>7. /\ AreSubscribers(subscribers')
      /\ \A j \in Instruments :
           subscribers'[j] = subscribers[j] \ IF j \in is THEN {who} ELSE {}
  BY <1>6 DEF Unsubscribed, AreSubscribers
<1>8. \A j \in Instruments : subscribers'[j] # {} <=> subscribers[j] # {} /\ j \notin gone
  BY <1>1, <1>7
<1>9. Wants(feed', subscribers')
  BY <1>3, <1>6, <1>8 DEF FeedInv, Wants
<1>10. QED
  BY <1>3, <1>5, <1>6, <1>7, <1>9 DEF FeedInv
-----------------------------------------------------------------------------
(* One browser at a time *)

SetAt(g, f, b, v) == g = [c \in Browsers |-> IF c = b THEN v ELSE f[c]]

LEMMA BrowserChanges ==
    ASSUME NEW b \in Browsers, NEW v, NEW q, NEW l, NEW r, GatewayInv,
           SetAt(browser', browser, b, v), SetAt(inbox', inbox, b, q), SetAt(link', link, b, l),
           SetAt(rooms', rooms, b, r), UNCHANGED quoted,
           Charted(v, q, l, r), Sees(v, q, r, quoted)
    PROVE  GatewayInv'
<1>1. /\ browser' = [c \in Browsers |-> browser'[c]] /\ inbox' = [c \in Browsers |-> inbox'[c]]
      /\ link' = [c \in Browsers |-> link'[c]] /\ rooms' = [c \in Browsers |-> rooms'[c]]
      /\ \A c \in Browsers :
           /\ browser'[c] = IF c = b THEN v ELSE browser[c]
           /\ inbox'[c] = IF c = b THEN q ELSE inbox[c]
           /\ link'[c] = IF c = b THEN l ELSE link[c]
           /\ rooms'[c] = IF c = b THEN r ELSE rooms[c]
  BY DEF SetAt
<1>2. ASSUME NEW c \in Browsers
      PROVE  /\ Charted(browser'[c], inbox'[c], link'[c], rooms'[c])
             /\ Sees(browser'[c], inbox'[c], rooms'[c], quoted')
  <2>1. CASE c = b
    BY <1>1, <2>1
  <2>2. CASE c # b
    BY <1>1, <2>2 DEF GatewayInv
  <2>3. QED
    BY <2>1, <2>2
<1>3. QED
  BY <1>1, <1>2 DEF GatewayInv

LEMMA AtSame ==
    ASSUME NEW b, NEW f, NEW g, f = [c \in Browsers |-> f[c]], g = f
    PROVE  SetAt(g, f, b, f[b])
BY DEF SetAt

LEMMA AtExcept ==
    ASSUME NEW b, NEW f, NEW v, NEW g, f = [c \in Browsers |-> f[c]], g = [f EXCEPT ![b] = v]
    PROVE  SetAt(g, f, b, v)
BY DEF SetAt

(* A message is added behind, and one is taken from the front.               *)
LEMMA SendsMore ==
    ASSUME NEW q \in Seq(Messages), NEW m \in Messages, NEW i
    PROVE  /\ Append(q, m) \in Seq(Messages)
           /\ AsksFor(q, i) => AsksFor(Append(q, m), i)
           /\ m = Message("subscribe", i) => AsksFor(Append(q, m), i)
<1>1. /\ Append(q, m) \in Seq(Messages) /\ Len(Append(q, m)) = Len(q) + 1
      /\ \A k \in 1..Len(q) : Append(q, m)[k] = q[k]
      /\ Append(q, m)[Len(q) + 1] = m /\ Len(q) \in Nat
  BY AppendProperties, LenProperties
<1>2. AsksFor(q, i) => AsksFor(Append(q, m), i)
  BY <1>1 DEF AsksFor
<1>3. m = Message("subscribe", i) => AsksFor(Append(q, m), i)
  BY <1>1 DEF AsksFor
<1>4. QED
  BY <1>1, <1>2, <1>3

LEMMA ReadsOne ==
    ASSUME NEW q \in Seq(Messages), q # <<>>, NEW i
    PROVE  /\ Head(q) \in Messages /\ Tail(q) \in Seq(Messages)
           /\ AsksFor(q, i) /\ Head(q) # Message("subscribe", i) => AsksFor(Tail(q), i)
<1>1. /\ Head(q) \in Messages /\ Head(q) = q[1] /\ Tail(q) \in Seq(Messages)
      /\ Len(Tail(q)) = Len(q) - 1 /\ Len(q) \in Nat
      /\ \A k \in 1..Len(Tail(q)) : Tail(q)[k] = q[k + 1]
  BY HeadTailProperties, LenProperties
<1>2. ASSUME AsksFor(q, i), Head(q) # Message("subscribe", i) PROVE AsksFor(Tail(q), i)
  <2>1. PICK k \in 1..Len(q) : q[k] = Message("subscribe", i)
    BY <1>2 DEF AsksFor
  <2>2. k # 1
    BY <1>1, <1>2, <2>1
  <2>3. k - 1 \in 1..Len(Tail(q)) /\ Tail(q)[k - 1] = Message("subscribe", i)
    BY <1>1, <2>1, <2>2
  <2>4. QED
    BY <2>3 DEF AsksFor
<1>3. QED
  BY <1>1, <1>2
(* What a browser and the gateway do to what a browser sees.  The rooms of   *)
(* which prices come are those it is in.                                     *)
LEMMA QuotesKeeps ==
    ASSUME NEW i \in Instruments, GatewayInv, Quotes(i)
    PROVE  GatewayInv'
<1>1. /\ UNCHANGED <<inbox, link, rooms>> /\ quoted' = quoted \cup {i}
      /\ browser' = [b \in Browsers |->
                       IF i \in rooms[b] /\ browser[b].shows = i
                       THEN [browser[b] EXCEPT !.seen = TRUE] ELSE browser[b]]
  BY DEF Quotes
<1>2. ASSUME NEW b \in Browsers
      PROVE  /\ Charted(browser'[b], inbox[b], link[b], rooms[b])
             /\ Sees(browser'[b], inbox[b], rooms[b], quoted')
  <2>1. /\ Charted(browser[b], inbox[b], link[b], rooms[b])
        /\ Sees(browser[b], inbox[b], rooms[b], quoted)
    BY DEF GatewayInv
  <2>2. CASE i \in rooms[b] /\ browser[b].shows = i
    <3>1. PICK v : v = [browser[b] EXCEPT !.seen = TRUE]
      OBVIOUS
    <3>2. browser'[b] = v
      BY <1>1, <2>2, <3>1
    <3>3. v = [shows |-> v.shows, seen |-> v.seen] /\ v.shows = i /\ v.seen
      BY <2>1, <2>2, <3>1 DEF Charted
    <3>4. v.seen \in BOOLEAN
      BY <2>1, <3>1 DEF Charted
    <3>5. QED
      BY <2>1, <3>2, <3>3, <3>4 DEF Charted, Sees
  <2>3. CASE ~(i \in rooms[b] /\ browser[b].shows = i)
    <3>1. browser'[b] = browser[b]
      BY <1>1, <2>3
    <3>2. QED
      BY <1>1, <2>1, <2>3, <3>1 DEF Sees
  <2>4. QED
    BY <2>2, <2>3
<1>3. QED
  BY <1>1, <1>2 DEF GatewayInv

LEMMA ShowKeeps ==
    ASSUME NEW b \in Browsers, NEW i \in Instruments, GatewayInv, Show(b, i)
    PROVE  GatewayInv'
<1>1. PICK v : v = [shows |-> i, seen |-> FALSE]
  OBVIOUS
<1>2. PICK q : q = IF link[b] = "down" THEN inbox[b] ELSE Append(inbox[b], Message("subscribe", i))
  OBVIOUS
<1>3. UNCHANGED <<quoted, link, rooms>> /\ browser' = [browser EXCEPT ![b] = v]
  BY <1>1 DEF Show
<1>4. \/ inbox' = inbox /\ q = inbox[b]
      \/ inbox' = [inbox EXCEPT ![b] = q]
  BY <1>2 DEF Show, Sends
<1>5. /\ SetAt(browser', browser, b, v) /\ SetAt(inbox', inbox, b, q) /\ SetAt(link', link, b, link[b])
      /\ SetAt(rooms', rooms, b, rooms[b])
  BY <1>3, <1>4, AtSame, AtExcept DEF GatewayInv
<1>6. Charted(browser[b], inbox[b], link[b], rooms[b])
  BY DEF GatewayInv
<1>7. v = [shows |-> v.shows, seen |-> v.seen] /\ v.shows = i /\ v.seen \in BOOLEAN
  BY <1>1
<1>8. Message("subscribe", i) \in Messages
  BY DEF Message, Messages
<1>9. q \in Seq(Messages) /\ (link[b] # "down" => AsksFor(q, i))
  BY <1>2, <1>6, <1>8, SendsMore DEF Charted
<1>10. Charted(v, q, link[b], rooms[b]) /\ Sees(v, q, rooms[b], quoted)
  BY <1>6, <1>7, <1>9 DEF Charted, Sees
<1>11. QED
  BY <1>3, <1>5, <1>10, BrowserChanges

LEMMA HideKeeps ==
    ASSUME NEW b \in Browsers, GatewayInv, Hide(b)
    PROVE  GatewayInv'
<1>1. PICK v : v = [browser[b] EXCEPT !.shows = NoInstrument]
  OBVIOUS
<1>2. PICK q : q = Append(inbox[b], Message("unsubscribe", browser[b].shows))
  OBVIOUS
<1>3. /\ UNCHANGED <<quoted, link, rooms>>
      /\ browser' = [browser EXCEPT ![b] = v] /\ inbox' = [inbox EXCEPT ![b] = q]
      /\ browser[b].shows # NoInstrument
  BY <1>1, <1>2 DEF Hide, Sends
<1>4. /\ SetAt(browser', browser, b, v) /\ SetAt(inbox', inbox, b, q) /\ SetAt(link', link, b, link[b])
      /\ SetAt(rooms', rooms, b, rooms[b])
  BY <1>3, AtSame, AtExcept DEF GatewayInv
<1>5. Charted(browser[b], inbox[b], link[b], rooms[b])
  BY DEF GatewayInv
<1>6. v = [shows |-> v.shows, seen |-> v.seen] /\ v.shows = NoInstrument /\ v.seen \in BOOLEAN
  BY <1>1, <1>5 DEF Charted
<1>7. Message("unsubscribe", browser[b].shows) \in Messages
  BY <1>3, <1>5 DEF Message, Messages, Charted
<1>8. q \in Seq(Messages)
  BY <1>2, <1>5, <1>7, SendsMore DEF Charted
<1>9. Charted(v, q, link[b], rooms[b]) /\ Sees(v, q, rooms[b], quoted)
  BY <1>5, <1>6, <1>8 DEF Charted, Sees
<1>10. QED
  BY <1>3, <1>4, <1>9, BrowserChanges

LEMMA LinkKeeps ==
    ASSUME NEW b \in Browsers, GatewayInv, Link(b)
    PROVE  GatewayInv'
<1>1. PICK q : q = IF browser[b].shows = NoInstrument THEN inbox[b]
                   ELSE Append(inbox[b], Message("subscribe", browser[b].shows))
  OBVIOUS
<1>2. UNCHANGED <<quoted, browser, rooms>> /\ link' = [link EXCEPT ![b] = "verifying"]
      /\ link[b] = "down"
  BY DEF Link
<1>3. \/ inbox' = inbox /\ q = inbox[b]
      \/ inbox' = [inbox EXCEPT ![b] = q]
  BY <1>1 DEF Link, Sends
<1>4. /\ SetAt(browser', browser, b, browser[b]) /\ SetAt(inbox', inbox, b, q)
      /\ SetAt(link', link, b, "verifying") /\ SetAt(rooms', rooms, b, rooms[b])
  BY <1>2, <1>3, AtSame, AtExcept DEF GatewayInv
<1>5. Charted(browser[b], inbox[b], link[b], rooms[b])
  BY DEF GatewayInv
<1>6. browser[b].shows # NoInstrument => Message("subscribe", browser[b].shows) \in Messages
  BY <1>5 DEF Message, Messages, Charted
<1>7. q \in Seq(Messages)
  BY <1>1, <1>5, <1>6, SendsMore DEF Charted
<1>8. Charted(browser[b], q, "verifying", rooms[b]) /\ Sees(browser[b], q, rooms[b], quoted)
  BY <1>2, <1>5, <1>7 DEF Charted, Sees
<1>9. QED
  BY <1>2, <1>4, <1>8, BrowserChanges

LEMMA VerifiedKeeps ==
    ASSUME NEW b \in Browsers, GatewayInv, Verified(b)
    PROVE  GatewayInv'
<1>1. UNCHANGED <<quoted, browser, inbox, rooms>> /\ link' = [link EXCEPT ![b] = "ready"]
  BY DEF Verified
<1>2. /\ SetAt(browser', browser, b, browser[b]) /\ SetAt(inbox', inbox, b, inbox[b])
      /\ SetAt(link', link, b, "ready") /\ SetAt(rooms', rooms, b, rooms[b])
  BY <1>1, AtSame, AtExcept DEF GatewayInv
<1>3. /\ Charted(browser[b], inbox[b], "ready", rooms[b])
      /\ Sees(browser[b], inbox[b], rooms[b], quoted)
  BY DEF GatewayInv, Charted
<1>4. QED
  BY <1>1, <1>2, <1>3, BrowserChanges

LEMMA ReceiveSubscribeKeeps ==
    ASSUME NEW b \in Browsers, GatewayInv, ReceiveSubscribe(b)
    PROVE  GatewayInv' /\ Head(inbox[b]).instrument \in Instruments
<1>1. PICK i : i = Head(inbox[b]).instrument
  OBVIOUS
<1>2. PICK q : q = Tail(inbox[b])
  OBVIOUS
<1>3. /\ inbox[b] # <<>> /\ Head(inbox[b]).name = "subscribe"
      /\ UNCHANGED <<quoted, link>> /\ inbox' = [inbox EXCEPT ![b] = q]
  BY <1>2 DEF ReceiveSubscribe
<1>4. /\ Charted(browser[b], inbox[b], link[b], rooms[b])
      /\ Sees(browser[b], inbox[b], rooms[b], quoted)
  BY DEF GatewayInv
<1>5. Head(inbox[b]) \in Messages /\ q \in Seq(Messages)
  BY <1>2, <1>3, <1>4, ReadsOne DEF Charted
<1>6. i \in Instruments
  BY <1>1, <1>5 DEF Messages
<1>7. \A j : AsksFor(inbox[b], j) /\ j # i => AsksFor(q, j)
  <2>1. \A j : j # i => Head(inbox[b]) # Message("subscribe", j)
    BY <1>1 DEF Message
  <2>2. QED
    BY <1>2, <1>3, <1>4, <2>1, ReadsOne DEF Charted
<1>8. SetAt(inbox', inbox, b, q) /\ SetAt(link', link, b, link[b])
  BY <1>3, AtSame, AtExcept DEF GatewayInv
<1>9. CASE link[b] = "ready"
  <2>1. PICK v : v = [browser[b] EXCEPT !.seen = @ \/ (i \in quoted /\ browser[b].shows = i)]
    OBVIOUS
  <2>2. PICK r : r = rooms[b] \cup {i}
    OBVIOUS
  <2>3. rooms' = [rooms EXCEPT ![b] = r] /\ Snapshot(b, i)
    BY <1>1, <1>9, <2>2 DEF ReceiveSubscribe
  <2>4. browser' = [browser EXCEPT ![b] = v]
    BY <2>1, <2>3 DEF Snapshot
  <2>5. SetAt(browser', browser, b, v) /\ SetAt(rooms', rooms, b, r)
    BY <2>3, <2>4, AtExcept DEF GatewayInv
  <2>6. /\ v = [shows |-> v.shows, seen |-> v.seen] /\ v.shows = browser[b].shows
        /\ v.seen \in BOOLEAN
        /\ ~v.seen => ~browser[b].seen /\ ~(i \in quoted /\ v.shows = i)
    BY <1>4, <2>1 DEF Charted
  <2>7. Charted(v, q, link[b], r)
    BY <1>4, <1>5, <1>6, <1>9, <2>2, <2>6 DEF Charted
  <2>8. Sees(v, q, r, quoted)
    BY <1>4, <1>7, <2>2, <2>6 DEF Sees
  <2>9. QED
    BY <1>1, <1>3, <1>6, <1>8, <2>5, <2>7, <2>8, BrowserChanges
<1>10. CASE link[b] # "ready"
  <2>1. UNCHANGED <<rooms, browser>>
    BY <1>10 DEF ReceiveSubscribe
  <2>2. SetAt(browser', browser, b, browser[b]) /\ SetAt(rooms', rooms, b, rooms[b])
    BY <2>1, AtSame DEF GatewayInv
  <2>3. Charted(browser[b], q, link[b], rooms[b]) /\ Sees(browser[b], q, rooms[b], quoted)
    BY <1>4, <1>5, <1>10 DEF Charted, Sees
  <2>4. QED
    BY <1>1, <1>3, <1>6, <1>8, <2>2, <2>3, BrowserChanges
<1>11. QED
  BY <1>9, <1>10

LEMMA ReceiveUnsubscribeKeeps ==
    ASSUME NEW b \in Browsers, GatewayInv, ReceiveUnsubscribe(b)
    PROVE  GatewayInv' /\ Head(inbox[b]).instrument \in Instruments
<1>1. PICK i : i = Head(inbox[b]).instrument
  OBVIOUS
<1>2. PICK q : q = Tail(inbox[b])
  OBVIOUS
<1>3. PICK r : r = rooms[b] \ {i}
  OBVIOUS
<1>4. /\ inbox[b] # <<>> /\ Head(inbox[b]).name = "unsubscribe"
      /\ UNCHANGED <<quoted, link, browser>> /\ inbox' = [inbox EXCEPT ![b] = q]
      /\ rooms' = [rooms EXCEPT ![b] = r]
  BY <1>1, <1>2, <1>3 DEF ReceiveUnsubscribe
<1>5. /\ Charted(browser[b], inbox[b], link[b], rooms[b])
      /\ Sees(browser[b], inbox[b], rooms[b], quoted)
  BY DEF GatewayInv
<1>6. Head(inbox[b]) \in Messages /\ q \in Seq(Messages)
  BY <1>2, <1>4, <1>5, ReadsOne DEF Charted
<1>7. i \in Instruments
  BY <1>1, <1>6 DEF Messages
<1>8. \A j : Head(inbox[b]) # Message("subscribe", j)
  BY <1>4 DEF Message
<1>9. \A j : AsksFor(inbox[b], j) => AsksFor(q, j)
  BY <1>2, <1>4, <1>5, <1>8, ReadsOne DEF Charted
<1>10. /\ SetAt(browser', browser, b, browser[b]) /\ SetAt(inbox', inbox, b, q)
       /\ SetAt(link', link, b, link[b]) /\ SetAt(rooms', rooms, b, r)
  BY <1>4, AtSame, AtExcept DEF GatewayInv
<1>11. Charted(browser[b], q, link[b], r) /\ Sees(browser[b], q, r, quoted)
  BY <1>3, <1>5, <1>6, <1>9 DEF Charted, Sees
<1>12. QED
  BY <1>1, <1>4, <1>7, <1>10, <1>11, BrowserChanges

LEMMA UnlinkKeeps ==
    ASSUME NEW b \in Browsers, GatewayInv, Unlink(b)
    PROVE  GatewayInv' /\ rooms[b] \subseteq Instruments
<1>1. /\ UNCHANGED <<quoted, browser>> /\ link' = [link EXCEPT ![b] = "down"]
      /\ rooms' = [rooms EXCEPT ![b] = {}] /\ inbox' = [inbox EXCEPT ![b] = <<>>]
  BY DEF Unlink
<1>2. /\ SetAt(browser', browser, b, browser[b]) /\ SetAt(inbox', inbox, b, <<>>)
      /\ SetAt(link', link, b, "down") /\ SetAt(rooms', rooms, b, {})
  BY <1>1, AtSame, AtExcept DEF GatewayInv
<1>3. <<>> \in Seq(Messages)
  BY EmptySeq
<1>4. Charted(browser[b], inbox[b], link[b], rooms[b])
  BY DEF GatewayInv
<1>5. Charted(browser[b], <<>>, "down", {}) /\ Sees(browser[b], <<>>, {}, quoted)
  BY <1>3, <1>4 DEF Charted, Sees
<1>6. QED
  BY <1>1, <1>2, <1>4, <1>5, BrowserChanges DEF Charted
-----------------------------------------------------------------------------
(* Who watches *)

LEMMA WatchersSame ==
    ASSUME WatchInv, UNCHANGED <<subscribers, trade, rooms>>
    PROVE  WatchInv'
<1>1. \A i \in Instruments : Watching(i)' = Watching(i)
  BY DEF Watching
<1>2. QED
  BY <1>1 DEF WatchInv

(* A trade is no browser, so each leaves the other's subscription alone.      *)
LEMMA TradeIsWatched ==
    ASSUME NEW t \in Trades, NEW what, WatchInv,
           trade' = [trade EXCEPT ![t] = what], UNCHANGED rooms,
           \/ /\ what \in {"watched", "leaked"}
              /\ \A j \in Instruments :
                   subscribers'[j] = subscribers[j] \cup IF j = InstrumentOf[t] THEN {t} ELSE {}
           \/ /\ what \notin {"watched", "leaked"}
              /\ \A j \in Instruments :
                   subscribers'[j] = subscribers[j] \ IF j = InstrumentOf[t] THEN {t} ELSE {}
    PROVE  WatchInv'
<1>1. /\ trade' = [s \in Trades |-> trade'[s]]
      /\ \A s \in Trades : trade'[s] = IF s = t THEN what ELSE trade[s]
  BY DEF WatchInv
<1>2. t \notin Browsers
  BY MarketFeedAssumption
<1>3. ASSUME NEW i \in Instruments PROVE subscribers'[i] = Watching(i)'
  <2>1. subscribers[i] = Watching(i)
    BY DEF WatchInv
  <2>2. CASE what \in {"watched", "leaked"}
    BY <1>1, <2>1, <2>2 DEF Watching
  <2>3. CASE what \notin {"watched", "leaked"}
    BY <1>1, <1>2, <2>1, <2>3 DEF Watching
  <2>4. QED
    BY <2>2, <2>3
<1>4. QED
  BY <1>1, <1>3 DEF WatchInv

LEMMA BrowserWatches ==
    ASSUME NEW b \in Browsers, NEW is, NEW r, WatchInv, rooms = [c \in Browsers |-> rooms[c]],
           rooms' = [rooms EXCEPT ![b] = r], UNCHANGED trade,
           \/ /\ r = rooms[b] \cup is
              /\ \A j \in Instruments :
                   subscribers'[j] = subscribers[j] \cup IF j \in is THEN {b} ELSE {}
           \/ /\ r = rooms[b] \ is
              /\ \A j \in Instruments :
                   subscribers'[j] = subscribers[j] \ IF j \in is THEN {b} ELSE {}
    PROVE  WatchInv'
<1>1. \A c \in Browsers : rooms'[c] = IF c = b THEN r ELSE rooms[c]
  OBVIOUS
<1>2. b \notin Trades
  BY MarketFeedAssumption
<1>3. ASSUME NEW i \in Instruments PROVE subscribers'[i] = Watching(i)'
  <2>1. subscribers[i] = Watching(i)
    BY DEF WatchInv
  <2>2. CASE /\ r = rooms[b] \cup is
             /\ subscribers'[i] = subscribers[i] \cup IF i \in is THEN {b} ELSE {}
    BY <1>1, <2>1, <2>2 DEF Watching
  <2>3. CASE /\ r = rooms[b] \ is
             /\ subscribers'[i] = subscribers[i] \ IF i \in is THEN {b} ELSE {}
    BY <1>1, <1>2, <2>1, <2>3 DEF Watching
  <2>4. QED
    BY <2>2, <2>3
<1>4. QED
  BY <1>3 DEF WatchInv

LEMMA TradesKeep ==
    ASSUME NEW t \in Trades, ServedInv,
           TradeMade(t) \/ TradeSubmitted(t) \/ TradeArchived(t)
    PROVE  ServedInv'
<1>. USE DEF ServedInv
<1>1. GatewayInv'
  <2>1. UNCHANGED <<quoted, browser, inbox, link, rooms>>
    BY DEF TradeMade, TradeSubmitted, TradeArchived, gateway
  <2>2. QED
    BY <2>1 DEF GatewayInv
<1>2. PICK i : i = InstrumentOf[t]
  OBVIOUS
<1>3. i \in Instruments
  BY <1>2, MarketFeedAssumption
<1>4. CASE TradeMade(t)
  <2>1. FeedInv'
    BY <1>4 DEF TradeMade, FeedInv
  <2>2. \A s \in Trades : trade'[s] \in {"watched", "leaked"} <=> trade[s] \in {"watched", "leaked"}
    BY <1>4 DEF TradeMade, WatchInv
  <2>3. UNCHANGED <<subscribers, rooms>> /\ trade' = [s \in Trades |-> trade'[s]]
    BY <1>4 DEF TradeMade, WatchInv, gateway
  <2>4. \A j \in Instruments : Watching(j)' = Watching(j)
    BY <2>2, <2>3 DEF Watching
  <2>5. QED
    BY <1>1, <2>1, <2>3, <2>4 DEF WatchInv
<1>5. CASE TradeSubmitted(t)
  <2>1. PICK what : what = IF trade[t] = "made" THEN "watched" ELSE "leaked"
    OBVIOUS
  <2>2. trade' = [trade EXCEPT ![t] = what] /\ Subscribes(i, t) /\ UNCHANGED rooms
    BY <1>2, <1>5, <2>1 DEF TradeSubmitted, gateway
  <2>3. /\ FeedInv'
        /\ \A j \in Instruments : subscribers'[j] = subscribers[j] \cup IF j = i THEN {t} ELSE {}
    BY <1>3, <2>2, SubscribesKeeps
  <2>4. what \in {"watched", "leaked"}
    BY <2>1
  <2>5. QED
    BY <1>1, <1>2, <2>2, <2>3, <2>4, TradeIsWatched
<1>6. CASE TradeArchived(t)
  <2>1. PICK what : what = IF trade[t] = "made" THEN "endedEarly" ELSE "ended"
    OBVIOUS
  <2>2. trade' = [trade EXCEPT ![t] = what] /\ Unsubscribes({i}, t) /\ UNCHANGED rooms
    BY <1>2, <1>6, <2>1 DEF TradeArchived, gateway
  <2>3. {i} \in SUBSET Instruments
    BY <1>3
  <2>4. /\ FeedInv'
        /\ \A j \in Instruments : subscribers'[j] = subscribers[j] \ IF j \in {i} THEN {t} ELSE {}
    BY <2>2, <2>3, UnsubscribesKeeps
  <2>5. what \notin {"watched", "leaked"}
    BY <2>1
  <2>6. \A j \in Instruments : subscribers'[j] = subscribers[j] \ IF j = i THEN {t} ELSE {}
    BY <2>4
  <2>7. QED
    BY <1>1, <1>2, <2>2, <2>4, <2>5, <2>6, TradeIsWatched
<1>7. QED
  BY <1>4, <1>5, <1>6

LEMMA BrowsersKeep ==
    ASSUME NEW b \in Browsers, ServedInv,
           \/ Link(b) \/ Verified(b) \/ Unlink(b) \/ Hide(b)
           \/ ReceiveSubscribe(b) \/ ReceiveUnsubscribe(b)
           \/ \E i \in Instruments : Show(b, i)
    PROVE  ServedInv'
<1>. USE DEF ServedInv
<1>1. rooms = [c \in Browsers |-> rooms[c]]
  BY DEF GatewayInv
<1>2. CASE Link(b) \/ Verified(b) \/ Hide(b) \/ \E i \in Instruments : Show(b, i)
  <2>1. UNCHANGED <<feed, subscribers, trade, rooms>>
    BY <1>2 DEF Link, Verified, Hide, Show
  <2>2. FeedInv'
    BY <2>1 DEF FeedInv
  <2>3. GatewayInv'
    BY <1>2, LinkKeeps, VerifiedKeeps, HideKeeps, ShowKeeps
  <2>4. QED
    BY <2>1, <2>2, <2>3, WatchersSame
<1>3. CASE Unlink(b)
  <2>1. rooms' = [rooms EXCEPT ![b] = {}] /\ Unsubscribes(rooms[b], b) /\ UNCHANGED trade
    BY <1>3 DEF Unlink
  <2>2. GatewayInv' /\ rooms[b] \in SUBSET Instruments
    BY <1>3, UnlinkKeeps
  <2>3. /\ FeedInv'
        /\ \A j \in Instruments :
             subscribers'[j] = subscribers[j] \ IF j \in rooms[b] THEN {b} ELSE {}
    BY <2>1, <2>2, UnsubscribesKeeps
  <2>4. {} = rooms[b] \ rooms[b]
    OBVIOUS
  <2>5. QED
    BY <1>1, <2>1, <2>2, <2>3, <2>4, BrowserWatches
<1>4. CASE ReceiveUnsubscribe(b)
  <2>1. PICK i : i = Head(inbox[b]).instrument
    OBVIOUS
  <2>2. rooms' = [rooms EXCEPT ![b] = rooms[b] \ {i}] /\ Unsubscribes({i}, b) /\ UNCHANGED trade
    BY <1>4, <2>1 DEF ReceiveUnsubscribe
  <2>3. GatewayInv' /\ {i} \in SUBSET Instruments
    BY <1>4, <2>1, ReceiveUnsubscribeKeeps
  <2>4. /\ FeedInv'
        /\ \A j \in Instruments : subscribers'[j] = subscribers[j] \ IF j \in {i} THEN {b} ELSE {}
    BY <2>2, <2>3, UnsubscribesKeeps
  <2>5. QED
    BY <1>1, <2>2, <2>3, <2>4, BrowserWatches
<1>5. CASE ReceiveSubscribe(b)
  <2>1. PICK i : i = Head(inbox[b]).instrument
    OBVIOUS
  <2>2. GatewayInv' /\ i \in Instruments
    BY <1>5, <2>1, ReceiveSubscribeKeeps
  <2>3. CASE link[b] = "ready"
    <3>1. rooms' = [rooms EXCEPT ![b] = rooms[b] \cup {i}] /\ Subscribes(i, b) /\ UNCHANGED trade
      BY <1>5, <2>1, <2>3 DEF ReceiveSubscribe
    <3>2. /\ FeedInv'
          /\ \A j \in Instruments : subscribers'[j] = subscribers[j] \cup IF j = i THEN {b} ELSE {}
      BY <2>2, <3>1, SubscribesKeeps
    <3>3. \A j \in Instruments : subscribers'[j] = subscribers[j] \cup IF j \in {i} THEN {b} ELSE {}
      BY <3>2
    <3>4. QED
      BY <1>1, <2>2, <3>1, <3>2, <3>3, BrowserWatches
  <2>4. CASE link[b] # "ready"
    <3>1. UNCHANGED <<feed, subscribers, trade, rooms>>
      BY <1>5, <2>4 DEF ReceiveSubscribe
    <3>2. QED
      BY <2>2, <3>1, WatchersSame DEF FeedInv
  <2>5. QED
    BY <2>3, <2>4
<1>6. QED
  BY <1>2, <1>3, <1>4, <1>5

LEMMA NextFeedServes == ServedInv /\ [NextFeed]_feedVars => ServedInv'
<1>. SUFFICES ASSUME ServedInv, [NextFeed]_feedVars PROVE ServedInv'
  OBVIOUS
<1>1. CASE FeedMoves
  <2>1. /\ IsFeed(feed') /\ HasAsked(feed') /\ feed'.wanted = feed.wanted
        /\ UNCHANGED <<subscribers, quoted, browser, inbox, link, rooms, trade>>
    BY <1>1, FeedMovesAsked DEF ServedInv, FeedInv
  <2>2. FeedInv'
    BY <2>1 DEF ServedInv, FeedInv, Wants
  <2>3. GatewayInv'
    BY <2>1 DEF ServedInv, GatewayInv
  <2>4. QED
    BY <2>1, <2>2, <2>3, WatchersSame DEF ServedInv
<1>2. ASSUME NEW i \in Instruments, Quotes(i)
      PROVE  ServedInv'
  <2>1. UNCHANGED <<feed, subscribers, rooms, trade>>
    BY <1>2 DEF Quotes
  <2>2. GatewayInv'
    BY <1>2, QuotesKeeps DEF ServedInv
  <2>3. QED
    BY <2>1, <2>2, WatchersSame DEF ServedInv, FeedInv
<1>3. ASSUME NEW i \in Instruments,
             \/ TickAllSubscribed(i)
             \/ \E s \in Sockets, packet \in Packets : Frame(s, i, packet)
      PROVE  ServedInv'
  BY <1>2, <1>3 DEF TickAllSubscribed, Frame
<1>4. ASSUME NEW t \in Trades, TradeMade(t) \/ TradeSubmitted(t) \/ TradeArchived(t)
      PROVE  ServedInv'
  BY <1>4, TradesKeep
<1>5. ASSUME NEW b \in Browsers,
             \/ Link(b) \/ Verified(b) \/ Unlink(b) \/ Hide(b)
             \/ ReceiveSubscribe(b) \/ ReceiveUnsubscribe(b)
             \/ \E i \in Instruments : Show(b, i)
      PROVE  ServedInv'
  BY <1>5, BrowsersKeep
<1>6. CASE UNCHANGED feedVars
  <2>1. UNCHANGED <<feed, subscribers, quoted, browser, inbox, link, rooms, trade>>
    BY <1>6 DEF feedVars, gateway
  <2>2. FeedInv' /\ GatewayInv'
    BY <2>1 DEF ServedInv, FeedInv, GatewayInv
  <2>3. QED
    BY <2>1, <2>2, WatchersSame DEF ServedInv
<1>7. QED
  BY <1>1, <1>3, <1>4, <1>5, <1>6 DEF NextFeed, FeedMoves

(* Who watches gets the prices there are: a connected feed is asked for what *)
(* is watched, and no chart that is looked at stays empty.                   *)
THEOREM WatchersGetPrices == FeedSpec => []WatchersAreServed
<1>1. ServedInv => WatchersAreServed
  <2>1. ASSUME ServedInv PROVE FeedFollowsWatchers
    BY <2>1 DEF ServedInv, FeedInv, HasAsked, Wants, WatchInv, FeedFollowsWatchers
  <2>2. ASSUME ServedInv, NEW b \in Browsers,
               browser[b].shows # NoInstrument, browser[b].shows \in rooms[b] \cap quoted,
               inbox[b] = <<>>
        PROVE  browser[b].seen
    <3>1. Sees(browser[b], inbox[b], rooms[b], quoted)
      BY <2>2 DEF ServedInv, GatewayInv
    <3>2. ~AsksFor(inbox[b], browser[b].shows)
      BY <2>2 DEF AsksFor
    <3>3. QED
      BY <2>2, <3>1, <3>2 DEF Sees
  <2>3. QED
    BY <2>1, <2>2 DEF WatchersAreServed, NoEmptyChart
<1>2. QED
  BY InitServedInv, NextFeedServes, <1>1, PTL DEF FeedSpec
-----------------------------------------------------------------------------
(* A drop, when nothing stops the feed and no socket takes its time to close: *)
(* only the client's socket lives, and a timer is set only when it does not. *)

NeverStopped == feedScenario \cap {"stop", "handshake"} = {}
Lives(f, s) == f.socket[s] \in {"connecting", "open"}

Retried(f) ==
    /\ ~f.quitting /\ f.timers \in {0, 1}
    /\ \A s \in Sockets :
         /\ f.socket[s] \in {"none", "connecting", "open", "closed"}
         /\ Lives(f, s) => s = f.current /\ f.timers = 0
    /\ f.state = "CONNECTED" <=> IsOpen(f)
    /\ f.current > 1 =>
         /\ f.origin[f.current] = "timer"
         /\ f.state = "CONNECTING" => f.socket[f.current] = "connecting"
    /\ f.state = "RECONNECTING" => f.timers = 1

ServiceGoesOn(v) ==
    /\ v = [started |-> v.started, watchdog |-> v.watchdog, stopping |-> v.stopping,
            next |-> v.next]
    /\ v.stopping = 0

RetryInv ==
    NeverStopped =>
        /\ Retried(feed) /\ ServiceGoesOn(service)
        /\ ~service.started => feed.current = 0 /\ feed.timers = 0

LEMMA InitRetryInv == InitFeed => RetryInv
<1>. SUFFICES ASSUME InitFeed PROVE RetryInv
  OBVIOUS
<1>. USE DEF InitFeed
<1>1. Retried(feed)
  BY DEF Retried, Lives, IsOpen
<1>2. ServiceGoesOn(service) /\ feed.current = 0 /\ feed.timers = 0
  BY DEF ServiceGoesOn
<1>3. QED
  BY <1>1, <1>2 DEF RetryInv

(* What is asked for is of no matter here.                                   *)
LEMMA SameRetried ==
    ASSUME NEW f, NEW m, Retried(f), SameSockets(m, f), SameState(m, f)
    PROVE  Retried(m)
BY DEF Retried, SameSockets, SameState, IsOpen, Lives

(* A call of connect() when no socket lives                                  *)
LEMMA ConnectsRetried ==
    ASSUME NEW f, NEW who, NEW m, IsFeed(f), CanConnect(f), m = Connects(f, who),
           f.timers = 0, f.current > 0 => who = "timer",
           \A s \in Sockets : f.socket[s] \in {"none", "closed"}
    PROVE  IsFeed(m) /\ Retried(m)
<1>1. /\ IsFeed(m) /\ m.current = f.current + 1 /\ m.current \in Sockets
      /\ ~m.quitting /\ m.timers = 0 /\ m.origin[m.current] = who
      /\ Mock => m.state = "CONNECTED" /\ m.socket[m.current] = "open"
      /\ ~Mock => m.state = "CONNECTING" /\ m.socket[m.current] = "connecting"
      /\ \A s \in Sockets : s # m.current => m.socket[s] = f.socket[s]
  BY ConnectsFields
<1>2. f.current \in Nat /\ m.current # 0
  BY <1>1, MarketFeedAssumption DEF IsFeed, Sockets
<1>3. \A s \in Sockets :
        /\ m.socket[s] \in {"none", "connecting", "open", "closed"}
        /\ Lives(m, s) => s = m.current
  BY <1>1 DEF Lives
<1>4. m.state = "CONNECTED" <=> IsOpen(m)
  BY <1>1, <1>2 DEF IsOpen
<1>5. m.current > 1 => who = "timer"
  BY <1>1, <1>2
<1>6. m.state = "CONNECTING" => m.socket[m.current] = "connecting"
  BY <1>1
<1>7. m.state # "RECONNECTING"
  BY <1>1
<1>8. QED
  BY <1>1, <1>3, <1>4, <1>5, <1>6, <1>7 DEF Retried

(* The client's socket is lost and a timer is set, unless the retries are    *)
(* used up.                                                                  *)
LEMMA ScheduledRetried ==
    ASSUME NEW f, NEW m, IsFeed(f), m = Scheduled(f), ~f.quitting, f.timers = 0,
           f.current > 1 => f.origin[f.current] = "timer",
           \A s \in Sockets : f.socket[s] \in {"none", "closed"}
    PROVE  IsFeed(m) /\ Retried(m) /\ m.state # "CONNECTED"
<1>1. /\ IsFeed(m) /\ SameSockets(m, f)
      /\ \/ m.state = "DISCONNECTED" /\ m.timers = f.timers
         \/ m.state = "RECONNECTING" /\ m.timers = f.timers + 1
  BY ScheduledFields
<1>2. m.timers \in {0, 1} /\ (m.state = "RECONNECTING" => m.timers = 1)
      /\ m.state \notin {"CONNECTED", "CONNECTING"}
  BY <1>1
<1>3. f.current # 0 => f.current \in Sockets
  BY MarketFeedAssumption DEF IsFeed, Sockets
<1>4. ~IsOpen(m) /\ \A s \in Sockets : ~Lives(m, s) /\ m.socket[s] \in {"none", "closed"}
  BY <1>1, <1>3 DEF SameSockets, IsOpen, Lives
<1>5. QED
  BY <1>1, <1>2, <1>4 DEF Retried, SameSockets

(* The two events and the rejected call make one timer.                      *)
LEMMA LossRetried ==
    ASSUME NEW s \in Sockets, IsFeed(feed), Retried(feed), FailsToOpen(s) \/ Drops(s),
           service.stopping = 0
    PROVE  IsFeed(feed') /\ Retried(feed') /\ UNCHANGED service
<1>1. PICK f : f = Becomes(feed, s, "closed")
  OBVIOUS
<1>2. /\ IsFeed(f) /\ SameState(f, feed) /\ f.current = feed.current /\ f.origin = feed.origin
      /\ f.quitting = feed.quitting
      /\ \A r \in Sockets : f.socket[r] = IF r = s THEN "closed" ELSE feed.socket[r]
  BY <1>1, BecomesFields
<1>3. s = feed.current /\ feed.timers = 0 /\ s # 0
  BY MarketFeedAssumption DEF FailsToOpen, Drops, Retried, Lives, Sockets
<1>4. /\ f.timers = 0 /\ ~f.quitting /\ ~IsOpen(f)
      /\ f.current > 1 => f.origin[f.current] = "timer"
      /\ \A r \in Sockets : f.socket[r] \in {"none", "closed"}
  BY <1>2, <1>3 DEF Retried, SameState, Lives, IsOpen
<1>5. PICK h : h = Scheduled(f)
  OBVIOUS
<1>6. IsFeed(h) /\ Retried(h) /\ h.state # "CONNECTED"
  BY <1>2, <1>4, <1>5, ScheduledRetried
<1>7. Dropped(h) = h
  BY <1>6 DEF Dropped
<1>8. s # service.stopping
  BY <1>3
<1>9. CASE Drops(s)
  <2>1. feed.state = "CONNECTED"
    BY <1>3, <1>9 DEF Drops, Retried, IsOpen
  <2>2. Dropped(f) = h
    BY <1>2, <1>4, <1>5, <2>1 DEF Dropped, SameState
  <2>3. feed' = h /\ UNCHANGED service
    BY <1>1, <1>7, <1>8, <1>9, <2>2 DEF Drops, Closes
  <2>4. QED
    BY <1>6, <2>3
<1>10. CASE FailsToOpen(s)
  <2>1. feed.socket[s] = "connecting"
    BY <1>10 DEF FailsToOpen, Retried
  <2>2. f.state # "CONNECTED"
    BY <1>2, <1>3, <2>1 DEF Retried, IsOpen, SameState
  <2>3. Dropped(f) = f
    BY <2>2 DEF Dropped
  <2>4. feed' = Dropped(ConnectThrows(f, s)) /\ UNCHANGED service
    BY <1>1, <1>8, <1>10, <2>3 DEF FailsToOpen, Closes
  <2>5. CASE f.origin[s] = "timer"
    <3>1. feed' = h
      BY <1>5, <1>7, <2>4, <2>5 DEF ConnectThrows
    <3>2. QED
      BY <1>6, <2>4, <3>1
  <2>6. CASE f.origin[s] # "timer"
    <3>1. feed' = f
      BY <2>3, <2>4, <2>6 DEF ConnectThrows
    <3>2. ~(f.current > 1)
      BY <1>2, <1>3, <1>4, <2>6
    <3>3. f.state # "RECONNECTING"
      BY <1>2, <1>3 DEF Retried, SameState
    <3>4. Retried(f)
      BY <1>4, <2>2, <3>2, <3>3 DEF Retried, Lives
    <3>5. QED
      BY <1>2, <2>4, <3>1, <3>4
  <2>7. QED
    BY <2>5, <2>6
<1>11. QED
  BY <1>9, <1>10

LEMMA OpensRetried ==
    ASSUME NEW s \in Sockets, IsFeed(feed), Retried(feed), Opens(s)
    PROVE  IsFeed(feed') /\ Retried(feed')
<1>1. PICK f : f = Opened(feed, s)
  OBVIOUS
<1>2. feed.socket[s] = "connecting"
      /\ feed' = IF CanSend(f) THEN Resubscribed(f) ELSE ConnectThrows(f, s)
  BY <1>1 DEF Opens, Opened
<1>3. /\ IsFeed(f) /\ f.state = "CONNECTED" /\ f.timers = feed.timers
      /\ f.current = feed.current /\ f.origin = feed.origin /\ f.quitting = feed.quitting
      /\ \A r \in Sockets : f.socket[r] = IF r = s THEN "open" ELSE feed.socket[r]
  BY <1>1, OpenedFields
<1>4. s = f.current /\ f.timers = 0 /\ s # 0 /\ IsOpen(f)
  BY <1>2, <1>3, MarketFeedAssumption DEF Retried, Lives, Sockets, IsOpen
<1>5. Retried(f)
  BY <1>3, <1>4 DEF Retried, Lives
<1>6. PICK m : m = Resubscribed(f)
  OBVIOUS
<1>7. feed' = m
  BY <1>2, <1>4, <1>6 DEF CanSend
<1>8. IsFeed(m) /\ SameSockets(m, f) /\ SameState(m, f)
  BY <1>3, <1>6, ResubscribedFields
<1>9. QED
  BY <1>5, <1>7, <1>8, SameRetried
LEMMA TimerRetried ==
    ASSUME IsFeed(feed), Retried(feed), TimerFires
    PROVE  Retried(feed')
<1>1. PICK f : f = [feed EXCEPT !.timers = @ - 1]
  OBVIOUS
<1>2. IsFeed(f) /\ SameSockets(f, feed) /\ f.timers = feed.timers - 1
  BY <1>1, WithTimers
<1>3. f.timers = 0 /\ \A s \in Sockets : f.socket[s] \in {"none", "closed"}
  BY <1>2 DEF TimerFires, Retried, Lives, SameSockets
<1>4. CanConnect(f) /\ feed' = Connects(f, "timer")
  BY <1>1, <1>2 DEF TimerFires, CanConnect, SameSockets
<1>5. QED
  BY <1>2, <1>3, <1>4, ConnectsRetried

LEMMA StartRetried ==
    ASSUME IsFeed(feed), Retried(feed), feed.current = 0, feed.timers = 0, StartFeed
    PROVE  Retried(feed')
<1>1. \A s \in Sockets : feed.socket[s] \in {"none", "closed"}
  BY MarketFeedAssumption DEF Retried, Lives, Sockets
<1>2. CanConnect(feed) /\ feed' = Connects(feed, "start") /\ ~(feed.current > 0)
  BY DEF StartFeed
<1>3. QED
  BY <1>1, <1>2, ConnectsRetried

(* The others change nothing but what is wanted.                             *)
LEMMA SubscribesRetried ==
    ASSUME NEW i, NEW is, NEW who, IsFeed(feed), Retried(feed),
           Subscribes(i, who) \/ Unsubscribes(is, who)
    PROVE  Retried(feed') /\ feed'.current = feed.current /\ feed'.timers = feed.timers
<1>1. PICK m : m = SubscribeFeed(feed, i)
  OBVIOUS
<1>2. Retried(m) /\ m.current = feed.current /\ m.timers = feed.timers
  BY <1>1, SubscribeFeedFields, SameRetried DEF SameSockets, SameState
<1>3. PICK gone : gone = {j \in is : subscribers[j] = {who}}
  OBVIOUS
<1>4. PICK u : u = UnsubscribeFeed(feed, gone)
  OBVIOUS
<1>5. Retried(u) /\ u.current = feed.current /\ u.timers = feed.timers
  BY <1>4, UnsubscribeFeedFields, SameRetried DEF SameSockets, SameState
<1>6. feed' = feed \/ feed' = m \/ feed' = u
  BY <1>1, <1>3, <1>4 DEF Subscribes, Unsubscribes
<1>7. QED
  BY <1>2, <1>5, <1>6

LEMMA NextFeedRetries == ServedInv /\ RetryInv /\ [NextFeed]_feedVars => RetryInv'
<1>. SUFFICES ASSUME ServedInv, RetryInv, [NextFeed]_feedVars PROVE RetryInv'
  OBVIOUS
<1>1. UNCHANGED feedScenario
  BY DEF NextFeed, StartFeed, TimerFires, WatchdogFires, StopFeed, Opens, FailsToOpen, Drops,
         BeginsToClose, Closed, Frame, TickAllSubscribed, Quotes, TradeMade, TradeSubmitted,
         TradeArchived, Link, Verified, Unlink, Hide, ReceiveSubscribe, ReceiveUnsubscribe, Show,
         feedVars
<1>2. SUFFICES ASSUME NeverStopped PROVE RetryInv'
  BY <1>1 DEF RetryInv, NeverStopped
<1>3. /\ IsFeed(feed) /\ Retried(feed) /\ ServiceGoesOn(service)
      /\ ~service.started => feed.current = 0 /\ feed.timers = 0
  BY <1>2 DEF ServedInv, FeedInv, RetryInv
<1>4. \A s \in Sockets : feed.socket[s] \notin {"closing", "aborting"}
  BY <1>3 DEF Retried
<1>5. CASE StartFeed
  <2>1. Retried(feed')
    BY <1>3, <1>5, StartRetried DEF StartFeed
  <2>2. service' = [service EXCEPT !.started = TRUE, !.watchdog = Mock]
    BY <1>5 DEF StartFeed
  <2>3. ServiceGoesOn(service') /\ service'.started
    BY <1>3, <2>2 DEF ServiceGoesOn
  <2>4. QED
    BY <2>1, <2>3 DEF RetryInv
<1>6. CASE TimerFires
  <2>1. Retried(feed') /\ UNCHANGED service /\ feed.timers # 0
    BY <1>3, <1>6, TimerRetried DEF TimerFires
  <2>2. QED
    BY <1>3, <2>1 DEF RetryInv
<1>7. CASE WatchdogFires
  BY <1>3, <1>7 DEF WatchdogFires, Retried
<1>8. ASSUME NEW next, StopFeed(next) PROVE RetryInv'
  BY <1>2, <1>8 DEF StopFeed, NeverStopped
<1>9. ASSUME NEW s \in Sockets, Opens(s) PROVE RetryInv'
  <2>1. Retried(feed')
    BY <1>3, <1>9, OpensRetried
  <2>2. feed.socket[s] = "connecting"
    BY <1>9 DEF Opens
  <2>3. service.started
    BY <1>3, <2>2, MarketFeedAssumption DEF Retried, Lives, Sockets
  <2>4. service' = service \/ service' = [service EXCEPT !.watchdog = TRUE]
    BY <1>9 DEF Opens
  <2>5. ServiceGoesOn(service') /\ service'.started
    BY <1>3, <2>3, <2>4 DEF ServiceGoesOn
  <2>6. QED
    BY <2>1, <2>5 DEF RetryInv
<1>10. ASSUME NEW s \in Sockets, FailsToOpen(s) \/ Drops(s) PROVE RetryInv'
  <2>1. Retried(feed') /\ UNCHANGED service
    BY <1>3, <1>10, LossRetried DEF ServiceGoesOn
  <2>2. Lives(feed, s)
    BY <1>4, <1>10 DEF FailsToOpen, Drops, Lives
  <2>3. service.started
    BY <1>3, <2>2, MarketFeedAssumption DEF Retried, Sockets
  <2>4. QED
    BY <1>3, <2>1, <2>3 DEF RetryInv
<1>11. ASSUME NEW s \in Sockets, BeginsToClose(s) \/ Closed(s) PROVE RetryInv'
  BY <1>2, <1>4, <1>11 DEF BeginsToClose, Closed, NeverStopped
<1>12. ASSUME UNCHANGED <<feed, service>> PROVE RetryInv'
  BY <1>3, <1>12 DEF RetryInv
<1>13. ASSUME NEW i, NEW is, NEW who, UNCHANGED service, Subscribes(i, who) \/ Unsubscribes(is, who)
       PROVE  RetryInv'
  BY <1>3, <1>13, SubscribesRetried DEF RetryInv
<1>14. ASSUME NEW t \in Trades, TradeMade(t) \/ TradeSubmitted(t) \/ TradeArchived(t)
       PROVE  RetryInv'
  BY <1>12, <1>13, <1>14 DEF TradeMade, TradeSubmitted, TradeArchived
<1>15. ASSUME NEW b \in Browsers,
              \/ Link(b) \/ Verified(b) \/ Unlink(b) \/ Hide(b)
              \/ ReceiveSubscribe(b) \/ ReceiveUnsubscribe(b)
              \/ \E i \in Instruments : Show(b, i)
       PROVE  RetryInv'
  <2>1. CASE Link(b) \/ Verified(b) \/ Hide(b) \/ \E i \in Instruments : Show(b, i)
    BY <1>12, <2>1 DEF Link, Verified, Hide, Show
  <2>2. CASE Unlink(b)
    BY <1>13, <2>2 DEF Unlink
  <2>3. CASE ReceiveUnsubscribe(b)
    BY <1>13, <2>3 DEF ReceiveUnsubscribe
  <2>4. CASE ReceiveSubscribe(b)
    <3>1. UNCHANGED service /\ (Subscribes(Head(inbox[b]).instrument, b) \/ UNCHANGED feed)
      BY <2>4 DEF ReceiveSubscribe
    <3>2. QED
      BY <1>12, <1>13, <3>1
  <2>5. QED
    BY <1>15, <2>1, <2>2, <2>3, <2>4
<1>16. ASSUME NEW i \in Instruments,
             \/ TickAllSubscribed(i)
             \/ \E s \in Sockets, packet \in Packets : Frame(s, i, packet)
       PROVE  RetryInv'
  BY <1>12, <1>16 DEF TickAllSubscribed, Frame, Quotes
<1>17. CASE UNCHANGED feedVars
  BY <1>12, <1>17 DEF feedVars
<1>18. QED
  BY <1>5, <1>6, <1>7, <1>8, <1>9, <1>10, <1>11, <1>14, <1>15, <1>16, <1>17 DEF NextFeed

LEMMA OneIsNoMore ==
    ASSUME NEW S, NEW x, S \subseteq {x}
    PROVE  Cardinality(S) \in Nat /\ Cardinality(S) <= 1
<1>1. IsFiniteSet({x}) /\ Cardinality({x}) = 1
  BY FS_Singleton
<1>2. IsFiniteSet(S) /\ Cardinality(S) <= Cardinality({x})
  BY <1>1, FS_Subset
<1>3. QED
  BY <1>1, <1>2, FS_CardinalityType

(* A drop makes one connection out of one, and one that was made is tried    *)
(* again.                                                                    *)
THEOREM DropsAreRetried == FeedSpec => []DropIsRetried
<1>1. ServedInv /\ RetryInv => DropIsRetried
  <2>1. SUFFICES ASSUME ServedInv, RetryInv, NeverStopped PROVE DropIsRetried
    BY DEF DropIsRetried, NeverStopped
  <2>2. Retried(feed)
    BY <2>1 DEF RetryInv
  <2>3. PICK S : S = {s \in Sockets : feed.socket[s] \in {"connecting", "open"}}
    OBVIOUS
  <2>4. S \subseteq {feed.current} /\ (feed.timers = 1 => S = {})
    BY <2>2, <2>3 DEF Retried, Lives
  <2>5. Cardinality(S) \in Nat /\ Cardinality(S) <= 1
    BY <2>4, OneIsNoMore
  <2>6. feed.timers = 1 => Cardinality(S) = 0
    BY <2>4, FS_EmptySet
  <2>7. Cardinality(S) + feed.timers <= 1
    BY <2>2, <2>5, <2>6 DEF Retried
  <2>8. (feed.current > 1 /\ feed.state \in {"CONNECTING", "RECONNECTING"}) =>
           feed.timers > 0 \/ feed.socket[feed.current] = "connecting"
    BY <2>2 DEF Retried
  <2>9. QED
    BY <2>3, <2>7, <2>8 DEF DropIsRetried
<1>2. QED
  BY InitServedInv, InitRetryInv, NextFeedServes, NextFeedRetries, <1>1, PTL DEF FeedSpec
=============================================================================
