----------------------------- MODULE MCConnections -----------------------------
(* What the program keeps open, in one run: the sessions with the broker; the *)
(* feed, from its sockets to the browsers; the tabs of the users who sign in  *)
(* and reset passwords; and the scheduled jobs with the health check.  A      *)
(* behaviour is of one part from its start; the others stay in one of their   *)
(* initial states.                                                            *)
EXTENDS BrokerSession, MarketFeed, SignIn, Housekeeping, TLC

CONSTANTS i1, i2, t1, t2, u1, u2
VARIABLE part

(* One account and two calls beside the renewal timer *)
MCScenarios ==
    {{"connect", "tick", "disconnect"},
     {"live", "tick", "request"},
     {"connect", "switch", "select", "remove"},
     {"connect", "switch", "bootstrap", "crash"}}

MCInstrumentOf == t1 :> i1 @@ t2 :> i2
MCFeedScenarios ==
    {{"drop", "trade"}, {"stop", "drop", "handshake"}, {"stop", "trade"}, {"browse", "trade"},
     {"mock", "stop", "trade"}}

MCSignInScenarios ==
    {{"wizard", "newcomer"}, {"wizard", "gmail", "lossy"}, {"session", "login", "newcomer"}}

MCHealthScenarios ==
    {{"HEALTH_CHECK", "feed", "time", "races", "stop", "flag"},
     {"HEALTH_CHECK", "CLEANUP", "mongo", "feed", "recovery"},
     {"HEALTH_CHECK", "sessions", "internet", "recovery", "time"},
     {"HEALTH_CHECK", "slow", "failures", "instruments"},
     {"HEALTH_CHECK", "MORNING_STARTUP", "MARKET_CLOSE", "mongo", "internet"},
     {"INSTRUMENT_REFRESH", "RISK_MAINTENANCE", "mongo", "internet"},
     {"HEALTH_CHECK", "maintenance", "feed"}}

(* The users are exchangeable, and nothing here is a liveness property *)
UserSymmetry == Permutations({u1, u2})

ASSUME ValuesAreAllowed ==
    SignInAssumption /\ HealthAssumption

-----------------------------------------------------------------------------
InitConnections ==
    /\ part \in {"sessions", "feed", "users", "jobs"}
    /\ Init /\ (part # "sessions" => scenario = CHOOSE s \in Scenarios : TRUE)
    /\ InitFeed /\ (part # "feed" => feedScenario = CHOOSE s \in FeedScenarios : TRUE)
    /\ InitSignIn /\ (part # "users" => signInScenario = CHOOSE s \in SignInScenarios : TRUE)
    /\ InitHousekeeping
    /\ part # "jobs" => healthScenario = CHOOSE s \in HealthScenarios : TRUE

SessionsStep == part = "sessions" /\ Next /\ UNCHANGED <<part, feedVars, signInVars, healthVars>>
FeedStep == part = "feed" /\ NextFeed /\ UNCHANGED <<part, vars, signInVars, healthVars>>
UsersStep == part = "users" /\ NextSignIn /\ UNCHANGED <<part, vars, feedVars, healthVars>>
JobsStep == part = "jobs" /\ HealthNext /\ UNCHANGED <<part, vars, feedVars, signInVars>>

ConnectionsSpec ==
    /\ InitConnections
    /\ [][SessionsStep \/ FeedStep \/ UsersStep \/ JobsStep]_<<part, vars, feedVars, signInVars, healthVars>>
=============================================================================
