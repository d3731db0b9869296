CONSTANTS
    i1 = i1
    i2 = i2
    t1 = t1
    t2 = t2
    u1 = u1
    u2 = u2
    Accounts = {a1}
    Implemented = {a1}
    Calls = {c1, c2}
    Scenarios <- MCScenarios
    TTL = 2
    Interval = 1
    MaxTime = 3
    MaxTokens = 4
    MaxRetries = 1
    NoAccount = NoAccount
    NoCall = NoCall
    Instruments = {i1, i2}
    Browsers = {b1}
    Trades = {t1, t2}
    InstrumentOf <- MCInstrumentOf
    FeedScenarios <- MCFeedScenarios
    MaxReconnects = 2
    MaxSockets = 3
    MaxMessages = 2
    NoInstrument = NoInstrument
    Tabs = {tab1, tab2}
    Wizards = {tab1}
    Users = {u1, u2}
    Registered = {}
    OldPassword = old
    NewPassword = new
    SignInScenarios <- MCSignInScenarios
    RateLimit = 1
    MaxAttempts = 1
    MaxCodes = 2
    MaxLapses = 1
    NoUser = NoUser
    Runs = {1, 2}
    HealthScenarios <- MCHealthScenarios
    RetryCount = 2
    BaseDelay = 1
    MaxDelay = 2
    HeartbeatLimit = 1
    MaxStarts = 2
SYMMETRY UserSymmetry
SPECIFICATION ConnectionsSpec
INVARIANTS
    SingleFlight
    HeldIsHonoured
    WatchersAreServed
    DropIsRetried
    ResetIsSafe
    SocketIsTheUsers
    SnapshotIsAnnounced
CHECK_DEADLOCK FALSE
