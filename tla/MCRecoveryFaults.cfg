\* A crash, a failure and a shutdown around the start-up's run and a request's.
CONSTANTS
    t1 = t1
    t2 = t2
    boot = boot
    again = again
    timer = timer
    NoTrade = NoTrade
    Trades <- MCTrades
    Runs <- MCRuns
    Boot = boot
    Resuming = {boot}
    Others = {}
    MaxRetries = 1
    MaxWrites = 1
    MaxDeaths = 1
    MaxFaults = 1
SPECIFICATION Spec
INVARIANTS
    CaptureCovers
    FillsAreReal
PROPERTIES
    TradesNeverGoBack
    SnapshotNeverGoesBack
CHECK_DEADLOCK FALSE
