\* A trade, a crash, and the start-up's run; no failures.
CONSTANTS
    t1 = t1
    t2 = t2
    boot = boot
    again = again
    timer = timer
    NoTrade = NoTrade
    Trades <- MCTrades
    Runs = {boot}
    Boot = boot
    Resuming = {boot}
    Others <- MCOthers
    MaxRetries = 1
    MaxWrites = 1
    MaxDeaths = 1
    MaxFaults = 0
SPECIFICATION Spec
INVARIANT RebuildsState
CHECK_DEADLOCK FALSE
