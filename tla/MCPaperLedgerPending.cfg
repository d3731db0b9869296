\* No fault: the event of the queue against the row of the request.
CONSTANTS
    t1 = t1
    t2 = t2
    x1 = x1
    x2 = x2
    Trades <- MCTrades
    Amount <- MCAmount
    Balances <- MCBalances
    Results <- MCResults
    Clicks <- OneClick
    MaxCrashes = 0
    MaxFailures = 0
    MaxResets = 0
SPECIFICATION FairSpec
PROPERTIES
    PendingEnds
CHECK_DEADLOCK FALSE
