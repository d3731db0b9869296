\* A crash, a failed access of the database, and a double click.
CONSTANTS
    t1 = t1
    t2 = t2
    x1 = x1
    x2 = x2
    Trades <- MCTrades
    Amount <- MCAmount
    Balances <- MCBalances
    Results <- MCResults
    Clicks <- TwoClicks
    MaxCrashes = 1
    MaxFailures = 1
    MaxResets = 1
SPECIFICATION Spec
INVARIANTS
    ReleasedOnce
    LiveTradeKeepsItsMargin
    ReservedAddsUp
PROPERTIES
    FinalRowStays
CHECK_DEADLOCK FALSE
