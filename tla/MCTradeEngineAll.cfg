\* The constants of the instance of paper trades.
CONSTANTS
    Count = 2
    Definition <- PaperPair
    Prices <- MCPrices
    Handlers = {h1, h2}
    Burst = 2
    Trailing <- MCTrailing
    MaxOrders = 1
    MaxResends = 1
SYMMETRY HandlerSymmetry
SPECIFICATION SpecAll
INVARIANTS
    EntryPlacedOnce
    BooksFollowOrders
    StopFollowsTargets
PROPERTIES
    StopHitIsKept
    PositionsAreKept
CHECK_DEADLOCK FALSE
