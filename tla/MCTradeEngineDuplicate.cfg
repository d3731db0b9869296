\* Does a live trade send exit orders for more than it holds?
CONSTANTS
    Count = 1
    Definition <- OneLive
    Prices <- MCPrices
    Handlers <- MCHandlers
    Burst = 1
    Trailing <- NoTrailing
    MaxOrders = 2
    MaxResends = 0
SPECIFICATION Spec
INVARIANTS
    NoDuplicateExit
CHECK_DEADLOCK FALSE
