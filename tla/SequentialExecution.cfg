SPECIFICATION SequentialSpec
CONSTANTS
    Callers <- BoundedCallers
    Quantity = 3
    MaxOrders = 3
    Snapshots = 4
    Latency = 1
    Offsets = {0, 1, 2, 4, 7}
    TTLs = {0, 2}
INVARIANTS
    NeverOverfilled
    LadderHolds
PROPERTIES
    NothingEarly
CHECK_DEADLOCK FALSE
