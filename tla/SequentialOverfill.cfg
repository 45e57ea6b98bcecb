SPECIFICATION SequentialSpec
CONSTANTS
    Callers <- EngineAdaptive
    Quantity = 2
    MaxOrders = 2
    Snapshots = 3
    Latency = 0
    Offsets = {0, 1, 3, 5}
    TTLs = {0, 2}
INVARIANTS
    NeverOverfilled
CHECK_DEADLOCK FALSE
