SPECIFICATION FairSpec
CONSTANTS
    MaxThreads = 2
    Events <- SmallEvents
    At <- SmallAt
    Currency <- SmallCurrency
    High <- SmallEvents
    Symbols <- SmallSymbols
    Codes <- SmallCodes
    Ttl = 1
    Refresh = 1
    MaxBackoff = 3
    Before = 1
    After = 1
    Horizon = 2
    Skew = 0
    Budget = 1
    Floor = 1
    Margin = 1
    Drift = 0
    MaxTime = 3
INVARIANTS
    StopCoversRead
CHECK_DEADLOCK FALSE
