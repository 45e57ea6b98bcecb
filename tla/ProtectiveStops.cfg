SPECIFICATION FairSpec
CONSTANTS
    Prices <- MCPrices
    Risk = 8
    Target = 16
    Spreads = {0, 2}
    StopsLevel = 1
    Trailings = {TRUE, FALSE}
    MaxMishaps = 2
CHECK_DEADLOCK FALSE
INVARIANTS
    IInv
PROPERTIES
    OnlyTightens
    ExitFollows
    TrailFollows
