SPECIFICATION FairSpec
CONSTANTS
    Prices <- MCPrices
    Risk = 8
    Target = 16
    Spreads = {0, 2}
    StopsLevel = 1
    Trailings = {FALSE}
    MaxMishaps = 0
CHECK_DEADLOCK FALSE
PROPERTIES
    BreakevenFollows
