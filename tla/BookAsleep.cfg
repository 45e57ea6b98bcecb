SPECIFICATION Spec
CONSTANTS
    MaxPrice = 2
    Sizes <- OneOrTwo
    MaxPerSymbol = 3
    Cap = 3
    Gap = 2
    Arm = 7
    Lock = 1
    Giveback = 5
    Retention = 45
    MaxMishaps = 1
INVARIANT NothingSentAsleep
