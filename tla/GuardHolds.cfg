SPECIFICATION FairSpec
CONSTANTS
    Tickets = {t1, t2}
    Outcomes <- SmallOutcomes
    DailyLimit = 2
    RollingLimit = 3
    Window = 1
    MaxLines = 3
    MaxMishaps = 1
INVARIANTS
    BooksSound
PROPERTIES
    DailyLimitHolds
    BlockSticks
    GuardReopens
