SPECIFICATION FairSpec
CONSTANTS
    Loops = {l1}
    Intents = {i1, i2}
    None = None
    LimitMode = TRUE
    BatchSize = 2
    ReviewAge = 2
    MaxDelay = 1
    MaxMishaps = 0
PROPERTIES
    LimitEntriesResume
