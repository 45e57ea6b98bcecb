SPECIFICATION FairSpec
CONSTANTS
    Loops = {l1}
    Intents = {i1, i2}
    None = None
    LimitMode = TRUE
    BatchSize = 1
    ReviewAge = 2
    MaxDelay = 1
    MaxMishaps = 1
PROPERTIES
    UnknownOrderBlocks
    ImplementsPromise
    FillsAreCollected
    EntriesResume
