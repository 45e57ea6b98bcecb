SPECIFICATION Spec
CONSTANTS
    Loops = {l1, l2}
    Intents = {i1, i2}
    None = None
    LimitMode = FALSE
    BatchSize = 2
    ReviewAge = 2
    MaxDelay = 1
    MaxMishaps = 1
SYMMETRY Symmetry
INVARIANTS
    IInv
    AtMostOneAttempt
PROPERTIES
    EntryOnlyWhenSettled
