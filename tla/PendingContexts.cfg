SPECIFICATION FairSpec
CONSTANTS
    MaxOrders = 2
    Slot <- OneSlot
    MaxMishaps = 1
INVARIANTS
    ContextAccounted
    TellsTruth
PROPERTIES
    PendingDrains
