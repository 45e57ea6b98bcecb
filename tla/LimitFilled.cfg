SPECIFICATION Spec
CONSTANTS
    MaxOrders = 2
    Slot <- OneSlot
    MaxMishaps = 0
INVARIANTS
    FilledDidFill
