SPECIFICATION Spec
CONSTANTS
    Orders = {o1, o2, o3, o4, o5}
    None = None
    Policies <- AllPolicies
    Quantity = 4
    Snapshots = 6
    MaxDelay = 2
SYMMETRY Symmetry
INVARIANTS
    SlicesNeverOverfill
    NeverIdle
    IInv
PROPERTIES
    NoRetroactiveFill
CHECK_DEADLOCK FALSE
