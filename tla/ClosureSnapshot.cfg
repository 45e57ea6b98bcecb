SPECIFICATION Spec
CONSTANTS
    Positions = {p1}
    Window = 1
    MaxMishaps = 1
INVARIANTS
    JournaledIsClosed
