SPECIFICATION Spec
CONSTANTS
    Positions = {p1, p2}
    Window = 1
    MaxMishaps = 3
SYMMETRY Symmetry
INVARIANTS
    IInv
    ContextNeverLost
PROPERTIES
    CoverageIsLastResort
