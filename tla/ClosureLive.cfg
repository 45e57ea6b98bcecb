SPECIFICATION FairSpec
CONSTANTS
    Positions = {p1}
    Window = 1
    MaxMishaps = 4
PROPERTIES
    ClosuresEnd
    EntriesResume
