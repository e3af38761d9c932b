CONSTANTS
    c1 = c1
    c2 = c2
    Ids = {"arena"}
    MaxSpawns = 2
    Calls = {c1, c2}
    Capacity = 1
    Ticks = TRUE
SPECIFICATION Spec
SYMMETRY CallSymmetry
INVARIANTS
    LiveIsAddressable
    NothingAfterShutdown
PROPERTIES
    UnavailableMeansNotRun
CHECK_DEADLOCK FALSE
