CONSTANTS
    c1 = c1
    c2 = c2
    Ids = {"arena"}
    MaxSpawns = 2
    Calls = {c1, c2}
    Capacity = 1
    Ticks = TRUE
SPECIFICATION Spec
INVARIANTS
    SerialPerScene
CHECK_DEADLOCK FALSE
