CONSTANTS
    c1 = c1
    c2 = c2
    Ids = {"arena"}
    MaxSpawns = 1
    Calls = {c1, c2}
    Capacity = 1
    Ticks = TRUE
SPECIFICATION FairSpec
PROPERTIES
    CallsAnswered
    ShutdownEndsScenes
CHECK_DEADLOCK FALSE
