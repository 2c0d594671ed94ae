CONSTANTS
    p1 = p1
    p2 = p2
    p3 = p3
    a = a
    b = b
    Free = Free
    Proc = {p1, p2}
    Byte = {a, b}
    First = p1
    PIPESIZE = 2
    WRAP = 4
    MaxN = 3
    Kills = TRUE
SPECIFICATION LiveSpec
INVARIANTS
    FreedUnused
    UnkilledSleepersWait
PROPERTIES
    IsQueue
    EofOnlyAtEnd
    ReadersReleased
CHECK_DEADLOCK FALSE
