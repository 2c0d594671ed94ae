CONSTANTS
    p1 = p1
    p2 = p2
    p3 = p3
    a = a
    b = b
    Free = Free
    Proc = {p1, p2, p3}
    Byte = {a}
    First = p1
    PIPESIZE = 1
    WRAP = 2
    MaxN = 2
    Kills = TRUE
SPECIFICATION Spec
INVARIANTS
    SleepersWait
CHECK_DEADLOCK FALSE
