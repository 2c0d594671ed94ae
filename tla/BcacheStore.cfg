CONSTANTS
    p1 = p1
    p2 = p2
    s1 = s1
    s2 = s2
    s3 = s3
    v1 = v1
    v2 = v2
    NoSector = NoSector
    NoProc = NoProc
    Zero = v1
    Proc = {p1, p2}
    Sector = {s1, s2, s3}
    Val = {v1, v2}
    NBUF = 2
    Bad = {s3}
SPECIFICATION LiveSpec
INVARIANTS
    OneBuffer
    QueueWaited
PROPERTIES
    IsStore
    SleepersWoken
CHECK_DEADLOCK FALSE
