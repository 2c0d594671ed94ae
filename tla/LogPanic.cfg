CONSTANTS
    p1 = p1
    p2 = p2
    p3 = p3
    s1 = s1
    s2 = s2
    s3 = s3
    s4 = s4
    v1 = v1
    v2 = v2
    Proc = {p1, p2, p3}
    Sector = {s1, s2, s3}
    Val = {v1}
    NotCached = NotCached
    NoSector = NoSector
    MAXOPBLOCKS = 1
    LOGSIZE = 3
    NLOG = 3
    OpBlocks = 1
SPECIFICATION Spec
INVARIANTS
    NoPanic
