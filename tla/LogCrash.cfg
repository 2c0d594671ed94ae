CONSTANTS
    p1 = p1
    p2 = p2
    p3 = p3
    s1 = s1
    s2 = s2
    s3 = s3
    s4 = s4
    v1 = v1
    v2 = v2
    Proc = {p1, p2}
    Sector = {s1, s2}
    Val = {v1, v2}
    NotCached = NotCached
    NoSector = NoSector
    MAXOPBLOCKS = 2
    LOGSIZE = 4
    NLOG = 4
    OpBlocks = 2
SPECIFICATION LiveSpec
INVARIANTS
    TypeOK
    CommitAlone
    HeaderFits
    QuiescentDurable
PROPERTIES
    AtomicUpdates
    SleeperWoken
