CONSTANTS
    p1 = p1
    p2 = p2
    Proc = {p1, p2}
    NINODES = 4
    NBLOCKS = 6
    NINODE = 5
    NFILE = 3
    NOFILE = 2
    NDIRECT = 1
    NINDIRECT = 2
    MaxWrite = 1
    Names <- MCNames
    Programs <- MCPrograms
    First = p1
    Workloads <- MCWorkloads
    MaxCrashes = 1
SPECIFICATION Spec
INVARIANTS
    Asserted
    RefsCounted
    CacheCoherent
    BlocksOwned
    LinksCovered
    NoCircularWait
CHECK_DEADLOCK FALSE
