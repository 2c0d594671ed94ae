CONSTANTS
    NPROC = 3
    NTHREAD = 2
    NPAGES = 13
    PGSIZE = 2
    NPTENTRIES = 2
    NPDENTRIES = 3
    Grow <- MCGrow
    Programs <- MCPrograms
    MaxOps = 4
SPECIFICATION Spec
INVARIANTS
    PagesAccounted
    SizeMapped
    Asserted
CHECK_DEADLOCK FALSE
