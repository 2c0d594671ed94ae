CONSTANTS
    c1 = c1
    c2 = c2
    CPU = {c1}
    NPROC = 2
    NTHREAD = 2
    MaxPid = 2
    MaxTid = 1
    Calls = {"fork", "kthread_create"}
    KillArgs = {}
SPECIFICATION Spec
INVARIANTS
    StacksIntact
CHECK_DEADLOCK FALSE
