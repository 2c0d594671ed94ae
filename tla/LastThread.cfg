CONSTANTS
    c1 = c1
    c2 = c2
    CPU = {c1, c2}
    NPROC = 2
    NTHREAD = 1
    MaxPid = 2
    MaxTid = 0
    Calls = {"fork", "wait", "kthread_exit"}
    KillArgs = {}
SPECIFICATION Spec
SYMMETRY Perms
INVARIANTS
    ReapedIsStopped
CHECK_DEADLOCK FALSE
