CONSTANTS
    c1 = c1
    c2 = c2
    CPU = {c1, c2}
    NPROC = 2
    NTHREAD = 3
    MaxPid = 2
    MaxTid = 2
    Calls = {"fork", "kthread_create", "kthread_exit", "kthread_join", "kill", "exit", "fault"}
    KillArgs = {1, 2}
SPECIFICATION Spec
SYMMETRY Perms
INVARIANTS
    JoinNotMissed
CHECK_DEADLOCK FALSE
