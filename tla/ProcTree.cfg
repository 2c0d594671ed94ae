CONSTANTS
    c1 = c1
    c2 = c2
    CPU = {c1, c2}
    NPROC = 3
    NTHREAD = 1
    MaxPid = 3
    MaxTid = 0
    Calls = {"fork", "exit", "fault", "wait", "kill", "block", "disk"}
    KillArgs = {0, 2, 3}
SPECIFICATION LiveSpec
INVARIANTS
    TypeOK
    RunningOnOneCpu
    ParentAlive
    WaitNotMissed
    ReapedIsStopped
PROPERTIES
    RunnableRuns
    KilledExits
CHECK_DEADLOCK FALSE
