CONSTANTS
    None = None
    NCPU = 2
    NTHREAD = 2
    UINT = 4
    INPUT_BUF = 2
    Start = 3
    Workloads <- MCWorkloads
SPECIFICATION Spec
INVARIANTS
    MaskedWhileLocked
    Asserted
    MaskRestored
    NoSpinCycle
    SleepersWait
    ModifiersReleased
PROPERTIES
    SleptEnough
    IsTerminal
CHECK_DEADLOCK FALSE
