SPECIFICATION Spec
CONSTANTS
    t1 = t1
    t2 = t2
    t3 = t3
    Threads = {t1, t2}
    MaxBatches = 3
    MaxLogs = 5
    MemCap = 1
    MaxGroup = 2
    L0Compact = 1
    L0Slow = 2
    L0Stop = 2
    CanSync = FALSE
    CanForce = FALSE
    Faults = {"append"}
    Crashes = {"process"}
SYMMETRY MCSymmetry
CHECK_DEADLOCK FALSE
INVARIANTS AckedSurvive
