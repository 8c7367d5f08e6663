SPECIFICATION Spec
CONSTANTS
    t1 = t1
    t2 = t2
    t3 = t3
    Threads = {t1, t2, t3}
    MaxBatches = 4
    MaxLogs = 6
    MemCap = 1
    MaxGroup = 2
    L0Compact = 1
    L0Slow = 2
    L0Stop = 2
    CanSync = TRUE
    CanForce = FALSE
    Faults = {"sync", "newlog", "table", "manifest"}
    Crashes = {"process", "machine"}
SYMMETRY MCSymmetry
CHECK_DEADLOCK FALSE
INVARIANTS WriteAhead CallOrder AckedSurvive AckedReadable SyncedSurvive
PROPERTY ImplementsDurableLog
