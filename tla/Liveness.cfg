SPECIFICATION LiveSpec
CONSTANTS
    ann = ann
    Accounts = {ann}
    NoValue = NoValue
    Keys = {"info", "token", "logged"}
    Values = {ann, "YES", "NO", NoValue}
    MaxPending = 1
    MaxRequests = 1
    MaxTasks = 1
    t1 = t1
    t2 = t2
    Threads = {t1, t2}
    MaxBatches = 3
    MaxLogs = 5
    MemCap = 1
    MaxGroup = 2
    L0Compact = 1
    L0Slow = 1
    L0Stop = 1
    CanSync = FALSE
    CanForce = TRUE
    Faults = {"append", "table", "manifest", "tear"}
    Crashes = {}
CHECK_DEADLOCK FALSE
PROPERTIES LaunchResolves WritesReturn
