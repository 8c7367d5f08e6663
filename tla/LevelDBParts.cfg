SPECIFICATION Spec
CONSTANTS
    Keys = {1, 2}
    MaxSeq = 4
    MaxSnapshots <- MCSnapshots
    NumLevels = 3
    MaxMemCompactLevel = 1
    Deletes = {TRUE, FALSE}
    Sizes = {TRUE, FALSE}
    Manual = TRUE
    Procs = {1, 2}
    Openers = {11, 12, 21}
    Proc <- MCProc
    NoProc = 0
    CanDestroy = TRUE
    MaxInodes = 3
    BlockSize = 5
    HeaderSize = 2
    RecordSizes = {1, 5}
    MaxRecords = 3
    MaxDamage = 1
    ListKeys = {1, 2, 3}
    Inf = 4
    MaxHeight = 2
CHECK_DEADLOCK FALSE
INVARIANTS TypesOK LevelsDisjoint NewerAbove ReadsRight OnePerProcess Exclusive NoStaleLock OnlyTrueRecords LossIsLocal ReadersMissNothing
