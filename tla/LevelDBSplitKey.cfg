SPECIFICATION CompactionSpec
CONSTANTS
    Keys = {1}
    MaxSeq = 3
    MaxSnapshots <- MCSnapshots
    NumLevels = 3
    MaxMemCompactLevel = 0
    Deletes = {TRUE, FALSE}
    Sizes = {TRUE}
    Manual = FALSE
CHECK_DEADLOCK FALSE
INVARIANT NewerAbove
