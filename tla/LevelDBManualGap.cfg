SPECIFICATION CompactionSpec
CONSTANTS
    Keys = {1, 2, 3}
    MaxSeq = 5
    MaxSnapshots <- MCNoSnapshots
    NumLevels = 3
    MaxMemCompactLevel = 1
    Deletes = {FALSE}
    Sizes = {FALSE}
    Manual = TRUE
CHECK_DEADLOCK FALSE
INVARIANT LevelsDisjoint
