SPECIFICATION Spec
CONSTANTS
    Readers = {r1, r2}
    Capacity = 1
    MaxNumber = 3
    MaxRuns = 2
    MaxByte = 2
    UserStrings <- MCStrings
    TopSeq = 3
    RestartInterval = 2
    MaxEntries = 4
    UserKeys = {1, 2, 3}
    Children = {1, 2}
    StoredSeq = 3
    MaxWrites = 1
SYMMETRY MCReaders
CHECK_DEADLOCK FALSE
INVARIANTS StorageTypesOK TablesFound RecoverableFiles NothingLeaks GetFindsEntry TableIsACursor IteratorIsACursor
