SPECIFICATION BucketSpec
CONSTANTS
    Keys = {k1}
    NoValue = NoValue
    Values = {v1, v2, NoValue}
    MaxPending = 1
INVARIANTS LastWriteWins
