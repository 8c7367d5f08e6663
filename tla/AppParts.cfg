SPECIFICATION AppSpec
CONSTANTS
    Starts = {0, 60000, 131000, 1677700, 2999000, 6553500, 9990000}
    Stretch = 30000
    Amounts = {53, 40000}
    Limit = 20000
    Members = 2
    MaxRequests = 2
    MaxPackets = 2
    Small = {53}
    ChatPackets = {1, 2}
    Private = {1}
    MaxSheets = 2
    MaxCalls = 2
    MapPackets = {1}
    MaxAntRequests = 2
    Keys = {k1, k2}
    NoValue = NoValue
    Values = {v1, v2, NoValue}
    MaxPending = 1
CONSTRAINTS MCPlainSecond MCFlagFirst
INVARIANTS TypeOK ConfirmedAmount WithinLimit AnnouncedOnce AmountsKept NoticeIsTrue VisibilityAgrees PageTellsTruth CalmReads IInv
PROPERTIES ImplementsTable
CHECK_DEADLOCK FALSE
