SPECIFICATION Spec
CONSTANTS
    Amounts = {53, 40000}
    Limit = 20000
    Members = 2
    MaxRequests = 2
    MaxPackets = 1
INVARIANTS OwnPacketOpens
CHECK_DEADLOCK FALSE
