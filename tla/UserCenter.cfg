SPECIFICATION Spec
CONSTANTS
    ann = ann
    bob = bob
    Accounts = {ann, bob}
    NoValue = NoValue
    Keys = {"info", "token", "logged"}
    Values = {ann, bob, "YES", "NO", NoValue}
    MaxPending = 1
    MaxRequests = 2
    MaxTasks = 2
SYMMETRY MCSymmetry
CONSTRAINT MCFewWrites
INVARIANTS TypeOK CalmSession ReadsOwnLogin SignedOutLeavesMain
CHECK_DEADLOCK FALSE
