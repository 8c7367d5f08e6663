SPECIFICATION Spec
CONSTANTS
    ann = ann
    bob = bob
    Accounts = {ann}
    NoValue = NoValue
    Keys = {"info", "token", "logged"}
    Values = {ann, "YES", "NO", NoValue}
    MaxPending = 1
    MaxRequests = 1
    MaxTasks = 1
INVARIANTS LoggedCanAutoLogin
