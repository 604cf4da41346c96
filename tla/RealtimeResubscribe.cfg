SPECIFICATION Spec
CONSTANTS
    Configs <- OneTable
    MaxCalls = 2
    StoredFirst = "legacy"
    MaxRequests = 2
    MaxSockets = 2
    MaxSessions = 2
    MaxTrouble = 2
    MaxEvents = 4
INVARIANTS
    SubscriberIsTold
CHECK_DEADLOCK FALSE
