CONSTANTS
    a1 = a1
    a2 = a2
    Alerts <- MCAlerts
    MaxAttempts = 2
    PoolSize = 1

SPECIFICATION FairSpec
INVARIANTS
    RetriesHonest
    DrainIsComplete
PROPERTIES
    PendingEmpties
    DrainReturns
CHECK_DEADLOCK FALSE
