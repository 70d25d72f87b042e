SPECIFICATION Spec
CONSTANTS
    aws = aws
    azure = azure
    w1 = w1
    w2 = w2
    MaxTime = 3
    KeyBytes <- MCKeyBytes
    Limits <- MCLimits
    MaxLimit = 2
    Providers <- MCProviders
    Severities <- MCSeverities
    Provider <- MCProvider
    Here <- MCHere
    Workers <- MCWorkers
    RestoreLimit = 2
    MaxRestarts = 1
SYMMETRY MCSymmetry
INVARIANTS
    WalkIsOrdered
    WalkIsComplete
    PostureIsLatest
CHECK_DEADLOCK FALSE
