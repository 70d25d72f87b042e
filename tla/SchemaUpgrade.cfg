CONSTANTS
    w1 = w1
    w2 = w2
    k1 = k1
    k2 = k2
    Workers <- MCWorkers
    Keys <- MCKeys
    MaxCopies = 2

SPECIFICATION FairSpec
INVARIANTS
    NoCopyLeft
    SchemaInOrder
PROPERTIES
    ImplementsFindingsTable
    CallsEnd
CHECK_DEADLOCK FALSE
