CONSTANTS
    b1 = b1
    b2 = b2
    b3 = b3
    Buckets <- MCBuckets
    Family <- MCFamily
    MaxConcurrency = 2
    MaxChanges = 1
    Requests <- MCRequests
    Corrections <- MCCorrections
    MaxFindings = 2
    MaxResources = 3
    MaxErrors = 4

SPECIFICATION AuditFairSpec
INVARIANTS
    GateConserved
    ReportIsComplete
    ExposedIsCritical
    ReportIsAccepted
    StoredIsSound
PROPERTIES
    HardeningNeverHurts
    NothingElseHides
    AuditEnds
CHECK_DEADLOCK FALSE
