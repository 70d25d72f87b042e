CONSTANTS
    first = first
    retry = retry
    audit1 = audit1
    b1 = b1
    Deliveries <- MCDeliveries
    AuditIds <- MCAuditIds
    AuditId <- MCAuditId
    Keyed <- MCDeliveries
    Buckets <- MCBuckets
    Findings <- MCFindings
    SdkAttempts = 1
    Async <- MCAsync
    StoreEnabled = TRUE
    Webhook = TRUE
    CacheFails = FALSE
    StaleReads = TRUE

SPECIFICATION FairSpec
INVARIANTS
    AckedIsStored
    EffectsBacked
    DuplicateLeavesNoTrace
    SuccessIsTruthful
PROPERTIES
    NothingTakenBack
    ImplementsAuditLog
    AlertSettles
    HandlerSettles
CHECK_DEADLOCK FALSE
