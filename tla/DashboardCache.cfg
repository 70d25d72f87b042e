CONSTANTS
    first = first
    second = second
    audit1 = audit1
    audit2 = audit2
    b1 = b1
    r1 = r1
    Deliveries <- MCDeliveries
    AuditIds <- MCAuditIds
    AuditId <- MCAuditId
    Keyed = {}
    Buckets <- MCBuckets
    Findings <- MCFindings
    Readers <- MCReaders
    PageSize = 1
    Stamp <- MCStamp
    SdkAttempts = 1
    Async <- MCDeliveries
    StoreEnabled = FALSE
    Webhook = TRUE
    CacheFails = TRUE
    StaleReads = TRUE

SPECIFICATION DashboardFairSpec
INVARIANTS
    ViewsAreReal
PROPERTIES
    CacheConverges
CHECK_DEADLOCK FALSE
