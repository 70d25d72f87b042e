CONSTANTS
    scan1 = scan1
    exec1 = exec1
    exec2 = exec2
    b1 = b1
    Scans <- MCScans
    Executions <- MCExecutions
    Background <- MCBackground
    Buckets <- MCBuckets
    ScanFindings <- MCScanFindings
    MaxBegun = 1
    MaxAttempts = 2
    SdkAttempts = 1
    StoreEnabled = FALSE
    Webhook = TRUE
    CacheFails = FALSE
    StaleReads = FALSE

SPECIFICATION DeliverySpec
INVARIANTS
    StoredOnce
CHECK_DEADLOCK FALSE
