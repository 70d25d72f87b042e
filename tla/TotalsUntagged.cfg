CONSTANTS
    old1 = old1
    old2 = old2
    new1 = new1
    new2 = new2
    l1 = l1
    l2 = l2
    Audits <- MCFewAudits
    Legacy <- MCFewLegacy
    Loaders <- MCLoaders
    SdkAttempts = 1
    StaleReads = FALSE

SPECIFICATION Spec
INVARIANTS
    LoadTagsLegacy
CHECK_DEADLOCK FALSE
