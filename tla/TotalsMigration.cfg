CONSTANTS
    old1 = old1
    old2 = old2
    new1 = new1
    new2 = new2
    l1 = l1
    l2 = l2
    Audits <- MCAudits
    Legacy <- MCLegacy
    Loaders <- MCLoaders
    SdkAttempts = 2
    StaleReads = TRUE

SPECIFICATION Spec
SYMMETRY MCSymmetry
INVARIANTS
    RebuildIsComplete
    AddedIsCounted
    CountsBounded
PROPERTIES
    TotalsOnlyGrow
CHECK_DEADLOCK FALSE
