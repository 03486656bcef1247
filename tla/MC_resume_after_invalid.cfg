CONSTANTS
    s1 = s1
    s2 = s2
    d1 = d1
    d2 = d2
    Subs <- MC_Subs
    FromBlock <- MC_FromBlock
    Dispatchers <- MC_Dispatchers
    MaxBlock = 1
    InitBatchSize = 2
    BatchSizes = {2}
    ErrorHandlings = {"skip"}
    MaxUpdates = 1
    MaxSuspends = 0
    MaxCrashes = 0
    AllowInvalidUpdate = TRUE
    LedgerMayFail = FALSE
    StoreMayFail = FALSE
SPECIFICATION FairSpec
PROPERTY ProcessorReleasesLock
CHECK_DEADLOCK FALSE
