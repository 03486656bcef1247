CONSTANTS
    s1 = s1
    s2 = s2
    d1 = d1
    d2 = d2
    Subs <- MC_Subs
    FromBlock <- MC_FromBlock
    Dispatchers <- MC_Dispatchers
    MaxBlock = 3
    InitBatchSize = 2
    BatchSizes = {1, 2}
    ErrorHandlings = {"block", "skip"}
    MaxUpdates = 2
    MaxSuspends = 0
    MaxCrashes = 0
    AllowInvalidUpdate = TRUE
    LedgerMayFail = FALSE
    StoreMayFail = FALSE
SPECIFICATION Spec
INVARIANT InFlightCoversPending
CHECK_DEADLOCK FALSE
