CONSTANTS
    s1 = s1
    s2 = s2
    d1 = d1
    d2 = d2
    Subs <- MC_Subs
    FromBlock <- MC_FromBlock
    Dispatchers <- MC_Dispatchers
    MaxBlock = 3
    InitBatchSize = 2
    BatchSizes = {1, 2}
    ErrorHandlings = {"skip"}
    MaxUpdates = 0
    MaxSuspends = 1
    MaxCrashes = 1
    AllowInvalidUpdate = FALSE
    LedgerMayFail = FALSE
    StoreMayFail = FALSE
SPECIFICATION Spec
INVARIANT NoEventSkippedUnacked
