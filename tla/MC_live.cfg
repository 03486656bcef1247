CONSTANTS
    s1 = s1
    s2 = s2
    d1 = d1
    d2 = d2
    Subs <- MC_Subs2
    FromBlock <- MC_FromBlock2
    Dispatchers <- MC_Dispatchers
    MaxBlock = 2
    InitBatchSize = 2
    BatchSizes = {1, 2}
    ErrorHandlings = {"block", "skip"}
    MaxUpdates = 0
    MaxSuspends = 0
    MaxCrashes = 1
    AllowInvalidUpdate = FALSE
    LedgerMayFail = FALSE
    StoreMayFail = FALSE
SPECIFICATION FairSpec
PROPERTY StreamCatchesUp
INVARIANT InFlightExact
INVARIANT NoEventSkippedUnacked
PROPERTY RefinesCheckpointLog
