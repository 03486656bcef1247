CONSTANTS
    h1 = h1
    h2 = h2
    e1 = e1
    e2 = e2
    b1 = b1
    b2 = b2
    Handlers <- MC_Handlers
    StreamIds <- MC_StreamIds
    SubIds <- MC_SubIds
    FromBlocks <- MC_FromBlocks
    MaxRequests = 5
    MaxCrashes = 1
    StoreMayFail = TRUE
SPECIFICATION Spec
INVARIANT TypeOK
CHECK_DEADLOCK FALSE
