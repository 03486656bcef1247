CONSTANTS
    r1 = r1
    r2 = r2
    t1 = t1
    t2 = t2
    t3 = t3
    ch = ch
    cc = cc
    fn = fn
    a1 = a1
    sg = sg
    Reqs <- MC_Reqs
    TxIds <- MC_TxIds
    Channels = {ch}
    Chaincodes = {cc}
    Functions = {fn}
    ArgLists = {a1}
    Signers = {sg}
    OrigKinds = {"bytes", "struct"}
    MaxSends = 1
    RpcMayFail = FALSE
    ClientSetsHash = FALSE
SPECIFICATION Spec
INVARIANT SentTxIsFound
