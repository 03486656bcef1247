---------------------------- MODULE MC_FabricTx ----------------------------
EXTENDS FabricTx

CONSTANTS r1, r2, t1, t2, t3, ch, cc, fn, a1, sg

MC_Reqs == {r1, r2}
MC_TxIds == {t1, t2, t3}
=============================================================================
