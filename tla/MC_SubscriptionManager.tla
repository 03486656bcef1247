------------------------ MODULE MC_SubscriptionManager ------------------------
(* Model-checking instance of SubscriptionManager: handler goroutines and   *)
(* ids are model values, fromBlock values are strings, bounds in the cfgs.  *)
EXTENDS SubscriptionManager

CONSTANTS h1, h2, e1, e2, b1, b2

MC_Handlers == {h1, h2}
MC_StreamIds == {e1, e2}
MC_SubIds == {b1, b2}
MC_FromBlocks == {FromBlockNewest, "10"}
=============================================================================
