---------------------------- MODULE MC_EventStream ----------------------------
(* Model-checking instance of EventStream: the constants that are sets of    *)
(* model values or functions are defined here, the numbers in the cfg files. *)
EXTENDS EventStream

CONSTANTS s1, s2, d1, d2

MC_Subs == {s1}
MC_Subs2 == {s1, s2}
MC_Dispatchers == {d1, d2}
MC_FromBlock == [s \in MC_Subs |-> 0]
MC_FromBlock2 == [s \in MC_Subs2 |-> 0]
=============================================================================
