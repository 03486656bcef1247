---------------------------- MODULE CheckpointLog ----------------------------
(* What an event stream promises its subscriptions (spec sections 1 and 8):  *)
(* each block of a subscription is handed to the sink (or, with             *)
(* errorHandling=skip, given up on) at least once, and the durable          *)
(* checkpoint from which a restarted process resumes only moves forward    *)
(* and never past a block that was not handled.  Delivery may repeat and    *)
(* happen in any order; nothing here says which goroutine does what.        *)
EXTENDS Naturals

CONSTANTS Subs, FromBlock, MaxBlock

VARIABLES
    acked,  \* acked[s]: the block a restart resumes s from
    done    \* done[s]: the blocks of s the sink accepted or skipped

Blocks == 0 .. MaxBlock - 1

Init ==
    /\ acked = FromBlock
    /\ done = [s \in Subs |-> {}]

\* the sink takes some blocks (a batch may span subscriptions)
Handle ==
    /\ \E new \in [Subs -> SUBSET Blocks] :
          done' = [s \in Subs |-> done[s] \cup new[s]]
    /\ UNCHANGED acked

\* the checkpoint of some subscriptions moves forward over handled blocks
Commit ==
    /\ \E next \in [Subs -> 0 .. MaxBlock] :
          /\ \A s \in Subs : /\ acked[s] <= next[s]
                             /\ acked[s] .. next[s] - 1 \subseteq done[s]
          /\ acked' = next
    /\ UNCHANGED done

Next == Handle \/ Commit

Spec == Init /\ [][Next]_<<acked, done>>
=============================================================================
