-------------------------- MODULE MCStrikeTracker --------------------------
(* Small instances of StrikeTracker for TLC.                               *)
EXTENDS StrikeTracker

\* A web rule of the shared pool, and two rules of the isolated pool whose
\* categories, thresholds and windows differ.
MCRules ==
    {[pool |-> "shared", cat |-> 0, threshold |-> 2, window |-> 1],
     [pool |-> "isolated", cat |-> 1, threshold |-> 2, window |-> 1],
     [pool |-> "isolated", cat |-> 2, threshold |-> 1, window |-> 0]}

\* The only address is in the second shard.
MCSecondShard == [ip \in Ips |-> 1]
=============================================================================
