------------------------------- MODULE MCClpa -------------------------------
\* Three shards, so that a neighbour can be in neither of the two shards of a
\* move, with two, one and one accounts.
EXTENDS ClpaPartition, TLC

CONSTANTS v1, v2, v3, v4

MCAddr2Shard == (v1 :> 0) @@ (v2 :> 0) @@ (v3 :> 1) @@ (v4 :> 2)
=============================================================================
