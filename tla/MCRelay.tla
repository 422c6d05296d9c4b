------------------------------ MODULE MCRelay ------------------------------
\* Two shards, two accounts in one and one in the other, and a dataset with transactions inside a
\* shard and in both directions across.
EXTENDS RelaySystem, TLC

CONSTANTS a1, a2, b1, s1, s2

MCPartitionMap == (a1 :> s1) @@ (a2 :> s1) @@ (b1 :> s2)

\* a1 pays b1, a2 pays a1 more than there is and b1 pays a1.
MCTxList == <<[from |-> a1, to |-> b1, value |-> 1],
              [from |-> a2, to |-> a1, value |-> 9],
              [from |-> b1, to |-> a1, value |-> 2]>>
=============================================================================
