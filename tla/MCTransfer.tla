----------------------------- MODULE MCTransfer -----------------------------
\* Two shards.  Alice moves from the first, where carol stays, to bob's, while bob
\* pays her and she pays carol: from inside the shard, from the other one, or, if
\* the transaction comes late, from neither.
EXTENDS AccountTransfer

CONSTANTS alice, bob, carol, s1, s2

MCAddr2Shard == (alice :> s1) @@ (bob :> s2) @@ (carol :> s1)
MCTxList == <<[from |-> bob, to |-> alice, value |-> 1], [from |-> alice, to |-> carol, value |-> 2]>>
MCMaps == <<(alice :> s2)>>

\* Nobody pays, and the account moves back in the next epoch.
MCNoTxs == <<>>
MCTwoMaps == <<(alice :> s2), (alice :> s1)>>
=============================================================================
