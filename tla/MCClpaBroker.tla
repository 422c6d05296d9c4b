---------------------------- MODULE MCClpaBroker ----------------------------
\* Two shards, a broker at home in the first.  Alice and bob change places: her
\* payment to dave is given back and split, and the halves of his payment to her
\* move with them, as does the broker's payment to her.
EXTENDS ClpaBroker

CONSTANTS alice, bob, carol, dave, s1, s2

MCAddr2Shard == (alice :> s1) @@ (bob :> s2) @@ (carol :> s1) @@ (dave :> s1)
MCBrokers == <<carol>>
MCTxList ==
    <<[from |-> alice, to |-> dave, value |-> 1], [from |-> bob, to |-> alice, value |-> 2],
      [from |-> carol, to |-> alice, value |-> 1]>>
MCMaps == <<(alice :> s2) @@ (bob :> s1)>>

\* Bound: one sequence number at a time is on its way to a leader that runs.
FewSeqInfos == Cardinality({m \in seqInfos : Running(m.to)}) <= 1
=============================================================================
