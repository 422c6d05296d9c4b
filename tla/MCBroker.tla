------------------------------ MODULE MCBroker ------------------------------
\* Two shards with a user each, who pay each other, and a broker at home in the
\* first shard, who is paid and pays as well.
EXTENDS BrokerTx, TLC

CONSTANTS alice, bob, carol, s1, s2

MCAddr2Shard == (alice :> s1) @@ (bob :> s2) @@ (carol :> s1)
MCBrokers == <<carol>>
MCTxList ==
    <<[from |-> alice, to |-> bob, value |-> 1], [from |-> bob, to |-> alice, value |-> 2],
      [from |-> bob, to |-> carol, value |-> 1], [from |-> carol, to |-> bob, value |-> 3],
      [from |-> alice, to |-> bob, value |-> 1]>>
=============================================================================
