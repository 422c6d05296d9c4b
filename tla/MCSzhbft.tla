------------------------------ MODULE MCSzhbft ------------------------------
\* Two shards of four nodes; two payments inside the first, and one across.
EXTENDS SZHBFT, TLC

CONSTANTS a1, a2, b1, s1, s2, n1, n2, n3, n4

MCPartitionMap == (a1 :> s1) @@ (a2 :> s1) @@ (b1 :> s2)
MCTxList == <<[from |-> a1, to |-> b1, value |-> 1], [from |-> a1, to |-> a2, value |-> 2],
              [from |-> a2, to |-> a1, value |-> 1]>>
Nodes == Permutations(NodeID)

\* Bound: while nodes vote nothing else is on its way or being agreed on.  Votes
\* and blocks share no state but the sequence number of the proposal.
QuietWhileVoting ==
    prepares \cup votes # {} \/ handling # {} =>
        /\ injects = {} /\ relays = {}
        /\ \A s \in Shard : stage[s] # "agree" /\ stage[s] # "empty"

\* Bound: the nodes answer a proposal before the first vote on it is handled.
AnswersFirst == prepares # {} => handling = {} /\ \A m \in prepares : voted[m.leader][m.seq] = {}

\* Bound: the second shard, which only has a relayed half to record, agrees once.
OneBlock == sequenceID[s2] <= 2

\* Bound: two handlers of votes at a time are between their locks.
TwoHandlers == Cardinality(handling) <= 2
=============================================================================
