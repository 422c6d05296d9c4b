---------------------------- MODULE SZHBFTProof ----------------------------
(***************************************************************************)
(* Proofs about SZHBFT for every number of shards, nodes and transactions. *)
(***************************************************************************)
EXTENDS SZHBFT, TransactionTheorems

-----------------------------------------------------------------------------
(* Votes.  Only who is asked, about which proposal, matters for the counts. *)

\* Leaders ask about the sequence numbers they propose, and a vote repeats them.
Concerns(l, q, n) == l \in Shard /\ q \in 1 .. MaxSeq /\ n \in NodeID
VotesConcern ==
    /\ sequenceID \in [Shard -> Nat \ {0}]
    /\ \A m \in prepares : Concerns(m.leader, m.seq, m.node)
    /\ \A v \in votes : Concerns(v.leader, v.seq, v.node)
    /\ \A h \in handling : Concerns(h.vote.leader, h.vote.seq, h.vote.node)

VotesTyped ==
    /\ globalVotePool \in [Shard -> [1 .. MaxSeq -> SUBSET NodeID]]
    /\ voted \in [Shard -> [1 .. MaxSeq -> SUBSET NodeID]]
    /\ confirmed \in [Shard -> [1 .. MaxSeq -> Nat]]

\* The pool holds votes that were handled, also after it was deleted and refilled.
PoolVoted == \A s \in Shard, q \in 1 .. MaxSeq : globalVotePool[s][q] \subseteq voted[s][q]

\* A count made under the first lock may be too old, never too high.
CountsVoted ==
    \A h \in handling : /\ h.agreeCount \in Nat
                        /\ h.agreeCount <= Cardinality(voted[h.vote.leader][h.vote.seq])

VoteInv == VotesConcern /\ VotesTyped /\ PoolVoted /\ CountsVoted /\ ConfirmNeedsVotes

\* Any set of nodes has a number of elements, and no fewer than its subsets.
LEMMA NodesCount ==
    ASSUME NEW A \in SUBSET NodeID, NEW B \in SUBSET A
    PROVE  /\ Cardinality(A) \in Nat /\ Cardinality(B) \in Nat
           /\ Cardinality(B) <= Cardinality(A)
<1>1. IsFiniteSet(A)
    BY SzhbftAssumption, FS_Subset
<1> QED BY <1>1, FS_Subset, FS_CardinalityType

\* Nobody has voted.
LEMMA VoteInit == Init => VoteInv
BY SzhbftAssumption
   DEF Init, VoteInv, VotesConcern, VotesTyped, PoolVoted, CountsVoted, ConfirmNeedsVotes

\* Steps that leave the votes alone.
LEMMA VoteOther ==
    ASSUME VoteInv, UNCHANGED voteVars, UNCHANGED votes, VotesConcern' PROVE VoteInv'
BY DEF VoteInv, VotesTyped, PoolVoted, CountsVoted, ConfirmNeedsVotes, voteVars, malicious_nums

\* First lock: a vote is noted, and the pool is counted.
LEMMA VoteCount ==
    ASSUME VoteInv, NEW v \in votes, CountVote(v) PROVE VoteInv'
<1> DEFINE l == v.leader
           q == v.seq
           pool == globalVotePool[l][q] \cup {v.node}
           seen == voted[l][q] \cup {v.node}
           h == [vote |-> v, agreeCount |-> Cardinality(pool)]
<1>1. l \in Shard /\ q \in 1 .. MaxSeq /\ v.node \in NodeID
    BY DEF VoteInv, VotesConcern, Concerns
<1>2. /\ globalVotePool[l][q] \in SUBSET NodeID /\ voted[l][q] \in SUBSET NodeID
      /\ globalVotePool[l][q] \subseteq voted[l][q]
    BY <1>1 DEF VoteInv, VotesTyped, PoolVoted
<1>3. /\ pool \in SUBSET NodeID /\ seen \in SUBSET NodeID /\ pool \subseteq seen
    BY <1>1, <1>2
<1>4. /\ globalVotePool' = [globalVotePool EXCEPT ![l] = [globalVotePool[l] EXCEPT ![q] = pool]]
      /\ voted' = [voted EXCEPT ![l] = [voted[l] EXCEPT ![q] = seen]]
      /\ confirmed' = confirmed /\ sequenceID' = sequenceID /\ prepares' = prepares
      /\ votes' = votes \ {v}
    BY <1>1 DEF CountVote, VoteInv, VotesTyped, shardVars
<1>5. globalVotePool'[l][q] = pool /\ voted'[l][q] = seen
    BY <1>1, <1>4 DEF VoteInv, VotesTyped
<1>6. handling' = handling \cup {h}
    BY <1>5 DEF CountVote
<1>7. \A s \in Shard, p \in 1 .. MaxSeq :
          /\ globalVotePool'[s][p] = IF s = l /\ p = q THEN pool ELSE globalVotePool[s][p]
          /\ voted'[s][p] = IF s = l /\ p = q THEN seen ELSE voted[s][p]
    BY <1>1, <1>4 DEF VoteInv, VotesTyped
<1>8. VotesTyped'
    BY <1>1, <1>3, <1>4 DEF VoteInv, VotesTyped
<1>9. PoolVoted'
    BY <1>3, <1>7 DEF VoteInv, PoolVoted
<1>10. \A s \in Shard, p \in 1 .. MaxSeq :
          /\ Cardinality(voted[s][p]) \in Nat /\ Cardinality(voted'[s][p]) \in Nat
          /\ Cardinality(voted[s][p]) <= Cardinality(voted'[s][p])
  <2> TAKE s \in Shard, p \in 1 .. MaxSeq
  <2>1. voted'[s][p] \in SUBSET NodeID /\ voted[s][p] \in SUBSET voted'[s][p]
    <3>1. voted'[s][p] = IF s = l /\ p = q THEN seen ELSE voted[s][p]
      BY <1>7
    <3>2. voted[s][p] \in SUBSET NodeID
      BY DEF VoteInv, VotesTyped
    <3>3. CASE s = l /\ p = q
      BY <1>3, <3>1, <3>2, <3>3
    <3>4. CASE ~(s = l /\ p = q)
      BY <3>1, <3>2, <3>4
    <3> QED BY <3>3, <3>4
  <2> QED BY <2>1, NodesCount
<1>11. CountsVoted'
  <2>1. h.agreeCount \in Nat /\ h.agreeCount <= Cardinality(voted'[h.vote.leader][h.vote.seq])
    BY <1>3, <1>5, NodesCount
  <2>2. ASSUME NEW g \in handling
        PROVE  /\ g.agreeCount \in Nat
               /\ g.agreeCount <= Cardinality(voted'[g.vote.leader][g.vote.seq])
    <3>1. /\ g.agreeCount \in Nat /\ g.agreeCount <= Cardinality(voted[g.vote.leader][g.vote.seq])
          /\ g.vote.leader \in Shard /\ g.vote.seq \in 1 .. MaxSeq
      BY DEF VoteInv, CountsVoted, VotesConcern, Concerns
    <3> QED BY <1>10, <3>1
  <2> HIDE DEF h
  <2> QED BY <1>6, <2>1, <2>2 DEF CountsVoted
<1>12. ConfirmNeedsVotes'
  <2> SUFFICES ASSUME NEW s \in Shard, NEW p \in 1 .. MaxSeq, confirmed'[s][p] > 0
               PROVE  Cardinality(voted'[s][p]) >= 3 * malicious_nums + 1
    BY DEF ConfirmNeedsVotes, malicious_nums
  <2>1. Cardinality(voted[s][p]) >= 3 * malicious_nums + 1
    BY <1>4 DEF VoteInv, ConfirmNeedsVotes
  <2>2. malicious_nums \in Int
    BY NodesCount DEF malicious_nums
  <2> QED BY <1>10, <2>1, <2>2
<1>13. VotesConcern'
  <2>1. h.vote = v
    OBVIOUS
  <2> HIDE DEF h
  <2> QED BY <1>1, <1>4, <1>6, <2>1 DEF VoteInv, VotesConcern, Concerns
<1> QED BY <1>8, <1>9, <1>11, <1>12, <1>13 DEF VoteInv

\* Second lock: the count made before decides, and the pool is deleted.
LEMMA VoteDecide ==
    ASSUME VoteInv, NEW h \in handling, Decide(h) PROVE VoteInv'
<1> DEFINE l == h.vote.leader
           q == h.vote.seq
<1>1. l \in Shard /\ q \in 1 .. MaxSeq
    BY DEF VoteInv, VotesConcern, Concerns
<1>2. malicious_nums \in Int
    BY NodesCount DEF malicious_nums
<1>3. /\ h.agreeCount \in Nat /\ h.agreeCount <= Cardinality(voted[l][q])
      /\ Cardinality(voted[l][q]) \in Nat
  <2>1. voted[l][q] \in SUBSET NodeID
    <3>1. voted \in [Shard -> [1 .. MaxSeq -> SUBSET NodeID]]
      BY DEF VoteInv, VotesTyped
    <3> HIDE DEF l, q
    <3> QED BY <1>1, <3>1
  <2>2. h.agreeCount \in Nat /\ h.agreeCount <= Cardinality(voted[l][q])
    BY DEF VoteInv, CountsVoted
  <2> HIDE DEF l, q
  <2>3. voted[l][q] \in SUBSET voted[l][q]
    OBVIOUS
  <2> QED BY <2>1, <2>2, <2>3, NodesCount
<1>4. voted' = voted /\ sequenceID' = sequenceID /\ prepares' = prepares /\ votes' = votes
      /\ handling' = handling \ {h}
    BY DEF Decide, shardVars, netVars
<1>5. CASE UNCHANGED <<globalVotePool, confirmed>>
    BY <1>4, <1>5 DEF VoteInv, VotesConcern, VotesTyped, PoolVoted, CountsVoted, ConfirmNeedsVotes,
                      malicious_nums
<1>6. CASE /\ h.agreeCount >= ThresholdImmediate
           /\ globalVotePool' = [globalVotePool EXCEPT ![l][q] = {}]
           /\ confirmed' = [confirmed EXCEPT ![l][q] = @ + 1]
  <2>1. \A s \in Shard, p \in 1 .. MaxSeq :
            /\ globalVotePool'[s][p] = IF s = l /\ p = q THEN {} ELSE globalVotePool[s][p]
            /\ confirmed'[s][p] = IF s = l /\ p = q THEN confirmed[s][p] + 1 ELSE confirmed[s][p]
    BY <1>1, <1>6 DEF VoteInv, VotesTyped
  <2>2. VotesTyped'
    <3>1. /\ [globalVotePool[l] EXCEPT ![q] = {}] \in [1 .. MaxSeq -> SUBSET NodeID]
          /\ [confirmed[l] EXCEPT ![q] = @ + 1] \in [1 .. MaxSeq -> Nat]
      <4>1. globalVotePool[l] \in [1 .. MaxSeq -> SUBSET NodeID] /\ confirmed[l] \in [1 .. MaxSeq -> Nat]
        BY <1>1 DEF VoteInv, VotesTyped
      <4> HIDE DEF l, q
      <4>2. confirmed[l][q] \in Nat
        BY <1>1, <4>1
      <4> QED BY <1>1, <4>1, <4>2
    <3>2. /\ globalVotePool' \in [Shard -> [1 .. MaxSeq -> SUBSET NodeID]]
          /\ confirmed' \in [Shard -> [1 .. MaxSeq -> Nat]]
      BY <1>1, <1>6, <3>1 DEF VoteInv, VotesTyped
    <3> QED BY <1>4, <3>2 DEF VoteInv, VotesTyped
  <2>3. PoolVoted'
    BY <1>4, <2>1 DEF VoteInv, PoolVoted
  <2>4. CountsVoted' /\ VotesConcern'
    BY <1>4 DEF VoteInv, CountsVoted, VotesConcern
  <2>5. Cardinality(voted[l][q]) >= 3 * malicious_nums + 1
    BY <1>2, <1>3, <1>6 DEF ThresholdImmediate
  <2>6. ConfirmNeedsVotes'
    <3> SUFFICES ASSUME NEW s \in Shard, NEW p \in 1 .. MaxSeq, confirmed'[s][p] > 0
                 PROVE  Cardinality(voted[s][p]) >= 3 * malicious_nums + 1
      BY <1>4 DEF ConfirmNeedsVotes, malicious_nums
    <3>1. CASE s = l /\ p = q
      BY <2>5, <3>1
    <3>2. CASE ~(s = l /\ p = q)
      BY <2>1, <3>2 DEF VoteInv, ConfirmNeedsVotes
    <3> QED BY <3>1, <3>2
  <2> QED BY <2>2, <2>3, <2>4, <2>6 DEF VoteInv
<1> QED BY <1>5, <1>6 DEF Decide

\* Every step keeps the votes in order.
LEMMA VoteNext == VoteInv /\ [Next]_vars => VoteInv'
<1> SUFFICES ASSUME VoteInv, [Next]_vars PROVE VoteInv'
    OBVIOUS
<1>1. CASE /\ UNCHANGED voteVars /\ UNCHANGED votes /\ UNCHANGED prepares
           /\ sequenceID' \in [Shard -> Nat \ {0}]
    BY <1>1, VoteOther DEF VoteInv, VotesConcern, voteVars
<1>2. ASSUME NEW s \in Shard, Done(s) PROVE sequenceID' \in [Shard -> Nat \ {0}]
    BY <1>2 DEF Done, VoteInv, VotesConcern
<1>3. CASE TxSending \/ (\E m \in injects : HandleInjectTx(m)) \/ (\E m \in relays : HandleRelay(m))
    BY <1>1, <1>3 DEF TxSending, HandleInjectTx, HandleRelay, shardVars, VoteInv, VotesConcern
<1>4. ASSUME NEW s \in Shard, ProposeLocal(s) \/ ProposeNothing(s) \/ GenerateBlock(s) \/ PanicLocal(s)
      PROVE  VoteInv'
    BY <1>1, <1>4
       DEF ProposeLocal, ProposeNothing, GenerateBlock, PanicLocal, netVars, VoteInv, VotesConcern
<1>5. ASSUME NEW s \in Shard, CommitLocal(s) \/ CommitGlobal(s) PROVE VoteInv'
    BY <1>1, <1>2, <1>5 DEF CommitLocal, CommitGlobal, netVars
<1>6. ASSUME NEW s \in Shard, ProposeGlobal(s) PROVE VoteInv'
  <2>1. \A m \in prepares' \ prepares : Concerns(m.leader, m.seq, m.node)
    BY <1>6, SzhbftAssumption DEF ProposeGlobal, Concerns, VoteInv, VotesConcern
  <2>2. VotesConcern'
    BY <1>6, <2>1 DEF ProposeGlobal, voteVars, VoteInv, VotesConcern
  <2> QED BY <1>6, <2>2, VoteOther DEF ProposeGlobal
<1>7. ASSUME NEW m \in prepares, HandleInterSZonePrepare(m) PROVE VoteInv'
  <2>1. VotesConcern'
    BY <1>7 DEF HandleInterSZonePrepare, shardVars, voteVars, VoteInv, VotesConcern, Concerns
  <2> QED BY <1>7, <2>1 DEF HandleInterSZonePrepare, VoteInv, VotesTyped, PoolVoted, CountsVoted,
                            ConfirmNeedsVotes, voteVars, malicious_nums
<1>8. CASE UNCHANGED vars
    BY <1>1, <1>8 DEF vars, shardVars, voteVars, netVars, VoteInv, VotesConcern
<1> QED BY <1>3, <1>4, <1>5, <1>6, <1>7, <1>8, VoteCount, VoteDecide DEF Next

\* Whatever votes are in a leader's hands, counted before a pool was deleted or
\* after it was filled again, it confirms a sequence only if 3f+1 nodes voted.
THEOREM ConfirmJustified == Spec => []ConfirmNeedsVotes
<1>1. VoteInv => ConfirmNeedsVotes
    BY DEF VoteInv
<1> QED BY <1>1, VoteInit, VoteNext, PTL DEF Spec
-----------------------------------------------------------------------------
(* Type correctness, and every transaction in its shard. *)

\* What is relayed: second halves of transactions that cross shards.
Crossing == {e \in Seconds : CrossShard(e.tx)}

\* What may lie in the pool of shard s: first halves of its senders, and what is
\* relayed.
Home(s) == {e \in Entry : IF e.relayed THEN CrossShard(e.tx) ELSE Mine(s, Sender(e.tx))}

LEMMA HomeFacts ==
    ASSUME NEW s
    PROVE  /\ Home(s) \subseteq Entry /\ Crossing \subseteq Home(s)
           /\ \A t \in TxID : First(t) \in Home(s) <=> PartitionMap[Sender(t)] = s
           /\ \A t \in TxID : First(t) \in Inside(s) <=> /\ PartitionMap[Sender(t)] = s
                                                         /\ PartitionMap[Recipient(t)] = s
           /\ \A t \in TxID : Second(t) \in Home(s) => CrossShard(t)
<1>1. ASSUME NEW t \in TxID
      PROVE  /\ First(t) \in Home(s) <=> PartitionMap[Sender(t)] = s
             /\ First(t) \in Inside(s) <=> /\ PartitionMap[Sender(t)] = s
                                           /\ PartitionMap[Recipient(t)] = s
    BY EntryFacts DEF Home, Inside, IsLocal, Mine, First
<1>2. ASSUME NEW t \in TxID PROVE Second(t) \in Home(s) <=> CrossShard(t)
    BY EntryFacts DEF Home, Second
<1>3. ASSUME NEW e \in Crossing PROVE e \in Home(s)
  <2>1. PICK t \in TxID : e = Second(t)
    BY DEF Crossing, Seconds
  <2>2. CrossShard(t)
    BY <2>1, EntryFacts DEF Crossing
  <2> QED BY <1>2, <2>1, <2>2
<1> QED BY <1>1, <1>2, <1>3 DEF Home

\* The pool, the stage and the open block of a shard.
Busy == {"agree", "panic"}
Held(s, q, st, B) ==
    /\ q \in Seq(Home(s))
    /\ st \notin Busy => B = {}
    /\ st \in Busy => \E b : B = {b} /\ b.body \in Seq(Home(s)) /\ IsStateRoot(b.root)

ShardsFit ==
    /\ txQueue \in [Shard -> Seq(Entry)] /\ DOMAIN open = Shard
    /\ stage \in [Shard -> {"idle", "empty"} \cup Busy]
    /\ \A s \in Shard : Held(s, txQueue[s], stage[s], open[s])

SequencesFit ==
    /\ sequenceID \in [Shard -> 1 .. MaxSeq + 1]
    /\ \A s \in Shard : stage[s] # "idle" => sequenceID[s] <= MaxSeq

RootsFit ==
    /\ DOMAIN curRoot = Shard /\ DOMAIN localRoot = Shard /\ DOMAIN localDb = Shard
    /\ \A s \in Shard : /\ IsStateRoot(curRoot[s]) /\ IsStateRoot(localRoot[s])
                        /\ \A r \in localDb[s] : IsStateRoot(r)

ChainsFit ==
    /\ localTxs \in [Shard -> [Entry -> Nat]]
    /\ globalTxs \in [Shard -> [Entry -> Nat]]

\* An injected transaction goes to its sender's shard, and what is relayed are
\* second halves.
MessagesFit ==
    /\ IsFiniteSet(injects) /\ IsFiniteSet(relays)
    /\ injects \subseteq [to : Shard, tx : TxID]
    /\ \A m \in injects : m.to = PartitionMap[Sender(m.tx)]
    /\ relays \subseteq Message
    /\ \A m \in relays : m.txs \in Seq(Crossing)

AnswersFit == prepares \subseteq InterSZonePrepare /\ votes \subseteq InterSZoneVote

TypeInv ==
    /\ VoteInv
    /\ ShardsFit /\ SequencesFit /\ RootsFit /\ ChainsFit /\ MessagesFit /\ AnswersFit
    /\ sent \in 0 .. Len(TxList)

\* A list of a shard's entries is a list of entries.
LEMMA HomeList == ASSUME NEW s, NEW q \in Seq(Home(s)) PROVE q \in Seq(Entry)
<1>1. Home(s) \subseteq Entry
    BY HomeFacts
<1> QED BY <1>1, SeqMonotonic

LEMMA TypeInvOK == TypeInv => TypeOK
<1> SUFFICES ASSUME TypeInv PROVE TypeOK
    OBVIOUS
<1>1. ASSUME NEW s \in Shard
      PROVE  /\ txQueue[s] \in Seq(Entry)
             /\ stage[s] \in {"idle", "empty", "agree", "panic"}
             /\ Cardinality(open[s]) = IF stage[s] \in {"agree", "panic"} THEN 1 ELSE 0
             /\ \A b \in open[s] : b.body \in Seq(Entry) /\ IsStateRoot(b.root)
  <2>1. Held(s, txQueue[s], stage[s], open[s])
    BY DEF TypeInv, ShardsFit
  <2>2. txQueue[s] \in Seq(Entry) /\ stage[s] \in {"idle", "empty", "agree", "panic"}
    BY DEF TypeInv, ShardsFit, Busy
  <2>3. CASE stage[s] \in Busy
    <3>1. PICK b : open[s] = {b} /\ b.body \in Seq(Home(s)) /\ IsStateRoot(b.root)
      BY <2>1, <2>3 DEF Held
    <3>2. Cardinality({b}) = 1 /\ b.body \in Seq(Entry)
      BY <3>1, FS_Singleton, HomeList
    <3> QED BY <2>2, <2>3, <3>1, <3>2 DEF Busy
  <2>4. CASE stage[s] \notin Busy
    <3>1. open[s] = {}
      BY <2>1, <2>4 DEF Held
    <3>2. Cardinality(open[s]) = 0
      BY <3>1, FS_EmptySet, Zenon
    <3> QED BY <2>2, <2>4, <3>1, <3>2 DEF Busy
  <2> QED BY <2>3, <2>4
<1>3. \A s \in Shard : \A r \in {curRoot[s], localRoot[s]} \cup localDb[s] : IsStateRoot(r)
    BY DEF TypeInv, RootsFit
<1>4. /\ sequenceID \in [Shard -> 1 .. MaxSeq + 1]
      /\ localTxs \in [Shard -> [Entry -> Nat]] /\ globalTxs \in [Shard -> [Entry -> Nat]]
      /\ globalVotePool \in [Shard -> [1 .. MaxSeq -> SUBSET NodeID]]
      /\ confirmed \in [Shard -> [1 .. MaxSeq -> Nat]]
      /\ injects \subseteq [to : Shard, tx : TxID] /\ relays \subseteq Message
      /\ prepares \subseteq InterSZonePrepare /\ votes \subseteq InterSZoneVote
      /\ sent \in 0 .. Len(TxList)
    BY DEF TypeInv, SequencesFit, ChainsFit, MessagesFit, AnswersFit, VoteInv, VotesTyped
<1>5. txQueue \in [Shard -> Seq(Entry)] /\ stage \in [Shard -> {"idle", "empty", "agree", "panic"}]
    BY DEF TypeInv, ShardsFit, Busy
<1> QED BY <1>1, <1>3, <1>4, <1>5 DEF TypeOK

LEMMA TypeInit == Init => TypeInv
<1> SUFFICES ASSUME Init PROVE TypeInv
    OBVIOUS
<1>1. VoteInv
    BY VoteInit
<1>2. ShardsFit
    BY DEF Init, ShardsFit, Held, Busy
<1>3. SequencesFit
    BY SzhbftAssumption DEF Init, SequencesFit
<1>4. IsStateRoot(EmptyRoot)
    BY DEF IsStateRoot, EmptyRoot
<1>5. RootsFit
    BY <1>4 DEF Init, RootsFit
<1>6. ChainsFit
    BY DEF Init, ChainsFit
<1>7. MessagesFit /\ AnswersFit
    BY FS_EmptySet DEF Init, MessagesFit, AnswersFit
<1>8. sent \in 0 .. Len(TxList)
    BY TxFacts DEF Init
<1> QED BY <1>1, <1>2, <1>3, <1>5, <1>6, <1>7, <1>8 DEF TypeInv

\* A step at one shard.
LEMMA ShardsFitNext ==
    ASSUME ShardsFit, NEW s \in Shard, NEW q, NEW st, NEW B,
           st \in {"idle", "empty"} \cup Busy, Held(s, q, st, B),
           txQueue' = [txQueue EXCEPT ![s] = q],
           stage' = [stage EXCEPT ![s] = st],
           DOMAIN open' = Shard, open'[s] = B, \A d \in Shard \ {s} : open'[d] = open[d]
    PROVE  ShardsFit'
<1>1. q \in Seq(Entry)
    BY HomeList DEF Held
<1>2. txQueue' \in [Shard -> Seq(Entry)] /\ DOMAIN open' = Shard
    BY <1>1 DEF ShardsFit
<1>3. stage' \in [Shard -> {"idle", "empty"} \cup Busy]
    BY DEF ShardsFit
<1>4. ASSUME NEW d \in Shard PROVE Held(d, txQueue'[d], stage'[d], open'[d])
  <2>1. CASE d = s
    <3>1. txQueue'[d] = q /\ stage'[d] = st /\ open'[d] = B
      BY <2>1 DEF ShardsFit
    <3> QED BY <2>1, <3>1
  <2>2. CASE d # s
    <3>1. txQueue'[d] = txQueue[d] /\ stage'[d] = stage[d] /\ open'[d] = open[d]
      BY <2>2 DEF ShardsFit
    <3>2. Held(d, txQueue[d], stage[d], open[d])
      BY DEF ShardsFit
    <3> QED BY <3>1, <3>2
  <2> QED BY <2>1, <2>2
<1> QED BY <1>2, <1>3, <1>4 DEF ShardsFit, Held, Home, CrossShard, Mine, Busy, IsStateRoot

\* Transactions join a pool.
LEMMA PoolGrows ==
    ASSUME ShardsFit, NEW s \in Shard, NEW q \in Seq(Home(s)),
           txQueue' = [txQueue EXCEPT ![s] = @ \o q], UNCHANGED <<stage, open>>
    PROVE  ShardsFit'
<1> DEFINE r == txQueue[s] \o q
<1>1. Held(s, txQueue[s], stage[s], open[s])
    BY DEF ShardsFit
<1>2. r \in Seq(Home(s))
    BY <1>1, ConcatProperties DEF Held
<1>3. txQueue' = [txQueue EXCEPT ![s] = r]
    BY DEF ShardsFit
<1> HIDE DEF r
<1>4. Held(s, r, stage[s], open[s])
    BY <1>1, <1>2 DEF Held
<1>6. ASSUME NEW d \in Shard PROVE Held(d, txQueue'[d], stage[d], open[d])
  <2>1. Held(d, txQueue[d], stage[d], open[d])
    BY DEF ShardsFit
  <2>2. CASE d = s
    BY <1>3, <1>4, <2>2 DEF ShardsFit
  <2>3. CASE d # s
    BY <1>3, <2>1, <2>3 DEF ShardsFit
  <2> QED BY <2>2, <2>3
<1>7. txQueue' \in [Shard -> Seq(Entry)]
  <2>1. r \in Seq(Entry)
    BY <1>2, HomeList
  <2> QED BY <1>3, <2>1 DEF ShardsFit
<1> QED BY <1>6, <1>7 DEF ShardsFit, Held, Home, CrossShard, Mine, Busy, IsStateRoot
-----------------------------------------------------------------------------
(* The state trie. *)

TrieStep(s, root, body, trie, i) == IF i = 0 THEN root ELSE Execute(s, trie[i - 1], body[i])

\* The recursion that defines GetUpdateStatusTrie has a solution.
LEMMA TrieDefined ==
    ASSUME NEW s, NEW root, NEW body, Len(body) \in Nat
    PROVE  \E trie : /\ trie = [i \in 0 .. Len(body) |-> TrieStep(s, root, body, trie, i)]
                     /\ GetUpdateStatusTrie(s, root, body) = trie[Len(body)]
<1> DEFINE Good == {n \in Nat : \E k : k = [i \in 0 .. n |-> TrieStep(s, root, body, k, i)]}
<1>1. 0 \in Good
  <2> DEFINE k == [i \in 0 .. 0 |-> root]
  <2>1. \A i \in 0 .. 0 : TrieStep(s, root, body, k, i) = root
    BY DEF TrieStep
  <2>2. k = [i \in 0 .. 0 |-> TrieStep(s, root, body, k, i)]
    BY <2>1
  <2> HIDE DEF k
  <2>3. \E u : u = [i \in 0 .. 0 |-> TrieStep(s, root, body, u, i)]
    BY <2>2, Zenon
  <2> QED BY <2>3
<1>2. ASSUME NEW n \in Nat, n \in Good PROVE n + 1 \in Good
  <2>1. PICK k : k = [i \in 0 .. n |-> TrieStep(s, root, body, k, i)]
    BY <1>2
  <2> DEFINE more == [i \in 0 .. n + 1 |-> TrieStep(s, root, body, k, i)]
  <2>2. \A i \in 0 .. n : more[i] = k[i]
    BY <2>1
  <2>3. \A i \in 0 .. n + 1 : i = 0 \/ i - 1 \in 0 .. n
    OBVIOUS
  <2> HIDE DEF more
  <2>4. \A i \in 0 .. n + 1 : TrieStep(s, root, body, k, i) = TrieStep(s, root, body, more, i)
    BY <2>2, <2>3 DEF TrieStep
  <2>5. more = [i \in 0 .. n + 1 |-> TrieStep(s, root, body, more, i)]
    BY <2>4, Zenon DEF more
  <2>6. \E u : u = [i \in 0 .. n + 1 |-> TrieStep(s, root, body, u, i)]
    BY <2>5, Zenon
  <2> QED BY <2>6
<1>3. Nat \subseteq Good
  <2> HIDE DEF Good
  <2> QED BY <1>1, <1>2, SetInduction
<1>4. \E k : k = [i \in 0 .. Len(body) |-> TrieStep(s, root, body, k, i)]
    BY <1>3
<1> DEFINE trie == CHOOSE k : k = [i \in 0 .. Len(body) |-> TrieStep(s, root, body, k, i)]
<1>5. trie = [i \in 0 .. Len(body) |-> TrieStep(s, root, body, trie, i)]
    BY <1>4, Zenon
<1>6. GetUpdateStatusTrie(s, root, body) = trie[Len(body)]
    BY Zenon DEF GetUpdateStatusTrie, TrieStep
<1> QED BY <1>5, <1>6

\* Writing a balance.
LEMMA WrittenFacts ==
    ASSUME NEW root, IsStateRoot(root), NEW a \in Account, NEW b \in Nat
    PROVE  /\ IsStateRoot(Written(root, a, b))
           /\ \A x \in Account : /\ Balance(root, x) \in Nat
                                 /\ Balance(Written(root, a, b), x) = IF x = a THEN b ELSE Balance(root, x)
BY SzhbftAssumption DEF IsStateRoot, Written, Balance

\* Nobody's balance becomes negative.
LEMMA ExecuteType ==
    ASSUME NEW s, NEW root, IsStateRoot(root), NEW e \in Entry
    PROVE  IsStateRoot(Execute(s, root, e))
<1> DEFINE v == Value(e.tx)
           a == Sender(e.tx)
           b == Recipient(e.tx)
           pays == ~e.relayed /\ Mine(s, a)
           debited == IF pays THEN Written(root, a, Balance(root, a) - v) ELSE root
<1>1. a \in Account /\ b \in Account /\ v \in Nat
    BY TxFacts DEF Entry
<1> HIDE DEF v, a, b
<1>2. \A x \in Account : Balance(root, x) \in Nat
    BY WrittenFacts, <1>1
<1>3. CASE pays /\ Balance(root, a) < v
    BY <1>3 DEF Execute, v, a, b
<1>4. CASE ~(pays /\ Balance(root, a) < v)
  <2>1. IsStateRoot(debited)
    <3>1. CASE pays
      <4>1. Balance(root, a) - v \in Nat
        BY <1>1, <1>2, <1>4, <3>1
      <4>2. IsStateRoot(Written(root, a, Balance(root, a) - v))
        BY <1>1, <4>1, WrittenFacts
      <4> QED BY <3>1, <4>2
    <3>2. CASE ~pays
      BY <3>2
    <3> QED BY <3>1, <3>2
  <2>2. Execute(s, root, e) = IF Mine(s, b) THEN Written(debited, b, Balance(debited, b) + v) ELSE debited
    BY <1>4 DEF Execute, v, a, b
  <2> HIDE DEF debited
  <2>3. Balance(debited, b) + v \in Nat
    BY <1>1, <2>1, WrittenFacts
  <2>4. IsStateRoot(Written(debited, b, Balance(debited, b) + v))
    BY <1>1, <2>1, <2>3, WrittenFacts
  <2> QED BY <2>1, <2>2, <2>4
<1> QED BY <1>3, <1>4

IsTrie(s, root, body, trie) == \A i \in 0 .. Len(body) : trie[i] = TrieStep(s, root, body, trie, i)

LEMMA TrieRoots ==
    ASSUME NEW s, NEW root, IsStateRoot(root), NEW body \in Seq(Entry),
           NEW trie, IsTrie(s, root, body, trie)
    PROVE  \A n \in 0 .. Len(body) : IsStateRoot(trie[n])
<1>1. Len(body) \in Nat /\ \A i \in 1 .. Len(body) : body[i] \in Entry
    OBVIOUS
<1>3. \A i \in 0 .. Len(body) : trie[i] = TrieStep(s, root, body, trie, i)
    BY DEF IsTrie
<1> DEFINE Good == {n \in Nat : n <= Len(body) => IsStateRoot(trie[n])}
<1>4. 0 \in Good
    BY <1>1, <1>3 DEF TrieStep
<1>5. ASSUME NEW n \in Nat, n \in Good PROVE n + 1 \in Good
  <2> SUFFICES ASSUME n + 1 <= Len(body) PROVE IsStateRoot(trie[n + 1])
    OBVIOUS
  <2>1. n + 1 \in 0 .. Len(body) /\ n + 1 # 0 /\ (n + 1) - 1 = n /\ n <= Len(body) /\ n + 1 \in 1 .. Len(body)
    BY <1>1
  <2>2. IsStateRoot(trie[n]) /\ body[n + 1] \in Entry
    BY <1>1, <1>5, <2>1
  <2>3. trie[n + 1] = Execute(s, trie[n], body[n + 1])
    BY <1>3, <2>1 DEF TrieStep
  <2>4. IsStateRoot(Execute(s, trie[n], body[n + 1]))
    BY <2>2, ExecuteType
  <2> QED BY <2>3, <2>4
<1>6. Nat \subseteq Good
  <2> HIDE DEF Good
  <2> QED BY <1>4, <1>5, SetInduction
<1> QED BY <1>1, <1>6

LEMMA TrieType ==
    ASSUME NEW s, NEW root, IsStateRoot(root), NEW body \in Seq(Entry)
    PROVE  IsStateRoot(GetUpdateStatusTrie(s, root, body))
<1>1. Len(body) \in Nat
    OBVIOUS
<1>2. PICK trie : /\ trie = [i \in 0 .. Len(body) |-> TrieStep(s, root, body, trie, i)]
                  /\ GetUpdateStatusTrie(s, root, body) = trie[Len(body)]
    BY <1>1, TrieDefined
<1>3. IsTrie(s, root, body, trie)
    BY <1>2 DEF IsTrie
<1> QED BY <1>1, <1>2, <1>3, TrieRoots
-----------------------------------------------------------------------------
(* What a commit relays. *)

\* The entries that a global block of shard s may have without a panic, and those
\* whose recipient is in shard d.
Correct(s) == {e \in Entry : Mine(s, IF e.relayed THEN Recipient(e.tx) ELSE Sender(e.tx))}
BoundFor(d) == {e \in Entry : Mine(d, Recipient(e.tx))}

LEMMA CorrectFacts ==
    ASSUME NEW s
    PROVE  /\ Correct(s) \subseteq Entry
           /\ \A d : d # s => /\ Correct(s) \cap BoundFor(d) \subseteq Firsts
                             /\ \A e \in Correct(s) \cap BoundFor(d) : CrossShard(e.tx)
           /\ \A t \in TxID : \A d : First(t) \in BoundFor(d) <=> PartitionMap[Recipient(t)] = d
<1>1. ASSUME NEW d, d # s, NEW e \in Correct(s), e \in BoundFor(d)
      PROVE  e \in Firsts /\ CrossShard(e.tx)
  <2>1. e \in Entry /\ e.tx \in TxID /\ (e = First(e.tx) \/ e = Second(e.tx))
    BY <1>1, EntryFacts DEF Correct
  <2>2. e # Second(e.tx)
    BY <1>1, <2>1 DEF Correct, BoundFor, Mine, Second
  <2>3. ~e.relayed
    BY <1>1, <2>1 DEF Correct, BoundFor, Mine, Second
  <2>4. CrossShard(e.tx)
    BY <1>1, <2>3 DEF Correct, BoundFor, Mine, CrossShard
  <2> QED BY <2>1, <2>2, <2>4 DEF Firsts
<1>2. ASSUME NEW t \in TxID, NEW d PROVE First(t) \in BoundFor(d) <=> PartitionMap[Recipient(t)] = d
    BY EntryFacts DEF BoundFor, Mine
<1> QED BY <1>1, <1>2 DEF Correct

\* The messages of a commit carry second halves of what is in the block.
LEMMA CommitMsgs ==
    ASSUME NEW s \in Shard, NEW body \in Seq(Correct(s))
    PROVE  LET M == RelayMsgSend(s, body) IN
           /\ IsFiniteSet(M) /\ M \subseteq Message
           /\ \A m \in M : m.txs \in Seq(Crossing)
           /\ \A t \in TxID : /\ InMsgs(M, First(t)) = 0
                              /\ InMsgs(M, Second(t)) \in Nat
                              /\ InMsgs(M, Second(t)) <= Occurrences(First(t), body)
<1> DEFINE P(d) == RelayPool(body, d)
           q == [d \in Shard |-> IF d = s THEN <<>> ELSE Marked(P(d))]
           M == RelayMsgSend(s, body)
<1>1. ASSUME NEW d \in Shard, d # s
      PROVE  /\ P(d) \in Seq(Firsts) /\ \A i \in 1 .. Len(P(d)) : CrossShard(P(d)[i].tx)
             /\ \A e : Occurrences(e, P(d)) = IF e \in BoundFor(d) THEN Occurrences(e, body) ELSE 0
  <2>1. /\ P(d) \in Seq(Correct(s) \cap BoundFor(d))
        /\ \A e : Occurrences(e, P(d)) = IF e \in BoundFor(d) THEN Occurrences(e, body) ELSE 0
    BY KeepFacts DEF RelayPool, BoundFor
  <2>2. Correct(s) \cap BoundFor(d) \subseteq Firsts
    BY <1>1, CorrectFacts
  <2>3. P(d) \in Seq(Firsts)
    <3> HIDE DEF P
    <3> QED BY <2>1, <2>2, SeqMonotonic
  <2>4. \A i \in 1 .. Len(P(d)) : CrossShard(P(d)[i].tx)
    <3> HIDE DEF P
    <3>1. \A i \in 1 .. Len(P(d)) : P(d)[i] \in Correct(s) \cap BoundFor(d)
      BY <2>1
    <3> QED BY <1>1, <3>1, CorrectFacts
  <2> QED BY <2>1, <2>3, <2>4
<1>2. ASSUME NEW d \in Shard
      PROVE  /\ q[d] \in Seq(Crossing) /\ q[d] \in Seq(Entry)
             /\ q[d] # <<>> <=> d # s /\ P(d) # <<>>
  <2>1. Seconds \subseteq Entry
    BY EntryFacts DEF Seconds
  <2>2. CASE d = s
    <3>1. q[d] = <<>>
      BY <2>2
    <3> QED BY <2>2, <3>1
  <2>3. CASE d # s
    <3> DEFINE p == P(d)
    <3>1. p \in Seq(Firsts) /\ q[d] = Marked(p) /\ \A i \in 1 .. Len(p) : CrossShard(p[i].tx)
      BY <1>1, <2>3
    <3> HIDE DEF p, P, q
    <3>2. Marked(p) \in Seq(Seconds) /\ Len(Marked(p)) = Len(p)
      BY <3>1, MarkedFacts
    <3>3. Marked(p) \in Seq(Entry)
      BY <2>1, <3>2, SeqMonotonic
    <3>4. Marked(p) # <<>> <=> p # <<>>
      BY <3>1, <3>2
    <3>5. Marked(p) \in Seq(Crossing)
      <4>1. \A i \in 1 .. Len(p) : Marked(p)[i] = Second(p[i].tx)
        BY <3>1, MarkedFacts
      <4>2. Len(Marked(p)) = Len(p) /\ \A i \in 1 .. Len(p) : Marked(p)[i] \in Seconds
        BY <3>2
      <4>3. \A i \in 1 .. Len(p) : Marked(p)[i] \in Crossing
        BY <3>1, <4>1, <4>2, EntryFacts DEF Crossing
      <4> QED BY <3>2, <4>2, <4>3
    <3> QED BY <2>3, <3>1, <3>3, <3>4, <3>5 DEF p
  <2> QED BY <2>2, <2>3
<1>3. q \in [Shard -> Seq(Entry)]
  <2>1. \A d \in Shard : (IF d = s THEN <<>> ELSE Marked(P(d))) \in Seq(Entry)
    BY <1>2
  <2> QED BY <2>1
<1>4. M = Sends(q)
  <2>1. {d \in Shard \ {s} : P(d) # <<>>} = {d \in Shard : q[d] # <<>>}
    BY <1>2
  <2>2. \A d \in Shard \ {s} : [to |-> d, txs |-> Marked(P(d))] = [to |-> d, txs |-> q[d]]
    OBVIOUS
  <2> HIDE DEF q
  <2>3. {[to |-> d, txs |-> Marked(P(d))] : d \in {d \in Shard \ {s} : P(d) # <<>>}} = Sends(q)
    BY <2>1, <2>2 DEF Sends
  <2> QED BY <2>3 DEF RelayMsgSend
<1>5. ASSUME NEW t \in TxID
      PROVE  /\ InMsgs(M, First(t)) = 0
             /\ InMsgs(M, Second(t)) \in Nat
             /\ InMsgs(M, Second(t)) <= Occurrences(First(t), body)
  <2> DEFINE h == PartitionMap[Recipient(t)]
  <2>1. h \in Shard
    BY TxFacts
  <2>2. ASSUME NEW d \in Shard
        PROVE  /\ Occurrences(First(t), q[d]) = 0
               /\ Occurrences(Second(t), q[d]) = IF d # s /\ h = d THEN Occurrences(First(t), body) ELSE 0
    <3>1. CASE d = s
      <4>1. q[d] = <<>>
        BY <3>1
      <4> HIDE DEF q
      <4> QED BY <3>1, <4>1, OccurrencesEmpty
    <3>2. CASE d # s
      <4>1. P(d) \in Seq(Firsts) /\ q[d] = Marked(P(d))
        BY <1>1, <3>2
      <4>2. First(t) \in BoundFor(d) <=> h = d
        BY CorrectFacts
      <4>3. Occurrences(First(t), P(d)) = IF First(t) \in BoundFor(d) THEN Occurrences(First(t), body) ELSE 0
        BY <1>1, <3>2
      <4> HIDE DEF P, q, h
      <4>4. /\ Occurrences(First(t), q[d]) = 0
            /\ Occurrences(Second(t), q[d]) = Occurrences(First(t), P(d))
        BY <4>1, MarkedFacts
      <4> QED BY <3>2, <4>2, <4>3, <4>4
    <3> QED BY <3>1, <3>2
  <2> HIDE DEF q, h, P, M
  <2>3. /\ InMsgs(M, First(t)) = Occurrences(First(t), q[h])
        /\ InMsgs(M, Second(t)) = Occurrences(Second(t), q[h])
    BY <1>3, <1>4, <2>1, <2>2, SendsFacts
  <2>4. Occurrences(First(t), body) \in Nat
    BY OccurrencesUpto
  <2> QED BY <2>1, <2>2, <2>3, <2>4
<1>6. IsFiniteSet(M) /\ M \subseteq Message
  <2> HIDE DEF q, M
  <2> QED BY <1>3, <1>4, SendsFacts
<1>7. ASSUME NEW m \in M PROVE m.txs \in Seq(Crossing)
  <2>1. m.to \in Shard /\ m.txs = q[m.to]
    <3> HIDE DEF q, M
    <3> QED BY <1>3, <1>4, SendsFacts
  <2>2. q[m.to] \in Seq(Crossing)
    BY <1>2, <2>1
  <2> HIDE DEF q
  <2> QED BY <2>1, <2>2
<1> QED BY <1>5, <1>6, <1>7
-----------------------------------------------------------------------------
(* Each step keeps the types. *)

\* What a leader takes from its pool, and what it leaves.
LEMMA TakenFacts ==
    ASSUME TypeInv, NEW s \in Shard
    PROVE  /\ Taken(s) \in Seq(Home(s)) /\ RemainQueue(s) \in Seq(Home(s))
           /\ \A e : Occurrences(e, txQueue[s]) = Occurrences(e, Taken(s)) + Occurrences(e, RemainQueue(s))
           /\ LocalPart(s) \in Seq(Home(s)) /\ GlobalPart(s) \in Seq(Home(s))
           /\ \A e : Occurrences(e, LocalPart(s)) = IF e \in Inside(s) THEN Occurrences(e, Taken(s)) ELSE 0
<1> DEFINE q == txQueue[s]
           n == Min({BlockSize, Len(q)})
<1>1. q \in Seq(Home(s)) /\ BlockSize \in Nat
    BY SzhbftAssumption DEF TypeInv, ShardsFit, Held
<1>2. Taken(s) = Packed(q, BlockSize)
    BY DEF Taken, Packed
<1>3. /\ Packed(q, BlockSize) \in Seq(Home(s)) /\ Unpacked(q, BlockSize) \in Seq(Home(s))
      /\ \A e : Occurrences(e, q) = Occurrences(e, Packed(q, BlockSize)) + Occurrences(e, Unpacked(q, BlockSize))
    BY <1>1, CutFacts
<1>4. Len(Taken(s)) = n
  <2>1. n = IF BlockSize <= Len(q) THEN BlockSize ELSE Len(q)
    BY <1>1, MinPair
  <2>2. n \in 0 .. Len(q) /\ Len(q) \in Nat
    <3> HIDE DEF n, q
    <3> QED BY <1>1, <2>1
  <2>3. Taken(s) = SubSeq(q, 1, n)
    BY DEF Taken
  <2> HIDE DEF n, q
  <2> QED BY <1>1, <2>2, <2>3
<1>5. RemainQueue(s) = Unpacked(q, BlockSize)
    BY <1>4 DEF RemainQueue, Unpacked
<1>6. Taken(s) \in Seq(Home(s))
    BY <1>2, <1>3
<1>7. /\ Keep(Taken(s), Inside(s)) \in Seq(Home(s) \cap Inside(s))
      /\ Keep(Taken(s), Entry \ Inside(s)) \in Seq(Home(s) \cap (Entry \ Inside(s)))
      /\ \A e : Occurrences(e, Keep(Taken(s), Inside(s)))
                  = IF e \in Inside(s) THEN Occurrences(e, Taken(s)) ELSE 0
    BY <1>6, KeepFacts
<1>8. Home(s) \cap Inside(s) \subseteq Home(s) /\ Home(s) \cap (Entry \ Inside(s)) \subseteq Home(s)
    OBVIOUS
<1>9. LocalPart(s) \in Seq(Home(s)) /\ GlobalPart(s) \in Seq(Home(s))
    BY <1>7, <1>8, SeqMonotonic DEF LocalPart, GlobalPart
<1> HIDE DEF q
<1> QED BY <1>2, <1>3, <1>5, <1>7, <1>9 DEF LocalPart, q

\* Parts that a step leaves alone.
LEMMA ChainsKept ==
    ASSUME RootsFit, ChainsFit, UNCHANGED chainVars PROVE RootsFit' /\ ChainsFit'
BY DEF RootsFit, ChainsFit, chainVars, IsStateRoot

LEMMA SequencesKept ==
    ASSUME ShardsFit, SequencesFit, UNCHANGED sequenceID, NEW s \in Shard, NEW st,
           stage' = [stage EXCEPT ![s] = st], stage[s] # "idle" \/ sequenceID[s] <= MaxSeq
    PROVE  SequencesFit'
BY DEF ShardsFit, SequencesFit

LEMMA ShardsKept ==
    ASSUME ShardsFit, SequencesFit, UNCHANGED shardVars PROVE ShardsFit' /\ SequencesFit'
BY DEF ShardsFit, SequencesFit, shardVars, Held, Home, CrossShard, Mine, Busy, IsStateRoot

LEMMA TypeSending ==
    ASSUME TypeInv, VoteInv', TxSending PROVE TypeInv'
<1> DEFINE t == sent + 1
           m == [to |-> PartitionMap[Sender(t)], tx |-> t]
<1>1. t \in TxID /\ sent' = t /\ t \in 0 .. Len(TxList)
    BY TxFacts DEF TxSending, TypeInv
<1>2. m.to \in Shard /\ m.to = PartitionMap[Sender(m.tx)] /\ m \in [to : Shard, tx : TxID]
    BY <1>1, TxFacts
<1>3. injects' = injects \cup {m} /\ relays' = relays
    BY <1>1 DEF TxSending
<1> HIDE DEF m
<1>4. IsFiniteSet(injects')
    BY <1>3, FS_AddElement DEF TypeInv, MessagesFit
<1>5. MessagesFit'
    BY <1>2, <1>3, <1>4 DEF TypeInv, MessagesFit
<1>6. ShardsFit' /\ SequencesFit'
    BY ShardsKept DEF TypeInv, TxSending
<1>7. RootsFit' /\ ChainsFit'
    BY ChainsKept DEF TypeInv, TxSending
<1>8. AnswersFit'
    BY DEF TypeInv, TxSending, AnswersFit
<1> QED BY <1>1, <1>5, <1>6, <1>7, <1>8 DEF TypeInv

LEMMA TypeInject ==
    ASSUME TypeInv, VoteInv', NEW m \in injects, HandleInjectTx(m) PROVE TypeInv'
<1> DEFINE q == <<First(m.tx)>>
<1>1. m.to \in Shard /\ m.tx \in TxID /\ m.to = PartitionMap[Sender(m.tx)]
    BY DEF TypeInv, MessagesFit
<1>2. First(m.tx) \in Home(m.to)
    BY <1>1, HomeFacts
<1>3. q \in Seq(Home(m.to))
    BY <1>2
<1>4. txQueue' = [txQueue EXCEPT ![m.to] = @ \o q]
  <2>1. txQueue[m.to] \in Seq(Entry)
    BY <1>1 DEF TypeInv, ShardsFit
  <2>2. Append(txQueue[m.to], First(m.tx)) = txQueue[m.to] \o q
    BY <2>1, AppendIsConcat
  <2> QED BY <2>2 DEF HandleInjectTx, First
<1> HIDE DEF q
<1>5. ShardsFit'
    BY <1>1, <1>3, <1>4, PoolGrows DEF TypeInv, HandleInjectTx
<1>6. SequencesFit'
    BY DEF TypeInv, SequencesFit, HandleInjectTx
<1>7. RootsFit' /\ ChainsFit'
    BY ChainsKept DEF TypeInv, HandleInjectTx
<1>8. MessagesFit'
  <2>1. IsFiniteSet(injects \ {m})
    BY FS_RemoveElement DEF TypeInv, MessagesFit
  <2> QED BY <2>1 DEF TypeInv, HandleInjectTx, MessagesFit
<1>9. AnswersFit' /\ sent' = sent
    BY DEF TypeInv, HandleInjectTx, AnswersFit
<1> QED BY <1>5, <1>6, <1>7, <1>8, <1>9 DEF TypeInv

LEMMA TypeRelay ==
    ASSUME TypeInv, VoteInv', NEW m \in relays, HandleRelay(m) PROVE TypeInv'
<1>1. m.to \in Shard /\ m.txs \in Seq(Crossing)
    BY DEF TypeInv, MessagesFit, Message
<1>2. m.txs \in Seq(Home(m.to))
    BY <1>1, HomeFacts, SeqMonotonic
<1>3. ShardsFit'
    BY <1>1, <1>2, PoolGrows DEF TypeInv, HandleRelay
<1>4. SequencesFit'
    BY DEF TypeInv, SequencesFit, HandleRelay
<1>5. RootsFit' /\ ChainsFit'
    BY ChainsKept DEF TypeInv, HandleRelay
<1>6. MessagesFit'
  <2>1. IsFiniteSet(relays \ {m})
    BY FS_RemoveElement DEF TypeInv, MessagesFit
  <2> QED BY <2>1 DEF TypeInv, HandleRelay, MessagesFit
<1>7. AnswersFit' /\ sent' = sent
    BY DEF TypeInv, HandleRelay, AnswersFit
<1> QED BY <1>3, <1>4, <1>5, <1>6, <1>7 DEF TypeInv

\* Proposals: what is taken from the pool is in the open block or dropped.
LEMMA TypeProposing ==
    ASSUME TypeInv, VoteInv', NEW s \in Shard, NEW q \in Seq(Home(s)), NEW st, NEW B,
           stage[s] # "idle" \/ sequenceID[s] <= MaxSeq,
           st \in {"idle", "empty"} \cup Busy, Held(s, q, st, B),
           txQueue' = [txQueue EXCEPT ![s] = q],
           stage' = [stage EXCEPT ![s] = st],
           DOMAIN open' = Shard, open'[s] = B, \A d \in Shard \ {s} : open'[d] = open[d],
           UNCHANGED <<sequenceID, chainVars, injects, relays, sent>>, AnswersFit'
    PROVE  TypeInv'
<1>1. ShardsFit'
    BY ShardsFitNext DEF TypeInv
<1>2. SequencesFit'
    BY SequencesKept DEF TypeInv
<1>3. RootsFit' /\ ChainsFit'
    BY ChainsKept DEF TypeInv
<1>4. MessagesFit'
    BY DEF TypeInv, MessagesFit
<1> QED BY <1>1, <1>2, <1>3, <1>4 DEF TypeInv

LEMMA HeldBlock ==
    ASSUME NEW s, NEW q \in Seq(Home(s)), NEW st \in Busy, NEW body \in Seq(Home(s)),
           NEW r, IsStateRoot(r)
    PROVE  Held(s, q, st, {[body |-> body, root |-> r]})
<1> DEFINE b == [body |-> body, root |-> r]
<1>1. b.body = body /\ b.root = r
    OBVIOUS
<1> HIDE DEF b
<1>2. Held(s, q, st, {b})
    BY <1>1 DEF Held
<1> QED BY <1>2 DEF b

LEMMA TypePropose ==
    ASSUME TypeInv, VoteInv', NEW s \in Shard,
           ProposeLocal(s) \/ ProposeGlobal(s) \/ ProposeNothing(s) \/ GenerateBlock(s) \/ PanicLocal(s)
    PROVE  TypeInv'
<1>1. /\ Taken(s) \in Seq(Home(s)) /\ RemainQueue(s) \in Seq(Home(s))
      /\ LocalPart(s) \in Seq(Home(s)) /\ GlobalPart(s) \in Seq(Home(s))
    BY TakenFacts
<1>2. /\ IsStateRoot(curRoot[s]) /\ Held(s, txQueue[s], stage[s], open[s])
      /\ DOMAIN txQueue = Shard /\ DOMAIN stage = Shard /\ DOMAIN open = Shard
    BY DEF TypeInv, RootsFit, ShardsFit
<1>3. UNCHANGED netVars => AnswersFit'
    BY DEF TypeInv, AnswersFit, netVars
<1>4. CASE ProposeLocal(s)
  <2> DEFINE B == {[body |-> LocalPart(s), root |-> curRoot[s]]}
  <2>1. Held(s, RemainQueue(s), "agree", B)
    BY <1>1, <1>2, HeldBlock DEF Busy
  <2>2. DOMAIN open' = Shard /\ open'[s] = B /\ \A d \in Shard \ {s} : open'[d] = open[d]
    BY <1>2, <1>4 DEF ProposeLocal, LocalHeaderRoot
  <2> HIDE DEF B
  <2>3. "agree" \in {"idle", "empty"} \cup Busy
    BY DEF Busy
  <2> QED BY <1>1, <1>3, <1>4, <2>1, <2>2, <2>3, TypeProposing DEF ProposeLocal, netVars
<1>5. CASE ProposeGlobal(s)
  <2>1. Held(s, RemainQueue(s), stage[s], open[s])
    BY <1>1, <1>2 DEF Held
  <2>2. stage' = [stage EXCEPT ![s] = stage[s]]
    BY <1>5 DEF ProposeGlobal, TypeInv, ShardsFit
  <2>3. stage[s] \in {"idle", "empty"} \cup Busy
    BY DEF TypeInv, ShardsFit
  <2>4. AnswersFit'
    <3> DEFINE body == GlobalPart(s)
               P == [to : RelatedShards(s, body), node : NodeID, leader : {s},
                     seq : {sequenceID[s]}, body : {body}]
    <3>1. body \in Seq(Entry)
      BY <1>1, HomeList
    <3>2. sequenceID[s] \in 1 .. MaxSeq
      BY <1>5, SzhbftAssumption DEF ProposeGlobal, TypeInv, SequencesFit
    <3>3. prepares' = prepares \cup P /\ votes' = votes
      BY <1>5 DEF ProposeGlobal
    <3> HIDE DEF body
    <3>4. RelatedShards(s, body) \subseteq Shard
      <4>1. \A i \in DOMAIN body : body[i] \in Entry
        BY <3>1
      <4>2. \A i \in DOMAIN body : body[i].tx \in TxID
        BY <4>1 DEF Entry
      <4> QED BY <4>2, TxFacts DEF RelatedShards
    <3>5. P \subseteq InterSZonePrepare
      BY <3>1, <3>2, <3>4 DEF InterSZonePrepare
    <3> HIDE DEF P
    <3> QED BY <3>3, <3>5 DEF AnswersFit, TypeInv, InterSZonePrepare, InterSZoneVote
  <2> QED BY <1>1, <1>2, <1>5, <2>1, <2>2, <2>3, <2>4, TypeProposing DEF ProposeGlobal
<1>6. CASE ProposeNothing(s)
  <2>1. Held(s, txQueue[s], "empty", open[s]) /\ txQueue[s] \in Seq(Home(s))
    BY <1>2, <1>6 DEF Held, Busy, ProposeNothing
  <2>2. txQueue' = [txQueue EXCEPT ![s] = txQueue[s]]
    BY <1>6 DEF ProposeNothing, TypeInv, ShardsFit
  <2> QED BY <1>2, <1>3, <1>6, <2>1, <2>2, TypeProposing DEF ProposeNothing, netVars
<1>7. CASE GenerateBlock(s)
  <2> DEFINE r == GetUpdateStatusTrie(s, curRoot[s], Taken(s))
             B == {[body |-> Taken(s), root |-> r]}
  <2>1. IsStateRoot(r)
    <3>1. Taken(s) \in Seq(Entry)
      BY <1>1, HomeList
    <3> QED BY <1>2, <3>1, TrieType
  <2>2. DOMAIN open' = Shard /\ open'[s] = B /\ \A d \in Shard \ {s} : open'[d] = open[d]
    BY <1>2, <1>7 DEF GenerateBlock
  <2> HIDE DEF r
  <2>3. Held(s, RemainQueue(s), "agree", B)
    BY <1>1, <2>1, HeldBlock DEF Busy
  <2> HIDE DEF B
  <2>4. "agree" \in {"idle", "empty"} \cup Busy
    BY DEF Busy
  <2> QED BY <1>1, <1>3, <1>7, <2>2, <2>3, <2>4, TypeProposing DEF GenerateBlock, netVars
<1>8. CASE PanicLocal(s)
  <2>1. Held(s, txQueue[s], "panic", open[s]) /\ txQueue[s] \in Seq(Home(s)) /\ stage[s] # "idle"
    BY <1>2, <1>8 DEF Held, Busy, PanicLocal
  <2>2. txQueue' = [txQueue EXCEPT ![s] = txQueue[s]]
    BY <1>8 DEF PanicLocal, TypeInv, ShardsFit
  <2>3. "panic" \in {"idle", "empty"} \cup Busy
    BY DEF Busy
  <2> QED BY <1>2, <1>3, <1>8, <2>1, <2>2, <2>3, TypeProposing DEF PanicLocal, netVars
<1> QED BY <1>4, <1>5, <1>6, <1>7, <1>8

\* Commits: the block leaves, and its roots and entries are recorded.
LEMMA TypeDone ==
    ASSUME TypeInv, VoteInv', NEW s \in Shard, stage[s] = "agree", Done(s), UNCHANGED txQueue
    PROVE  ShardsFit' /\ SequencesFit'
<1>1. /\ Held(s, txQueue[s], stage[s], open[s])
      /\ DOMAIN txQueue = Shard /\ DOMAIN open = Shard
    BY DEF TypeInv, ShardsFit
<1>2. Held(s, txQueue[s], "idle", {})
    BY <1>1 DEF Held, Busy
<1>3. DOMAIN open' = Shard /\ open'[s] = {} /\ \A d \in Shard \ {s} : open'[d] = open[d]
    BY <1>1 DEF Done
<1>4. txQueue' = [txQueue EXCEPT ![s] = txQueue[s]]
    BY DEF TypeInv, ShardsFit
<1>5. ShardsFit'
    BY <1>2, <1>3, <1>4, ShardsFitNext DEF TypeInv, Done
<1>6. SequencesFit'
    BY SzhbftAssumption DEF TypeInv, ShardsFit, SequencesFit, Done
<1> QED BY <1>5, <1>6

LEMMA RecordedType ==
    ASSUME NEW f \in [Entry -> Nat], NEW body \in Seq(Entry)
    PROVE  Recorded(f, body) \in [Entry -> Nat]
<1>1. \A e \in Entry : Occurrences(e, body) \in Nat
    BY OccurrencesUpto
<1> QED BY <1>1 DEF Recorded

LEMMA OpenBlock ==
    ASSUME TypeInv, NEW s \in Shard, NEW b \in open[s]
    PROVE  /\ open[s] = {b} /\ b.body \in Seq(Home(s)) /\ b.body \in Seq(Entry)
           /\ IsStateRoot(b.root)
<1>1. Held(s, txQueue[s], stage[s], open[s])
    BY DEF TypeInv, ShardsFit
<1>2. PICK c : open[s] = {c} /\ c.body \in Seq(Home(s)) /\ IsStateRoot(c.root)
    BY <1>1 DEF Held
<1> QED BY <1>2, HomeList

LEMMA TypeCommitLocal ==
    ASSUME TypeInv, VoteInv', NEW s \in Shard, CommitLocal(s) PROVE TypeInv'
<1>1. PICK b \in open[s] :
        /\ localDb' = [localDb EXCEPT ![s] =
             @ \cup IF Executes(s, b) THEN {GetUpdateStatusTrie(s, localRoot[s], b.body)} ELSE {}]
        /\ localRoot' = [localRoot EXCEPT ![s] = b.root]
        /\ localTxs' = [localTxs EXCEPT ![s] = Recorded(@, b.body)]
    BY DEF CommitLocal
<1>2. b.body \in Seq(Entry) /\ IsStateRoot(b.root)
    BY OpenBlock
<1>3. ShardsFit' /\ SequencesFit'
    BY TypeDone DEF CommitLocal
<1>4. RootsFit'
  <2> DEFINE r == GetUpdateStatusTrie(s, localRoot[s], b.body)
             new == IF Executes(s, b) THEN {r} ELSE {}
  <2>1. IsStateRoot(r)
    BY <1>2, TrieType DEF TypeInv, RootsFit
  <2>2. localDb' = [localDb EXCEPT ![s] = @ \cup new]
    BY <1>1
  <2> HIDE DEF r
  <2>3. \A x \in new : IsStateRoot(x)
    BY <2>1
  <2>4. curRoot' = curRoot
    BY DEF CommitLocal
  <2> HIDE DEF new
  <2> QED BY <1>1, <1>2, <2>2, <2>3, <2>4 DEF TypeInv, RootsFit, IsStateRoot
<1>5. ChainsFit'
  <2>1. localTxs[s] \in [Entry -> Nat]
    BY DEF TypeInv, ChainsFit
  <2>2. Recorded(localTxs[s], b.body) \in [Entry -> Nat]
    BY <1>2, <2>1, RecordedType
  <2> QED BY <1>1, <2>2 DEF TypeInv, ChainsFit, CommitLocal
<1>6. MessagesFit' /\ AnswersFit' /\ sent' = sent
    BY DEF TypeInv, MessagesFit, AnswersFit, CommitLocal, netVars
<1> QED BY <1>3, <1>4, <1>5, <1>6 DEF TypeInv

LEMMA TypeCommitGlobal ==
    ASSUME TypeInv, VoteInv', NEW s \in Shard, CommitGlobal(s) PROVE TypeInv'
<1>1. PICK b \in open[s] :
        /\ \A i \in DOMAIN b.body :
             Mine(s, IF b.body[i].relayed THEN Recipient(b.body[i].tx) ELSE Sender(b.body[i].tx))
        /\ curRoot' = [curRoot EXCEPT ![s] = b.root]
        /\ globalTxs' = [globalTxs EXCEPT ![s] = Recorded(@, b.body)]
        /\ relays' = relays \cup RelayMsgSend(s, b.body)
    BY DEF CommitGlobal
<1>2. b.body \in Seq(Entry) /\ IsStateRoot(b.root)
    BY OpenBlock
<1>3. ShardsFit' /\ SequencesFit'
    BY TypeDone DEF CommitGlobal
<1>4. RootsFit'
  <2>1. localRoot' = localRoot /\ localDb' = localDb
    BY DEF CommitGlobal
  <2> QED BY <1>1, <1>2, <2>1 DEF TypeInv, RootsFit, IsStateRoot
<1>5. ChainsFit'
  <2>1. globalTxs[s] \in [Entry -> Nat]
    BY DEF TypeInv, ChainsFit
  <2>2. Recorded(globalTxs[s], b.body) \in [Entry -> Nat]
    BY <1>2, <2>1, RecordedType
  <2> QED BY <1>1, <2>2 DEF TypeInv, ChainsFit, CommitGlobal
<1>6. MessagesFit'
  <2> DEFINE M == RelayMsgSend(s, b.body)
  <2>1. b.body \in Seq(Correct(s))
    <3>1. \A i \in DOMAIN b.body : b.body[i] \in Correct(s)
      BY <1>1, <1>2 DEF Correct
    <3> QED BY <1>2, <3>1
  <2>2. IsFiniteSet(M) /\ M \subseteq Message /\ \A m \in M : m.txs \in Seq(Crossing)
    BY <2>1, CommitMsgs
  <2> HIDE DEF M
  <2>3. IsFiniteSet(relays \cup M)
    BY <2>2, FS_Union DEF TypeInv, MessagesFit
  <2>4. injects' = injects /\ relays' = relays \cup M
    BY <1>1 DEF CommitGlobal, M
  <2> QED BY <2>2, <2>3, <2>4 DEF TypeInv, MessagesFit
<1>7. AnswersFit' /\ sent' = sent
    BY DEF TypeInv, AnswersFit, CommitGlobal
<1> QED BY <1>3, <1>4, <1>5, <1>6, <1>7 DEF TypeInv

\* Votes: a vote repeats the proposal it answers.
LEMMA TypeVotes ==
    ASSUME TypeInv, VoteInv', UNCHANGED <<shardVars, chainVars, injects, relays, sent>>, AnswersFit'
    PROVE  TypeInv'
<1>1. ShardsFit' /\ SequencesFit'
    BY ShardsKept DEF TypeInv
<1>2. RootsFit' /\ ChainsFit'
    BY ChainsKept DEF TypeInv
<1>3. MessagesFit' /\ sent' = sent
    BY DEF TypeInv, MessagesFit
<1> QED BY <1>1, <1>2, <1>3 DEF TypeInv

LEMMA TypePrepare ==
    ASSUME TypeInv, VoteInv', NEW m \in prepares, HandleInterSZonePrepare(m) PROVE TypeInv'
<1> DEFINE v == [leader |-> m.leader, seq |-> m.seq, body |-> m.body, shard |-> m.to, node |-> m.node]
<1>1. m \in InterSZonePrepare
    BY DEF TypeInv, AnswersFit
<1>2. v \in InterSZoneVote
    BY <1>1 DEF InterSZonePrepare, InterSZoneVote
<1>3. prepares' = prepares \ {m} /\ votes' = votes \cup {v}
    BY DEF HandleInterSZonePrepare
<1> HIDE DEF v
<1>4. AnswersFit'
    BY <1>2, <1>3 DEF TypeInv, AnswersFit, InterSZonePrepare, InterSZoneVote
<1> QED BY <1>4, TypeVotes DEF HandleInterSZonePrepare

\* The inductive step.
LEMMA TypeNext == TypeInv /\ [Next]_vars => TypeInv'
<1> SUFFICES ASSUME TypeInv, [Next]_vars PROVE TypeInv'
    OBVIOUS
<1>1. VoteInv'
    BY VoteNext DEF TypeInv
<1>2. ASSUME NEW v \in votes, CountVote(v) PROVE TypeInv'
  <2>1. AnswersFit'
    BY <1>2 DEF CountVote, TypeInv, AnswersFit
  <2> QED BY <1>1, <1>2, <2>1, TypeVotes DEF CountVote
<1>3. ASSUME NEW h \in handling, Decide(h) PROVE TypeInv'
  <2>1. AnswersFit'
    BY <1>3 DEF Decide, TypeInv, AnswersFit, netVars
  <2> QED BY <1>1, <1>3, <2>1, TypeVotes DEF Decide, netVars
<1>4. CASE UNCHANGED vars
  <2>1. AnswersFit'
    BY <1>4 DEF vars, TypeInv, AnswersFit, netVars
  <2> QED BY <1>1, <1>4, <2>1, TypeVotes DEF vars, netVars
<1> QED BY <1>1, <1>2, <1>3, <1>4, TypeSending, TypeInject, TypeRelay, TypePropose, TypeCommitLocal,
           TypeCommitGlobal, TypePrepare DEF Next

\* Pools, open blocks, messages and chains hold transactions, balances never become
\* negative and sequence numbers keep within their range, through every proposal,
\* commit, relay and vote.
THEOREM TypeCorrect == Spec => []TypeOK
BY TypeInit, TypeNext, TypeInvOK, PTL DEF Spec
-----------------------------------------------------------------------------
(* Where every transaction is. *)

Injected(I, e) == Cardinality({m \in I : First(m.tx) = e})
Bodies(B) == {b.body : b \in B}
OpenBodies(O) == [s \in Shard |-> Bodies(O[s])]
InOpened(O, e) == SumFunction([s \in Shard |-> SumFunction([b \in O[s] |-> Occurrences(e, b.body)])])
Opened(B) == B = {} \/ \E b : B = {b} /\ b.body \in Seq(Entry)

\* One more message from the committee.
LEMMA InjectedAdd ==
    ASSUME NEW I, IsFiniteSet(I), NEW m, m \notin I, NEW e
    PROVE  /\ Injected(I \cup {m}, e) = Injected(I, e) + One(First(m.tx), e)
           /\ Injected(I, e) \in Nat
<1> DEFINE S == {n \in I : First(n.tx) = e}
           T == {n \in I \cup {m} : First(n.tx) = e}
<1>1. IsFiniteSet(S) /\ Cardinality(S) \in Nat
  <2>1. S \subseteq I
    OBVIOUS
  <2> QED BY <2>1, FS_Subset, FS_CardinalityType
<1>2. m \notin S /\ T = IF First(m.tx) = e THEN S \cup {m} ELSE S
    OBVIOUS
<1> HIDE DEF S, T
<1>3. Cardinality(S \cup {m}) = Cardinality(S) + 1
    BY <1>1, <1>2, FS_AddElement
<1>4. Cardinality(T) = Cardinality(S) + One(First(m.tx), e)
    BY <1>1, <1>2, <1>3 DEF One
<1> QED BY <1>1, <1>4 DEF Injected, S, T

LEMMA InjectedRemove ==
    ASSUME NEW I, IsFiniteSet(I), NEW m \in I, NEW e
    PROVE  /\ Injected(I, e) = Injected(I \ {m}, e) + One(First(m.tx), e)
           /\ Injected(I \ {m}, e) \in Nat
<1> DEFINE J == I \ {m}
<1>1. IsFiniteSet(J) /\ m \notin J /\ J \cup {m} = I
    BY FS_RemoveElement
<1> HIDE DEF J
<1>2. Injected(J \cup {m}, e) = Injected(J, e) + One(First(m.tx), e) /\ Injected(J, e) \in Nat
    BY <1>1, InjectedAdd
<1>3. Injected(J \cup {m}, e) = Injected(I, e)
    BY <1>1, Zenon
<1> QED BY <1>2, <1>3 DEF J

\* A block counts by its body.
LEMMA OpenedIs ==
    ASSUME NEW B, Opened(B), NEW e
    PROVE  /\ SumFunction([b \in B |-> Occurrences(e, b.body)]) = InBlock(Bodies(B), e)
           /\ Bodies(B) = {} \/ \E body \in Seq(Entry) : Bodies(B) = {body}
<1>1. CASE B = {}
  <2>1. Bodies(B) = {}
    BY <1>1 DEF Bodies
  <2> DEFINE f == [b \in {} |-> Occurrences(e, b.body)]
  <2>2. SumFunction([b \in B |-> Occurrences(e, b.body)]) = SumFunctionOnSet(f, {})
    BY <1>1 DEF SumFunction
  <2> HIDE DEF f
  <2>3. SumFunctionOnSet(f, {}) = 0
    BY SumEmpty
  <2>4. InBlock(Bodies(B), e) = 0
    BY <2>1, InBlockIs, Zenon
  <2> QED BY <2>1, <2>2, <2>3, <2>4
<1>2. CASE \E b : B = {b} /\ b.body \in Seq(Entry)
  <2>1. PICK b : B = {b} /\ b.body \in Seq(Entry)
    BY <1>2
  <2>2. Bodies(B) = {b.body}
    BY <2>1 DEF Bodies
  <2>3. InBlock({b.body}, e) = Occurrences(e, b.body) /\ Occurrences(e, b.body) \in Nat
    BY <2>1, InBlockIs
  <2> DEFINE f == [c \in B |-> Occurrences(e, c.body)]
  <2>4. IsFiniteSet(B) /\ (\A y \in B \ {b} : f[y] = 0) /\ b \in B /\ f[b] = Occurrences(e, b.body)
    BY <2>1, FS_Singleton
  <2>5. SumFunction(f) = SumFunctionOnSet(f, B)
    BY DEF SumFunction
  <2> HIDE DEF f
  <2>6. f[b] \in Int
    BY <2>3, <2>4
  <2>7. SumFunctionOnSet(f, B) = IF b \in B THEN f[b] ELSE 0
    BY <2>4, <2>6, SumSingle
  <2>8. SumFunction(f) = InBlock(Bodies(B), e)
    BY <2>2, <2>3, <2>4, <2>5, <2>7
  <2> QED BY <2>1, <2>2, <2>8 DEF f
<1> QED BY <1>1, <1>2 DEF Opened

LEMMA InOpenedIs ==
    ASSUME NEW O, \A s \in Shard : Opened(O[s]), NEW e
    PROVE  InOpened(O, e) = InOpen(OpenBodies(O), e) /\ OneOpen(OpenBodies(O))
<1>1. \A s \in Shard :
        /\ SumFunction([b \in O[s] |-> Occurrences(e, b.body)]) = InBlock(Bodies(O[s]), e)
        /\ Bodies(O[s]) = {} \/ \E body \in Seq(Entry) : Bodies(O[s]) = {body}
    BY OpenedIs
<1>2. \A s \in Shard : OpenBodies(O)[s] = Bodies(O[s])
    BY DEF OpenBodies
<1>3. OneOpen(OpenBodies(O))
    BY <1>1, <1>2 DEF OneOpen
<1>4. [s \in Shard |-> SumFunction([b \in O[s] |-> Occurrences(e, b.body)])]
        = [s \in Shard |-> InBlock(OpenBodies(O)[s], e)]
    BY <1>1, <1>2
<1> QED BY <1>3, <1>4, Zenon DEF InOpened, InOpen

\* What an entry's count at one shard comes to.
AtShard(q, B, e) == Occurrences(e, q) + InBlock(Bodies(B), e)

LEMMA AtShardFacts ==
    ASSUME NEW q \in Seq(Entry), NEW e
    PROVE  /\ AtShard(q, {}, e) = Occurrences(e, q) /\ Occurrences(e, q) \in Nat
           /\ \A b : b.body \in Seq(Entry) =>
                /\ AtShard(q, {b}, e) = Occurrences(e, q) + Occurrences(e, b.body)
                /\ Occurrences(e, b.body) \in Nat
<1>1. Occurrences(e, q) \in Nat
    BY OccurrencesUpto
<1>2. AtShard(q, {}, e) = Occurrences(e, q)
  <2>1. Bodies({}) = {}
    BY DEF Bodies
  <2>2. InBlock(Bodies({}), e) = 0
    BY <2>1, InBlockIs, Zenon
  <2> QED BY <1>1, <2>2 DEF AtShard
<1>3. ASSUME NEW b, b.body \in Seq(Entry)
      PROVE  /\ AtShard(q, {b}, e) = Occurrences(e, q) + Occurrences(e, b.body)
             /\ Occurrences(e, b.body) \in Nat
  <2>1. Bodies({b}) = {b.body}
    BY DEF Bodies
  <2>2. InBlock({b.body}, e) = Occurrences(e, b.body) /\ Occurrences(e, b.body) \in Nat
    BY <1>3, InBlockIs
  <2>3. InBlock(Bodies({b}), e) = Occurrences(e, b.body)
    BY <2>1, <2>2, Zenon
  <2> QED BY <2>2, <2>3 DEF AtShard
<1> QED BY <1>1, <1>2, <1>3

\* Pools and open blocks of two states that differ at shard s.
LEMMA ShardsChange ==
    ASSUME NEW Q, NEW R, NEW O, NEW P, NEW s \in Shard, NEW e,
           Lists(Q), Lists(R), Elsewhere(Q, R, s), Elsewhere(O, P, s),
           \A d \in Shard : Opened(O[d]) /\ Opened(P[d])
    PROVE  \E w \in Nat : /\ InPools(Q, e) + InOpened(O, e) = w + AtShard(Q[s], O[s], e)
                          /\ InPools(R, e) + InOpened(P, e) = w + AtShard(R[s], P[s], e)
                          /\ InPools(Q, e) \in Nat /\ InOpened(O, e) \in Nat
                          /\ InPools(R, e) \in Nat /\ InOpened(P, e) \in Nat
                          /\ AtShard(Q[s], O[s], e) \in Nat /\ AtShard(R[s], P[s], e) \in Nat
<1> DEFINE X == OpenBodies(O)
           Y == OpenBodies(P)
<1>1. /\ InPools(R, e) = InPools(Q, e) - Occurrences(e, Q[s]) + Occurrences(e, R[s])
      /\ InPools(Q, e) \in Nat /\ InPools(R, e) \in Nat
      /\ Occurrences(e, Q[s]) \in Nat /\ Occurrences(e, R[s]) \in Nat
      /\ Occurrences(e, Q[s]) <= InPools(Q, e)
    BY PoolsChange
<1>2. InOpened(O, e) = InOpen(X, e) /\ OneOpen(X) /\ InOpened(P, e) = InOpen(Y, e) /\ OneOpen(Y)
    BY InOpenedIs
<1>3. X[s] = Bodies(O[s]) /\ Y[s] = Bodies(P[s]) /\ Elsewhere(X, Y, s)
    BY DEF OpenBodies, Elsewhere
<1> HIDE DEF X, Y
<1>4. /\ InOpen(Y, e) = InOpen(X, e) - InBlock(X[s], e) + InBlock(Y[s], e)
      /\ InOpen(X, e) \in Nat /\ InOpen(Y, e) \in Nat
      /\ InBlock(X[s], e) \in Nat /\ InBlock(Y[s], e) \in Nat
      /\ InBlock(X[s], e) <= InOpen(X, e)
    BY <1>2, <1>3, OpenChange
<1>5. /\ AtShard(Q[s], O[s], e) = Occurrences(e, Q[s]) + InBlock(X[s], e)
      /\ AtShard(R[s], P[s], e) = Occurrences(e, R[s]) + InBlock(Y[s], e)
    BY <1>3 DEF AtShard
<1> DEFINE w == InPools(Q, e) - Occurrences(e, Q[s]) + (InOpen(X, e) - InBlock(X[s], e))
<1>6. w \in Nat
    BY <1>1, <1>4
<1>7. /\ InPools(Q, e) + InOpened(O, e) = w + AtShard(Q[s], O[s], e)
      /\ InPools(R, e) + InOpened(P, e) = w + AtShard(R[s], P[s], e)
      /\ AtShard(Q[s], O[s], e) \in Nat /\ AtShard(R[s], P[s], e) \in Nat
      /\ InOpened(O, e) \in Nat /\ InOpened(P, e) \in Nat
    BY <1>1, <1>2, <1>4, <1>5
<1> HIDE DEF w
<1> QED BY <1>1, <1>6, <1>7

\* How often an entry is in the two chains of the shards.
Chained(L, G, e) == SumFunction([s \in Shard |-> L[s][e] + G[s][e]])

LEMMA ChainsChange ==
    ASSUME NEW L, NEW G, NEW K, NEW H, NEW s \in Shard, NEW e \in Entry,
           Ledgers(L), Ledgers(G), Ledgers(K), Ledgers(H), Elsewhere(L, K, s), Elsewhere(G, H, s)
    PROVE  \E w \in Nat : /\ Chained(L, G, e) = w + (L[s][e] + G[s][e])
                          /\ Chained(K, H, e) = w + (K[s][e] + H[s][e])
                          /\ L[s][e] \in Nat /\ G[s][e] \in Nat /\ K[s][e] \in Nat /\ H[s][e] \in Nat
<1> DEFINE f == [d \in Shard |-> L[d][e] + G[d][e]]
           g == [d \in Shard |-> K[d][e] + H[d][e]]
<1>1. \A d \in Shard : L[d][e] \in Nat /\ G[d][e] \in Nat /\ K[d][e] \in Nat /\ H[d][e] \in Nat
    BY DEF Ledgers
<1>2. \A d \in Shard : f[d] \in Nat /\ g[d] \in Nat
    BY <1>1
<1>3. \A d \in Shard \ {s} : g[d] = f[d]
    BY DEF Elsewhere
<1>4. Chained(L, G, e) = SumFunctionOnSet(f, Shard) /\ Chained(K, H, e) = SumFunctionOnSet(g, Shard)
    BY DEF Chained, SumFunction
<1>5. f[s] = L[s][e] + G[s][e] /\ g[s] = K[s][e] + H[s][e]
    OBVIOUS
<1> HIDE DEF f, g
<1>6. IsFiniteSet(Shard) /\ \A d \in Shard : f[d] \in Int /\ g[d] \in Int
    BY <1>2, DataAssumption
<1>7. SumFunctionOnSet(g, Shard) = SumFunctionOnSet(f, Shard) - f[s] + g[s]
    BY <1>3, <1>6, SumChange
<1>8. SumFunctionOnSet(f, Shard) \in Nat /\ f[s] <= SumFunctionOnSet(f, Shard) /\ f[s] \in Nat
    BY <1>2, <1>6, SumNat
<1> DEFINE w == SumFunctionOnSet(f, Shard) - f[s]
<1>9. w \in Nat /\ SumFunctionOnSet(f, Shard) = w + f[s] /\ SumFunctionOnSet(g, Shard) = w + g[s]
    BY <1>2, <1>7, <1>8
<1> HIDE DEF w
<1> QED BY <1>1, <1>4, <1>5, <1>9

\* Two states that differ at most at shard s, apart from messages and votes.
OnlyAt(s) == /\ Elsewhere(txQueue, txQueue', s) /\ Elsewhere(open, open', s)
             /\ Elsewhere(localTxs, localTxs', s) /\ Elsewhere(globalTxs, globalTxs', s)

LEMMA Shapes ==
    TypeInv => /\ Lists(txQueue) /\ Ledgers(localTxs) /\ Ledgers(globalTxs)
               /\ \A s \in Shard : Opened(open[s])
               /\ IsFiniteSet(injects) /\ IsFiniteSet(relays) /\ relays \subseteq Message
<1> SUFFICES ASSUME TypeInv PROVE /\ Lists(txQueue) /\ Ledgers(localTxs) /\ Ledgers(globalTxs)
                                  /\ \A s \in Shard : Opened(open[s])
                                  /\ IsFiniteSet(injects) /\ IsFiniteSet(relays) /\ relays \subseteq Message
    OBVIOUS
<1>1. ASSUME NEW s \in Shard PROVE Opened(open[s])
  <2>1. CASE open[s] = {}
    BY <2>1 DEF Opened
  <2>2. CASE open[s] # {}
    <3>1. PICK b : b \in open[s]
      BY <2>2
    <3>2. open[s] = {b} /\ b.body \in Seq(Entry)
      BY <3>1, OpenBlock
    <3> QED BY <3>2 DEF Opened
  <2> QED BY <2>1, <2>2
<1> QED BY <1>1 DEF TypeInv, ShardsFit, ChainsFit, MessagesFit, Lists, Ledgers

\* The same of the next state.
LEMMA ShapesNext ==
    TypeInv' => /\ Lists(txQueue') /\ Ledgers(localTxs') /\ Ledgers(globalTxs')
                /\ \A s \in Shard : Opened(open'[s])
                /\ IsFiniteSet(injects') /\ IsFiniteSet(relays') /\ relays' \subseteq Message
<1>1. (TypeInv => /\ Lists(txQueue) /\ Ledgers(localTxs) /\ Ledgers(globalTxs)
                  /\ \A s \in Shard : Opened(open[s])
                  /\ IsFiniteSet(injects) /\ IsFiniteSet(relays) /\ relays \subseteq Message)'
    BY Shapes, PTL
<1> QED BY <1>1 DEF Lists, Ledgers, Opened, Message

LEMMA CountsAre ==
    ASSUME NEW e
    PROVE  /\ Pending(e) = Injected(injects, e) + InMsgs(relays, e) + InPools(txQueue, e) + InOpened(open, e)
           /\ InChains(e) = Chained(localTxs, globalTxs, e)
BY DEF Pending, InChains, Injected, InMsgs, InPools, InOpened, Chained

LEMMA CountsAreNext ==
    ASSUME NEW CONSTANT e
    PROVE  /\ Pending(e)' = Injected(injects', e) + InMsgs(relays', e) + InPools(txQueue', e) + InOpened(open', e)
           /\ InChains(e)' = Chained(localTxs', globalTxs', e)
BY DEF Pending, InChains, Injected, InMsgs, InPools, InOpened, Chained

LEMMA MessageCounts ==
    ASSUME NEW I, IsFiniteSet(I), NEW R, IsFiniteSet(R), R \subseteq Message, NEW e
    PROVE  Injected(I, e) \in Nat /\ InMsgs(R, e) \in Nat
<1>1. Injected(I, e) \in Nat
  <2>1. {m \in I : First(m.tx) = e} \subseteq I
    OBVIOUS
  <2> QED BY <2>1, FS_Subset, FS_CardinalityType DEF Injected
<1>2. IsFiniteSet({}) /\ R \cap {} = {} /\ R \cup {} = R
    BY FS_EmptySet
<1>3. InMsgs(R, e) \in Nat
    BY <1>2, InMsgsUnion
<1> QED BY <1>1, <1>3

\* A step at shard s: what changes is in messages or at s.
Moves(s, e, w, k) ==
    /\ w \in Nat /\ k \in Nat
    /\ Pending(e) = Injected(injects, e) + InMsgs(relays, e) + (w + AtShard(txQueue[s], open[s], e))
    /\ Pending(e)' = Injected(injects', e) + InMsgs(relays', e) + (w + AtShard(txQueue'[s], open'[s], e))
    /\ InChains(e) = k + (localTxs[s][e] + globalTxs[s][e])
    /\ InChains(e)' = k + (localTxs'[s][e] + globalTxs'[s][e])
    /\ Injected(injects, e) \in Nat /\ InMsgs(relays, e) \in Nat
    /\ Injected(injects', e) \in Nat /\ InMsgs(relays', e) \in Nat
    /\ AtShard(txQueue[s], open[s], e) \in Nat /\ AtShard(txQueue'[s], open'[s], e) \in Nat
    /\ localTxs[s][e] \in Nat /\ globalTxs[s][e] \in Nat
    /\ localTxs'[s][e] \in Nat /\ globalTxs'[s][e] \in Nat

LEMMA StepMoves ==
    ASSUME TypeInv, TypeInv', NEW s \in Shard, OnlyAt(s), NEW CONSTANT e \in Entry
    PROVE  \E w, k : Moves(s, e, w, k)
<1>1. /\ Lists(txQueue) /\ Ledgers(localTxs) /\ Ledgers(globalTxs)
      /\ \A d \in Shard : Opened(open[d])
      /\ IsFiniteSet(injects) /\ IsFiniteSet(relays) /\ relays \subseteq Message
    BY Shapes
<1>2. /\ Lists(txQueue') /\ Ledgers(localTxs') /\ Ledgers(globalTxs')
      /\ \A d \in Shard : Opened(open'[d])
      /\ IsFiniteSet(injects') /\ IsFiniteSet(relays') /\ relays' \subseteq Message
    BY ShapesNext
<1>3. /\ Elsewhere(txQueue, txQueue', s) /\ Elsewhere(open, open', s)
      /\ Elsewhere(localTxs, localTxs', s) /\ Elsewhere(globalTxs, globalTxs', s)
    BY DEF OnlyAt
<1>4. PICK w \in Nat :
        /\ InPools(txQueue, e) + InOpened(open, e) = w + AtShard(txQueue[s], open[s], e)
        /\ InPools(txQueue', e) + InOpened(open', e) = w + AtShard(txQueue'[s], open'[s], e)
        /\ InPools(txQueue, e) \in Nat /\ InOpened(open, e) \in Nat
        /\ InPools(txQueue', e) \in Nat /\ InOpened(open', e) \in Nat
        /\ AtShard(txQueue[s], open[s], e) \in Nat /\ AtShard(txQueue'[s], open'[s], e) \in Nat
  <2>1. \A d \in Shard : Opened(open[d]) /\ Opened(open'[d])
    BY <1>1, <1>2
  <2> QED BY ONLY <1>1, <1>2, <1>3, <2>1, s \in Shard, ShardsChange
<1>5. PICK k \in Nat :
        /\ Chained(localTxs, globalTxs, e) = k + (localTxs[s][e] + globalTxs[s][e])
        /\ Chained(localTxs', globalTxs', e) = k + (localTxs'[s][e] + globalTxs'[s][e])
        /\ localTxs[s][e] \in Nat /\ globalTxs[s][e] \in Nat
        /\ localTxs'[s][e] \in Nat /\ globalTxs'[s][e] \in Nat
  <2>1. e \in Entry
    OBVIOUS
  <2> QED BY ONLY <1>1, <1>2, <1>3, <2>1, s \in Shard, ChainsChange
<1>6. Injected(injects, e) \in Nat /\ InMsgs(relays, e) \in Nat
    BY <1>1, MessageCounts
<1>7. Injected(injects', e) \in Nat /\ InMsgs(relays', e) \in Nat
    BY <1>2, MessageCounts
<1>8. /\ Pending(e) = Injected(injects, e) + InMsgs(relays, e) + InPools(txQueue, e) + InOpened(open, e)
      /\ InChains(e) = Chained(localTxs, globalTxs, e)
    BY CountsAre
<1>9. /\ Pending(e)' = Injected(injects', e) + InMsgs(relays', e) + InPools(txQueue', e) + InOpened(open', e)
      /\ InChains(e)' = Chained(localTxs', globalTxs', e)
    BY CountsAreNext
<1>10. Pending(e) = Injected(injects, e) + InMsgs(relays, e) + (w + AtShard(txQueue[s], open[s], e))
    BY <1>4, <1>6, <1>8
<1>11. Pending(e)' = Injected(injects', e) + InMsgs(relays', e) + (w + AtShard(txQueue'[s], open'[s], e))
    BY <1>4, <1>7, <1>9
<1>12. Moves(s, e, w, k)
    BY <1>4, <1>5, <1>6, <1>7, <1>8, <1>9, <1>10, <1>11 DEF Moves
<1> QED BY <1>12

\* The second halves that are relayed are not first halves.
LEMMA RelaysAreSeconds ==
    ASSUME NEW R, IsFiniteSet(R), \A m \in R : m.txs \in Seq(Crossing), NEW t
    PROVE  InMsgs(R, First(t)) = 0
<1> DEFINE f == [m \in R |-> Occurrences(First(t), m.txs)]
<1>1. ASSUME NEW m \in R PROVE Occurrences(First(t), m.txs) = 0
  <2>1. \A i \in DOMAIN m.txs : m.txs[i] \in Seconds
    <3>1. \A i \in DOMAIN m.txs : m.txs[i] \in Crossing
      OBVIOUS
    <3> QED BY <3>1 DEF Crossing
  <2>2. \A x \in Seconds : x # First(t)
    BY EntryFacts DEF Seconds
  <2>3. {i \in DOMAIN m.txs : m.txs[i] = First(t)} = {}
    BY <2>1, <2>2
  <2> QED BY <2>3, FS_EmptySet, Zenon DEF Occurrences
<1>2. \A m \in R : f[m] = 0
    BY <1>1
<1>3. InMsgs(R, First(t)) = SumFunctionOnSet(f, R)
    BY InMsgsIs
<1> HIDE DEF f
<1>4. \A m \in R : f[m] \in Nat
    BY <1>2
<1> QED BY <1>2, <1>3, <1>4, SumNat

\* A transaction inside a shard is never lost.  One that crosses shards may be, but
\* its halves are nowhere before it is sent, together at most once, and the second
\* not without the first.
Bounded(t, n, p1, c1, p2, c2) ==
    /\ p1 \in Nat /\ c1 \in Nat /\ p2 \in Nat /\ c2 \in Nat
    /\ p1 + c1 <= IF t <= n THEN 1 ELSE 0
    /\ t <= n /\ ~CrossShard(t) => p1 + c1 = 1
    /\ p2 + c2 <= c1

Sound ==
    \A t \in TxID : Bounded(t, sent, Pending(First(t)), InChains(First(t)),
                            Pending(Second(t)), InChains(Second(t)))

LEMMA SoundAccounted == TypeInv /\ Sound => Accounted
<1> SUFFICES ASSUME TypeInv, Sound, NEW t \in 1 .. sent
             PROVE  /\ Pending(First(t)) + InChains(First(t)) <= 1
                    /\ ~CrossShard(t) => Pending(First(t)) + InChains(First(t)) = 1
                    /\ Pending(Second(t)) + InChains(Second(t)) <= InChains(First(t))
    BY DEF Accounted
<1>1. t \in TxID /\ t <= sent
    BY TxFacts DEF TypeInv
<1>2. Bounded(t, sent, Pending(First(t)), InChains(First(t)), Pending(Second(t)), InChains(Second(t)))
    BY <1>1 DEF Sound
<1> QED BY <1>1, <1>2 DEF Bounded

\* What a step may do to the counts of a transaction without harm.
Harmless(t, p1, c1, p2, c2, q1, d1, q2, d2) ==
    /\ q1 \in Nat /\ d1 \in Nat /\ q2 \in Nat /\ d2 \in Nat
    /\ q1 + d1 <= p1 + c1
    /\ ~CrossShard(t) => q1 + d1 = p1 + c1
    /\ (q2 + d2) + c1 <= (p2 + c2) + d1

LEMMA SoundKept ==
    ASSUME Sound, sent' = sent,
           \A t \in TxID : Harmless(t, Pending(First(t)), InChains(First(t)),
                                    Pending(Second(t)), InChains(Second(t)),
                                    Pending(First(t))', InChains(First(t))',
                                    Pending(Second(t))', InChains(Second(t))')
    PROVE  Sound'
<1> SUFFICES ASSUME NEW CONSTANT t \in TxID
             PROVE  Bounded(t, sent, Pending(First(t))', InChains(First(t))',
                            Pending(Second(t))', InChains(Second(t))')
    BY DEF Sound, Bounded, CrossShard, Sender, Recipient
<1>1. Bounded(t, sent, Pending(First(t)), InChains(First(t)), Pending(Second(t)), InChains(Second(t)))
    BY DEF Sound
<1>2. Harmless(t, Pending(First(t)), InChains(First(t)), Pending(Second(t)), InChains(Second(t)),
               Pending(First(t))', InChains(First(t))', Pending(Second(t))', InChains(Second(t))')
    OBVIOUS
<1> DEFINE p1 == Pending(First(t))
           c1 == InChains(First(t))
           p2 == Pending(Second(t))
           c2 == InChains(Second(t))
           q1 == Pending(First(t))'
           d1 == InChains(First(t))'
           q2 == Pending(Second(t))'
           d2 == InChains(Second(t))'
<1>3. Bounded(t, sent, p1, c1, p2, c2) /\ Harmless(t, p1, c1, p2, c2, q1, d1, q2, d2)
    BY <1>1, <1>2
<1> HIDE DEF p1, c1, p2, c2, q1, d1, q2, d2
<1>4. Bounded(t, sent, q1, d1, q2, d2)
    BY ONLY <1>3 DEF Bounded, Harmless
<1> QED BY <1>4 DEF q1, d1, q2, d2

\* A step that leaves every count as it was.
LEMMA SoundUnmoved ==
    ASSUME Sound, sent' = sent,
           \A e \in Entry : Pending(e)' = Pending(e) /\ InChains(e)' = InChains(e)
    PROVE  Sound'
<1>1. ASSUME NEW CONSTANT t \in TxID
      PROVE  Harmless(t, Pending(First(t)), InChains(First(t)),
                      Pending(Second(t)), InChains(Second(t)),
                      Pending(First(t))', InChains(First(t))',
                      Pending(Second(t))', InChains(Second(t))')
  <2>1. First(t) \in Entry /\ Second(t) \in Entry
    BY EntryFacts
  <2>2. /\ Pending(First(t))' = Pending(First(t)) /\ InChains(First(t))' = InChains(First(t))
        /\ Pending(Second(t))' = Pending(Second(t)) /\ InChains(Second(t))' = InChains(Second(t))
    BY <2>1
  <2>3. Bounded(t, sent, Pending(First(t)), InChains(First(t)), Pending(Second(t)), InChains(Second(t)))
    BY DEF Sound
  <2> QED BY <2>2, <2>3 DEF Harmless, Bounded
<1> QED BY <1>1, SoundKept

\* Handling a message moves its transactions to the pool.
LEMMA SoundInject ==
    ASSUME TypeInv, TypeInv', Sound, NEW m \in injects, HandleInjectTx(m) PROVE Sound'
<1> DEFINE s == m.to
           x == First(m.tx)
<1>1. s \in Shard /\ m.tx \in TxID /\ x \in Entry
    BY EntryFacts DEF TypeInv, MessagesFit
<1>2. /\ txQueue[s] \in Seq(Entry) /\ txQueue'[s] = Append(txQueue[s], x)
      /\ OnlyAt(s)
    BY <1>1 DEF HandleInjectTx, TypeInv, ShardsFit, OnlyAt, Elsewhere, chainVars, First
<1>3. /\ open' = open /\ localTxs' = localTxs /\ globalTxs' = globalTxs /\ relays' = relays
      /\ injects' = injects \ {m} /\ IsFiniteSet(injects) /\ sent' = sent
    BY Shapes DEF HandleInjectTx, chainVars
<1> HIDE DEF s, x
<1>4. ASSUME NEW CONSTANT e \in Entry PROVE Pending(e)' = Pending(e) /\ InChains(e)' = InChains(e)
  <2>1. PICK w, k : Moves(s, e, w, k)
    BY <1>1, <1>2, StepMoves
  <2>2. /\ Injected(injects, e) = Injected(injects', e) + One(x, e)
        /\ Injected(injects', e) \in Nat
    BY <1>3, InjectedRemove DEF x
  <2>3. Occurrences(e, txQueue'[s]) = Occurrences(e, txQueue[s]) + One(x, e)
    BY <1>1, <1>2, OccurrencesAppend
  <2>4. InBlock(Bodies(open[s]), e) \in Nat /\ Occurrences(e, txQueue[s]) \in Nat
    <3>1. Opened(open[s])
      BY <1>1, Shapes
    <3>2. Bodies(open[s]) = {} \/ \E body \in Seq(Entry) : Bodies(open[s]) = {body}
      BY <3>1, OpenedIs
    <3> QED BY <1>2, <3>2, InBlockType, OccurrencesUpto
  <2>5. AtShard(txQueue'[s], open'[s], e) = AtShard(txQueue[s], open[s], e) + One(x, e)
    BY <1>3, <2>3, <2>4 DEF AtShard, One
  <2>6. InMsgs(relays', e) = InMsgs(relays, e)
    BY <1>3, Zenon
  <2>7. One(x, e) \in Nat
    BY DEF One
  <2> QED BY <1>3, <2>1, <2>2, <2>5, <2>6, <2>7 DEF Moves
<1> QED BY <1>3, <1>4, SoundUnmoved

LEMMA SoundRelay ==
    ASSUME TypeInv, TypeInv', Sound, NEW m \in relays, HandleRelay(m) PROVE Sound'
<1> DEFINE s == m.to
           x == m.txs
<1>1. s \in Shard /\ x \in Seq(Entry)
    BY DEF TypeInv, MessagesFit, Message
<1>2. /\ txQueue[s] \in Seq(Entry) /\ txQueue'[s] = txQueue[s] \o x
      /\ OnlyAt(s)
    BY <1>1 DEF HandleRelay, TypeInv, ShardsFit, OnlyAt, Elsewhere, chainVars
<1>3. /\ open' = open /\ localTxs' = localTxs /\ globalTxs' = globalTxs /\ injects' = injects
      /\ relays' = relays \ {m} /\ IsFiniteSet(relays) /\ relays \subseteq Message /\ sent' = sent
    BY Shapes DEF HandleRelay, chainVars
<1> HIDE DEF s, x
<1>4. ASSUME NEW CONSTANT e \in Entry PROVE Pending(e)' = Pending(e) /\ InChains(e)' = InChains(e)
  <2>1. PICK w, k : Moves(s, e, w, k)
    BY <1>1, <1>2, StepMoves
  <2>2. /\ InMsgs(relays, e) = Occurrences(e, x) + InMsgs(relays', e)
        /\ InMsgs(relays', e) \in Nat /\ Occurrences(e, x) \in Nat
    <3>1. /\ InMsgs(relays, e) = Occurrences(e, m.txs) + InMsgs(relays \ {m}, e)
          /\ InMsgs(relays \ {m}, e) \in Nat /\ Occurrences(e, m.txs) \in Nat
      BY <1>3, InMsgsRemove
    <3> QED BY <1>3, <3>1 DEF x
  <2>3. Occurrences(e, txQueue'[s]) = Occurrences(e, txQueue[s]) + Occurrences(e, x)
    BY <1>1, <1>2, OccurrencesConcat
  <2>4. InBlock(Bodies(open[s]), e) \in Nat /\ Occurrences(e, txQueue[s]) \in Nat
    <3>1. Opened(open[s])
      BY <1>1, Shapes
    <3>2. Bodies(open[s]) = {} \/ \E body \in Seq(Entry) : Bodies(open[s]) = {body}
      BY <3>1, OpenedIs
    <3> QED BY <1>2, <3>2, InBlockType, OccurrencesUpto
  <2>5. AtShard(txQueue'[s], open'[s], e) = AtShard(txQueue[s], open[s], e) + Occurrences(e, x)
    BY <1>3, <2>2, <2>3, <2>4 DEF AtShard
  <2>6. Injected(injects', e) = Injected(injects, e)
    BY <1>3, Zenon
  <2> QED BY <1>3, <2>1, <2>2, <2>5, <2>6 DEF Moves
<1> QED BY <1>3, <1>4, SoundUnmoved

\* Steps that leave pools, blocks, chains and what they exchange alone.
LEMMA SoundIdle ==
    ASSUME Sound, UNCHANGED <<txQueue, open, localTxs, globalTxs, injects, relays, sent>>
    PROVE  Sound'
<1>1. ASSUME NEW CONSTANT e \in Entry PROVE Pending(e)' = Pending(e) /\ InChains(e)' = InChains(e)
    BY DEF Pending, InChains
<1> QED BY <1>1, SoundUnmoved

\* A proposal: for a transaction of the shard nothing is lost, others may be dropped.
LEMMA SoundProposing ==
    ASSUME TypeInv, TypeInv', Sound, NEW s \in Shard, OnlyAt(s),
           UNCHANGED <<localTxs, globalTxs, injects, relays, sent>>,
           \A e \in Entry : AtShard(txQueue'[s], open'[s], e) <= AtShard(txQueue[s], open[s], e),
           \A t \in TxID : ~CrossShard(t) =>
               AtShard(txQueue'[s], open'[s], First(t)) = AtShard(txQueue[s], open[s], First(t))
    PROVE  Sound'
<1>1. ASSUME NEW CONSTANT t \in TxID
      PROVE  Harmless(t, Pending(First(t)), InChains(First(t)),
                      Pending(Second(t)), InChains(Second(t)),
                      Pending(First(t))', InChains(First(t))',
                      Pending(Second(t))', InChains(Second(t))')
  <2>1. First(t) \in Entry /\ Second(t) \in Entry
    BY EntryFacts
  <2>2. ASSUME NEW CONSTANT e \in Entry
        PROVE  \E w, u, v : /\ w \in Nat /\ u \in Nat /\ v \in Nat
                            /\ u = AtShard(txQueue[s], open[s], e) /\ v = AtShard(txQueue'[s], open'[s], e)
                            /\ Pending(e) = w + u /\ Pending(e)' = w + v
                            /\ InChains(e)' = InChains(e) /\ InChains(e) \in Nat
    <3>1. PICK w, k : Moves(s, e, w, k)
      BY StepMoves
    <3>2. Injected(injects', e) = Injected(injects, e) /\ InMsgs(relays', e) = InMsgs(relays, e)
      BY Zenon
    <3> DEFINE a == Injected(injects, e) + InMsgs(relays, e) + w
    <3>3. /\ a \in Nat
          /\ Pending(e) = a + AtShard(txQueue[s], open[s], e)
          /\ Pending(e)' = a + AtShard(txQueue'[s], open'[s], e)
          /\ AtShard(txQueue[s], open[s], e) \in Nat /\ AtShard(txQueue'[s], open'[s], e) \in Nat
          /\ InChains(e)' = InChains(e) /\ InChains(e) \in Nat
      BY <3>1, <3>2 DEF Moves
    <3> HIDE DEF a
    <3> QED BY <3>3
  <2>3. PICK w, u, v : /\ w \in Nat /\ u \in Nat /\ v \in Nat
                       /\ u = AtShard(txQueue[s], open[s], First(t)) /\ v = AtShard(txQueue'[s], open'[s], First(t))
                       /\ Pending(First(t)) = w + u /\ Pending(First(t))' = w + v
                       /\ InChains(First(t))' = InChains(First(t)) /\ InChains(First(t)) \in Nat
    BY <2>1, <2>2
  <2>4. PICK w2, u2, v2 : /\ w2 \in Nat /\ u2 \in Nat /\ v2 \in Nat
                       /\ u2 = AtShard(txQueue[s], open[s], Second(t)) /\ v2 = AtShard(txQueue'[s], open'[s], Second(t))
                       /\ Pending(Second(t)) = w2 + u2 /\ Pending(Second(t))' = w2 + v2
                       /\ InChains(Second(t))' = InChains(Second(t)) /\ InChains(Second(t)) \in Nat
    BY <2>1, <2>2
  <2>5. v <= u /\ v2 <= u2 /\ (~CrossShard(t) => v = u)
    BY <2>1, <2>3, <2>4
  <2> QED BY <2>3, <2>4, <2>5 DEF Harmless
<1> QED BY <1>1, SoundKept

\* What is not kept for the local block crosses shards, or is a second half.
LEMMA TakenInside ==
    ASSUME TypeInv, NEW s \in Shard, NEW t \in TxID, ~CrossShard(t)
    PROVE  Occurrences(First(t), LocalPart(s)) = Occurrences(First(t), Taken(s))
<1>1. /\ Taken(s) \in Seq(Home(s))
      /\ Occurrences(First(t), LocalPart(s)) = IF First(t) \in Inside(s) THEN Occurrences(First(t), Taken(s)) ELSE 0
    BY TakenFacts
<1>2. First(t) \in Home(s) => First(t) \in Inside(s)
    BY HomeFacts DEF CrossShard
<1>3. First(t) \notin Home(s) => Occurrences(First(t), Taken(s)) = 0
  <2> SUFFICES ASSUME First(t) \notin Home(s) PROVE Occurrences(First(t), Taken(s)) = 0
    OBVIOUS
  <2>1. \A i \in 1 .. Len(Taken(s)) : Taken(s)[i] \in Home(s)
    BY <1>1
  <2>2. ~(Occurrences(First(t), Taken(s)) > 0)
    BY <1>1, <2>1, OccurrencesIn
  <2>3. Occurrences(First(t), Taken(s)) \in Nat
    BY <1>1, OccurrencesUpto
  <2> QED BY <2>2, <2>3
<1> QED BY <1>1, <1>2, <1>3

LEMMA SoundPropose ==
    ASSUME TypeInv, TypeInv', Sound, NEW s \in Shard,
           ProposeLocal(s) \/ ProposeGlobal(s) \/ GenerateBlock(s)
    PROVE  Sound'
<1>1. /\ Taken(s) \in Seq(Home(s)) /\ RemainQueue(s) \in Seq(Home(s))
      /\ LocalPart(s) \in Seq(Home(s))
      /\ \A e : Occurrences(e, txQueue[s]) = Occurrences(e, Taken(s)) + Occurrences(e, RemainQueue(s))
      /\ \A e : Occurrences(e, LocalPart(s)) = IF e \in Inside(s) THEN Occurrences(e, Taken(s)) ELSE 0
    BY TakenFacts
<1>2. Taken(s) \in Seq(Entry) /\ RemainQueue(s) \in Seq(Entry) /\ LocalPart(s) \in Seq(Entry)
    BY <1>1, HomeList
<1>3. txQueue[s] \in Seq(Entry) /\ open[s] = {}
  <2>1. Held(s, txQueue[s], stage[s], open[s]) /\ txQueue[s] \in Seq(Entry)
    BY DEF TypeInv, ShardsFit
  <2> QED BY <2>1 DEF Held, Busy, ProposeLocal, ProposeGlobal, GenerateBlock
<1>4. \A e : AtShard(txQueue[s], open[s], e) = Occurrences(e, txQueue[s])
    BY <1>3, AtShardFacts
<1>5. \A e : /\ Occurrences(e, Taken(s)) \in Nat /\ Occurrences(e, RemainQueue(s)) \in Nat
             /\ Occurrences(e, LocalPart(s)) \in Nat
    BY <1>2, OccurrencesUpto
<1>6. /\ OnlyAt(s) /\ UNCHANGED <<localTxs, globalTxs, injects, relays, sent>>
      /\ txQueue'[s] = RemainQueue(s)
  <2>1. /\ txQueue' = [txQueue EXCEPT ![s] = RemainQueue(s)]
        /\ UNCHANGED <<localTxs, globalTxs, injects, relays, sent>>
    BY DEF ProposeLocal, ProposeGlobal, GenerateBlock, chainVars, netVars
  <2>2. Elsewhere(open, open', s)
    BY DEF ProposeLocal, ProposeGlobal, GenerateBlock, Elsewhere, TypeInv, ShardsFit
  <2> QED BY <2>1, <2>2 DEF OnlyAt, Elsewhere, TypeInv, ShardsFit
<1>7. ASSUME NEW b, open'[s] = {b}, b.body = LocalPart(s) \/ b.body = Taken(s)
      PROVE  Sound'
  <2>1. \A e : AtShard(txQueue'[s], open'[s], e) = Occurrences(e, RemainQueue(s)) + Occurrences(e, b.body)
    <3>1. b.body \in Seq(Entry)
      BY <1>2, <1>7
    <3> QED BY <1>2, <1>6, <1>7, <3>1, AtShardFacts
  <2>2. ASSUME NEW e \in Entry PROVE AtShard(txQueue'[s], open'[s], e) <= AtShard(txQueue[s], open[s], e)
    <3>1. Occurrences(e, b.body) <= Occurrences(e, Taken(s)) /\ Occurrences(e, b.body) \in Nat
      <4>1. CASE b.body = LocalPart(s)
        <5>1. Occurrences(e, LocalPart(s)) = IF e \in Inside(s) THEN Occurrences(e, Taken(s)) ELSE 0
          BY <1>1
        <5> QED BY <1>5, <4>1, <5>1
      <4>2. CASE b.body = Taken(s)
        BY <1>5, <4>2
      <4> QED BY <1>7, <4>1, <4>2
    <3>2. Occurrences(e, txQueue[s]) = Occurrences(e, Taken(s)) + Occurrences(e, RemainQueue(s))
      BY <1>1
    <3> QED BY <1>4, <1>5, <2>1, <3>1, <3>2
  <2>3. ASSUME NEW t \in TxID, ~CrossShard(t)
        PROVE  AtShard(txQueue'[s], open'[s], First(t)) = AtShard(txQueue[s], open[s], First(t))
    <3>1. Occurrences(First(t), b.body) = Occurrences(First(t), Taken(s))
      BY <1>7, <2>3, TakenInside
    <3>2. Occurrences(First(t), txQueue[s]) = Occurrences(First(t), Taken(s)) + Occurrences(First(t), RemainQueue(s))
      BY <1>1
    <3> QED BY <1>4, <1>5, <2>1, <3>1, <3>2
  <2> QED BY <1>6, <2>2, <2>3, SoundProposing
<1>8. CASE ProposeLocal(s)
  <2> DEFINE b == [body |-> LocalPart(s), root |-> LocalHeaderRoot(s)]
  <2>1. open'[s] = {b} /\ b.body = LocalPart(s)
    BY <1>8 DEF ProposeLocal, TypeInv, ShardsFit
  <2> HIDE DEF b
  <2> QED BY <1>7, <2>1
<1>9. CASE GenerateBlock(s)
  <2> DEFINE b == [body |-> Taken(s), root |-> GetUpdateStatusTrie(s, curRoot[s], Taken(s))]
  <2>1. open'[s] = {b} /\ b.body = Taken(s)
    BY <1>9 DEF GenerateBlock, TypeInv, ShardsFit
  <2> HIDE DEF b
  <2> QED BY <1>7, <2>1
<1>10. CASE ProposeGlobal(s)
  <2>1. open'[s] = {} /\ LocalPart(s) = <<>>
    BY <1>3, <1>10 DEF ProposeGlobal
  <2>2. \A e : AtShard(txQueue'[s], open'[s], e) = Occurrences(e, RemainQueue(s))
    BY <1>2, <1>6, <2>1, AtShardFacts
  <2>3. \A e \in Entry : AtShard(txQueue'[s], open'[s], e) <= AtShard(txQueue[s], open[s], e)
    BY <1>1, <1>4, <1>5, <2>2
  <2>4. ASSUME NEW t \in TxID, ~CrossShard(t)
        PROVE  AtShard(txQueue'[s], open'[s], First(t)) = AtShard(txQueue[s], open[s], First(t))
    <3>1. Occurrences(First(t), LocalPart(s)) = Occurrences(First(t), Taken(s))
      BY <2>4, TakenInside
    <3>2. Occurrences(First(t), LocalPart(s)) = 0
      BY <2>1, OccurrencesEmpty
    <3>3. Occurrences(First(t), txQueue[s]) = Occurrences(First(t), Taken(s)) + Occurrences(First(t), RemainQueue(s))
      BY <1>1
    <3> QED BY <1>4, <1>5, <2>2, <3>1, <3>2, <3>3
  <2> QED BY <1>6, <2>3, <2>4, SoundProposing
<1> QED BY <1>8, <1>9, <1>10

\* Messages already there may be sent again, which adds nothing.
LEMMA InMsgsJoin ==
    ASSUME NEW R, NEW M, IsFiniteSet(R), IsFiniteSet(M), R \subseteq Message, M \subseteq Message, NEW e
    PROVE  /\ InMsgs(R \cup M, e) <= InMsgs(R, e) + InMsgs(M, e)
           /\ InMsgs(R \cup M, e) \in Nat /\ InMsgs(R, e) \in Nat /\ InMsgs(M, e) \in Nat
<1> DEFINE A == M \ R
           C == M \cap R
<1>1. IsFiniteSet(A) /\ IsFiniteSet(C)
  <2>1. A \subseteq M /\ C \subseteq M
    OBVIOUS
  <2> QED BY <2>1, FS_Subset
<1>2. R \cap A = {} /\ R \cup A = R \cup M /\ A \cap C = {} /\ A \cup C = M
      /\ R \cup A \subseteq Message /\ A \cup C \subseteq Message
    OBVIOUS
<1> HIDE DEF A, C
<1>3. InMsgs(R \cup A, e) = InMsgs(R, e) + InMsgs(A, e) /\ InMsgs(R, e) \in Nat /\ InMsgs(A, e) \in Nat
    BY <1>1, <1>2, InMsgsUnion
<1>4. InMsgs(A \cup C, e) = InMsgs(A, e) + InMsgs(C, e) /\ InMsgs(A, e) \in Nat /\ InMsgs(C, e) \in Nat
    BY <1>1, <1>2, InMsgsUnion
<1>5. InMsgs(R \cup A, e) = InMsgs(R \cup M, e) /\ InMsgs(A \cup C, e) = InMsgs(M, e)
    BY <1>2, Zenon
<1> QED BY <1>3, <1>4, <1>5

\* What a commit does to the counts: the entries of the block move to a chain.
Committed(s, b) ==
    /\ open[s] = {b} /\ open'[s] = {} /\ UNCHANGED <<txQueue, injects, sent>> /\ OnlyAt(s)
    /\ \A e \in Entry : localTxs'[s][e] + globalTxs'[s][e]
                          = localTxs[s][e] + globalTxs[s][e] + Occurrences(e, b.body)

LEMMA CommittedCounts ==
    ASSUME TypeInv, TypeInv', NEW s \in Shard, NEW b, Committed(s, b), NEW CONSTANT e \in Entry
    PROVE  /\ Pending(e) \in Nat /\ InChains(e) \in Nat /\ Pending(e)' \in Nat /\ InChains(e)' \in Nat
           /\ Occurrences(e, b.body) \in Nat /\ InMsgs(relays, e) \in Nat /\ InMsgs(relays', e) \in Nat
           /\ InChains(e)' = InChains(e) + Occurrences(e, b.body) /\ Occurrences(e, b.body) <= Pending(e)
           /\ Pending(e)' + Occurrences(e, b.body) + InMsgs(relays, e) = Pending(e) + InMsgs(relays', e)
<1>1. OnlyAt(s) /\ open[s] = {b} /\ open'[s] = {} /\ txQueue' = txQueue /\ injects' = injects
    BY DEF Committed
<1>2. PICK w, k : Moves(s, e, w, k)
    BY <1>1, StepMoves
<1>3. b.body \in Seq(Entry) /\ txQueue[s] \in Seq(Entry)
    BY <1>1, OpenBlock DEF TypeInv, ShardsFit
<1>4. /\ AtShard(txQueue[s], {b}, e) = Occurrences(e, txQueue[s]) + Occurrences(e, b.body)
      /\ AtShard(txQueue[s], {}, e) = Occurrences(e, txQueue[s])
      /\ Occurrences(e, b.body) \in Nat /\ Occurrences(e, txQueue[s]) \in Nat
    BY <1>3, AtShardFacts
<1>5. /\ AtShard(txQueue[s], open[s], e) = AtShard(txQueue[s], {b}, e)
      /\ AtShard(txQueue'[s], open'[s], e) = AtShard(txQueue[s], {}, e)
      /\ Injected(injects', e) = Injected(injects, e)
    BY <1>1, Zenon
<1>6. localTxs'[s][e] + globalTxs'[s][e] = localTxs[s][e] + globalTxs[s][e] + Occurrences(e, b.body)
    BY DEF Committed
<1>7. InChains(e)' = InChains(e) + Occurrences(e, b.body) /\ InChains(e) \in Nat /\ InChains(e)' \in Nat
    BY <1>2, <1>4, <1>6 DEF Moves
<1>8. /\ Pending(e) \in Nat /\ Pending(e)' \in Nat
      /\ Pending(e)' + Occurrences(e, b.body) + InMsgs(relays, e) = Pending(e) + InMsgs(relays', e)
      /\ InMsgs(relays, e) \in Nat /\ InMsgs(relays', e) \in Nat
    BY <1>2, <1>4, <1>5 DEF Moves
<1>9. Occurrences(e, b.body) <= Pending(e)
    BY <1>2, <1>4, <1>5 DEF Moves
<1> QED BY <1>4, <1>7, <1>8, <1>9

LEMMA SoundCommitting ==
    ASSUME TypeInv, TypeInv', Sound, NEW s \in Shard, NEW b, Committed(s, b),
           \A t \in TxID : InMsgs(relays', Second(t)) <= InMsgs(relays, Second(t)) + Occurrences(First(t), b.body)
    PROVE  Sound'
<1>1. ASSUME NEW CONSTANT t \in TxID
      PROVE  Harmless(t, Pending(First(t)), InChains(First(t)),
                      Pending(Second(t)), InChains(Second(t)),
                      Pending(First(t))', InChains(First(t))',
                      Pending(Second(t))', InChains(Second(t))')
  <2>1. First(t) \in Entry /\ Second(t) \in Entry
    BY EntryFacts
  <2>2. /\ Pending(First(t)) \in Nat /\ InChains(First(t)) \in Nat
        /\ Pending(First(t))' \in Nat /\ InChains(First(t))' \in Nat
        /\ Occurrences(First(t), b.body) \in Nat
        /\ InMsgs(relays, First(t)) \in Nat /\ InMsgs(relays', First(t)) \in Nat
        /\ InChains(First(t))' = InChains(First(t)) + Occurrences(First(t), b.body)
        /\ Pending(First(t))' + Occurrences(First(t), b.body) + InMsgs(relays, First(t))
             = Pending(First(t)) + InMsgs(relays', First(t))
    BY <2>1, CommittedCounts
  <2>3. /\ Pending(Second(t)) \in Nat /\ InChains(Second(t)) \in Nat
        /\ Pending(Second(t))' \in Nat /\ InChains(Second(t))' \in Nat
        /\ Occurrences(Second(t), b.body) \in Nat
        /\ InMsgs(relays, Second(t)) \in Nat /\ InMsgs(relays', Second(t)) \in Nat
        /\ InChains(Second(t))' = InChains(Second(t)) + Occurrences(Second(t), b.body)
        /\ Pending(Second(t))' + Occurrences(Second(t), b.body) + InMsgs(relays, Second(t))
             = Pending(Second(t)) + InMsgs(relays', Second(t))
    BY <2>1, CommittedCounts
  <2>4. InMsgs(relays, First(t)) = 0 /\ InMsgs(relays', First(t)) = 0
    <3>1. IsFiniteSet(relays) /\ \A m \in relays : m.txs \in Seq(Crossing)
      BY DEF TypeInv, MessagesFit
    <3>2. IsFiniteSet(relays') /\ \A m \in relays' : m.txs \in Seq(Crossing)
      BY DEF TypeInv, MessagesFit, Crossing, Seconds, Second, TxID, CrossShard, Sender, Recipient
    <3> QED BY <3>1, <3>2, RelaysAreSeconds
  <2>5. InMsgs(relays', Second(t)) <= InMsgs(relays, Second(t)) + Occurrences(First(t), b.body)
    OBVIOUS
  <2>6. Pending(First(t))' + InChains(First(t))' = Pending(First(t)) + InChains(First(t))
    BY <2>2, <2>4
  <2>7. (Pending(Second(t))' + InChains(Second(t))') + InChains(First(t))
          <= (Pending(Second(t)) + InChains(Second(t))) + InChains(First(t))'
    BY <2>2, <2>3, <2>5
  <2> QED BY <2>2, <2>3, <2>6, <2>7 DEF Harmless
<1>2. sent' = sent
    BY DEF Committed
<1> QED BY <1>1, <1>2, SoundKept

LEMMA CommitsLocal ==
    ASSUME TypeInv, NEW s \in Shard, CommitLocal(s)
    PROVE  \E b \in open[s] : Committed(s, b) /\ IsLocalSZBlock(s, b) /\ b.body \in Seq(Entry)
<1>1. PICK b \in open[s] : /\ localTxs' = [localTxs EXCEPT ![s] = Recorded(@, b.body)]
                           /\ IsLocalSZBlock(s, b)
    BY DEF CommitLocal
<1>2. open[s] = {b} /\ b.body \in Seq(Entry)
    BY OpenBlock
<1>3. /\ open' = [open EXCEPT ![s] = {}] /\ globalTxs' = globalTxs /\ relays' = relays
      /\ UNCHANGED <<txQueue, injects, sent>>
    BY DEF CommitLocal, Done, netVars
<1>4. /\ open'[s] = {} /\ localTxs'[s] = Recorded(localTxs[s], b.body) /\ OnlyAt(s)
  <2> HIDE DEF Recorded
  <2> QED BY <1>1, <1>3 DEF OnlyAt, Elsewhere, TypeInv, ShardsFit, ChainsFit
<1>5. \A e \in Entry : Occurrences(e, b.body) \in Nat /\ localTxs[s][e] \in Nat /\ globalTxs[s][e] \in Nat
    BY <1>2, OccurrencesUpto DEF TypeInv, ChainsFit
<1>6. \A e \in Entry : localTxs'[s][e] = localTxs[s][e] + Occurrences(e, b.body)
    BY <1>4 DEF Recorded
<1>7. \A e \in Entry : localTxs'[s][e] + globalTxs'[s][e]
                         = localTxs[s][e] + globalTxs[s][e] + Occurrences(e, b.body)
    BY <1>3, <1>5, <1>6
<1>8. Committed(s, b)
    BY <1>2, <1>3, <1>4, <1>7 DEF Committed
<1> QED BY <1>1, <1>2, <1>8

LEMMA SoundCommitLocal ==
    ASSUME TypeInv, TypeInv', Sound, NEW s \in Shard, CommitLocal(s) PROVE Sound'
<1>1. PICK b \in open[s] : Committed(s, b) /\ b.body \in Seq(Entry)
    BY CommitsLocal
<1>2. relays' = relays
    BY DEF CommitLocal, netVars
<1>3. ASSUME NEW t \in TxID
      PROVE  InMsgs(relays', Second(t)) <= InMsgs(relays, Second(t)) + Occurrences(First(t), b.body)
  <2>1. InMsgs(relays', Second(t)) = InMsgs(relays, Second(t))
    BY <1>2, Zenon
  <2>2. InMsgs(relays, Second(t)) \in Nat
    BY Shapes, MessageCounts
  <2>3. Occurrences(First(t), b.body) \in Nat
    BY <1>1, OccurrencesUpto
  <2> QED BY <2>1, <2>2, <2>3
<1> QED BY <1>1, <1>3, SoundCommitting

LEMMA CommitsGlobal ==
    ASSUME TypeInv, NEW s \in Shard, CommitGlobal(s)
    PROVE  \E b \in open[s] :
             /\ Committed(s, b) /\ ~IsLocalSZBlock(s, b)
             /\ b.body \in Seq(Entry) /\ b.body \in Seq(Correct(s))
             /\ curRoot' = [curRoot EXCEPT ![s] = b.root]
             /\ relays' = relays \cup RelayMsgSend(s, b.body)
<1>1. PICK b \in open[s] :
        /\ \A i \in DOMAIN b.body :
             Mine(s, IF b.body[i].relayed THEN Recipient(b.body[i].tx) ELSE Sender(b.body[i].tx))
        /\ globalTxs' = [globalTxs EXCEPT ![s] = Recorded(@, b.body)]
        /\ relays' = relays \cup RelayMsgSend(s, b.body)
        /\ curRoot' = [curRoot EXCEPT ![s] = b.root] /\ ~IsLocalSZBlock(s, b)
    BY DEF CommitGlobal
<1>2. open[s] = {b} /\ b.body \in Seq(Entry)
    BY OpenBlock
<1>3. /\ open' = [open EXCEPT ![s] = {}] /\ localTxs' = localTxs
      /\ UNCHANGED <<txQueue, injects, sent>>
    BY DEF CommitGlobal, Done
<1>4. /\ open'[s] = {} /\ globalTxs'[s] = Recorded(globalTxs[s], b.body) /\ OnlyAt(s)
  <2> HIDE DEF Recorded
  <2> QED BY <1>1, <1>3 DEF OnlyAt, Elsewhere, TypeInv, ShardsFit, ChainsFit
<1>5. \A e \in Entry : Occurrences(e, b.body) \in Nat /\ localTxs[s][e] \in Nat /\ globalTxs[s][e] \in Nat
    BY <1>2, OccurrencesUpto DEF TypeInv, ChainsFit
<1>6. \A e \in Entry : globalTxs'[s][e] = globalTxs[s][e] + Occurrences(e, b.body)
    BY <1>4 DEF Recorded
<1>7. \A e \in Entry : localTxs'[s][e] + globalTxs'[s][e]
                         = localTxs[s][e] + globalTxs[s][e] + Occurrences(e, b.body)
    BY <1>3, <1>5, <1>6
<1>8. Committed(s, b)
    BY <1>2, <1>3, <1>4, <1>7 DEF Committed
<1>9. b.body \in Seq(Correct(s))
  <2>1. \A i \in DOMAIN b.body : b.body[i] \in Correct(s)
    BY <1>1, <1>2 DEF Correct
  <2> QED BY <1>2, <2>1
<1> QED BY <1>1, <1>2, <1>8, <1>9

LEMMA SoundCommitGlobal ==
    ASSUME TypeInv, TypeInv', Sound, NEW s \in Shard, CommitGlobal(s) PROVE Sound'
<1>1. PICK b \in open[s] :
        /\ Committed(s, b) /\ b.body \in Seq(Entry) /\ b.body \in Seq(Correct(s))
        /\ relays' = relays \cup RelayMsgSend(s, b.body)
    BY CommitsGlobal
<1>2. ASSUME NEW t \in TxID
      PROVE  InMsgs(relays', Second(t)) <= InMsgs(relays, Second(t)) + Occurrences(First(t), b.body)
  <2> DEFINE M == RelayMsgSend(s, b.body)
  <2>2. /\ IsFiniteSet(M) /\ M \subseteq Message
        /\ InMsgs(M, Second(t)) \in Nat
        /\ InMsgs(M, Second(t)) <= Occurrences(First(t), b.body)
    BY <1>1, CommitMsgs
  <2>3. relays' = relays \cup M
    BY <1>1
  <2> HIDE DEF M
  <2>4. /\ InMsgs(relays \cup M, Second(t)) <= InMsgs(relays, Second(t)) + InMsgs(M, Second(t))
        /\ InMsgs(relays \cup M, Second(t)) \in Nat
        /\ InMsgs(relays, Second(t)) \in Nat /\ InMsgs(M, Second(t)) \in Nat
    <3>1. IsFiniteSet(relays) /\ relays \subseteq Message
      BY Shapes
    <3> QED BY ONLY <2>2, <3>1, InMsgsJoin
  <2>5. InMsgs(relays', Second(t)) = InMsgs(relays \cup M, Second(t))
    BY <2>3, Zenon
  <2>6. Occurrences(First(t), b.body) \in Nat
    BY <1>1, OccurrencesUpto
  <2> QED BY <2>2, <2>4, <2>5, <2>6
<1> QED BY <1>1, <1>2, SoundCommitting

\* A transaction is sent that was nowhere before.
LEMMA SoundSending ==
    ASSUME TypeInv, TypeInv', Sound, TxSending PROVE Sound'
<1> DEFINE new == sent + 1
           m == [to |-> PartitionMap[Sender(new)], tx |-> new]
<1>1. new \in TxID /\ sent' = new /\ sent \in Nat /\ ~(new <= sent) /\ m.tx = new
    BY TxFacts DEF TxSending, TypeInv
<1>2. /\ injects' = injects \cup {m}
      /\ txQueue' = txQueue /\ open' = open /\ localTxs' = localTxs /\ globalTxs' = globalTxs
      /\ relays' = relays
    BY <1>1 DEF TxSending, shardVars, chainVars
<1>3. PICK s : s \in Shard
    BY <1>1, TxFacts
<1>4. OnlyAt(s) /\ IsFiniteSet(injects)
    BY <1>2, Shapes DEF OnlyAt, Elsewhere
<1> HIDE DEF m
<1>5. ASSUME NEW CONSTANT e \in Entry
      PROVE  /\ Pending(e)' = Pending(e) + (Injected(injects', e) - Injected(injects, e))
             /\ InChains(e)' = InChains(e)
             /\ Injected(injects, e) <= Pending(e)
             /\ Pending(e) \in Nat /\ InChains(e) \in Nat /\ Injected(injects, e) \in Nat
  <2>1. PICK w, k : Moves(s, e, w, k)
    BY <1>3, <1>4, StepMoves
  <2>2. InMsgs(relays', e) = InMsgs(relays, e)
    BY <1>2, Zenon
  <2>3. AtShard(txQueue'[s], open'[s], e) = AtShard(txQueue[s], open[s], e)
    BY <1>2, Zenon
  <2> QED BY <1>2, <2>1, <2>2, <2>3 DEF Moves
<1>6. m \notin injects
  <2> SUFFICES ASSUME m \in injects PROVE FALSE
    OBVIOUS
  <2>1. First(new) \in Entry
    BY <1>1, EntryFacts
  <2>2. Bounded(new, sent, Pending(First(new)), InChains(First(new)),
                Pending(Second(new)), InChains(Second(new)))
    BY <1>1 DEF Sound
  <2>3. Pending(First(new)) = 0
    BY <1>1, <2>2 DEF Bounded
  <2>4. \A e : Injected(injects, e) = Injected(injects \ {m}, e) + One(First(m.tx), e)
               /\ Injected(injects \ {m}, e) \in Nat
    BY <1>4, InjectedRemove
  <2>5. One(First(m.tx), First(new)) = 1
    BY <1>1 DEF One
  <2>6. Injected(injects, First(new)) > 0 /\ Injected(injects, First(new)) \in Nat
    BY <2>4, <2>5
  <2>7. Injected(injects, First(new)) <= Pending(First(new))
    <3>1. \A e \in Entry : Injected(injects, e) <= Pending(e)
      BY <1>5
    <3> QED BY <2>1, <3>1
  <2> QED BY <2>3, <2>6, <2>7
<1>7. \A e : Injected(injects', e) = Injected(injects, e) + One(First(new), e)
  <2>1. \A e : Injected(injects \cup {m}, e) = Injected(injects, e) + One(First(m.tx), e)
    BY <1>4, <1>6, InjectedAdd
  <2> QED BY <1>1, <1>2, <2>1
<1> HIDE DEF new
<1>8. ASSUME NEW CONSTANT t \in TxID
      PROVE  Bounded(t, new, Pending(First(t))', InChains(First(t))',
                     Pending(Second(t))', InChains(Second(t))')
  <2>1. First(t) \in Entry /\ Second(t) \in Entry /\ First(new) # Second(t)
        /\ (First(new) = First(t) <=> t = new)
    BY EntryFacts
  <2>2. Bounded(t, sent, Pending(First(t)), InChains(First(t)), Pending(Second(t)), InChains(Second(t)))
    BY DEF Sound
  <2>3. /\ Pending(First(t))' = Pending(First(t)) + One(First(new), First(t))
        /\ InChains(First(t))' = InChains(First(t))
    BY <1>5, <1>7, <2>1 DEF One
  <2>4. /\ Pending(Second(t))' = Pending(Second(t)) + One(First(new), Second(t))
        /\ InChains(Second(t))' = InChains(Second(t))
    BY <1>5, <1>7, <2>1 DEF One
  <2>5. One(First(new), First(t)) = (IF t = new THEN 1 ELSE 0) /\ One(First(new), Second(t)) = 0
    BY <2>1 DEF One
  <2>6. t \in Nat /\ (t <= new <=> t <= sent \/ t = new) /\ ~(new <= sent)
    BY <1>1, TxFacts DEF new
  <2> DEFINE p1 == Pending(First(t))
             c1 == InChains(First(t))
             p2 == Pending(Second(t))
             c2 == InChains(Second(t))
  <2>7. /\ Pending(First(t))' = p1 + (IF t = new THEN 1 ELSE 0) /\ InChains(First(t))' = c1
        /\ Pending(Second(t))' = p2 /\ InChains(Second(t))' = c2
    BY <2>2, <2>3, <2>4, <2>5 DEF Bounded
  <2>8. Bounded(t, sent, p1, c1, p2, c2)
    BY <2>2
  <2> HIDE DEF p1, c1, p2, c2
  <2>9. Bounded(t, new, p1 + (IF t = new THEN 1 ELSE 0), c1, p2, c2)
    BY <2>6, <2>8 DEF Bounded
  <2> QED BY <2>7, <2>9
<1> QED BY <1>1, <1>8 DEF Sound, Bounded, CrossShard, Sender, Recipient, new

\* Nothing is anywhere.
LEMMA SoundInit == Init => Sound
<1> SUFFICES ASSUME Init, NEW t \in TxID
             PROVE  Bounded(t, sent, Pending(First(t)), InChains(First(t)),
                            Pending(Second(t)), InChains(Second(t)))
    BY DEF Sound
<1>1. PICK s : s \in Shard
    BY TxFacts
<1>2. /\ Lists(txQueue) /\ Ledgers(localTxs) /\ Ledgers(globalTxs)
      /\ \A d \in Shard : Opened(open[d])
  <2>1. TypeInv
    BY TypeInit
  <2> QED BY <2>1, Shapes
<1>3. ASSUME NEW e \in Entry PROVE Pending(e) = 0 /\ InChains(e) = 0
  <2>1. Injected(injects, e) = 0
    <3>1. {m \in injects : First(m.tx) = e} = {}
      BY DEF Init
    <3> QED BY <3>1, FS_EmptySet, Zenon DEF Injected
  <2>2. InMsgs(relays, e) = 0
    <3>1. relays = {}
      BY DEF Init
    <3>2. InMsgs({}, e) = SumFunctionOnSet([m \in {} |-> Occurrences(e, m.txs)], {})
      BY InMsgsIs
    <3>3. InMsgs({}, e) = 0
      BY <3>2, SumEmpty
    <3> QED BY <3>1, <3>3, Zenon
  <2>3. InPools(txQueue, e) = 0
    <3> DEFINE f == [d \in Shard |-> Occurrences(e, txQueue[d])]
    <3>1. \A d \in Shard : f[d] = 0
      BY OccurrencesEmpty DEF Init
    <3>2. InPools(txQueue, e) = SumFunctionOnSet(f, Shard)
      BY DEF InPools, SumFunction
    <3> HIDE DEF f
    <3> QED BY <1>1, <3>1, <3>2, DataAssumption, SumSingle
  <2>4. InOpened(open, e) = 0
    <3> DEFINE f == [d \in Shard |-> InBlock(OpenBodies(open)[d], e)]
    <3>1. \A d \in Shard : OpenBodies(open)[d] = {}
      BY DEF Init, OpenBodies, Bodies
    <3>2. \A d \in Shard : f[d] = 0
      BY <3>1, InBlockIs
    <3>3. InOpen(OpenBodies(open), e) = SumFunctionOnSet(f, Shard)
      BY DEF InOpen, SumFunction
    <3>4. InOpened(open, e) = InOpen(OpenBodies(open), e)
      BY <1>2, InOpenedIs
    <3> HIDE DEF f
    <3> QED BY <1>1, <3>2, <3>3, <3>4, DataAssumption, SumSingle
  <2>5. Chained(localTxs, globalTxs, e) = 0
    <3> DEFINE f == [d \in Shard |-> localTxs[d][e] + globalTxs[d][e]]
    <3>1. \A d \in Shard : f[d] = 0
      BY DEF Init
    <3>2. Chained(localTxs, globalTxs, e) = SumFunctionOnSet(f, Shard)
      BY DEF Chained, SumFunction
    <3> HIDE DEF f
    <3> QED BY <1>1, <3>1, <3>2, DataAssumption, SumSingle
  <2> QED BY <2>1, <2>2, <2>3, <2>4, <2>5, CountsAre
<1>4. sent = 0 /\ ~(t <= sent)
    BY TxFacts DEF Init
<1>5. First(t) \in Entry /\ Second(t) \in Entry
    BY EntryFacts
<1> QED BY <1>3, <1>4, <1>5 DEF Bounded

LEMMA SoundNext == TypeInv /\ Sound /\ [Next]_vars => Sound'
<1> SUFFICES ASSUME TypeInv, Sound, [Next]_vars PROVE Sound'
    OBVIOUS
<1>1. TypeInv'
    BY TypeNext
<1>2. ASSUME NEW s \in Shard, ProposeNothing(s) \/ PanicLocal(s) PROVE Sound'
    BY <1>2, SoundIdle DEF ProposeNothing, PanicLocal, chainVars, netVars
<1>3. ASSUME NEW m \in prepares, HandleInterSZonePrepare(m) PROVE Sound'
    BY <1>3, SoundIdle DEF HandleInterSZonePrepare, shardVars, chainVars
<1>4. ASSUME NEW v \in votes, CountVote(v) PROVE Sound'
    BY <1>4, SoundIdle DEF CountVote, shardVars, chainVars
<1>5. ASSUME NEW h \in handling, Decide(h) PROVE Sound'
    BY <1>5, SoundIdle DEF Decide, shardVars, chainVars, netVars
<1>6. CASE UNCHANGED vars
    BY <1>6, SoundIdle DEF vars, shardVars, chainVars, netVars
<1> QED BY <1>1, <1>2, <1>3, <1>4, <1>5, <1>6, SoundSending, SoundInject, SoundRelay, SoundPropose,
           SoundCommitLocal, SoundCommitGlobal DEF Next

\* A transaction inside a shard is never lost or recorded twice, and no half of
\* one that crosses is: whatever is packed together, dropped by GenerateSZBlock or
\* relayed, and in whichever order messages arrive.
THEOREM EveryTransactionAccounted == Spec => []Accounted
<1> DEFINE SoundInv == TypeInv /\ Sound
<1>1. Init => SoundInv
    BY TypeInit, SoundInit
<1>2. SoundInv /\ [Next]_vars => SoundInv'
    BY TypeNext, SoundNext
<1>3. SoundInv => Accounted
    BY SoundAccounted
<1> HIDE DEF SoundInv
<1> QED BY <1>1, <1>2, <1>3, PTL DEF Spec

-----------------------------------------------------------------------------
(* Money in the global chains.  The balances of all accounts, each in the trie of
   its shard, change as those of the Relay deployment do. *)

\* The balances bal, but those of shard s as they are in a trie.
Joint(bal, s, root) == [a \in Account |-> IF PartitionMap[a] = s THEN Balance(root, a) ELSE bal[a]]

LEMMA JointFacts ==
    ASSUME NEW s, NEW bal \in [Account -> Nat], NEW root, IsStateRoot(root)
    PROVE  /\ Joint(bal, s, root) \in [Account -> Nat]
           /\ \A a \in Account : PartitionMap[a] = s => Joint(bal, s, root)[a] = Balance(root, a)
<1>1. \A x \in Account : Balance(root, x) \in Nat
    BY SzhbftAssumption DEF IsStateRoot, Balance
<1> QED BY <1>1 DEF Joint

LEMMA JointWritten ==
    ASSUME NEW s, NEW bal \in [Account -> Nat], NEW root, IsStateRoot(root),
           NEW a \in Account, PartitionMap[a] = s, NEW b \in Nat
    PROVE  /\ IsStateRoot(Written(root, a, b))
           /\ Joint(bal, s, Written(root, a, b)) = Put(Joint(bal, s, root), a, b)
<1> DEFINE J == Joint(bal, s, root)
           K == Joint(bal, s, Written(root, a, b))
<1>1. /\ IsStateRoot(Written(root, a, b))
      /\ \A x \in Account : Balance(Written(root, a, b), x) = IF x = a THEN b ELSE Balance(root, x)
    BY WrittenFacts
<1>2. J \in [Account -> Nat] /\ K \in [Account -> Nat]
    BY <1>1, JointFacts
<1>3. /\ \A x \in Account : J[x] = IF PartitionMap[x] = s THEN Balance(root, x) ELSE bal[x]
      /\ \A x \in Account : K[x] = IF PartitionMap[x] = s THEN Balance(Written(root, a, b), x) ELSE bal[x]
    BY DEF Joint
<1> HIDE DEF J, K
<1>4. \A x \in Account : K[x] = IF x = a THEN b ELSE J[x]
    BY <1>1, <1>3
<1>5. K = [J EXCEPT ![a] = b]
    BY <1>2, <1>4
<1> QED BY <1>1, <1>5 DEF J, K, Put

\* Executing a transaction in one trie is paying for it.
LEMMA ExecuteIsPay ==
    ASSUME NEW s, NEW bal \in [Account -> Nat], NEW root, IsStateRoot(root), NEW e \in Entry
    PROVE  Joint(bal, s, Execute(s, root, e)) = Pay(s, Joint(bal, s, root), e)
<1> DEFINE v == Value(e.tx)
           a == Sender(e.tx)
           b == Recipient(e.tx)
           pays == ~e.relayed /\ PartitionMap[a] = s
           J == Joint(bal, s, root)
           debited == IF pays THEN Written(root, a, Balance(root, a) - v) ELSE root
           D == IF pays THEN Put(J, a, J[a] - v) ELSE J
<1>1. a \in Account /\ b \in Account /\ v \in Nat
    BY TxFacts DEF Entry
<1>2. J \in [Account -> Nat] /\ \A x \in Account : PartitionMap[x] = s => J[x] = Balance(root, x)
    BY JointFacts
<1>3. CASE pays /\ J[a] < v
  <2>1. Balance(root, a) < v
    BY <1>1, <1>2, <1>3
  <2>2. Execute(s, root, e) = root
    BY <1>3, <2>1 DEF Execute, Mine
  <2>3. Pay(s, J, e) = J
    <3> HIDE DEF J
    <3> QED BY <1>3 DEF Pay
  <2> QED BY <2>2, <2>3, Zenon
<1>4. CASE ~(pays /\ J[a] < v)
  <2>1. IsStateRoot(debited) /\ Joint(bal, s, debited) = D
    <3>1. CASE pays
      <4> DEFINE w == J[a] - v
      <4>1. w \in Nat /\ w = Balance(root, a) - v /\ PartitionMap[a] = s
        <5> HIDE DEF J, v, a
        <5> QED BY <1>1, <1>2, <1>4, <3>1
      <4>2. debited = Written(root, a, w) /\ D = Put(J, a, w)
        BY <3>1, <4>1
      <4> HIDE DEF debited, D, w, J
      <4>3. IsStateRoot(Written(root, a, w)) /\ Joint(bal, s, Written(root, a, w)) = Put(Joint(bal, s, root), a, w)
        BY <1>1, <4>1, JointWritten
      <4> QED BY <4>2, <4>3, Zenon DEF J
    <3>2. CASE ~pays
      BY <3>2
    <3> QED BY <3>1, <3>2
  <2>2. Execute(s, root, e) = IF PartitionMap[b] = s THEN Written(debited, b, Balance(debited, b) + v) ELSE debited
    <3>1. ~(pays /\ Balance(root, a) < v)
      BY <1>1, <1>2, <1>4
    <3> QED BY <3>1 DEF Execute, Mine
  <2>3. Pay(s, J, e) = IF PartitionMap[b] = s THEN Put(D, b, D[b] + v) ELSE D
    <3> HIDE DEF J
    <3> QED BY <1>4 DEF Pay, Put
  <2> HIDE DEF debited, D, J, v, a, b, pays
  <2>4. CASE PartitionMap[b] = s
    <3>1. D[b] = Balance(debited, b)
      BY <1>1, <2>1, <2>4, JointFacts
    <3>2. Balance(debited, b) + v \in Nat
      BY <1>1, <2>1, WrittenFacts
    <3> DEFINE w == Balance(debited, b) + v
    <3> HIDE DEF w
    <3>3. Joint(bal, s, Written(debited, b, w)) = Put(Joint(bal, s, debited), b, w)
      BY <1>1, <2>1, <2>4, <3>2, JointWritten DEF w
    <3>4. Execute(s, root, e) = Written(debited, b, w) /\ Pay(s, J, e) = Put(D, b, w)
      BY <2>2, <2>3, <2>4, <3>1 DEF w
    <3> QED BY <2>1, <3>3, <3>4, Zenon DEF J
  <2>5. CASE PartitionMap[b] # s
    BY <2>1, <2>2, <2>3, <2>5, Zenon DEF J
  <2> QED BY <2>4, <2>5
<1> QED BY <1>3, <1>4

\* Transaction after transaction of a block, money is kept.
LEMMA TrieMoney ==
    ASSUME NEW s \in Shard, NEW bal \in [Account -> Nat], NEW root, IsStateRoot(root),
           Joint(bal, s, root) = bal, NEW body \in Seq(Entry), NEW D1, NEW D2,
           Ready(s, body, D1, D2), Solvent(InitBalance, bal, D1), Kept(InitBalance, bal, D1, D2)
    PROVE  LET new == Joint(bal, s, GetUpdateStatusTrie(s, root, body))
               E1 == D1 \cup FirstsIn(body, Len(body))
               E2 == D2 \cup SecondsIn(body, Len(body))
           IN  Solvent(InitBalance, new, E1) /\ Kept(InitBalance, new, E1, E2)
<1>1. /\ Len(body) \in Nat /\ \A i \in 1 .. Len(body) : body[i] \in Entry
      /\ InitBalance \in Nat /\ Funds(InitBalance)
    BY SzhbftAssumption, SzhbftFunds DEF Funds
<1>2. PICK trie : /\ trie = [i \in 0 .. Len(body) |-> TrieStep(s, root, body, trie, i)]
                  /\ GetUpdateStatusTrie(s, root, body) = trie[Len(body)]
    BY <1>1, TrieDefined
<1>3. IsTrie(s, root, body, trie)
    BY <1>2 DEF IsTrie
<1>4. \A n \in 0 .. Len(body) : IsStateRoot(trie[n])
    BY <1>3, TrieRoots
<1> DEFINE jt == [i \in 0 .. Len(body) |-> Joint(bal, s, trie[i])]
<1>5. \A i \in 0 .. Len(body) : jt[i] = Joint(bal, s, trie[i])
    OBVIOUS
<1> HIDE DEF jt
<1>6. jt[0] = bal
  <2>1. 0 \in 0 .. Len(body) /\ trie[0] = root
    BY <1>1, <1>3 DEF IsTrie, TrieStep
  <2> QED BY <1>5, <2>1
<1>7. PaysAll(s, body, jt)
  <2> SUFFICES ASSUME NEW i \in 1 .. Len(body) PROVE jt[i] = Pay(s, jt[i - 1], body[i])
    BY DEF PaysAll
  <2>1. i \in 0 .. Len(body) /\ i # 0 /\ i - 1 \in 0 .. Len(body) /\ body[i] \in Entry
    BY <1>1
  <2>2. trie[i] = Execute(s, trie[i - 1], body[i])
    BY <1>3, <2>1 DEF IsTrie, TrieStep
  <2> DEFINE r == trie[i - 1]
             e == body[i]
  <2>3. IsStateRoot(r) /\ e \in Entry
    BY <1>4, <2>1
  <2>4. jt[i] = Joint(bal, s, trie[i]) /\ jt[i - 1] = Joint(bal, s, trie[i - 1])
    BY <1>5, <2>1
  <2> HIDE DEF r, e
  <2>5. Joint(bal, s, Execute(s, r, e)) = Pay(s, Joint(bal, s, r), e)
    BY <2>3, ExecuteIsPay
  <2> QED BY <2>2, <2>4, <2>5, Zenon DEF r, e
<1>8. LET new == jt[Len(body)]
          E1 == D1 \cup FirstsIn(body, Len(body))
          E2 == D2 \cup SecondsIn(body, Len(body))
      IN  Solvent(InitBalance, new, E1) /\ Kept(InitBalance, new, E1, E2)
  <2>1. /\ jt[0] \in [Account -> Nat] /\ Solvent(InitBalance, jt[0], D1)
        /\ Kept(InitBalance, jt[0], D1, D2)
    BY <1>6, Zenon
  <2> QED BY <1>1, <1>7, <2>1, PayAll
<1>9. jt[Len(body)] = Joint(bal, s, GetUpdateStatusTrie(s, root, body))
  <2>1. Len(body) \in 0 .. Len(body)
    BY <1>1
  <2> QED BY <1>2, <1>5, <2>1, Zenon
<1> QED BY <1>8, <1>9, Zenon

\* The root of a block that will be added to CurChain is that of its execution on
\* CurChain's state, which does not change while the block is agreed on.
RootOf(s, cur, b) == IsLocalSZBlock(s, b) \/ b.root = GetUpdateStatusTrie(s, cur, b.body)
BlockRoots == \A s \in Shard : \A b \in open[s] : RootOf(s, curRoot[s], b)

OwnBalances == [a \in Account |-> OwnBalance(a)]
DoneFirst == {t \in TxID : InChains(First(t)) > 0}
DoneSecond == {t \in TxID : InChains(Second(t)) > 0}

MoneyInv ==
    /\ TypeInv /\ Sound /\ BlockRoots
    /\ Solvent(InitBalance, OwnBalances, DoneFirst)
    /\ Kept(InitBalance, OwnBalances, DoneFirst, DoneSecond)

\* The rest of a step at shard s leaves the other blocks and roots alone.
LEMMA BlockRootsAt ==
    ASSUME BlockRoots, NEW s \in Shard,
           \A d \in Shard \ {s} : open'[d] = open[d] /\ curRoot'[d] = curRoot[d],
           \A b \in open'[s] : RootOf(s, curRoot'[s], b)
    PROVE  BlockRoots'
<1> SUFFICES ASSUME NEW CONSTANT d \in Shard, NEW CONSTANT b, b \in open'[d]
             PROVE  RootOf(d, curRoot'[d], b)
    BY DEF BlockRoots
<1>1. CASE d = s
    BY <1>1
<1>2. CASE d # s
  <2>1. open'[d] = open[d] /\ curRoot'[d] = curRoot[d]
    BY <1>2
  <2>2. RootOf(d, curRoot[d], b)
    BY <2>1 DEF BlockRoots
  <2> QED BY <2>1, <2>2, Zenon
<1> QED BY <1>1, <1>2

LEMMA BlockRootsKept ==
    ASSUME BlockRoots, UNCHANGED <<open, curRoot>> PROVE BlockRoots'
BY DEF BlockRoots

LEMMA BlockRootsNext ==
    ASSUME TypeInv, BlockRoots, [Next]_vars PROVE BlockRoots'
<1>1. DOMAIN open = Shard /\ DOMAIN curRoot = Shard
    BY DEF TypeInv, ShardsFit, RootsFit
<1>2. ASSUME NEW s \in Shard, ProposeLocal(s) PROVE BlockRoots'
  <2> DEFINE c == [body |-> LocalPart(s), root |-> LocalHeaderRoot(s)]
  <2>1. open' = [open EXCEPT ![s] = {c}] /\ curRoot' = curRoot
    BY <1>2 DEF ProposeLocal, chainVars
  <2>2. IsLocalSZBlock(s, c)
    <3>1. LocalPart(s) \in Seq(Entry \cap Inside(s))
      <4>1. Taken(s) \in Seq(Entry)
        BY TakenFacts, HomeList
      <4> QED BY <4>1, KeepFacts DEF LocalPart
    <3>2. \A i \in DOMAIN LocalPart(s) : LocalPart(s)[i] \in Inside(s)
      BY <3>1
    <3>3. \A i \in DOMAIN LocalPart(s) : IsLocal(s, LocalPart(s)[i])
      BY <3>2 DEF Inside
    <3> QED BY <3>3 DEF IsLocalSZBlock
  <2> HIDE DEF c
  <2>3. open'[s] = {c} /\ \A d \in Shard \ {s} : open'[d] = open[d] /\ curRoot'[d] = curRoot[d]
    BY <1>1, <2>1
  <2>4. \A b \in open'[s] : RootOf(s, curRoot'[s], b)
    BY <2>2, <2>3 DEF RootOf
  <2> QED BY <2>3, <2>4, BlockRootsAt
<1>3. ASSUME NEW s \in Shard, GenerateBlock(s) PROVE BlockRoots'
  <2> DEFINE c == [body |-> Taken(s), root |-> GetUpdateStatusTrie(s, curRoot[s], Taken(s))]
  <2>1. open' = [open EXCEPT ![s] = {c}] /\ curRoot' = curRoot
    BY <1>3 DEF GenerateBlock, chainVars
  <2>2. c.root = GetUpdateStatusTrie(s, curRoot[s], c.body)
    OBVIOUS
  <2> HIDE DEF c
  <2>3. open'[s] = {c} /\ \A d \in Shard \ {s} : open'[d] = open[d] /\ curRoot'[d] = curRoot[d]
    BY <1>1, <2>1
  <2>4. \A b \in open'[s] : RootOf(s, curRoot'[s], b)
    BY <2>1, <2>2, <2>3, Zenon DEF RootOf
  <2> QED BY <2>3, <2>4, BlockRootsAt
<1>4. ASSUME NEW s \in Shard, CommitLocal(s) \/ CommitGlobal(s) PROVE BlockRoots'
  <2>1. open' = [open EXCEPT ![s] = {}]
    BY <1>4 DEF CommitLocal, CommitGlobal, Done
  <2>2. \A d \in Shard \ {s} : curRoot'[d] = curRoot[d]
    BY <1>1, <1>4 DEF CommitLocal, CommitGlobal
  <2>3. open'[s] = {} /\ \A d \in Shard \ {s} : open'[d] = open[d] /\ curRoot'[d] = curRoot[d]
    BY <1>1, <2>1, <2>2
  <2> QED BY <2>3, BlockRootsAt
<1>5. ASSUME NEW s \in Shard, ProposeGlobal(s) \/ ProposeNothing(s) \/ PanicLocal(s) PROVE BlockRoots'
    BY <1>5, BlockRootsKept DEF ProposeGlobal, ProposeNothing, PanicLocal, chainVars
<1>6. CASE TxSending \/ (\E m \in injects : HandleInjectTx(m)) \/ (\E m \in relays : HandleRelay(m))
    BY <1>6, BlockRootsKept DEF TxSending, HandleInjectTx, HandleRelay, shardVars, chainVars
<1>7. CASE \/ \E m \in prepares : HandleInterSZonePrepare(m)
           \/ \E v \in votes : CountVote(v)
           \/ \E h \in handling : Decide(h)
    BY <1>7, BlockRootsKept DEF HandleInterSZonePrepare, CountVote, Decide, shardVars, chainVars
<1>8. CASE UNCHANGED vars
    BY <1>8, BlockRootsKept DEF vars, shardVars, chainVars
<1> QED BY <1>2, <1>3, <1>4, <1>5, <1>6, <1>7, <1>8 DEF Next

\* The balances, and which transactions are done, are what they were.
LEMMA MoneyIdle ==
    ASSUME MoneyInv, UNCHANGED <<curRoot, localTxs, globalTxs>>
    PROVE  /\ Solvent(InitBalance, OwnBalances', DoneFirst')
           /\ Kept(InitBalance, OwnBalances', DoneFirst', DoneSecond')
<1>1. DoneFirst' = DoneFirst /\ DoneSecond' = DoneSecond
    BY DEF DoneFirst, DoneSecond, InChains
<1>2. OwnBalances' = OwnBalances
    BY DEF OwnBalances, OwnBalance, Balance
<1>3. Solvent(InitBalance, OwnBalances, DoneFirst) /\ Kept(InitBalance, OwnBalances, DoneFirst, DoneSecond)
    BY DEF MoneyInv
<1> QED BY <1>1, <1>2, <1>3, Zenon

LEMMA OwnType ==
    ASSUME TypeInv
    PROVE  /\ OwnBalances \in [Account -> Nat]
           /\ \A s \in Shard : Joint(OwnBalances, s, curRoot[s]) = OwnBalances
<1>1. ASSUME NEW a \in Account PROVE OwnBalance(a) \in Nat
  <2>1. PartitionMap[a] \in Shard
    BY DataAssumption
  <2>2. IsStateRoot(curRoot[PartitionMap[a]])
    BY <2>1 DEF TypeInv, RootsFit
  <2> QED BY <2>2, SzhbftAssumption DEF OwnBalance, Balance, IsStateRoot
<1>2. ASSUME NEW s \in Shard PROVE Joint(OwnBalances, s, curRoot[s]) = OwnBalances
  <2>1. \A a \in Account : OwnBalances[a] = Balance(curRoot[PartitionMap[a]], a)
    BY DEF OwnBalances, OwnBalance
  <2>2. \A a \in Account : (IF PartitionMap[a] = s THEN Balance(curRoot[s], a) ELSE OwnBalances[a])
                             = OwnBalances[a]
    BY <2>1
  <2>3. OwnBalances = [a \in Account |-> OwnBalances[a]]
    BY DEF OwnBalances
  <2> QED BY <2>2, <2>3 DEF Joint
<1> QED BY <1>1, <1>2 DEF OwnBalances

\* What a commit records is done.
LEMMA DoneNext ==
    ASSUME TypeInv, TypeInv', NEW s \in Shard, NEW b, Committed(s, b), b.body \in Seq(Entry)
    PROVE  /\ DoneFirst' = DoneFirst \cup FirstsIn(b.body, Len(b.body))
           /\ DoneSecond' = DoneSecond \cup SecondsIn(b.body, Len(b.body))
<1>1. ASSUME NEW CONSTANT e \in Entry
      PROVE  InChains(e)' > 0 <=> InChains(e) > 0 \/ \E j \in 1 .. Len(b.body) : b.body[j] = e
  <2>1. /\ InChains(e)' = InChains(e) + Occurrences(e, b.body)
        /\ InChains(e) \in Nat /\ Occurrences(e, b.body) \in Nat
    BY CommittedCounts
  <2>2. Occurrences(e, b.body) > 0 <=> \E j \in 1 .. Len(b.body) : b.body[j] = e
    BY OccurrencesIn
  <2> QED BY <2>1, <2>2
<1>2. \A t \in TxID :
        /\ InChains(First(t))' > 0 <=> InChains(First(t)) > 0 \/ \E j \in 1 .. Len(b.body) : b.body[j] = First(t)
        /\ InChains(Second(t))' > 0 <=> InChains(Second(t)) > 0 \/ \E j \in 1 .. Len(b.body) : b.body[j] = Second(t)
    BY <1>1, EntryFacts
<1>3. /\ DoneFirst' = {t \in TxID : InChains(First(t))' > 0}
      /\ DoneSecond' = {t \in TxID : InChains(Second(t))' > 0}
    BY DEF DoneFirst, DoneSecond
<1> QED BY <1>2, <1>3 DEF DoneFirst, DoneSecond, FirstsIn, SecondsIn

\* A local block has only transactions inside the shard, and no state to show.
LEMMA MoneyCommitLocal ==
    ASSUME MoneyInv, TypeInv', NEW s \in Shard, CommitLocal(s)
    PROVE  /\ Solvent(InitBalance, OwnBalances', DoneFirst')
           /\ Kept(InitBalance, OwnBalances', DoneFirst', DoneSecond')
<1>1. /\ TypeInv /\ Solvent(InitBalance, OwnBalances, DoneFirst)
      /\ Kept(InitBalance, OwnBalances, DoneFirst, DoneSecond)
    BY DEF MoneyInv
<1>2. PICK b \in open[s] : Committed(s, b) /\ IsLocalSZBlock(s, b) /\ b.body \in Seq(Entry)
    BY <1>1, CommitsLocal
<1> DEFINE F == FirstsIn(b.body, Len(b.body))
           G == SecondsIn(b.body, Len(b.body))
<1>3. DoneFirst' = DoneFirst \cup F /\ DoneSecond' = DoneSecond \cup G
    BY <1>1, <1>2, DoneNext
<1>4. \A t \in TxID : CrossShard(t) => t \notin F /\ t \notin G
  <2>1. \A j \in 1 .. Len(b.body) : ~CrossShard(b.body[j].tx)
    BY <1>2 DEF IsLocalSZBlock, IsLocal, Mine, CrossShard
  <2> QED BY <2>1, EntryFacts DEF FirstsIn, SecondsIn
<1>5. OwnBalances' = OwnBalances
    BY DEF OwnBalances, OwnBalance, Balance, CommitLocal
<1>6. OwnBalances \in [Account -> Nat] /\ InitBalance \in Nat
    BY <1>1, OwnType, SzhbftAssumption
<1> HIDE DEF F, G
<1> DEFINE D1 == DoneFirst \cup F
           D2 == DoneSecond \cup G
<1>7. /\ DoneFirst \subseteq D1
      /\ \A t \in TxID : CrossShard(t) => (t \in DoneFirst <=> t \in D1) /\ (t \in DoneSecond <=> t \in D2)
    BY <1>4
<1> HIDE DEF D1, D2
<1>8. Solvent(InitBalance, OwnBalances, D1) /\ Kept(InitBalance, OwnBalances, D1, D2)
    BY <1>1, <1>6, <1>7, MoneyInside
<1> QED BY <1>3, <1>5, <1>8, Zenon DEF D1, D2

\* Each half in a block that is to be added to CurChain is there once, has not been
\* recorded, and the first half of a second one has.
LEMMA ReadyGlobal ==
    ASSUME TypeInv, TypeInv', Sound, NEW s \in Shard, NEW b, Committed(s, b),
           b.body \in Seq(Entry), b.body \in Seq(Correct(s)), b.body \in Seq(Home(s))
    PROVE  Ready(s, b.body, DoneFirst, DoneSecond)
<1> DEFINE body == b.body
<1> SUFFICES ASSUME NEW i \in 1 .. Len(body)
             PROVE  \E t \in TxID : \/ FirstAt(s, body, DoneFirst, DoneSecond, i, t)
                                    \/ SecondAt(s, body, DoneFirst, DoneSecond, i, t)
    BY DEF Ready
<1>1. \A j \in 1 .. Len(body) : body[j] \in Home(s) /\ body[j] \in Correct(s) /\ body[j] \in Entry
    OBVIOUS
<1>2. PICK t \in TxID : body[i] = First(t) \/ body[i] = Second(t)
    BY <1>1, EntryFacts
<1>3. First(t) \in Entry /\ Second(t) \in Entry
    BY EntryFacts
<1> DEFINE o1 == Occurrences(First(t), body)
           o2 == Occurrences(Second(t), body)
<1>4. /\ o1 \in Nat /\ o1 <= Pending(First(t)) /\ o2 \in Nat /\ o2 <= Pending(Second(t))
    BY <1>3, CommittedCounts
<1>5. /\ Pending(First(t)) \in Nat /\ InChains(First(t)) \in Nat
      /\ Pending(Second(t)) \in Nat /\ InChains(Second(t)) \in Nat
      /\ Pending(First(t)) + InChains(First(t)) <= 1
      /\ Pending(Second(t)) + InChains(Second(t)) <= InChains(First(t))
  <2>1. Bounded(t, sent, Pending(First(t)), InChains(First(t)), Pending(Second(t)), InChains(Second(t)))
    BY DEF Sound
  <2> QED BY <2>1 DEF Bounded
<1>6. /\ o1 > 0 <=> \E j \in 1 .. Len(body) : body[j] = First(t)
      /\ o2 > 0 <=> \E j \in 1 .. Len(body) : body[j] = Second(t)
    BY <1>3, OccurrencesIn
<1>7. /\ o1 > 0 => InChains(First(t)) = 0 /\ InChains(Second(t)) = 0 /\ o1 = 1 /\ o2 = 0
      /\ o2 > 0 => InChains(First(t)) > 0 /\ InChains(Second(t)) = 0 /\ o2 = 1
  <2> HIDE DEF o1, o2
  <2> QED BY <1>4, <1>5
<1> HIDE DEF body
<1>8. CASE body[i] = First(t)
  <2>1. o1 > 0
    BY <1>6, <1>8
  <2>2. t \notin DoneFirst /\ t \notin DoneSecond
    BY <1>7, <2>1 DEF DoneFirst, DoneSecond
  <2>3. \A j \in 1 .. Len(body) : body[j] # Second(t)
    BY <1>6, <1>7, <2>1
  <2>4. \A j \in 1 .. Len(body) : body[j] = First(t) => j = i
    BY <1>3, <1>7, <1>8, <2>1, OnlyPlace DEF body
  <2>5. PartitionMap[Sender(t)] = s
    BY <1>1, <1>8, HomeFacts
  <2> QED BY <1>8, <2>2, <2>3, <2>4, <2>5 DEF FirstAt
<1>9. CASE body[i] = Second(t)
  <2>1. o2 > 0
    BY <1>6, <1>9
  <2>2. t \in DoneFirst /\ t \notin DoneSecond
    BY <1>7, <2>1 DEF DoneFirst, DoneSecond
  <2>3. \A j \in 1 .. Len(body) : body[j] = Second(t) => j = i
    BY <1>3, <1>7, <1>9, <2>1, OnlyPlace DEF body
  <2>4. CrossShard(t)
    BY <1>1, <1>9, HomeFacts
  <2>5. PartitionMap[Recipient(t)] = s
    <3>1. Second(t) \in Correct(s) /\ Second(t).tx = t /\ Second(t).relayed
      BY <1>1, <1>9 DEF Second
    <3> QED BY <3>1 DEF Correct, Mine
  <2> QED BY <1>9, <2>2, <2>3, <2>4, <2>5 DEF SecondAt
<1> QED BY <1>2, <1>8, <1>9

LEMMA MoneyCommitGlobal ==
    ASSUME MoneyInv, TypeInv', NEW s \in Shard, CommitGlobal(s)
    PROVE  /\ Solvent(InitBalance, OwnBalances', DoneFirst')
           /\ Kept(InitBalance, OwnBalances', DoneFirst', DoneSecond')
<1>1. /\ TypeInv /\ Sound /\ BlockRoots /\ Solvent(InitBalance, OwnBalances, DoneFirst)
      /\ Kept(InitBalance, OwnBalances, DoneFirst, DoneSecond)
    BY DEF MoneyInv
<1>2. PICK b \in open[s] :
        /\ Committed(s, b) /\ ~IsLocalSZBlock(s, b)
        /\ b.body \in Seq(Entry) /\ b.body \in Seq(Correct(s))
        /\ curRoot' = [curRoot EXCEPT ![s] = b.root]
    BY <1>1, CommitsGlobal
<1>3. b.body \in Seq(Home(s))
    BY <1>1, <1>2 DEF TypeInv, ShardsFit, Held
<1>4. b.root = GetUpdateStatusTrie(s, curRoot[s], b.body)
    BY <1>1, <1>2 DEF BlockRoots, RootOf
<1>5. Ready(s, b.body, DoneFirst, DoneSecond)
    BY <1>1, <1>2, <1>3, ReadyGlobal
<1> DEFINE E1 == DoneFirst \cup FirstsIn(b.body, Len(b.body))
           E2 == DoneSecond \cup SecondsIn(b.body, Len(b.body))
           root == curRoot[s]
           body == b.body
           new == Joint(OwnBalances, s, GetUpdateStatusTrie(s, root, body))
<1>6. /\ IsStateRoot(root) /\ OwnBalances \in [Account -> Nat]
      /\ Joint(OwnBalances, s, root) = OwnBalances /\ DOMAIN curRoot = Shard
    BY <1>1, OwnType DEF TypeInv, RootsFit
<1>7. Solvent(InitBalance, new, E1) /\ Kept(InitBalance, new, E1, E2)
  <2>1. body \in Seq(Entry) /\ Ready(s, body, DoneFirst, DoneSecond)
    BY <1>2, <1>5
  <2> HIDE DEF root, body
  <2>2. LET n == Joint(OwnBalances, s, GetUpdateStatusTrie(s, root, body))
            F1 == DoneFirst \cup FirstsIn(body, Len(body))
            F2 == DoneSecond \cup SecondsIn(body, Len(body))
        IN  Solvent(InitBalance, n, F1) /\ Kept(InitBalance, n, F1, F2)
    BY <1>1, <1>6, <2>1, TrieMoney
  <2> QED BY <2>2, Zenon DEF body
<1>8. DoneFirst' = E1 /\ DoneSecond' = E2
    BY <1>1, <1>2, DoneNext
<1>9. OwnBalances' = new
  <2>1. new = Joint(OwnBalances, s, b.root)
    BY <1>4, Zenon
  <2>2. \A a \in Account : Balance(curRoot'[PartitionMap[a]], a)
          = IF PartitionMap[a] = s THEN Balance(b.root, a) ELSE Balance(curRoot[PartitionMap[a]], a)
    <3> SUFFICES ASSUME NEW a \in Account
                 PROVE  Balance(curRoot'[PartitionMap[a]], a)
                          = IF PartitionMap[a] = s THEN Balance(b.root, a) ELSE Balance(curRoot[PartitionMap[a]], a)
      OBVIOUS
    <3>1. PartitionMap[a] \in Shard
      BY DataAssumption
    <3>2. curRoot'[PartitionMap[a]] = IF PartitionMap[a] = s THEN b.root ELSE curRoot[PartitionMap[a]]
      BY <1>2, <1>6, <3>1
    <3> QED BY <3>2
  <2>3. OwnBalances' = [a \in Account |-> Balance(curRoot'[PartitionMap[a]], a)]
    BY DEF OwnBalances, OwnBalance, Balance
  <2>4. Joint(OwnBalances, s, b.root)
          = [a \in Account |-> IF PartitionMap[a] = s THEN Balance(b.root, a)
                               ELSE Balance(curRoot[PartitionMap[a]], a)]
    BY DEF Joint, OwnBalances, OwnBalance
  <2> QED BY <2>1, <2>2, <2>3, <2>4
<1> HIDE DEF E1, E2, new
<1> QED BY <1>7, <1>8, <1>9, Zenon

LEMMA MoneyInit == Init => MoneyInv
<1> SUFFICES ASSUME Init PROVE MoneyInv
    OBVIOUS
<1>1. TypeInv /\ Sound
    BY TypeInit, SoundInit
<1>2. BlockRoots
    BY DEF Init, BlockRoots
<1>3. ASSUME NEW e \in Entry PROVE InChains(e) = 0
  <2> DEFINE g == [d \in Shard |-> localTxs[d][e] + globalTxs[d][e]]
  <2>1. \A d \in Shard : g[d] = 0 /\ g[d] \in Nat
    BY DEF Init
  <2>2. InChains(e) = SumFunctionOnSet(g, Shard)
    BY DEF InChains, SumFunction
  <2> HIDE DEF g
  <2> QED BY <2>1, <2>2, DataAssumption, SumNat
<1>4. DoneFirst = {} /\ DoneSecond = {}
    BY <1>3, EntryFacts DEF DoneFirst, DoneSecond
<1>5. InitBalance \in Nat /\ \A a \in Account : OwnBalances[a] = InitBalance
  <2> SUFFICES ASSUME NEW a \in Account PROVE OwnBalances[a] = InitBalance
    BY SzhbftAssumption
  <2>1. curRoot[PartitionMap[a]] = EmptyRoot
    BY DataAssumption DEF Init
  <2>2. a \notin DOMAIN EmptyRoot
    BY DEF EmptyRoot
  <2> QED BY <2>1, <2>2 DEF OwnBalances, OwnBalance, Balance
<1>6. Solvent(InitBalance, OwnBalances, {}) /\ Kept(InitBalance, OwnBalances, {}, {})
    BY <1>5, MoneyStart
<1>7. Solvent(InitBalance, OwnBalances, DoneFirst) /\ Kept(InitBalance, OwnBalances, DoneFirst, DoneSecond)
    BY <1>4, <1>6, Zenon
<1> QED BY <1>1, <1>2, <1>7 DEF MoneyInv

LEMMA MoneyNext == ASSUME MoneyInv, [Next]_vars PROVE MoneyInv'
<1>1. TypeInv' /\ Sound' /\ BlockRoots'
    BY TypeNext, SoundNext, BlockRootsNext DEF MoneyInv
<1> DEFINE Money == /\ Solvent(InitBalance, OwnBalances', DoneFirst')
                    /\ Kept(InitBalance, OwnBalances', DoneFirst', DoneSecond')
<1>2. Money
  <2>1. ASSUME NEW s \in Shard, CommitLocal(s) \/ CommitGlobal(s) PROVE Money
    BY <1>1, <2>1, MoneyCommitLocal, MoneyCommitGlobal
  <2>2. ASSUME NEW s \in Shard,
               ProposeLocal(s) \/ ProposeGlobal(s) \/ ProposeNothing(s) \/ GenerateBlock(s) \/ PanicLocal(s)
        PROVE  Money
    BY <2>2, MoneyIdle DEF ProposeLocal, ProposeGlobal, ProposeNothing, GenerateBlock, PanicLocal, chainVars
  <2>3. CASE TxSending \/ (\E m \in injects : HandleInjectTx(m)) \/ (\E m \in relays : HandleRelay(m))
    BY <2>3, MoneyIdle DEF TxSending, HandleInjectTx, HandleRelay, chainVars
  <2>4. CASE \/ \E m \in prepares : HandleInterSZonePrepare(m)
             \/ \E v \in votes : CountVote(v)
             \/ \E h \in handling : Decide(h)
    BY <2>4, MoneyIdle DEF HandleInterSZonePrepare, CountVote, Decide, chainVars
  <2>5. CASE UNCHANGED vars
    BY <2>5, MoneyIdle DEF vars, chainVars
  <2> HIDE DEF Money
  <2> QED BY <2>1, <2>2, <2>3, <2>4, <2>5 DEF Next
<1> QED BY <1>1, <1>2 DEF MoneyInv

\* For any dataset whose senders across shards can pay (SzhbftFunds), any number
\* of zones and any block size: the state of the global chains neither makes nor
\* loses money but that of transactions recorded by the sender's zone and not, or
\* not yet, by the recipient's.
THEOREM MoneyConserved == Spec => []Conservation
<1>1. Init => MoneyInv
    BY MoneyInit
<1>2. MoneyInv /\ [Next]_vars => MoneyInv'
    BY MoneyNext
<1>3. MoneyInv => Conservation
  <2> SUFFICES ASSUME MoneyInv PROVE Conservation
    OBVIOUS
  <2>1. /\ Sound /\ Kept(InitBalance, OwnBalances, DoneFirst, DoneSecond)
        /\ OwnBalances \in [Account -> Nat]
    BY OwnType DEF MoneyInv
  <2> DEFINE H == {t \in TxID : HalfDone(t)}
  <2>2. ASSUME NEW t \in TxID
        PROVE  HalfDone(t) <=> CrossShard(t) /\ t \in DoneFirst /\ t \notin DoneSecond
    <3>1. Bounded(t, sent, Pending(First(t)), InChains(First(t)), Pending(Second(t)), InChains(Second(t)))
      BY <2>1 DEF Sound
    <3>2. InChains(First(t)) \in {0, 1} /\ InChains(Second(t)) \in {0, 1}
      BY <3>1 DEF Bounded
    <3> QED BY <3>2 DEF HalfDone, DoneFirst, DoneSecond
  <2>3. H = {t \in TxID : CrossShard(t) /\ t \in DoneFirst /\ t \notin DoneSecond}
    BY <2>2
  <2> HIDE DEF H
  <2>4. SumFunction(OwnBalances) + SumFunction([t \in H |-> Value(t)]) = InitBalance * Cardinality(Account)
    BY <2>1, <2>3, KeptSum
  <2> QED BY <2>4 DEF Conservation, H, OwnBalances
<1> QED BY <1>1, <1>2, <1>3, PTL DEF Spec
=============================================================================
