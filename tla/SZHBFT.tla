------------------------------- MODULE SZHBFT -------------------------------
(***************************************************************************)
(* The SZHBFT mode: a shard (a zone) records the transactions inside it on *)
(* a local chain, and has the other shards vote on blocks of transactions  *)
(* that cross (consensus_shard/pbft_all: pbftInside_moduleSZHBFT.go,       *)
(* pbftOutside_moduleSZHBFT.go from line 182, Propose in messageHandle.go; *)
(* GenerateSZBlock and GetRelatedShards of chain/blockchain.go;            *)
(* supervisor/committee/committee_szhbft.go).                              *)
(*                                                                         *)
(* A shard is its leader where blocks are concerned, as in RelayShards;    *)
(* votes come from its nodes.  Messages arrive in any order, none is lost, *)
(* and each is handled by a goroutine of its own.                          *)
(*                                                                         *)
(* A state root stands for the contents of its trie: the accounts written  *)
(* so far and their balances.                                              *)
(***************************************************************************)
EXTENDS Transactions, FiniteSetsExt, Functions

CONSTANTS
    NodeID,         \* of the nodes of a shard, the same in every one
    InitBalance,
    BlockSize,
    MaxSeq          \* bound: sequence numbers of a shard

ASSUME SzhbftAssumption ==
    /\ IsFiniteSet(NodeID) /\ NodeID # {}
    /\ InitBalance \in Nat
    /\ BlockSize \in Nat \ {0}
    /\ MaxSeq \in Nat

\* As in RelayShards: params.Init_Balance is 10^38 times what a test transfers, so a
\* sender of a cross-shard transaction can pay for all it sends.
ASSUME SzhbftFunds ==
    \A t \in TxID : CrossShard(t) =>
        InitBalance >= SumFunction([u \in {u \in TxID : Sender(u) = Sender(t)} |-> Value(u)])

malicious_nums == (Cardinality(NodeID) - 1) \div 3

\* State roots: the accounts in the trie, and their balances.
EmptyRoot == [a \in {} |-> 0]
IsStateRoot(r) == DOMAIN r \subseteq Account /\ \A a \in DOMAIN r : r[a] \in Nat

VARIABLES
    txQueue, sequenceID,
    stage,              \* of Propose: "idle", "empty", "agree", or "panic"
    open,               \* the block being agreed on: {} or {it}
    curRoot,            \* state root of CurChain's current block
    localRoot,          \* state root in the header of LocalChain's current block
    localDb,            \* the roots whose tries LocalChain's database holds
    localTxs, globalTxs,    \* how often each entry is in the two chains of a shard
    globalVotePool,     \* of each leader: by sequence, the nodes that voted
    handling,           \* handlers of a vote between their two locks
    confirmed,          \* Confirm broadcasts of each leader, by sequence
    voted,              \* nodes whose votes a leader has handled, by sequence
    injects, relays, prepares, votes,   \* messages on their way
    sent                \* transactions the committee has sent

shardVars == <<txQueue, sequenceID, stage, open>>
chainVars == <<curRoot, localRoot, localDb, localTxs, globalTxs>>
voteVars == <<globalVotePool, handling, confirmed, voted>>
netVars == <<injects, relays, prepares, votes>>
vars == <<shardVars, chainVars, voteVars, netVars, sent>>

InterSZonePrepare ==
    [to : Shard, node : NodeID, leader : Shard, seq : 1 .. MaxSeq, body : Seq(Entry)]
InterSZoneVote ==
    [leader : Shard, seq : 1 .. MaxSeq, body : Seq(Entry), shard : Shard, node : NodeID]

TypeOK ==
    /\ txQueue \in [Shard -> Seq(Entry)]
    /\ sequenceID \in [Shard -> 1 .. MaxSeq + 1]
    /\ stage \in [Shard -> {"idle", "empty", "agree", "panic"}]
    /\ \A s \in Shard :
        /\ Cardinality(open[s]) = IF stage[s] \in {"agree", "panic"} THEN 1 ELSE 0
        /\ \A b \in open[s] : b.body \in Seq(Entry) /\ IsStateRoot(b.root)
        /\ \A r \in {curRoot[s], localRoot[s]} \cup localDb[s] : IsStateRoot(r)
    /\ localTxs \in [Shard -> [Entry -> Nat]] /\ globalTxs \in [Shard -> [Entry -> Nat]]
    /\ globalVotePool \in [Shard -> [1 .. MaxSeq -> SUBSET NodeID]]
    /\ confirmed \in [Shard -> [1 .. MaxSeq -> Nat]]
    /\ injects \subseteq [to : Shard, tx : TxID]
    /\ relays \subseteq Message
    /\ prepares \subseteq InterSZonePrepare /\ votes \subseteq InterSZoneVote
    /\ sent \in 0 .. Len(TxList)

Init ==
    /\ txQueue = [s \in Shard |-> <<>>]
    /\ sequenceID = [s \in Shard |-> 1]
    /\ stage = [s \in Shard |-> "idle"]
    /\ open = [s \in Shard |-> {}]
    /\ curRoot = [s \in Shard |-> EmptyRoot] /\ localRoot = [s \in Shard |-> EmptyRoot]
    /\ localDb = [s \in Shard |-> {EmptyRoot}]
    /\ localTxs = [s \in Shard |-> [e \in Entry |-> 0]]
    /\ globalTxs = [s \in Shard |-> [e \in Entry |-> 0]]
    /\ globalVotePool = [s \in Shard |-> [q \in 1 .. MaxSeq |-> {}]]
    /\ handling = {}
    /\ confirmed = [s \in Shard |-> [q \in 1 .. MaxSeq |-> 0]]
    /\ voted = [s \in Shard |-> [q \in 1 .. MaxSeq |-> {}]]
    /\ injects = {} /\ relays = {} /\ prepares = {} /\ votes = {}
    /\ sent = 0
-----------------------------------------------------------------------------
(* The committee, and transactions from outside. *)

TxSending ==
    /\ sent < Len(TxList)
    /\ sent' = sent + 1
    /\ injects' = injects \cup {[to |-> PartitionMap[Sender(sent')], tx |-> sent']}
    /\ UNCHANGED <<shardVars, chainVars, voteVars, relays, prepares, votes>>

HandleInjectTx(m) ==
    /\ stage[m.to] # "panic"
    /\ injects' = injects \ {m}
    /\ txQueue' = [txQueue EXCEPT ![m.to] = Append(@, [tx |-> m.tx, relayed |-> FALSE])]
    /\ UNCHANGED <<sequenceID, stage, open, chainVars, voteVars, relays, prepares, votes, sent>>

\* handleRelay, and handleIntraZoneRelay, which does the same.
HandleRelay(m) ==
    /\ stage[m.to] # "panic"
    /\ relays' = relays \ {m}
    /\ txQueue' = [txQueue EXCEPT ![m.to] = @ \o m.txs]
    /\ UNCHANGED <<sequenceID, stage, open, chainVars, voteVars, injects, prepares, votes, sent>>
-----------------------------------------------------------------------------
(* Proposing, HandleinPropose and Propose. *)

Mine(s, a) == PartitionMap[a] = s
IsLocal(s, e) == Mine(s, Sender(e.tx)) /\ Mine(s, Recipient(e.tx))
Inside(s) == {e \in Entry : IsLocal(s, e)}

\* GetUpdateStatusTrie on one transaction, and on a block.
Balance(root, a) == IF a \in DOMAIN root THEN root[a] ELSE InitBalance
Written(root, a, b) ==
    [x \in DOMAIN root \cup {a} |-> IF x = a THEN b ELSE root[x]]

Execute(s, root, e) ==
    LET from == Sender(e.tx)
        to == Recipient(e.tx)
        pays == ~e.relayed /\ Mine(s, from)
        debited == IF pays THEN Written(root, from, Balance(root, from) - Value(e.tx)) ELSE root
    IN  IF pays /\ Balance(root, from) < Value(e.tx) THEN root
        ELSE IF Mine(s, to) THEN Written(debited, to, Balance(debited, to) + Value(e.tx))
        ELSE debited

\* Mutant: every transaction starts from the state before the block.
GetUpdateStatusTrieLast(s, root, body) ==
    IF body = <<>> THEN root ELSE Execute(s, root, body[Len(body)])

\* The trie after the transactions of a block, one by one.
GetUpdateStatusTrie(s, root, body) ==
    LET trie[i \in 0 .. Len(body)] ==
            IF i = 0 THEN root ELSE Execute(s, trie[i - 1], body[i])
    IN  trie[Len(body)]

Taken(s) == SubSeq(txQueue[s], 1, Min({BlockSize, Len(txQueue[s])}))

\* Mutant: what exceeds the block size is dropped.
RemainQueueEmpty(s) == <<>>

RemainQueue(s) == SubSeq(txQueue[s], Len(Taken(s)) + 1, Len(txQueue[s]))

\* GenerateSZBlock splits what it takes from the pool.
LocalPart(s) == Keep(Taken(s), Inside(s))
GlobalPart(s) == Keep(Taken(s), Entry \ Inside(s))

\* The header of a local block repeats the state root of CurChain.
LocalHeaderRoot(s) == curRoot[s]

\* Some are local: they are proposed, and the block of the others is dropped.
ProposeLocal(s) ==
    /\ stage[s] = "idle" /\ sequenceID[s] <= MaxSeq
    /\ LocalPart(s) # <<>>
    /\ open' = [open EXCEPT ![s] = {[body |-> LocalPart(s), root |-> LocalHeaderRoot(s)]}]
    /\ txQueue' = [txQueue EXCEPT ![s] = RemainQueue(s)]
    /\ stage' = [stage EXCEPT ![s] = "agree"]
    /\ UNCHANGED <<sequenceID, chainVars, voteVars, netVars, sent>>

RelatedShards(s, body) ==
    {s} \cup {PartitionMap[Sender(body[i].tx)] : i \in DOMAIN body}
        \cup {PartitionMap[Recipient(body[i].tx)] : i \in DOMAIN body}

\* None is: every node of the shards concerned is asked to vote, and the lock is
\* given back.  The sequence does not advance.
ProposeGlobal(s) ==
    /\ stage[s] = "idle" /\ sequenceID[s] <= MaxSeq
    /\ LocalPart(s) = <<>> /\ GlobalPart(s) # <<>>
    /\ prepares' = prepares \cup
         [to : RelatedShards(s, GlobalPart(s)), node : NodeID, leader : {s},
          seq : {sequenceID[s]}, body : {GlobalPart(s)}]
    /\ txQueue' = [txQueue EXCEPT ![s] = RemainQueue(s)]
    /\ UNCHANGED <<sequenceID, stage, open, chainVars, voteVars, injects, relays, votes, sent>>

\* The pool was empty, and HandleinPropose returned nothing...
ProposeNothing(s) ==
    /\ stage[s] = "idle" /\ sequenceID[s] <= MaxSeq
    /\ txQueue[s] = <<>>
    /\ stage' = [stage EXCEPT ![s] = "empty"]
    /\ UNCHANGED <<txQueue, sequenceID, open, chainVars, voteVars, netVars, sent>>

\* ... so Propose generates a block of what has come in since, local or not.
GenerateBlock(s) ==
    /\ stage[s] = "empty"
    /\ open' = [open EXCEPT ![s] =
         {[body |-> Taken(s), root |-> GetUpdateStatusTrie(s, curRoot[s], Taken(s))]}]
    /\ txQueue' = [txQueue EXCEPT ![s] = RemainQueue(s)]
    /\ stage' = [stage EXCEPT ![s] = "agree"]
    /\ UNCHANGED <<sequenceID, chainVars, voteVars, netVars, sent>>
-----------------------------------------------------------------------------
(* HandleinCommit. *)

Recorded(f, body) == [e \in Entry |-> f[e] + Occurrences(e, body)]

IsLocalSZBlock(s, b) == \A i \in DOMAIN b.body : IsLocal(s, b.body[i])

\* LocalChain.AddBlock executes a block whose state root its database does not
\* hold.  It starts from the root of its current block, and panics without it.
Executes(s, b) == b.root \notin localDb[s] /\ b.body # <<>>
CannotExecute(s, b) == Executes(s, b) /\ localRoot[s] \notin localDb[s]

\* Mutant: the block stays open.
DoneKeepsBlock(s) ==
    /\ stage' = [stage EXCEPT ![s] = "idle"]
    /\ sequenceID' = [sequenceID EXCEPT ![s] = @ + 1]
    /\ UNCHANGED open

Done(s) ==
    /\ open' = [open EXCEPT ![s] = {}]
    /\ stage' = [stage EXCEPT ![s] = "idle"]
    /\ sequenceID' = [sequenceID EXCEPT ![s] = @ + 1]

\* A local block is linked to the local chain.  Nothing is relayed or reported.
CommitLocal(s) ==
    /\ stage[s] = "agree"
    /\ \E b \in open[s] :
        /\ IsLocalSZBlock(s, b)
        /\ ~CannotExecute(s, b)
        /\ localDb' = [localDb EXCEPT ![s] =
             @ \cup IF Executes(s, b) THEN {GetUpdateStatusTrie(s, localRoot[s], b.body)} ELSE {}]
        /\ localRoot' = [localRoot EXCEPT ![s] = b.root]
        /\ localTxs' = [localTxs EXCEPT ![s] = Recorded(@, b.body)]
    /\ Done(s)
    /\ UNCHANGED <<txQueue, curRoot, globalTxs, voteVars, netVars, sent>>

PanicLocal(s) ==
    /\ stage[s] = "agree"
    /\ \E b \in open[s] : IsLocalSZBlock(s, b) /\ CannotExecute(s, b)
    /\ stage' = [stage EXCEPT ![s] = "panic"]
    /\ UNCHANGED <<txQueue, sequenceID, open, chainVars, voteVars, netVars, sent>>

\* The transactions of a block that go on to shard d.
RelayPool(body, d) == Keep(body, {e \in Entry : Mine(d, Recipient(e.tx))})

\* RelayMsgSend, for the shards that something is relayed to.
RelayMsgSend(s, body) ==
    {[to |-> d, txs |-> Marked(RelayPool(body, d))] :
        d \in {d \in Shard \ {s} : RelayPool(body, d) # <<>>}}

\* Another block is added to CurChain, and its transactions are relayed.
CommitGlobal(s) ==
    /\ stage[s] = "agree"
    /\ \E b \in open[s] :
        /\ ~IsLocalSZBlock(s, b)
        /\ \A i \in DOMAIN b.body :     \* otherwise it panics: "incorrect tx"
             Mine(s, IF b.body[i].relayed THEN Recipient(b.body[i].tx) ELSE Sender(b.body[i].tx))
        /\ curRoot' = [curRoot EXCEPT ![s] = b.root]
        /\ globalTxs' = [globalTxs EXCEPT ![s] = Recorded(@, b.body)]
        /\ relays' = relays \cup RelayMsgSend(s, b.body)
    /\ Done(s)
    /\ UNCHANGED <<txQueue, localRoot, localDb, localTxs, voteVars, injects, prepares, votes, sent>>
-----------------------------------------------------------------------------
(* Votes, pbftOutside_moduleSZHBFT.go. *)

\* A validator agrees, whatever the block.
HandleInterSZonePrepare(m) ==
    /\ stage[m.to] # "panic"
    /\ prepares' = prepares \ {m}
    /\ votes' = votes \cup {[leader |-> m.leader, seq |-> m.seq, body |-> m.body,
                             shard |-> m.to, node |-> m.node]}
    /\ UNCHANGED <<shardVars, chainVars, voteVars, injects, relays, sent>>

\* handleInterSZoneVote, first lock: the vote is noted under the number of its
\* node, and the votes of the sequence are counted.
CountVote(v) ==
    /\ stage[v.leader] # "panic"
    /\ votes' = votes \ {v}
    /\ globalVotePool' = [globalVotePool EXCEPT ![v.leader][v.seq] = @ \cup {v.node}]
    /\ handling' = handling \cup
         {[vote |-> v, agreeCount |-> Cardinality(globalVotePool'[v.leader][v.seq])]}
    /\ voted' = [voted EXCEPT ![v.leader][v.seq] = @ \cup {v.node}]
    /\ UNCHANGED <<shardVars, chainVars, confirmed, injects, relays, prepares, sent>>

\* Mutant: the threshold of the other branch.
ThresholdImmediateTwo == 2 * malicious_nums + 1

ThresholdImmediate == 3 * malicious_nums + 1

\* Second lock: if the sequence still has votes, the count made before decides.
\* All votes agree, so thresholdEIG is never the one that matters.
Decide(h) ==
    LET l == h.vote.leader
        q == h.vote.seq
        broadcast == globalVotePool[l][q] # {} /\ h.agreeCount >= ThresholdImmediate
    IN  /\ handling' = handling \ {h}
        /\ IF broadcast
           THEN /\ globalVotePool' = [globalVotePool EXCEPT ![l][q] = {}]
                /\ confirmed' = [confirmed EXCEPT ![l][q] = @ + 1]
           ELSE UNCHANGED <<globalVotePool, confirmed>>
        /\ UNCHANGED <<shardVars, chainVars, voted, netVars, sent>>
-----------------------------------------------------------------------------
Next ==
    \/ TxSending
    \/ \E m \in injects : HandleInjectTx(m)
    \/ \E m \in relays : HandleRelay(m)
    \/ \E s \in Shard :
        \/ ProposeLocal(s) \/ ProposeGlobal(s) \/ ProposeNothing(s) \/ GenerateBlock(s)
        \/ CommitLocal(s) \/ PanicLocal(s) \/ CommitGlobal(s)
    \/ \E m \in prepares : HandleInterSZonePrepare(m)
    \/ \E v \in votes : CountVote(v)
    \/ \E h \in handling : Decide(h)

Spec == Init /\ [][Next]_vars
-----------------------------------------------------------------------------
\* How often an entry waits: in a message, a pool or a block being agreed on.
Pending(e) ==
    Cardinality({m \in injects : First(m.tx) = e})
    + SumFunction([m \in relays |-> Occurrences(e, m.txs)])
    + SumFunction([s \in Shard |-> Occurrences(e, txQueue[s])])
    + SumFunction([s \in Shard |->
        SumFunction([b \in open[s] |-> Occurrences(e, b.body)])])

\* How often it is recorded.
InChains(e) == SumFunction([s \in Shard |-> localTxs[s][e] + globalTxs[s][e]])

\* A transaction inside a shard is never lost and never recorded twice, even if
\* it is packed with others that are dropped or arrives while the leader finds
\* its pool empty (GenerateSZBlock, Propose).  One that crosses may be lost, but
\* neither half is recorded twice, nor the second without the first.
Accounted ==
    \A t \in 1 .. sent :
        /\ Pending(First(t)) + InChains(First(t)) <= 1
        /\ ~CrossShard(t) => Pending(First(t)) + InChains(First(t)) = 1
        /\ Pending(Second(t)) + InChains(Second(t)) <= InChains(First(t))

OwnBalance(a) == Balance(curRoot[PartitionMap[a]], a)

\* Debited and not (yet) credited.
HalfDone(t) == CrossShard(t) /\ InChains(First(t)) = 1 /\ InChains(Second(t)) = 0

\* The state of the global chains creates no money, and what it loses belongs to
\* transactions whose first half is recorded and whose second is not.
Conservation ==
    SumFunction([a \in Account |-> OwnBalance(a)])
    + SumFunction([t \in {t \in TxID : HalfDone(t)} |-> Value(t)])
    = InitBalance * Cardinality(Account)

\* A leader broadcasts Confirm for a sequence only after 3f+1 nodes with
\* different numbers voted on it, whatever its handlers read before the lock was
\* released and another one deleted or refilled the pool (handleInterSZoneVote).
ConfirmNeedsVotes ==
    \A s \in Shard, q \in 1 .. MaxSeq :
        confirmed[s][q] > 0 => Cardinality(voted[s][q]) >= 3 * malicious_nums + 1
=============================================================================
