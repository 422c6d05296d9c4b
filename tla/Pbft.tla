-------------------------------- MODULE Pbft --------------------------------
(***************************************************************************)
(* The PBFT replica of one shard (consensus_shard/pbft_all: pbft.go,       *)
(* messageHandle.go, view_change.go, toolFuncs.go) with the Relay module's *)
(* in-consensus hooks (pbftInside_module.go) and the chain's AddBlock and  *)
(* IsValidBlock (chain/blockchain.go).                                     *)
(*                                                                         *)
(* A block, its request and its digest are one number: the position of     *)
(* the proposal in "blocks".  A digest covers the request's time stamp, so *)
(* no two proposals share one.  Messages may be delayed for ever (lost) or *)
(* overtake each other; the network never duplicates one.                  *)
(*                                                                         *)
(* A vote that leaves its count below the quorum only raises the count, so *)
(* vote handlers are modelled by the delivery that completes the quorum:   *)
(* it may happen whenever enough votes have been sent.  The waiting on     *)
(* pbftStage only delays handlers, and a handler may be delayed for any    *)
(* time here, so every behaviour of the code is one of this module.        *)
(***************************************************************************)
EXTENDS Integers, Sequences, FiniteSets

CONSTANTS
    N,            \* node_nums: the nodes of the shard are 0 .. N-1
    MaxBlocks,    \* bound: how many blocks are proposed
    MaxTimeouts   \* bound: how often view-change timers expire, of all nodes

ASSUME NAssumption == N \in Nat \ {0}
ASSUME BoundsAssumption == MaxBlocks \in Nat /\ MaxTimeouts \in Nat

Node == 0 .. N - 1
Block == 1 .. MaxBlocks
None == 0                     \* no block: the genesis parent, an absent map entry
SeqID == 1 .. MaxBlocks + 1

malicious_nums == (N - 1) \div 3
Quorum == 2 * malicious_nums + 1

VARIABLES
    blocks,             \* the proposals made so far: [seq, parent] of each block
    chain,              \* CurChain of each node, without the genesis block
    view, sequenceID,
    requestPool,        \* digests with a request in the pool
    height2Digest,
    isCommitBordcast,   \* digests this node has broadcast a Commit for
    isReply,
    proposing,          \* nodes with a proposer past its view check, at sequenceLock
    sequenceLock,       \* held from a leader's proposal to its commit
    askForLock,         \* held from an old-request query to its answer
    asking,             \* the digest whose Commit handler waits for askForLock
    fatal,              \* nodes that unlocked an unlocked mutex (process dies)
    prePrepares,        \* PrePrepare messages on their way to each node
    prepares,           \* number of Prepare messages sent to each node, per digest
    oldRequests, oldReplies,
    viewChanges, newViews,            \* messages sent, by all nodes
    viewChangeMap, newViewMap         \* quorums each node has acted on

pbftVars == <<blocks, chain, view, sequenceID, requestPool, height2Digest,
              isCommitBordcast, isReply, proposing, sequenceLock, askForLock, asking,
              fatal>>
netVars == <<prePrepares, prepares, oldRequests, oldReplies>>
viewVars == <<viewChanges, newViews, viewChangeMap, newViewMap>>
vars == <<pbftVars, netVars, viewVars>>

ViewChangeData == [next : Node, seq : SeqID]
ViewMsg == [data : ViewChangeData, from : Node, id : Nat]
NewViewMsg == [data : ViewChangeData, from : Node, of : ViewChangeData, id : Nat]
OldRequest == [from : Node, to : Node, start : Nat \ {0}, end : Block]
OldReply == [to : Node, start : Nat \ {0}, end : Block,
             reqs : Seq(Block), done : Nat]

TypeOK ==
    /\ blocks \in Seq([seq : Block, parent : Block \cup {None}])
    /\ Len(blocks) <= MaxBlocks
    /\ chain \in [Node -> Seq(Block)]
    /\ view \in [Node -> Node]
    /\ sequenceID \in [Node -> SeqID]
    /\ requestPool \in [Node -> SUBSET Block]
    /\ height2Digest \in [Node -> [SeqID -> Block \cup {None}]]
    /\ isCommitBordcast \in [Node -> SUBSET Block]
    /\ isReply \in [Node -> SUBSET Block]
    /\ proposing \in SUBSET Node
    /\ sequenceLock \in [Node -> BOOLEAN]
    /\ askForLock \in [Node -> BOOLEAN]
    /\ asking \in [Node -> Block \cup {None}]
    /\ fatal \in SUBSET Node
    /\ prePrepares \in [Node -> SUBSET Block]
    /\ prepares \in [Node -> [Block -> Nat]]
    /\ oldRequests \in SUBSET OldRequest
    /\ oldReplies \in SUBSET OldReply
    /\ viewChanges \in SUBSET ViewMsg
    /\ newViews \in SUBSET NewViewMsg
    /\ viewChangeMap \in [Node -> [ViewChangeData -> Nat]]
    /\ newViewMap \in [Node -> [ViewChangeData -> Nat]]

\* NewPbftNode on an empty store.
Init ==
    /\ blocks = <<>>
    /\ chain = [n \in Node |-> <<>>]
    /\ view = [n \in Node |-> 0]
    /\ sequenceID = [n \in Node |-> 1]
    /\ requestPool = [n \in Node |-> {}]
    /\ height2Digest = [n \in Node |-> [s \in SeqID |-> None]]
    /\ isCommitBordcast = [n \in Node |-> {}]
    /\ isReply = [n \in Node |-> {}]
    /\ proposing = {}
    /\ sequenceLock = [n \in Node |-> FALSE]
    /\ askForLock = [n \in Node |-> FALSE]
    /\ asking = [n \in Node |-> None]
    /\ fatal = {}
    /\ prePrepares = [n \in Node |-> {}]
    /\ prepares = [n \in Node |-> [b \in Block |-> 0]]
    /\ oldRequests = {}
    /\ oldReplies = {}
    /\ viewChanges = {}
    /\ newViews = {}
    /\ viewChangeMap = [n \in Node |-> [d \in ViewChangeData |-> 0]]
    /\ newViewMap = [n \in Node |-> [d \in ViewChangeData |-> 0]]
-----------------------------------------------------------------------------
\* CurrentBlock of a chain.
CurrentBlock(c) == IF c = <<>> THEN None ELSE c[Len(c)]

\* The parent hash fixes the whole history, the block number included.
IsValidBlock(b, c) == blocks[b].parent = CurrentBlock(c)

\* Mutant: AddBlock without the parent check.
AddBlockUnchecked(c, b) == Append(c, b)

\* A block that does not extend the chain is skipped without an error.
AddBlock(c, b) == IF IsValidBlock(b, c) THEN Append(c, b) ELSE c

\* Every handler of a Commit takes pbftLock; one that waits for askForLock
\* keeps it, and no other PrePrepare, Prepare or Commit handler can run.
Free(n) == n \notin fatal /\ asking[n] = None

CommitVotes(b) == {m \in Node : b \in isCommitBordcast[m]}

\* networks.Broadcast plus TcpDial to oneself; Broadcast alone.
PrepareToAll(b) == [n \in Node |-> [prepares[n] EXCEPT ![b] = @ + 1]]
PrepareToOthers(n, b) ==
    [m \in Node |-> IF m = n THEN prepares[m] ELSE [prepares[m] EXCEPT ![b] = @ + 1]]

-----------------------------------------------------------------------------
\* Mutant: the proposer does not store its own request.
ProposeForgets(n) ==
    /\ n \notin fatal
    /\ n \in proposing
    /\ ~sequenceLock[n]
    /\ Len(blocks) < MaxBlocks
    /\ LET b == Len(blocks) + 1 IN
        /\ blocks' = Append(blocks, [seq |-> sequenceID[n],
                                     parent |-> CurrentBlock(chain[n])])
        /\ prePrepares' = [m \in Node |-> prePrepares[m] \cup {b}]
    /\ sequenceLock' = [sequenceLock EXCEPT ![n] = TRUE]
    /\ proposing' = proposing \ {n}
    /\ UNCHANGED <<chain, view, sequenceID, requestPool, height2Digest, isCommitBordcast,
                   isReply, askForLock, asking, fatal, prepares, oldRequests, oldReplies,
                   viewVars>>

\* A round signal finds this node to be the leader.  One proposer at a time is
\* modelled: a second one would wait for the same lock and do the same.
ProposeSignal(n) ==
    /\ n \notin fatal
    /\ view[n] = n
    /\ Len(blocks) < MaxBlocks
    /\ n \notin proposing
    /\ proposing' = proposing \cup {n}
    /\ UNCHANGED <<blocks, chain, view, sequenceID, requestPool, height2Digest,
                   isCommitBordcast, isReply, sequenceLock, askForLock, asking, fatal,
                   netVars, viewVars>>

\* The proposer gets sequenceLock, packs a block on the node's current chain and
\* opens a round.  It does not look at the view again.
Propose(n) ==
    /\ n \notin fatal
    /\ n \in proposing
    /\ ~sequenceLock[n]
    /\ Len(blocks) < MaxBlocks
    /\ LET b == Len(blocks) + 1 IN
        /\ blocks' = Append(blocks, [seq |-> sequenceID[n],
                                     parent |-> CurrentBlock(chain[n])])
        /\ requestPool' = [requestPool EXCEPT ![n] = @ \cup {b}]
        /\ height2Digest' = [height2Digest EXCEPT ![n][sequenceID[n]] = b]
        /\ prePrepares' = [m \in Node |-> prePrepares[m] \cup {b}]
    /\ sequenceLock' = [sequenceLock EXCEPT ![n] = TRUE]
    /\ proposing' = proposing \ {n}
    /\ UNCHANGED <<chain, view, sequenceID, isCommitBordcast, isReply, askForLock,
                   asking, fatal, prepares, oldRequests, oldReplies, viewVars>>

\* Out of date: dropped.  Ahead: stored, never prepared.  Current: stored, and
\* prepared if it extends this node's chain.
HandlePrePrepare(n, b) ==
    /\ Free(n)
    /\ b \in prePrepares[n]
    /\ prePrepares' = [prePrepares EXCEPT ![n] = @ \ {b}]
    /\ IF blocks[b].seq < sequenceID[n]
       THEN UNCHANGED <<requestPool, height2Digest, prepares>>
       ELSE /\ requestPool' = [requestPool EXCEPT ![n] = @ \cup {b}]
            /\ height2Digest' = [height2Digest EXCEPT ![n][blocks[b].seq] = b]
            /\ prepares' = IF blocks[b].seq = sequenceID[n] /\ IsValidBlock(b, chain[n])
                           THEN PrepareToAll(b) ELSE prepares
    /\ UNCHANGED <<proposing, blocks, chain, view, sequenceID, isCommitBordcast, isReply,
                   sequenceLock, askForLock, asking, fatal, oldRequests,
                   oldReplies, viewVars>>

\* The Prepare that completes the quorum: broadcast a Commit, once per digest.
HandlePrepare(n, b) ==
    /\ Free(n)
    /\ b \in requestPool[n]
    /\ blocks[b].seq = sequenceID[n]
    /\ prepares[n][b] >= Quorum
    /\ b \notin isCommitBordcast[n]
    /\ isCommitBordcast' = [isCommitBordcast EXCEPT ![n] = @ \cup {b}]
    /\ UNCHANGED <<proposing, blocks, chain, view, sequenceID, requestPool, height2Digest,
                   isReply, sequenceLock, askForLock, asking, fatal, netVars, viewVars>>

\* Mutant: every node unlocks, not only the main node.
UnlockAlways(n) ==
    /\ sequenceLock' = [sequenceLock EXCEPT ![n] = FALSE]
    /\ fatal' = IF sequenceLock[n] THEN fatal ELSE fatal \cup {n}

\* The main node leaves the round by unlocking sequenceLock; unlocking a mutex
\* that is not locked ends the process.
UnlockSequence(n) ==
    IF view[n] = n
    THEN /\ sequenceLock' = [sequenceLock EXCEPT ![n] = FALSE]
         /\ fatal' = IF sequenceLock[n] THEN fatal ELSE fatal \cup {n}
    ELSE UNCHANGED <<sequenceLock, fatal>>

\* The query for missing requests.  It starts one past sequenceID, as the code does.
AskForOld(n, b) ==
    /\ askForLock' = [askForLock EXCEPT ![n] = TRUE]
    /\ oldRequests' = oldRequests \cup
         {[from |-> n, to |-> view[n],
           start |-> sequenceID[n] + 1, end |-> blocks[b].seq]}
    /\ UnlockSequence(n)

\* Mutant: f+1 Commit messages are enough.
CommitQuorumWeak(n, b) ==
    /\ Free(n)
    /\ b \in 1 .. Len(blocks)
    /\ blocks[b].seq >= sequenceID[n]
    /\ Cardinality(CommitVotes(b)) >= malicious_nums + 1
    /\ b \notin isReply[n]
    /\ isReply' = [isReply EXCEPT ![n] = @ \cup {b}]

\* The Commit that completes the quorum for a digest not replied to yet.
CommitQuorum(n, b) ==
    /\ Free(n)
    /\ b \in 1 .. Len(blocks)
    /\ blocks[b].seq >= sequenceID[n]
    /\ Cardinality(CommitVotes(b)) >= Quorum
    /\ b \notin isReply[n]
    /\ isReply' = [isReply EXCEPT ![n] = @ \cup {b}]

\* Mutant: sequenceID moves by two.
HandleCommitSkips(n, b) ==
    /\ CommitQuorum(n, b)
    /\ b \in requestPool[n]
    /\ chain' = [chain EXCEPT ![n] = AddBlock(@, b)]
    /\ sequenceID' = [sequenceID EXCEPT ![n] = @ + 2]
    /\ UnlockSequence(n)
    /\ UNCHANGED <<proposing, blocks, view, requestPool, height2Digest, isCommitBordcast,
                   askForLock, asking, netVars, viewVars>>

\* ... its request is in the pool: execute.  sequenceID moves by one, also
\* when the block is for a later sequence and AddBlock skips it.
HandleCommit(n, b) ==
    /\ CommitQuorum(n, b)
    /\ b \in requestPool[n]
    /\ chain' = [chain EXCEPT ![n] = AddBlock(@, b)]
    /\ sequenceID' = [sequenceID EXCEPT ![n] = @ + 1]
    /\ UnlockSequence(n)
    /\ UNCHANGED <<proposing, blocks, view, requestPool, height2Digest, isCommitBordcast,
                   askForLock, asking, netVars, viewVars>>

\* ... its request is missing: ask the main node for it.
HandleCommitMissing(n, b) ==
    /\ CommitQuorum(n, b)
    /\ b \notin requestPool[n]
    /\ ~askForLock[n]
    /\ AskForOld(n, b)
    /\ UNCHANGED <<proposing, blocks, chain, view, sequenceID, requestPool, height2Digest,
                   isCommitBordcast, asking, prePrepares, prepares, oldReplies, viewVars>>

\* ... and another query is still open: wait for askForLock, holding pbftLock.
HandleCommitBlocks(n, b) ==
    /\ CommitQuorum(n, b)
    /\ b \notin requestPool[n]
    /\ askForLock[n]
    /\ asking' = [asking EXCEPT ![n] = b]
    /\ UNCHANGED <<proposing, blocks, chain, view, sequenceID, requestPool, height2Digest,
                   isCommitBordcast, sequenceLock, askForLock, fatal, netVars, viewVars>>

HandleCommitResumes(n) ==
    /\ n \notin fatal
    /\ asking[n] # None
    /\ ~askForLock[n]
    /\ AskForOld(n, asking[n])
    /\ asking' = [asking EXCEPT ![n] = None]
    /\ UNCHANGED <<proposing, blocks, chain, view, sequenceID, requestPool, height2Digest,
                   isCommitBordcast, isReply, prePrepares, prepares, oldReplies, viewVars>>

\* This node can serve the request of a height.
Known(n, h) == height2Digest[n][h] \in requestPool[n]

\* Mutant: an incomplete run is not answered at all.
HandleRequestOldSeqSilent(n, m) ==
    /\ n \notin fatal
    /\ m \in oldRequests
    /\ m.to = n
    /\ oldRequests' = oldRequests \ {m}
    /\ oldReplies' =
         IF view[n] = n /\ m.start <= m.end /\ \A h \in m.start .. m.end : Known(n, h)
         THEN oldReplies \cup
              {[to |-> m.from, start |-> m.start, end |-> m.end,
                reqs |-> [i \in 1 .. m.end - m.start + 1 |->
                            height2Digest[n][m.start + i - 1]],
                done |-> 0]}
         ELSE oldReplies
    /\ UNCHANGED <<pbftVars, prePrepares, prepares, viewVars>>

\* Only the main node answers, with the run of consecutive heights it knows.
HandleRequestOldSeq(n, m) ==
    /\ n \notin fatal
    /\ m \in oldRequests
    /\ m.to = n
    /\ oldRequests' = oldRequests \ {m}
    /\ \E last \in {m.start - 1} \cup m.start .. m.end :
        /\ \A h \in m.start .. last : Known(n, h)
        /\ last + 1 \in m.start .. m.end => ~Known(n, last + 1)
        /\ oldReplies' =
             IF view[n] = n
             THEN oldReplies \cup
                  {[to |-> m.from, start |-> m.start, end |-> m.end,
                    reqs |-> [i \in 1 .. last - m.start + 1 |->
                                height2Digest[n][m.start + i - 1]],
                    done |-> 0]}
             ELSE oldReplies
    /\ UNCHANGED <<pbftVars, prePrepares, prepares, viewVars>>

\* The answer holds a request for every height that was asked for.
Enough(m) == m.end - m.start + 1 = Len(m.reqs)

\* HandleforSequentialRequest executes the blocks of a complete answer one by
\* one, then moves sequenceID.  It holds none of the locks of the other handlers,
\* which may run in between; "done" counts its steps.
HandleforSequentialRequest(n, m) ==
    /\ n \notin fatal
    /\ m \in oldReplies
    /\ m.to = n
    /\ Enough(m)
    /\ \/ /\ m.done < Len(m.reqs)
          /\ chain' = [chain EXCEPT ![n] = AddBlock(@, m.reqs[m.done + 1])]
          /\ UNCHANGED sequenceID
       \/ /\ m.done = Len(m.reqs)
          /\ sequenceID' = [sequenceID EXCEPT ![n] = m.end + 1]
          /\ UNCHANGED chain
    /\ oldReplies' = (oldReplies \ {m}) \cup {[m EXCEPT !.done = @ + 1]}
    /\ UNCHANGED <<proposing, blocks, view, requestPool, height2Digest,
                   isCommitBordcast, isReply, sequenceLock, askForLock, asking, fatal,
                   prePrepares, prepares, oldRequests, viewVars>>

\* The rest of the handler: jump to the sequence after the run, and prepare the
\* stored proposal for that sequence if there is one.
HandleSendOldSeq(n, m) ==
    /\ n \notin fatal
    /\ m \in oldReplies
    /\ m.to = n
    /\ Enough(m) => m.done > Len(m.reqs)
    /\ oldReplies' = oldReplies \ {m}
    /\ LET got == {m.reqs[i] : i \in 1 .. Len(m.reqs)}
           pool == requestPool[n] \cup got
           h2d == [s \in SeqID |-> IF s - m.start + 1 \in 1 .. Len(m.reqs)
                                   THEN m.reqs[s - m.start + 1] ELSE height2Digest[n][s]]
           next == h2d[m.end + 1]
       IN  /\ requestPool' = [requestPool EXCEPT ![n] = pool]
           /\ height2Digest' = [height2Digest EXCEPT ![n] = h2d]
           /\ isReply' = [isReply EXCEPT ![n] = @ \cup got]
           /\ prepares' = IF next \in pool /\ IsValidBlock(next, chain[n])
                          THEN PrepareToOthers(n, next) ELSE prepares
    /\ sequenceID' = [sequenceID EXCEPT ![n] = m.end + 1]
    /\ askForLock' = [askForLock EXCEPT ![n] = FALSE]
    /\ fatal' = IF askForLock[n] THEN fatal ELSE fatal \cup {n}
    /\ UNCHANGED <<proposing, blocks, chain, view, isCommitBordcast, sequenceLock, asking,
                   prePrepares, oldRequests, viewVars>>
-----------------------------------------------------------------------------
\* The view-change timer expires.
ViewChangePropose(n) ==
    /\ n \notin fatal
    /\ Cardinality(viewChanges) < MaxTimeouts
    /\ viewChanges' = viewChanges \cup
         {[data |-> [next |-> (view[n] + 1) % N, seq |-> sequenceID[n]],
           from |-> n, id |-> Cardinality(viewChanges) + 1]}
    /\ UNCHANGED <<pbftVars, netVars, newViews, viewChangeMap, newViewMap>>

\* How often a map entry can be found to hold exactly a quorum after a
\* delivery: when it first does, and on every repeated message of a member.
QuorumHits(msgs) ==
    LET from == Cardinality({m.from : m \in msgs})
    IN  IF from >= Quorum THEN 1 + Cardinality(msgs) - from ELSE 0

\* The ViewChange message that makes the entry d hold 2f+1 nodes.  The NewView
\* message carries this node's own view and sequence, whatever d says; what it was
\* sent for tells apart messages of the same content.
HandleViewChangeMsg(n, d) ==
    /\ n \notin fatal
    /\ viewChangeMap[n][d] < QuorumHits({m \in viewChanges : m.data = d})
    /\ viewChangeMap' = [viewChangeMap EXCEPT ![n][d] = @ + 1]
    /\ newViews' = newViews \cup
         {[data |-> [next |-> (view[n] + 1) % N, seq |-> sequenceID[n]],
           from |-> n, of |-> d, id |-> viewChangeMap[n][d] + 1]}
    /\ UNCHANGED <<pbftVars, netVars, viewChanges, newViewMap>>

\* The NewView message that makes the entry d hold 2f+1 nodes.
HandleNewViewMsg(n, d) ==
    /\ n \notin fatal
    /\ newViewMap[n][d] < QuorumHits({m \in newViews : m.data = d})
    /\ newViewMap' = [newViewMap EXCEPT ![n][d] = @ + 1]
    /\ view' = [view EXCEPT ![n] = d.next]
    /\ sequenceID' = [sequenceID EXCEPT ![n] = d.seq]
    /\ UNCHANGED <<proposing, blocks, chain, requestPool, height2Digest, isCommitBordcast, isReply,
                   sequenceLock, askForLock, asking, fatal, netVars, viewChanges,
                   newViews, viewChangeMap>>
-----------------------------------------------------------------------------
Round ==
    \E n \in Node :
        \/ ProposeSignal(n) \/ Propose(n)
        \/ \E b \in Block :
            \/ HandlePrePrepare(n, b) \/ HandlePrepare(n, b) \/ HandleCommit(n, b)
            \/ HandleCommitMissing(n, b) \/ HandleCommitBlocks(n, b)
        \/ HandleCommitResumes(n)
        \/ \E m \in oldRequests : HandleRequestOldSeq(n, m)
        \/ \E m \in oldReplies :
            HandleforSequentialRequest(n, m) \/ HandleSendOldSeq(n, m)

ChangeView ==
    \E n \in Node :
        \/ ViewChangePropose(n)
        \/ \E d \in ViewChangeData : HandleViewChangeMsg(n, d) \/ HandleNewViewMsg(n, d)

Next == Round \/ ChangeView
Spec == Init /\ [][Next]_vars

\* No node's timer expires: the first leader keeps its office.
FixedViewSpec == Init /\ [][Round]_vars
-----------------------------------------------------------------------------
\* The chains of two nodes agree wherever both have a block: one is a prefix of
\* the other (pbft.go:33, "all node in the shard maintain the same blockchain").
Agreement ==
    \A n, m \in Node : \A i \in DOMAIN chain[n] \cap DOMAIN chain[m] :
        chain[n][i] = chain[m][i]

\* A node executes a block, in its commit handler or while catching up, only
\* if 2f+1 nodes have broadcast a Commit for it (handleCommit's threshold).
Certified ==
    \A n \in Node : \A i \in DOMAIN chain[n] :
        Cardinality(CommitVotes(chain[n][i])) >= 2 * malicious_nums + 1



\* A block has one history: two nodes that hold the same block, at whatever
\* time and in whatever view they executed it, hold it at the same height and
\* agree on everything below it.  Forks never merge (AddBlock's parent check).
OneHistory ==
    \A n, m \in Node : \A i \in DOMAIN chain[n], j \in DOMAIN chain[m] :
        chain[n][i] = chain[m][j] =>
            /\ i = j
            /\ \A k \in 1 .. i : chain[n][k] = chain[m][k]

\* The first leader never misses a block it has to build the next one on: its
\* sequence number is always one past its chain.
LeaderComplete == sequenceID[0] = Len(chain[0]) + 1

\* No handler unlocks a mutex that is not locked (handleCommit's sequenceLock,
\* handleSendOldSeq's askForLock), which would end the process.
NoFatalUnlock == fatal = {}

\* While a node holds askForLock, its query or the answer to it is on the way:
\* nobody waits for an unlock that no message will bring.
QueryOpen ==
    \A n \in Node : askForLock[n] =>
        \/ \E m \in oldRequests : m.from = n
        \/ \E m \in oldReplies : m.to = n

\* The proposals that have a commit quorum.  While the view is fixed only the
\* last proposal can be without one.
Decided ==
    LET all == [b \in 1 .. Len(blocks) |-> b]
        open == blocks # <<>> /\ Cardinality(CommitVotes(Len(blocks))) < Quorum
    IN  IF open THEN SubSeq(all, 1, Len(blocks) - 1) ELSE all

Ledger == INSTANCE ShardLedger WITH decided <- Decided, ledger <- chain

\* While the view is fixed the shard implements the abstract ledger: every
\* handler decides one block, extends one node's prefix, or changes neither.
ImplementsLedger == Ledger!LedgerSpec
=============================================================================
