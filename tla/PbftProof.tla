----------------------------- MODULE PbftProof -----------------------------
(***************************************************************************)
(* Proofs about Pbft for every number of nodes and every bound.            *)
(***************************************************************************)
EXTENDS Pbft, FiniteSetTheorems, SequenceTheorems, TLAPS

\* Sequence numbers, digests in pools and in messages never run ahead of the
\* proposals.  This keeps every map lookup of the handlers inside its domain.
SeqBounded == \A n \in Node : sequenceID[n] <= Len(blocks) + 1
BlockSeqBounded == \A b \in 1 .. Len(blocks) : blocks[b].seq <= b
PoolsBounded ==
    \A n \in Node : /\ requestPool[n] \subseteq 1 .. Len(blocks)
                    /\ prePrepares[n] \subseteq 1 .. Len(blocks)
                    /\ isCommitBordcast[n] \subseteq 1 .. Len(blocks)
                    /\ asking[n] \in 0 .. Len(blocks)
RequestsBounded == \A m \in oldRequests : m.end <= Len(blocks)
RepliesBounded ==
    \A m \in oldReplies : /\ m.end <= Len(blocks)
                          /\ m.reqs \in Seq(1 .. Len(blocks))
ViewsBounded ==
    /\ \A m \in viewChanges \cup newViews : m.data.seq <= Len(blocks) + 1
    /\ IsFiniteSet(viewChanges)

TypeInv ==
    /\ TypeOK
    /\ SeqBounded
    /\ BlockSeqBounded
    /\ PoolsBounded
    /\ RequestsBounded
    /\ RepliesBounded
    /\ ViewsBounded

\* NewPbftNode starts inside the types and bounds.
LEMMA TypeInit == Init => TypeInv
BY NAssumption, BoundsAssumption, FS_EmptySet
   DEF Init, TypeInv, TypeOK, SeqBounded, BlockSeqBounded, PoolsBounded, RequestsBounded,
       RepliesBounded, ViewsBounded, Node, Block, SeqID, None, ViewChangeData

\* A round signal adds a proposer.
LEMMA TypeProposeSignal ==
    ASSUME TypeInv, NEW n \in Node, ProposeSignal(n) PROVE TypeInv'
<1>1. TypeOK'
    BY DEF TypeInv, TypeOK, ProposeSignal, netVars, viewVars
<1>2. /\ SeqBounded' /\ BlockSeqBounded' /\ PoolsBounded' /\ RequestsBounded' /\ RepliesBounded'
      /\ ViewsBounded'
    BY DEF TypeInv, SeqBounded, BlockSeqBounded, PoolsBounded, RequestsBounded, RepliesBounded,
           ViewsBounded, ProposeSignal, netVars, viewVars
<1> QED BY <1>1, <1>2 DEF TypeInv

\* Propose appends a well-formed proposal at the sequence number of its node.
LEMMA TypePropose ==
    ASSUME TypeInv, NEW n \in Node, Propose(n) PROVE TypeInv'
<1> USE NAssumption, BoundsAssumption
<1> DEFINE L == Len(blocks)
           b == L + 1
           new == [seq |-> sequenceID[n], parent |-> CurrentBlock(chain[n])]
<1>1. CurrentBlock(chain[n]) \in Block \cup {None}
    BY DEF TypeInv, TypeOK, CurrentBlock
<1>2. L \in Nat /\ b \in Block /\ sequenceID[n] \in Block /\ sequenceID[n] <= b
    BY DEF TypeInv, TypeOK, SeqBounded, Propose, Block, SeqID
<1>3. /\ blocks' = Append(blocks, new)
      /\ Len(blocks') = b
      /\ \A c \in 1 .. L : blocks'[c] = blocks[c]
      /\ blocks'[b] = new
    BY <1>1, <1>2 DEF TypeInv, TypeOK, Propose
<1>4. TypeOK'
  <2>1. blocks' \in Seq([seq : Block, parent : Block \cup {None}]) /\ Len(blocks') <= MaxBlocks
    BY <1>1, <1>2, <1>3 DEF TypeInv, TypeOK, Block
  <2>2. requestPool' \in [Node -> SUBSET Block] /\ prePrepares' \in [Node -> SUBSET Block]
    BY <1>2 DEF TypeInv, TypeOK, Propose
  <2>3. height2Digest' \in [Node -> [SeqID -> Block \cup {None}]]
    BY <1>2 DEF TypeInv, TypeOK, Propose
  <2>4. sequenceLock' \in [Node -> BOOLEAN] /\ proposing' \in SUBSET Node
    BY DEF TypeInv, TypeOK, Propose
  <2> QED BY <2>1, <2>2, <2>3, <2>4 DEF TypeInv, TypeOK, Propose, viewVars
<1>5. SeqBounded'
  <2>1. \A m \in Node : sequenceID[m] \in Int /\ sequenceID[m] <= L + 1
    BY DEF TypeInv, TypeOK, SeqBounded, SeqID
  <2>2. sequenceID' = sequenceID
    BY DEF Propose
  <2> QED BY <1>2, <1>3, <2>1, <2>2 DEF SeqBounded
<1>6. BlockSeqBounded'
  <2>1. \A c \in 1 .. L : blocks[c].seq <= c
    BY DEF TypeInv, BlockSeqBounded
  <2> QED BY <1>2, <1>3, <2>1 DEF BlockSeqBounded
<1>7. PoolsBounded'
  <2>1. requestPool \in [Node -> SUBSET Block] /\ prePrepares \in [Node -> SUBSET Block]
    BY DEF TypeInv, TypeOK
  <2>2. \A m \in Node : /\ requestPool'[m] \subseteq requestPool[m] \cup {b}
                        /\ prePrepares'[m] \subseteq prePrepares[m] \cup {b}
    BY <2>1 DEF Propose
  <2>3. isCommitBordcast' = isCommitBordcast /\ asking' = asking
    BY DEF Propose
  <2>4. 1 .. L \subseteq 1 .. b /\ b \in 1 .. b /\ 0 .. L \subseteq 0 .. b
    BY <1>2
  <2> QED BY <1>3, <2>2, <2>3, <2>4 DEF TypeInv, PoolsBounded
<1>8. RequestsBounded' /\ RepliesBounded'
  <2>1. oldRequests' = oldRequests /\ oldReplies' = oldReplies
    BY DEF Propose
  <2>2. \A m \in oldRequests : m.end \in Int
    BY DEF TypeInv, TypeOK, OldRequest, Block
  <2>3. \A m \in oldReplies : m.end \in Int
    BY DEF TypeInv, TypeOK, OldReply, Block
  <2>4. 1 .. L \subseteq 1 .. b
    BY <1>2
  <2>5. Seq(1 .. L) \subseteq Seq(1 .. b)
    BY <2>4
  <2> QED BY <1>2, <1>3, <2>1, <2>2, <2>3, <2>5 DEF TypeInv, RequestsBounded, RepliesBounded
<1>9. ViewsBounded'
  <2>1. viewChanges' = viewChanges /\ newViews' = newViews
    BY DEF Propose, viewVars
  <2>2. \A m \in viewChanges \cup newViews : m.data.seq \in Int
    BY DEF TypeInv, TypeOK, ViewMsg, NewViewMsg, ViewChangeData, SeqID
  <2> QED BY <1>2, <1>3, <2>1, <2>2 DEF TypeInv, ViewsBounded
<1> QED BY <1>4, <1>5, <1>6, <1>7, <1>8, <1>9 DEF TypeInv

\* What the bounds say of one proposal.
LEMMA BlockFacts ==
    ASSUME TypeInv, NEW b \in 1 .. Len(blocks)
    PROVE  /\ Len(blocks) \in Nat /\ Len(blocks) <= MaxBlocks
           /\ b \in Block
           /\ blocks[b].seq \in Block /\ blocks[b].seq \in SeqID
           /\ blocks[b].seq <= b /\ blocks[b].seq <= Len(blocks)
           /\ blocks[b].parent \in Block \cup {None}
<1>1. /\ Len(blocks) \in Nat /\ Len(blocks) <= MaxBlocks
      /\ blocks[b] \in [seq : Block, parent : Block \cup {None}]
  <2>1. blocks \in Seq([seq : Block, parent : Block \cup {None}]) /\ Len(blocks) <= MaxBlocks
    BY DEF TypeInv, TypeOK
  <2>2. Len(blocks) \in Nat
    BY <2>1
  <2>3. blocks[b] \in [seq : Block, parent : Block \cup {None}]
    BY <2>1, ElementOfSeq
  <2> QED BY <2>1, <2>2, <2>3
<1>2. blocks[b].seq <= b
    BY DEF TypeInv, BlockSeqBounded
<1> QED BY <1>1, <1>2, BoundsAssumption DEF Block, SeqID

\* Sending Prepare messages keeps the counts natural numbers.
LEMMA PrepareSent ==
    ASSUME prepares \in [Node -> [Block -> Nat]], NEW n \in Node, NEW b \in Block
    PROVE  /\ PrepareToAll(b) \in [Node -> [Block -> Nat]]
           /\ PrepareToOthers(n, b) \in [Node -> [Block -> Nat]]
BY DEF PrepareToAll, PrepareToOthers

\* handlePrePrepare stores only proposed requests, at sequence numbers in range.
LEMMA TypeHandlePrePrepare ==
    ASSUME TypeInv, NEW n \in Node, NEW b \in Block, HandlePrePrepare(n, b) PROVE TypeInv'
<1> USE NAssumption, BoundsAssumption
<1>1. b \in 1 .. Len(blocks) /\ blocks[b].seq \in SeqID
  <2>1. b \in 1 .. Len(blocks)
    BY DEF TypeInv, PoolsBounded, HandlePrePrepare
  <2> QED BY <2>1, BlockFacts
<1>2. TypeOK'
  <2>1. prePrepares' \in [Node -> SUBSET Block]
    BY DEF TypeInv, TypeOK, HandlePrePrepare
  <2>2. requestPool' \in [Node -> SUBSET Block]
    <3>1. requestPool' = requestPool \/ requestPool' = [requestPool EXCEPT ![n] = @ \cup {b}]
      BY DEF HandlePrePrepare
    <3>2. requestPool \in [Node -> SUBSET Block]
      BY DEF TypeInv, TypeOK
    <3> QED BY <3>1, <3>2
  <2>3. height2Digest' \in [Node -> [SeqID -> Block \cup {None}]]
    <3>1. \/ height2Digest' = height2Digest
          \/ height2Digest' = [height2Digest EXCEPT ![n][blocks[b].seq] = b]
      BY DEF HandlePrePrepare
    <3>2. height2Digest \in [Node -> [SeqID -> Block \cup {None}]]
      BY DEF TypeInv, TypeOK
    <3> QED BY <1>1, <3>1, <3>2
  <2>4. prepares' \in [Node -> [Block -> Nat]]
    <3>1. prepares' = prepares \/ prepares' = PrepareToAll(b)
      BY DEF HandlePrePrepare
    <3> QED BY <3>1, PrepareSent DEF TypeInv, TypeOK
  <2> QED BY <2>1, <2>2, <2>3, <2>4 DEF TypeInv, TypeOK, HandlePrePrepare, viewVars
<1>3. PoolsBounded'
  <2>1. \A m \in Node : /\ requestPool'[m] \subseteq requestPool[m] \cup {b}
                        /\ prePrepares'[m] \subseteq prePrepares[m]
    BY DEF TypeInv, TypeOK, HandlePrePrepare
  <2> QED BY <1>1, <2>1 DEF TypeInv, PoolsBounded, HandlePrePrepare
<1>4. /\ SeqBounded' /\ BlockSeqBounded' /\ RequestsBounded' /\ RepliesBounded' /\ ViewsBounded'
    BY DEF TypeInv, SeqBounded, BlockSeqBounded, RequestsBounded, RepliesBounded, ViewsBounded,
           HandlePrePrepare, viewVars
<1> QED BY <1>2, <1>3, <1>4 DEF TypeInv

\* handlePrepare votes only for a request of its pool.
LEMMA TypeHandlePrepare ==
    ASSUME TypeInv, NEW n \in Node, NEW b \in Block, HandlePrepare(n, b) PROVE TypeInv'
<1>1. b \in 1 .. Len(blocks)
    BY DEF TypeInv, PoolsBounded, HandlePrepare
<1>2. TypeOK'
  <2>1. isCommitBordcast' \in [Node -> SUBSET Block]
    BY DEF TypeInv, TypeOK, HandlePrepare
  <2> QED BY <2>1 DEF TypeInv, TypeOK, HandlePrepare, netVars, viewVars
<1>3. PoolsBounded'
  <2>1. \A m \in Node : isCommitBordcast'[m] \subseteq isCommitBordcast[m] \cup {b}
    BY DEF TypeInv, TypeOK, HandlePrepare
  <2> QED BY <1>1, <2>1 DEF TypeInv, PoolsBounded, HandlePrepare, netVars
<1>4. /\ SeqBounded' /\ BlockSeqBounded' /\ RequestsBounded' /\ RepliesBounded' /\ ViewsBounded'
    BY DEF TypeInv, SeqBounded, BlockSeqBounded, RequestsBounded, RepliesBounded, ViewsBounded,
           HandlePrepare, netVars, viewVars
<1> QED BY <1>2, <1>3, <1>4 DEF TypeInv

\* Leaving a round changes only this node's lock, or stops the node.
LEMMA TypeUnlockSequence ==
    ASSUME TypeInv, NEW n \in Node, UnlockSequence(n)
    PROVE  sequenceLock' \in [Node -> BOOLEAN] /\ fatal' \in SUBSET Node
<1>1. \/ sequenceLock' = sequenceLock
      \/ sequenceLock' = [sequenceLock EXCEPT ![n] = FALSE]
    BY DEF UnlockSequence
<1>2. fatal' = fatal \/ fatal' = fatal \cup {n}
    BY DEF UnlockSequence
<1> QED BY <1>1, <1>2 DEF TypeInv, TypeOK

\* AddBlock keeps a chain a sequence of blocks.
LEMMA TypeAddBlock ==
    ASSUME NEW c \in Seq(Block), NEW b \in Block PROVE AddBlock(c, b) \in Seq(Block)
BY DEF AddBlock

\* handleCommit raises sequenceID only up to one past a proposal.
LEMMA TypeHandleCommit ==
    ASSUME TypeInv, NEW n \in Node, NEW b \in Block, HandleCommit(n, b) PROVE TypeInv'
<1> USE NAssumption, BoundsAssumption
<1>1. /\ Len(blocks) \in Nat /\ Len(blocks) <= MaxBlocks
      /\ b \in 1 .. Len(blocks)
      /\ blocks[b].seq \in Int /\ blocks[b].seq <= b
      /\ sequenceID[n] \in SeqID /\ sequenceID[n] <= blocks[b].seq
  <2>1. b \in 1 .. Len(blocks) /\ blocks[b].seq >= sequenceID[n]
    BY DEF HandleCommit, CommitQuorum
  <2>2. sequenceID[n] \in SeqID
    BY DEF TypeInv, TypeOK
  <2> QED BY <2>1, <2>2, BlockFacts DEF SeqID, Block
<1>2. sequenceID[n] + 1 \in SeqID /\ sequenceID[n] + 1 <= Len(blocks) + 1
    BY <1>1 DEF SeqID
<1>3. TypeOK'
  <2>1. chain' \in [Node -> Seq(Block)]
    BY TypeAddBlock DEF TypeInv, TypeOK, HandleCommit
  <2>2. sequenceID' \in [Node -> SeqID]
    BY <1>2 DEF TypeInv, TypeOK, HandleCommit
  <2>3. isReply' \in [Node -> SUBSET Block]
    BY DEF TypeInv, TypeOK, HandleCommit, CommitQuorum
  <2>4. sequenceLock' \in [Node -> BOOLEAN] /\ fatal' \in SUBSET Node
    BY TypeUnlockSequence DEF HandleCommit
  <2> QED BY <2>1, <2>2, <2>3, <2>4 DEF TypeInv, TypeOK, HandleCommit, netVars, viewVars
<1>4. SeqBounded'
    BY <1>2 DEF TypeInv, TypeOK, SeqBounded, HandleCommit
<1>5. /\ BlockSeqBounded' /\ PoolsBounded' /\ RequestsBounded' /\ RepliesBounded' /\ ViewsBounded'
    BY DEF TypeInv, BlockSeqBounded, PoolsBounded, RequestsBounded, RepliesBounded,
           ViewsBounded, HandleCommit, netVars, viewVars
<1> QED BY <1>3, <1>4, <1>5 DEF TypeInv

\* A query asks for a range that ends at a proposed sequence number.
LEMMA TypeAskForOld ==
    ASSUME TypeInv, NEW n \in Node, NEW b \in 1 .. Len(blocks), AskForOld(n, b)
    PROVE  /\ oldRequests' \in SUBSET OldRequest
           /\ \A m \in oldRequests' : m.end <= Len(blocks)
           /\ askForLock' \in [Node -> BOOLEAN]
<1> USE BoundsAssumption
<1> DEFINE q == [from |-> n, to |-> view[n], start |-> sequenceID[n] + 1, end |-> blocks[b].seq]
<1>1. blocks[b].seq \in Block /\ blocks[b].seq <= Len(blocks)
    BY BlockFacts
<1>2. q \in OldRequest /\ q.end <= Len(blocks)
  <2>1. view[n] \in Node /\ sequenceID[n] \in SeqID
    BY DEF TypeInv, TypeOK
  <2>2. sequenceID[n] + 1 \in Nat \ {0}
    BY <2>1 DEF SeqID
  <2> QED BY <1>1, <2>1, <2>2 DEF OldRequest
<1>3. oldRequests' = oldRequests \cup {q}
    BY DEF AskForOld
<1>4. askForLock' \in [Node -> BOOLEAN]
    BY DEF TypeInv, TypeOK, AskForOld
<1> QED BY <1>2, <1>3, <1>4 DEF TypeInv, TypeOK, RequestsBounded

\* handleCommit asks only for sequence numbers that were proposed.
LEMMA TypeHandleCommitMissing ==
    ASSUME TypeInv, NEW n \in Node, NEW b \in Block, HandleCommitMissing(n, b) PROVE TypeInv'
<1>1. b \in 1 .. Len(blocks) /\ AskForOld(n, b) /\ UnlockSequence(n) /\ blocks' = blocks
    BY DEF HandleCommitMissing, CommitQuorum, AskForOld
<1>2. TypeOK'
  <2>1. isReply' \in [Node -> SUBSET Block]
    BY DEF TypeInv, TypeOK, HandleCommitMissing, CommitQuorum
  <2> QED BY <1>1, <2>1, TypeAskForOld, TypeUnlockSequence
          DEF TypeInv, TypeOK, HandleCommitMissing, viewVars
<1>3. RequestsBounded'
    BY <1>1, TypeAskForOld DEF RequestsBounded
<1>4. /\ SeqBounded' /\ BlockSeqBounded' /\ PoolsBounded' /\ RepliesBounded' /\ ViewsBounded'
    BY DEF TypeInv, SeqBounded, BlockSeqBounded, PoolsBounded, RepliesBounded, ViewsBounded,
           HandleCommitMissing, viewVars
<1> QED BY <1>2, <1>3, <1>4 DEF TypeInv

\* A blocked handleCommit remembers a proposal.
LEMMA TypeHandleCommitBlocks ==
    ASSUME TypeInv, NEW n \in Node, NEW b \in Block, HandleCommitBlocks(n, b) PROVE TypeInv'
<1>1. b \in 1 .. Len(blocks)
    BY DEF HandleCommitBlocks, CommitQuorum
<1>2. TypeOK'
  <2>1. isReply' \in [Node -> SUBSET Block] /\ asking' \in [Node -> Block \cup {None}]
    BY DEF TypeInv, TypeOK, HandleCommitBlocks, CommitQuorum
  <2> QED BY <2>1 DEF TypeInv, TypeOK, HandleCommitBlocks, netVars, viewVars
<1>3. PoolsBounded'
  <2>1. b \in 0 .. Len(blocks)
    BY <1>1 DEF TypeInv, TypeOK
  <2>2. \A m \in Node : asking'[m] = asking[m] \/ asking'[m] = b
    BY DEF TypeInv, TypeOK, HandleCommitBlocks
  <2> QED BY <2>1, <2>2 DEF TypeInv, PoolsBounded, HandleCommitBlocks, netVars
<1>4. /\ SeqBounded' /\ BlockSeqBounded' /\ RequestsBounded' /\ RepliesBounded' /\ ViewsBounded'
    BY DEF TypeInv, SeqBounded, BlockSeqBounded, RequestsBounded, RepliesBounded, ViewsBounded,
           HandleCommitBlocks, netVars, viewVars
<1> QED BY <1>2, <1>3, <1>4 DEF TypeInv

\* A resumed handleCommit asks for the proposal it remembered.
LEMMA TypeHandleCommitResumes ==
    ASSUME TypeInv, NEW n \in Node, HandleCommitResumes(n) PROVE TypeInv'
<1> DEFINE b == asking[n]
<1>1. /\ b \in 1 .. Len(blocks) /\ AskForOld(n, b) /\ UnlockSequence(n) /\ blocks' = blocks
    BY DEF TypeInv, TypeOK, PoolsBounded, HandleCommitResumes, AskForOld, None
<1>2. TypeOK'
  <2>1. asking' \in [Node -> Block \cup {None}]
    BY DEF TypeInv, TypeOK, HandleCommitResumes
  <2> QED BY <1>1, <2>1, TypeAskForOld, TypeUnlockSequence
          DEF TypeInv, TypeOK, HandleCommitResumes, viewVars
<1>3. RequestsBounded'
    BY <1>1, TypeAskForOld DEF RequestsBounded
<1>4. PoolsBounded'
  <2>1. 0 \in 0 .. Len(blocks)
    BY DEF TypeInv, TypeOK
  <2>2. \A m \in Node : asking'[m] = asking[m] \/ asking'[m] = 0
    BY DEF TypeInv, TypeOK, HandleCommitResumes, None
  <2> QED BY <2>1, <2>2 DEF TypeInv, PoolsBounded, HandleCommitResumes
<1>5. /\ SeqBounded' /\ BlockSeqBounded' /\ RepliesBounded' /\ ViewsBounded'
    BY DEF TypeInv, SeqBounded, BlockSeqBounded, RepliesBounded, ViewsBounded,
           HandleCommitResumes, viewVars
<1> QED BY <1>2, <1>3, <1>4, <1>5 DEF TypeInv

\* The main node answers with requests of its own pool.
LEMMA TypeHandleRequestOldSeq ==
    ASSUME TypeInv, NEW n \in Node, NEW m \in oldRequests, HandleRequestOldSeq(n, m)
    PROVE  TypeInv'
<1>1. PICK last \in {m.start - 1} \cup m.start .. m.end :
        /\ \A h \in m.start .. last : Known(n, h)
        /\ oldReplies' =
             IF view[n] = n
             THEN oldReplies \cup
                  {[to |-> m.from, start |-> m.start, end |-> m.end,
                    reqs |-> [i \in 1 .. last - m.start + 1 |->
                                height2Digest[n][m.start + i - 1]],
                    done |-> 0]}
             ELSE oldReplies
    BY DEF HandleRequestOldSeq
<1> DEFINE reqs == [i \in 1 .. last - m.start + 1 |-> height2Digest[n][m.start + i - 1]]
           reply == [to |-> m.from, start |-> m.start, end |-> m.end, reqs |-> reqs, done |-> 0]
<1>2. m.from \in Node /\ m.start \in Nat \ {0} /\ m.end \in Block /\ m.end <= Len(blocks)
    BY DEF TypeInv, TypeOK, RequestsBounded, OldRequest
<1>3. last - m.start + 1 \in Nat
    BY <1>1, <1>2 DEF Block
<1>4. \A i \in 1 .. last - m.start + 1 :
        height2Digest[n][m.start + i - 1] \in Block \cap 1 .. Len(blocks)
  <2> SUFFICES ASSUME NEW i \in 1 .. last - m.start + 1
               PROVE  height2Digest[n][m.start + i - 1] \in Block \cap 1 .. Len(blocks)
    OBVIOUS
  <2>1. m.start + i - 1 \in m.start .. last
    BY <1>1, <1>2, <1>3 DEF Block
  <2>2. height2Digest[n][m.start + i - 1] \in requestPool[n]
    BY <1>1, <2>1 DEF Known
  <2> QED BY <2>2 DEF TypeInv, TypeOK, PoolsBounded
<1>5. reqs \in Seq(Block) /\ reqs \in Seq(1 .. Len(blocks))
    BY <1>3, <1>4
<1>6. reply \in OldReply
    BY <1>2, <1>5 DEF OldReply
<1>7. oldReplies' = oldReplies \cup {reply} \/ oldReplies' = oldReplies
    BY <1>1
<1>8. oldReplies' \in SUBSET OldReply /\ oldRequests' \in SUBSET OldRequest
    BY <1>6, <1>7 DEF TypeInv, TypeOK, HandleRequestOldSeq
<1>9. TypeOK'
    BY <1>8 DEF TypeInv, TypeOK, HandleRequestOldSeq, pbftVars, viewVars
<1>10. RepliesBounded'
  <2>1. blocks' = blocks
    BY DEF HandleRequestOldSeq, pbftVars
  <2>2. reply.end <= Len(blocks) /\ reply.reqs \in Seq(1 .. Len(blocks))
    BY <1>2, <1>5
  <2> HIDE DEF reply
  <2> QED BY <1>7, <2>1, <2>2 DEF TypeInv, RepliesBounded
<1>11. /\ SeqBounded' /\ BlockSeqBounded' /\ PoolsBounded' /\ RequestsBounded' /\ ViewsBounded'
    BY DEF TypeInv, SeqBounded, BlockSeqBounded, PoolsBounded, RequestsBounded, ViewsBounded,
           HandleRequestOldSeq, pbftVars, viewVars
<1> QED BY <1>9, <1>10, <1>11 DEF TypeInv

\* What an answer on its way holds.
LEMMA ReplyFacts ==
    ASSUME TypeInv, NEW m \in oldReplies
    PROVE  /\ m \in OldReply /\ m.to \in Node /\ m.start \in Nat \ {0} /\ m.end \in Block
           /\ m.reqs \in Seq(Block) /\ m.done \in Nat
           /\ m.end <= Len(blocks) /\ m.reqs \in Seq(1 .. Len(blocks))
           /\ Len(m.reqs) \in Nat
           /\ \A i \in 1 .. Len(m.reqs) : m.reqs[i] \in Block /\ m.reqs[i] \in 1 .. Len(blocks)
<1>1. m \in OldReply /\ m.end <= Len(blocks) /\ m.reqs \in Seq(1 .. Len(blocks))
    BY DEF TypeInv, TypeOK, RepliesBounded
<1>2. m.reqs \in Seq(Block)
    BY <1>1 DEF OldReply
<1>3. \A i \in 1 .. Len(m.reqs) : m.reqs[i] \in Block /\ m.reqs[i] \in 1 .. Len(blocks)
    BY <1>1, <1>2, ElementOfSeq
<1> QED BY <1>1, <1>2, <1>3 DEF OldReply

\* The sequence number after the range of an answer is in range.
LEMMA EndInRange ==
    ASSUME TypeInv, NEW m \in oldReplies
    PROVE  m.end + 1 \in SeqID /\ m.end + 1 <= Len(blocks) + 1
<1>1. m.end \in Block /\ m.end <= Len(blocks)
    BY ReplyFacts
<1>2. Len(blocks) \in Nat /\ Len(blocks) <= MaxBlocks
    BY DEF TypeInv, TypeOK
<1> QED BY <1>1, <1>2, BoundsAssumption DEF Block, SeqID

\* Catching up appends requests of the answer, then moves to the end of its range.
LEMMA TypeHandleforSequentialRequest ==
    ASSUME TypeInv, NEW n \in Node, NEW m \in oldReplies, HandleforSequentialRequest(n, m)
    PROVE  TypeInv'
<1> DEFINE next == [m EXCEPT !.done = @ + 1]
<1>1. next \in OldReply /\ next.end = m.end /\ next.reqs = m.reqs
    BY ReplyFacts DEF OldReply
<1>2. oldReplies' = (oldReplies \ {m}) \cup {next}
    BY DEF HandleforSequentialRequest
<1>3. m.end + 1 \in SeqID /\ m.end + 1 <= Len(blocks) + 1
    BY EndInRange
<1>4. TypeOK'
  <2>1. chain' \in [Node -> Seq(Block)]
    <3>1. CASE chain' = chain
      BY <3>1 DEF TypeInv, TypeOK
    <3>2. CASE m.done < Len(m.reqs) /\ chain' = [chain EXCEPT ![n] = AddBlock(@, m.reqs[m.done + 1])]
      <4>1. m.reqs[m.done + 1] \in Block
        BY <3>2, ReplyFacts
      <4> QED BY <3>2, <4>1, TypeAddBlock DEF TypeInv, TypeOK
    <3> QED BY <3>1, <3>2 DEF HandleforSequentialRequest
  <2>2. oldReplies' \in SUBSET OldReply
    BY <1>1, <1>2 DEF TypeInv, TypeOK
  <2>3. sequenceID' \in [Node -> SeqID]
    <3>1. sequenceID' = sequenceID \/ sequenceID' = [sequenceID EXCEPT ![n] = m.end + 1]
      BY DEF HandleforSequentialRequest
    <3> QED BY <1>3, <3>1 DEF TypeInv, TypeOK
  <2> QED BY <2>1, <2>2, <2>3 DEF TypeInv, TypeOK, HandleforSequentialRequest, viewVars
<1>5. RepliesBounded'
    BY <1>1, <1>2 DEF TypeInv, RepliesBounded, HandleforSequentialRequest
<1>6. SeqBounded'
  <2>1. sequenceID' = sequenceID \/ sequenceID' = [sequenceID EXCEPT ![n] = m.end + 1]
    BY DEF HandleforSequentialRequest
  <2>2. sequenceID \in [Node -> SeqID] /\ blocks' = blocks
    BY DEF TypeInv, TypeOK, HandleforSequentialRequest
  <2> QED BY <1>3, <2>1, <2>2 DEF TypeInv, SeqBounded
<1>7. /\ BlockSeqBounded' /\ PoolsBounded' /\ RequestsBounded' /\ ViewsBounded'
    BY DEF TypeInv, BlockSeqBounded, PoolsBounded, RequestsBounded, ViewsBounded,
           HandleforSequentialRequest, viewVars
<1> QED BY <1>4, <1>5, <1>6, <1>7 DEF TypeInv

\* The rest of handleSendOldSeq stores the requests of the answer.
LEMMA TypeHandleSendOldSeq ==
    ASSUME TypeInv, NEW n \in Node, NEW m \in oldReplies, HandleSendOldSeq(n, m)
    PROVE  TypeInv'
<1> USE BoundsAssumption
<1> DEFINE got == {m.reqs[i] : i \in 1 .. Len(m.reqs)}
           pool == requestPool[n] \cup got
           h2d == [s \in SeqID |-> IF s - m.start + 1 \in 1 .. Len(m.reqs)
                                   THEN m.reqs[s - m.start + 1] ELSE height2Digest[n][s]]
           next == h2d[m.end + 1]
<1>1. got \subseteq Block /\ got \subseteq 1 .. Len(blocks)
    BY ReplyFacts
<1>2. m.end + 1 \in SeqID /\ m.end + 1 <= Len(blocks) + 1
    BY EndInRange
<1>3. /\ requestPool' = [requestPool EXCEPT ![n] = pool]
      /\ height2Digest' = [height2Digest EXCEPT ![n] = h2d]
      /\ isReply' = [isReply EXCEPT ![n] = @ \cup got]
      /\ prepares' = IF next \in pool /\ IsValidBlock(next, chain[n])
                     THEN PrepareToOthers(n, next) ELSE prepares
    BY DEF HandleSendOldSeq
<1> HIDE DEF got, h2d, next
<1>4. TypeOK'
  <2>1. requestPool' \in [Node -> SUBSET Block] /\ isReply' \in [Node -> SUBSET Block]
    BY <1>1, <1>3 DEF TypeInv, TypeOK
  <2>2. height2Digest' \in [Node -> [SeqID -> Block \cup {None}]]
    <3>1. height2Digest \in [Node -> [SeqID -> Block \cup {None}]]
      BY DEF TypeInv, TypeOK
    <3>2. h2d \in [SeqID -> Block \cup {None}]
      BY <3>1, ReplyFacts DEF h2d
    <3> QED BY <1>3, <3>1, <3>2
  <2>3. prepares' \in [Node -> [Block -> Nat]]
    <3>1. prepares \in [Node -> [Block -> Nat]] /\ pool \subseteq Block
      BY <1>1 DEF TypeInv, TypeOK
    <3>2. prepares' = prepares \/ (next \in Block /\ prepares' = PrepareToOthers(n, next))
      BY <1>3, <3>1
    <3> QED BY <3>1, <3>2, PrepareSent
  <2>4. sequenceID' \in [Node -> SeqID]
    BY <1>2 DEF TypeInv, TypeOK, HandleSendOldSeq
  <2>5. askForLock' \in [Node -> BOOLEAN] /\ oldReplies' \in SUBSET OldReply
    BY DEF TypeInv, TypeOK, HandleSendOldSeq
  <2>6. fatal' \in SUBSET Node
    <3>1. fatal' = fatal \/ fatal' = fatal \cup {n}
      BY DEF HandleSendOldSeq
    <3> QED BY <3>1 DEF TypeInv, TypeOK
  <2> QED BY <2>1, <2>2, <2>3, <2>4, <2>5, <2>6 DEF TypeInv, TypeOK, HandleSendOldSeq, viewVars
<1>5. SeqBounded'
    BY <1>2 DEF TypeInv, TypeOK, SeqBounded, HandleSendOldSeq
<1>6. PoolsBounded'
  <2>1. \A k \in Node : requestPool'[k] \subseteq requestPool[k] \cup got
    BY <1>3 DEF TypeInv, TypeOK
  <2> QED BY <1>1, <2>1 DEF TypeInv, PoolsBounded, HandleSendOldSeq
<1>7. /\ BlockSeqBounded' /\ RequestsBounded' /\ RepliesBounded' /\ ViewsBounded'
    BY DEF TypeInv, BlockSeqBounded, RequestsBounded, RepliesBounded, ViewsBounded,
           HandleSendOldSeq, viewVars
<1> QED BY <1>4, <1>5, <1>6, <1>7 DEF TypeInv

\* What a node proposes or announces in a view change: the view after its own
\* and its own sequence number.
LEMMA OwnViewData ==
    ASSUME TypeInv, NEW n \in Node
    PROVE  LET data == [next |-> (view[n] + 1) % N, seq |-> sequenceID[n]]
           IN  data \in ViewChangeData /\ data.seq <= Len(blocks) + 1
<1>1. view[n] \in Node /\ sequenceID[n] \in SeqID /\ sequenceID[n] <= Len(blocks) + 1
    BY DEF TypeInv, TypeOK, SeqBounded
<1>2. (view[n] + 1) % N \in Node
    BY <1>1, NAssumption DEF Node
<1> QED BY <1>1, <1>2 DEF ViewChangeData

\* viewChangePropose adds one message and touches nothing else.
LEMMA TypeViewChangePropose ==
    ASSUME TypeInv, NEW n \in Node, ViewChangePropose(n) PROVE TypeInv'
<1> DEFINE id == Cardinality(viewChanges) + 1
           data == [next |-> (view[n] + 1) % N, seq |-> sequenceID[n]]
           msg == [data |-> data, from |-> n, id |-> id]
<1>1. id \in Nat
  <2>1. Cardinality(viewChanges) \in Nat
    BY FS_CardinalityType DEF TypeInv, ViewsBounded
  <2> QED BY <2>1
<1>2. viewChanges' = viewChanges \cup {msg}
    BY DEF ViewChangePropose
<1>3. data \in ViewChangeData /\ data.seq <= Len(blocks) + 1
    BY OwnViewData
<1> HIDE DEF id, data
<1>4. msg \in ViewMsg /\ msg.data.seq <= Len(blocks) + 1
    BY <1>1, <1>3 DEF ViewMsg
<1> HIDE DEF msg
<1>5. TypeOK'
    BY <1>2, <1>4 DEF TypeInv, TypeOK, ViewChangePropose, pbftVars, netVars
<1>6. ViewsBounded'
  <2>1. IsFiniteSet(viewChanges')
    BY <1>2, FS_AddElement DEF TypeInv, ViewsBounded
  <2> QED BY <1>2, <1>4, <2>1 DEF TypeInv, ViewsBounded, ViewChangePropose, pbftVars
<1>7. /\ SeqBounded' /\ BlockSeqBounded' /\ PoolsBounded' /\ RequestsBounded' /\ RepliesBounded'
    BY DEF TypeInv, SeqBounded, BlockSeqBounded, PoolsBounded, RequestsBounded, RepliesBounded,
           ViewChangePropose, pbftVars, netVars
<1> QED BY <1>5, <1>6, <1>7 DEF TypeInv

\* handleViewChangeMsg announces this node's own view data.
LEMMA TypeHandleViewChangeMsg ==
    ASSUME TypeInv, NEW n \in Node, NEW d \in ViewChangeData, HandleViewChangeMsg(n, d)
    PROVE  TypeInv'
<1> DEFINE id == viewChangeMap[n][d] + 1
           data == [next |-> (view[n] + 1) % N, seq |-> sequenceID[n]]
           msg == [data |-> data, from |-> n, of |-> d, id |-> id]
<1>1. id \in Nat /\ viewChangeMap' \in [Node -> [ViewChangeData -> Nat]]
  <2>1. viewChangeMap \in [Node -> [ViewChangeData -> Nat]]
    BY DEF TypeInv, TypeOK
  <2>2. viewChangeMap' = [viewChangeMap EXCEPT ![n][d] = @ + 1]
    BY DEF HandleViewChangeMsg
  <2> QED BY <2>1, <2>2
<1>2. newViews' = newViews \cup {msg}
    BY DEF HandleViewChangeMsg
<1>3. data \in ViewChangeData /\ data.seq <= Len(blocks) + 1
    BY OwnViewData
<1> HIDE DEF id, data
<1>4. msg \in NewViewMsg /\ msg.data.seq <= Len(blocks) + 1
    BY <1>1, <1>3 DEF NewViewMsg
<1> HIDE DEF msg
<1>5. TypeOK'
    BY <1>1, <1>2, <1>4 DEF TypeInv, TypeOK, HandleViewChangeMsg, pbftVars, netVars
<1>6. ViewsBounded'
    BY <1>2, <1>4 DEF TypeInv, ViewsBounded, HandleViewChangeMsg, pbftVars
<1>7. /\ SeqBounded' /\ BlockSeqBounded' /\ PoolsBounded' /\ RequestsBounded' /\ RepliesBounded'
    BY DEF TypeInv, SeqBounded, BlockSeqBounded, PoolsBounded, RequestsBounded, RepliesBounded,
           HandleViewChangeMsg, pbftVars, netVars
<1> QED BY <1>5, <1>6, <1>7 DEF TypeInv

\* A quorum of messages is more than none: 2f+1 is at least one.
LEMMA QuorumNeedsMessage ==
    ASSUME NEW msgs, NEW k \in Nat, k < QuorumHits(msgs) PROVE msgs # {}
<1> SUFFICES ASSUME msgs = {} PROVE FALSE
    OBVIOUS
<1>1. Cardinality({m.from : m \in msgs}) = 0
  <2>1. {m.from : m \in msgs} = {}
    OBVIOUS
  <2> QED BY <2>1, FS_EmptySet
<1>2. Quorum \in Nat /\ Quorum >= 1
    BY NAssumption DEF Quorum, malicious_nums
<1> QED BY <1>1, <1>2 DEF QuorumHits

\* handleNewViewMsg adopts the data of a message some node has sent.
LEMMA TypeHandleNewViewMsg ==
    ASSUME TypeInv, NEW n \in Node, NEW d \in ViewChangeData, HandleNewViewMsg(n, d)
    PROVE  TypeInv'
<1>1. d.next \in Node /\ d.seq \in SeqID
    BY DEF ViewChangeData
<1>2. newViewMap \in [Node -> [ViewChangeData -> Nat]]
    BY DEF TypeInv, TypeOK
<1>3. d.seq <= Len(blocks) + 1
  <2>1. newViewMap[n][d] \in Nat
    BY <1>2
  <2>2. {m \in newViews : m.data = d} # {}
    BY <2>1, QuorumNeedsMessage DEF HandleNewViewMsg
  <2> QED BY <2>2 DEF TypeInv, ViewsBounded
<1>4. TypeOK'
  <2>1. newViewMap' \in [Node -> [ViewChangeData -> Nat]]
    <3>1. newViewMap' = [newViewMap EXCEPT ![n][d] = @ + 1]
      BY DEF HandleNewViewMsg
    <3> QED BY <1>2, <3>1
  <2>2. view' \in [Node -> Node] /\ sequenceID' \in [Node -> SeqID]
    BY <1>1 DEF TypeInv, TypeOK, HandleNewViewMsg
  <2> QED BY <2>1, <2>2 DEF TypeInv, TypeOK, HandleNewViewMsg, netVars
<1>5. SeqBounded'
    BY <1>3 DEF TypeInv, TypeOK, SeqBounded, HandleNewViewMsg
<1>6. /\ BlockSeqBounded' /\ PoolsBounded' /\ RequestsBounded' /\ RepliesBounded' /\ ViewsBounded'
    BY DEF TypeInv, BlockSeqBounded, PoolsBounded, RequestsBounded, RepliesBounded,
           ViewsBounded, HandleNewViewMsg, netVars
<1> QED BY <1>4, <1>5, <1>6 DEF TypeInv

\* A round step of any node.
LEMMA TypeRound == ASSUME TypeInv, Round PROVE TypeInv'
BY TypeProposeSignal, TypePropose, TypeHandlePrePrepare, TypeHandlePrepare, TypeHandleCommit,
   TypeHandleCommitMissing, TypeHandleCommitBlocks, TypeHandleCommitResumes,
   TypeHandleRequestOldSeq, TypeHandleforSequentialRequest, TypeHandleSendOldSeq
   DEF Round

\* A view-change step of any node.
LEMMA TypeChangeView == ASSUME TypeInv, ChangeView PROVE TypeInv'
BY TypeViewChangePropose, TypeHandleViewChangeMsg, TypeHandleNewViewMsg DEF ChangeView

\* A step that changes nothing.
LEMMA TypeStutter == ASSUME TypeInv, UNCHANGED vars PROVE TypeInv'
BY DEF vars, pbftVars, netVars, viewVars, TypeInv, TypeOK, SeqBounded, BlockSeqBounded,
       PoolsBounded, RequestsBounded, RepliesBounded, ViewsBounded

\* No interleaving of rounds, catch-up and view changes takes a variable of a
\* replica out of its type: no sequence number or digest of a map lookup is
\* ever outside the proposals made.
THEOREM TypeCorrect == Spec => []TypeOK
<1>1. Init => TypeInv
    BY TypeInit
<1>2. TypeInv /\ [Next]_vars => TypeInv'
    BY TypeRound, TypeChangeView, TypeStutter DEF Next
<1>3. TypeInv => TypeOK
    BY DEF TypeInv
<1> QED BY <1>1, <1>2, <1>3, PTL DEF Spec
-----------------------------------------------------------------------------
(* A block has one history, also when views change and chains fork.        *)
(* OneHistory is not inductive alone: when a node appends a block that     *)
(* another node holds already, the two histories agree because both chains *)
(* are hash-linked, so the invariant carries Linked as well.               *)

\* Every block of a chain is proposed, and names its predecessor as parent.
Linked ==
    \A n \in Node : \A i \in 1 .. Len(chain[n]) :
        /\ chain[n][i] \in 1 .. Len(blocks)
        /\ blocks[chain[n][i]].parent = IF i = 1 THEN None ELSE chain[n][i - 1]

\* OneHistory for chains indexed by 1 .. Len.
SameHistory ==
    \A n, m \in Node : \A i \in 1 .. Len(chain[n]), j \in 1 .. Len(chain[m]) :
        chain[n][i] = chain[m][j] =>
            /\ i = j
            /\ \A k \in 1 .. i : chain[n][k] = chain[m][k]

HistoryInv == Linked /\ SameHistory

\* Empty chains have a history.
LEMMA HistoryInit == Init => HistoryInv
BY DEF Init, HistoryInv, Linked, SameHistory

\* No step but an execution of a block touches a chain.
LEMMA HistoryChainUnchanged ==
    ASSUME TypeInv, HistoryInv, chain' = chain,
           \/ blocks' = blocks
           \/ \E r : blocks' = Append(blocks, r)
    PROVE  HistoryInv'
<1>1. \A c \in 1 .. Len(blocks) : c \in 1 .. Len(blocks') /\ blocks'[c] = blocks[c]
  <2>1. blocks \in Seq([seq : Block, parent : Block \cup {None}]) /\ Len(blocks) \in Nat
    BY DEF TypeInv, TypeOK
  <2>2. CASE blocks' = blocks
    BY <2>2
  <2>3. ASSUME NEW r, blocks' = Append(blocks, r)
        PROVE  \A c \in 1 .. Len(blocks) : c \in 1 .. Len(blocks') /\ blocks'[c] = blocks[c]
    BY <2>1, <2>3
  <2> QED BY <2>2, <2>3
<1>2. Linked'
    BY <1>1 DEF HistoryInv, Linked
<1>3. SameHistory'
    BY DEF HistoryInv, SameHistory
<1> QED BY <1>2, <1>3 DEF HistoryInv

\* The block AddBlock appends names the last block of the chain as parent.
LEMMA HistoryAddBlock ==
    ASSUME TypeInv, HistoryInv, NEW n \in Node, NEW b \in 1 .. Len(blocks), blocks' = blocks,
           chain' = [chain EXCEPT ![n] = AddBlock(@, b)]
    PROVE  HistoryInv'
<1> DEFINE c == chain[n]
           L == Len(c)
<1>1. chain \in [Node -> Seq(Block)] /\ c \in Seq(Block) /\ L \in Nat /\ b \in Block
    BY BlockFacts DEF TypeInv, TypeOK
<1>2. CASE ~IsValidBlock(b, c)
  <2>1. chain' = chain
    BY <1>1, <1>2 DEF AddBlock
  <2> QED BY <2>1, HistoryChainUnchanged
<1>3. CASE IsValidBlock(b, c)
  <2>1. chain' = [chain EXCEPT ![n] = Append(c, b)]
    BY <1>1, <1>3 DEF AddBlock
  <2>2. /\ \A m \in Node : m # n => chain'[m] = chain[m]
        /\ Len(chain'[n]) = L + 1
        /\ \A i \in 1 .. L : chain'[n][i] = c[i]
        /\ chain'[n][L + 1] = b
    BY <1>1, <2>1
  <2>3. blocks[b].parent = IF L = 0 THEN None ELSE c[L]
    BY <1>1, <1>3 DEF IsValidBlock, CurrentBlock
  <2>4. \A m \in Node : \A i \in 1 .. Len(chain[m]) :
            /\ chain[m][i] \in 1 .. Len(blocks)
            /\ blocks[chain[m][i]].parent = IF i = 1 THEN None ELSE chain[m][i - 1]
    BY DEF HistoryInv, Linked
  <2>5. \A m \in Node : Len(chain[m]) \in Nat
    BY <1>1
  <2>6. \A m \in Node : \A i \in 1 .. Len(chain[m]) : chain[m][i] # None
    BY <2>4 DEF None
  <2>7. Linked'
    <3> SUFFICES ASSUME NEW m \in Node, NEW i \in 1 .. Len(chain'[m])
                 PROVE  /\ chain'[m][i] \in 1 .. Len(blocks)
                        /\ blocks[chain'[m][i]].parent = IF i = 1 THEN None ELSE chain'[m][i - 1]
      BY DEF Linked
    <3>1. CASE m # n
      BY <2>2, <2>4, <3>1
    <3>2. CASE m = n /\ i \in 1 .. L
      <4>1. chain'[n][i] = c[i]
        BY <2>2, <3>2
      <4>2. i # 1 => chain'[n][i - 1] = c[i - 1]
        BY <1>1, <2>2, <3>2
      <4> QED BY <2>4, <3>2, <4>1, <4>2
    <3>3. CASE m = n /\ i = L + 1
      BY <1>1, <2>2, <2>3, <3>3
    <3> QED BY <1>1, <2>2, <3>1, <3>2, <3>3
  \* The new block at height L+1 against any height of the chains before the step.
  <2>8. ASSUME NEW m \in Node, NEW j \in 1 .. Len(chain[m]), chain[m][j] = b
        PROVE  j = L + 1 /\ \A k \in 1 .. L : c[k] = chain[m][k]
    <3>1. blocks[b].parent = IF j = 1 THEN None ELSE chain[m][j - 1]
      BY <2>4, <2>8
    <3>2. CASE j = 1
      BY <1>1, <2>3, <2>6, <3>1, <3>2
    <3>3. CASE j # 1
      <4>1. j - 1 \in 1 .. Len(chain[m]) /\ chain[m][j - 1] # None
        BY <2>5, <2>6, <3>3
      <4>2. L # 0 /\ c[L] = chain[m][j - 1] /\ L \in 1 .. Len(c)
        BY <1>1, <2>3, <3>1, <3>3, <4>1
      <4>3. L = j - 1 /\ \A k \in 1 .. L : c[k] = chain[m][k]
        BY <4>1, <4>2 DEF HistoryInv, SameHistory
      <4> QED BY <1>1, <4>3
    <3> QED BY <3>2, <3>3
  <2>9. SameHistory'
    <3> SUFFICES ASSUME NEW p \in Node, NEW m \in Node, NEW i \in 1 .. Len(chain'[p]),
                        NEW j \in 1 .. Len(chain'[m]), chain'[p][i] = chain'[m][j]
                 PROVE  i = j /\ \A k \in 1 .. i : chain'[p][k] = chain'[m][k]
      BY DEF SameHistory
    <3> DEFINE new(q, h) == q = n /\ h = L + 1
    <3>1. \A q \in Node : \A h \in 1 .. Len(chain'[q]) :
              ~new(q, h) => h \in 1 .. Len(chain[q]) /\ chain'[q][h] = chain[q][h]
      BY <1>1, <2>2
    <3>2. \A q \in Node : \A h \in 1 .. Len(chain[q]) : chain'[q][h] = chain[q][h]
      BY <2>2
    <3>3. CASE new(p, i) /\ new(m, j)
      BY <3>3
    <3>4. CASE new(p, i) /\ ~new(m, j)
      <4>1. j \in 1 .. Len(chain[m]) /\ chain[m][j] = b
        BY <2>2, <3>1, <3>4
      <4>2. j = L + 1 /\ \A k \in 1 .. L : c[k] = chain[m][k]
        BY <2>8, <4>1
      <4>3. \A k \in 1 .. L : chain'[p][k] = chain'[m][k]
        BY <1>1, <2>2, <2>5, <3>2, <3>4, <4>1, <4>2
      <4> QED BY <1>1, <3>4, <4>2, <4>3
    <3>5. CASE ~new(p, i) /\ new(m, j)
      <4>1. i \in 1 .. Len(chain[p]) /\ chain[p][i] = b
        BY <2>2, <3>1, <3>5
      <4>2. i = L + 1 /\ \A k \in 1 .. L : c[k] = chain[p][k]
        BY <2>8, <4>1
      <4>3. \A k \in 1 .. L : chain'[p][k] = chain'[m][k]
        BY <1>1, <2>2, <2>5, <3>2, <3>5, <4>1, <4>2
      <4> QED BY <1>1, <3>5, <4>2, <4>3
    <3>6. CASE ~new(p, i) /\ ~new(m, j)
      <4>1. /\ i \in 1 .. Len(chain[p]) /\ j \in 1 .. Len(chain[m])
            /\ chain[p][i] = chain[m][j]
        BY <3>1, <3>6
      <4>2. i = j /\ \A k \in 1 .. i : chain[p][k] = chain[m][k]
        BY <4>1 DEF HistoryInv, SameHistory
      <4>3. \A k \in 1 .. i : k \in 1 .. Len(chain[p]) /\ k \in 1 .. Len(chain[m])
        BY <2>5, <4>1, <4>2
      <4> QED BY <3>2, <4>2, <4>3
    <3> QED BY <3>3, <3>4, <3>5, <3>6
  <2> QED BY <2>7, <2>9 DEF HistoryInv
<1> QED BY <1>2, <1>3

\* Only handleCommit and HandleforSequentialRequest execute blocks.
LEMMA HistoryStep == ASSUME TypeInv, HistoryInv, [Next]_vars PROVE HistoryInv'
<1>1. ASSUME NEW n \in Node, NEW b \in Block, HandleCommit(n, b) PROVE HistoryInv'
  <2>1. b \in 1 .. Len(blocks) /\ blocks' = blocks
    BY <1>1 DEF HandleCommit, CommitQuorum
  <2> QED BY <1>1, <2>1, HistoryAddBlock DEF HandleCommit
<1>2. ASSUME NEW n \in Node, NEW m \in oldReplies, HandleforSequentialRequest(n, m)
      PROVE  HistoryInv'
  <2>1. blocks' = blocks
    BY <1>2 DEF HandleforSequentialRequest
  <2>2. CASE chain' = chain
    BY <2>1, <2>2, HistoryChainUnchanged
  <2>3. CASE /\ m.done < Len(m.reqs)
             /\ chain' = [chain EXCEPT ![n] = AddBlock(@, m.reqs[m.done + 1])]
    <3>1. m.reqs[m.done + 1] \in 1 .. Len(blocks)
      BY <2>3, ReplyFacts
    <3> QED BY <2>1, <2>3, <3>1, HistoryAddBlock
  <2> QED BY <1>2, <2>2, <2>3 DEF HandleforSequentialRequest
<1>3. ASSUME NEW n \in Node, Propose(n) PROVE HistoryInv'
    BY <1>3, HistoryChainUnchanged DEF Propose
<1>4. ASSUME NEW n \in Node, NEW b \in Block,
             HandlePrePrepare(n, b) \/ HandlePrepare(n, b) \/ HandleCommitMissing(n, b)
             \/ HandleCommitBlocks(n, b)
      PROVE  HistoryInv'
  <2>1. chain' = chain /\ blocks' = blocks
    BY <1>4 DEF HandlePrePrepare, HandlePrepare, HandleCommitMissing, HandleCommitBlocks
  <2> QED BY <2>1, HistoryChainUnchanged
<1>5. ASSUME NEW n \in Node, HandleCommitResumes(n) \/ ProposeSignal(n) \/ ViewChangePropose(n)
      PROVE  HistoryInv'
  <2>1. chain' = chain /\ blocks' = blocks
    BY <1>5 DEF HandleCommitResumes, ProposeSignal, ViewChangePropose, pbftVars
  <2> QED BY <2>1, HistoryChainUnchanged
<1>6. ASSUME NEW n \in Node, NEW m, HandleRequestOldSeq(n, m) \/ HandleSendOldSeq(n, m)
      PROVE  HistoryInv'
  <2>1. chain' = chain /\ blocks' = blocks
    BY <1>6 DEF HandleRequestOldSeq, HandleSendOldSeq, pbftVars
  <2> QED BY <2>1, HistoryChainUnchanged
<1>7. ASSUME NEW n \in Node, NEW d \in ViewChangeData,
             HandleViewChangeMsg(n, d) \/ HandleNewViewMsg(n, d)
      PROVE  HistoryInv'
  <2>1. chain' = chain /\ blocks' = blocks
    BY <1>7 DEF HandleViewChangeMsg, HandleNewViewMsg, pbftVars
  <2> QED BY <2>1, HistoryChainUnchanged
<1>8. CASE UNCHANGED vars
    BY <1>8, HistoryChainUnchanged DEF vars, pbftVars
<1> QED BY <1>1, <1>2, <1>3, <1>4, <1>5, <1>6, <1>7, <1>8 DEF Next, Round, ChangeView

\* Whatever views are changed to and whatever is caught up with, two nodes
\* that hold one block hold it at one height, on one history.
THEOREM HistoryIsOne == Spec => []OneHistory
<1>1. Init => TypeInv /\ HistoryInv
    BY TypeInit, HistoryInit
<1>2. TypeInv /\ HistoryInv /\ [Next]_vars => TypeInv' /\ HistoryInv'
    BY TypeRound, TypeChangeView, TypeStutter, HistoryStep DEF Next
<1>3. TypeInv /\ HistoryInv => OneHistory
  <2>1. ASSUME TypeInv PROVE \A n \in Node : DOMAIN chain[n] = 1 .. Len(chain[n])
    BY <2>1 DEF TypeInv, TypeOK
  <2> QED BY <2>1 DEF HistoryInv, SameHistory, OneHistory
<1> QED BY <1>1, <1>2, <1>3, PTL DEF Spec
-----------------------------------------------------------------------------
(***************************************************************************)
(* FixedViewSpec: while no timer expires, the replicas of a shard agree,   *)
(* whatever is delayed, reordered or caught up with, for any number of     *)
(* nodes and of blocks.                                                    *)
(*                                                                         *)
(* The argument: the first leader opens a round only when its previous one *)
(* is closed, so the block with number b is proposed for sequence b on     *)
(* parent b-1.  The parent check of AddBlock then keeps position i of      *)
(* every chain for block i, even where sequenceID runs ahead of the chain. *)
(***************************************************************************)

\* Only the first node is, or has found itself to be, the leader.
ViewZero == (\A n \in Node : view[n] = 0) /\ proposing \subseteq {0}

\* Proposals are numbered without gaps, each on top of the one before.
Numbered == \A b \in 1 .. Len(blocks) : blocks[b].seq = b /\ blocks[b].parent = b - 1

DigestAtHeight == \A n \in Node : \A s \in SeqID : height2Digest[n][s] \in {None, s}

ChainsInOrder == \A n \in Node : \A i \in 1 .. Len(chain[n]) : chain[n][i] = i

\* The leader is at the block it builds, or has one round open.
LeaderRound ==
    /\ sequenceID[0] = Len(chain[0]) + 1
    /\ Len(blocks) = IF sequenceLock[0] THEN Len(chain[0]) + 1 ELSE Len(chain[0])
    /\ 1 .. Len(blocks) \subseteq requestPool[0]
    /\ ~askForLock[0]
    /\ asking[0] = None

\* The leader never asks.  A node has at most one query or answer under way, and
\* holds askForLock while it does; answers list the heights in order.
QueryOwned ==
    /\ \A m \in oldRequests : m.from # 0 /\ m.to = 0 /\ askForLock[m.from]
    /\ \A m \in oldReplies :
        /\ m.to # 0 /\ askForLock[m.to]
        /\ \A i \in 1 .. Len(m.reqs) : m.reqs[i] = m.start + i - 1 /\ m.reqs[i] <= m.end
OneQuery ==
    /\ \A m, q \in oldRequests : m.from = q.from => m = q
    /\ \A m, q \in oldReplies : m.to = q.to => m = q
    /\ \A m \in oldRequests : \A q \in oldReplies : m.from # q.to

FixedInv ==
    /\ ViewZero
    /\ Numbered
    /\ DigestAtHeight
    /\ ChainsInOrder
    /\ LeaderRound
    /\ QueryOwned
    /\ OneQuery
    /\ QueryOpen
    /\ NoFatalUnlock

\* The first node exists.
LEMMA LeaderIsNode == 0 \in Node
BY NAssumption DEF Node

\* NewPbftNode establishes the invariant.
LEMMA FixedInit == Init => FixedInv
BY LeaderIsNode, BoundsAssumption
   DEF Init, FixedInv, ViewZero, Numbered, DigestAtHeight, ChainsInOrder, LeaderRound,
       QueryOwned, OneQuery, QueryOpen, NoFatalUnlock, None, SeqID

\* On chains and proposals in order, AddBlock appends exactly the next block.
LEMMA AddBlockInOrder ==
    ASSUME TypeInv, Numbered, NEW c \in Seq(Block), NEW b \in 1 .. Len(blocks),
           \A i \in 1 .. Len(c) : c[i] = i
    PROVE  /\ AddBlock(c, b) \in Seq(Block)
           /\ \A i \in 1 .. Len(AddBlock(c, b)) : AddBlock(c, b)[i] = i
           /\ Len(AddBlock(c, b)) = IF b = Len(c) + 1 THEN Len(c) + 1 ELSE Len(c)
<1>1. b \in Block /\ b \in Nat /\ blocks[b].parent = b - 1
    BY BlockFacts DEF Numbered, Block
<1>2. Len(c) \in Nat /\ CurrentBlock(c) = Len(c)
  <2>1. CASE c = <<>>
    BY <2>1 DEF CurrentBlock, None
  <2>2. CASE c # <<>>
    <3>1. Len(c) \in Nat /\ Len(c) >= 1
      BY <2>2
    <3> QED BY <2>2, <3>1 DEF CurrentBlock
  <2> QED BY <2>1, <2>2
<1>3. IsValidBlock(b, c) <=> b = Len(c) + 1
    BY <1>1, <1>2 DEF IsValidBlock
<1>4. CASE b = Len(c) + 1
  <2>1. AddBlock(c, b) = Append(c, b)
    BY <1>3, <1>4 DEF AddBlock
  <2>2. /\ Append(c, b) \in Seq(Block)
        /\ Len(Append(c, b)) = Len(c) + 1
        /\ \A i \in 1 .. Len(c) : Append(c, b)[i] = c[i]
        /\ Append(c, b)[Len(c) + 1] = b
    BY <1>1
  <2> QED BY <1>2, <1>4, <2>1, <2>2
<1>5. CASE b # Len(c) + 1
    BY <1>3, <1>5 DEF AddBlock
<1> QED BY <1>4, <1>5

\* Only the leader takes up a round signal.
LEMMA FixedProposeSignal ==
    ASSUME TypeInv, FixedInv, NEW n \in Node, ProposeSignal(n) PROVE FixedInv'
<1>1. n = 0
    BY DEF FixedInv, ViewZero, ProposeSignal
<1> QED BY <1>1 DEF FixedInv, ViewZero, Numbered, DigestAtHeight, ChainsInOrder, LeaderRound,
       QueryOwned, OneQuery, QueryOpen, NoFatalUnlock, ProposeSignal, netVars

\* Propose opens the next number on the leader's whole chain; only the first
\* leader proposes.
LEMMA FixedPropose ==
    ASSUME TypeInv, FixedInv, NEW n \in Node, Propose(n) PROVE FixedInv'
<1> USE LeaderIsNode
<1> DEFINE L == Len(blocks)
           b == L + 1
<1>1. n = 0
    BY DEF FixedInv, ViewZero, Propose
<1>2. /\ L \in Nat /\ Len(chain[0]) = L /\ sequenceID[0] = b /\ ~sequenceLock[0]
      /\ b \in SeqID
  <2>1. L \in Nat /\ ~sequenceLock[0] /\ sequenceID[0] \in SeqID
    BY <1>1 DEF TypeInv, TypeOK, Propose
  <2> QED BY <2>1 DEF FixedInv, LeaderRound
<1>3. CurrentBlock(chain[0]) = L
  <2>1. chain[0] \in Seq(Block) /\ \A i \in 1 .. L : chain[0][i] = i
    BY <1>2 DEF TypeInv, TypeOK, FixedInv, ChainsInOrder
  <2>2. CASE L = 0
    BY <1>2, <2>1, <2>2 DEF CurrentBlock, None
  <2>3. CASE L # 0
    BY <1>2, <2>1, <2>3 DEF CurrentBlock
  <2> QED BY <2>2, <2>3
<1>4. /\ Len(blocks') = b
      /\ \A c \in 1 .. L : blocks'[c] = blocks[c]
      /\ blocks'[b] = [seq |-> b, parent |-> L]
  <2>1. blocks' = Append(blocks, [seq |-> b, parent |-> L])
    BY <1>1, <1>2, <1>3 DEF Propose
  <2>2. blocks \in Seq([seq : Block, parent : Block \cup {None}])
    BY DEF TypeInv, TypeOK
  <2> QED BY <1>2, <2>1, <2>2
<1>5. Numbered'
    BY <1>2, <1>4 DEF FixedInv, Numbered
<1>6. DigestAtHeight'
  <2>1. height2Digest' = [height2Digest EXCEPT ![0][b] = b]
    BY <1>1, <1>2 DEF Propose
  <2>2. height2Digest \in [Node -> [SeqID -> Block \cup {None}]]
    BY DEF TypeInv, TypeOK
  <2> QED BY <1>2, <2>1, <2>2 DEF FixedInv, DigestAtHeight
<1>7. LeaderRound'
  <2>1. sequenceLock'[0] /\ 1 .. b \subseteq requestPool'[0]
    BY <1>1, <1>2 DEF TypeInv, TypeOK, FixedInv, LeaderRound, Propose
  <2>2. chain' = chain /\ sequenceID' = sequenceID /\ askForLock' = askForLock /\ asking' = asking
    BY DEF Propose
  <2> QED BY <1>2, <1>4, <2>1, <2>2 DEF FixedInv, LeaderRound
<1>8. ViewZero' /\ ChainsInOrder' /\ QueryOwned' /\ OneQuery' /\ QueryOpen' /\ NoFatalUnlock'
    BY DEF FixedInv, ViewZero, ChainsInOrder, QueryOwned, OneQuery, QueryOpen, NoFatalUnlock, Propose
<1> QED BY <1>5, <1>6, <1>7, <1>8 DEF FixedInv

\* handlePrePrepare stores a request at its own number.
LEMMA FixedHandlePrePrepare ==
    ASSUME TypeInv, FixedInv, NEW n \in Node, NEW b \in Block, HandlePrePrepare(n, b)
    PROVE  FixedInv'
<1> USE LeaderIsNode
<1>1. b \in 1 .. Len(blocks) /\ blocks[b].seq = b
    BY DEF TypeInv, PoolsBounded, HandlePrePrepare, FixedInv, Numbered
<1>2. DigestAtHeight'
  <2>1. \/ height2Digest' = height2Digest
        \/ height2Digest' = [height2Digest EXCEPT ![n][b] = b]
    BY <1>1 DEF HandlePrePrepare
  <2>2. height2Digest \in [Node -> [SeqID -> Block \cup {None}]]
    BY DEF TypeInv, TypeOK
  <2> QED BY <2>1, <2>2 DEF FixedInv, DigestAtHeight
<1>3. LeaderRound'
  <2>1. requestPool' = requestPool \/ requestPool' = [requestPool EXCEPT ![n] = @ \cup {b}]
    BY DEF HandlePrePrepare
  <2>2. requestPool \in [Node -> SUBSET Block]
    BY DEF TypeInv, TypeOK
  <2>3. requestPool[0] \subseteq requestPool'[0]
    BY <2>1, <2>2
  <2> QED BY <2>3 DEF FixedInv, LeaderRound, HandlePrePrepare
<1>4. /\ ViewZero' /\ Numbered' /\ ChainsInOrder' /\ QueryOwned' /\ OneQuery' /\ QueryOpen'
      /\ NoFatalUnlock'
    BY DEF FixedInv, ViewZero, Numbered, ChainsInOrder, QueryOwned, OneQuery, QueryOpen,
           NoFatalUnlock, HandlePrePrepare
<1> QED BY <1>2, <1>3, <1>4 DEF FixedInv

\* handlePrepare only casts a vote.
LEMMA FixedHandlePrepare ==
    ASSUME TypeInv, FixedInv, NEW n \in Node, NEW b \in Block, HandlePrepare(n, b)
    PROVE  FixedInv'
BY DEF FixedInv, ViewZero, Numbered, DigestAtHeight, ChainsInOrder, LeaderRound, QueryOwned,
       OneQuery, QueryOpen, NoFatalUnlock, HandlePrepare, netVars

\* Executing a block keeps every chain in order, whichever block it is.
LEMMA ChainsStayInOrder ==
    ASSUME TypeInv, FixedInv, NEW n \in Node, NEW b \in 1 .. Len(blocks),
           chain' = [chain EXCEPT ![n] = AddBlock(@, b)]
    PROVE  ChainsInOrder'
<1>1. chain[n] \in Seq(Block) /\ \A i \in 1 .. Len(chain[n]) : chain[n][i] = i
    BY DEF TypeInv, TypeOK, FixedInv, ChainsInOrder
<1>2. \A i \in 1 .. Len(AddBlock(chain[n], b)) : AddBlock(chain[n], b)[i] = i
    BY <1>1, AddBlockInOrder DEF FixedInv
<1>3. \A m \in Node : chain'[m] = IF m = n THEN AddBlock(chain[n], b) ELSE chain[m]
    BY DEF TypeInv, TypeOK
<1> QED BY <1>2, <1>3 DEF FixedInv, ChainsInOrder

\* handleCommit with the request at hand: the leader can only be committing
\* the block of its open round, so the mutex it unlocks is locked.
LEMMA FixedHandleCommit ==
    ASSUME TypeInv, FixedInv, NEW n \in Node, NEW b \in Block, HandleCommit(n, b)
    PROVE  FixedInv'
<1> USE LeaderIsNode
<1>1. b \in 1 .. Len(blocks) /\ blocks[b].seq = b /\ b >= sequenceID[n]
    BY DEF HandleCommit, CommitQuorum, FixedInv, Numbered
<1>2. chain' = [chain EXCEPT ![n] = AddBlock(@, b)]
    BY DEF HandleCommit
<1>3. ChainsInOrder'
    BY <1>1, <1>2, ChainsStayInOrder
<1>4. /\ ViewZero' /\ Numbered' /\ DigestAtHeight' /\ QueryOwned' /\ OneQuery' /\ QueryOpen'
    BY DEF FixedInv, ViewZero, Numbered, DigestAtHeight, QueryOwned, OneQuery, QueryOpen,
           HandleCommit, netVars
<1>5. LeaderRound' /\ NoFatalUnlock'
  <2>1. CASE n = 0
    <3>1. Len(blocks) \in Nat /\ Len(chain[0]) \in Nat /\ chain[0] \in Seq(Block)
      BY DEF TypeInv, TypeOK
    <3>2. /\ sequenceLock[0] /\ b = Len(blocks) /\ b = Len(chain[0]) + 1
          /\ sequenceID[0] = Len(chain[0]) + 1
      BY <1>1, <2>1, <3>1 DEF FixedInv, LeaderRound
    <3>3. Len(chain'[0]) = Len(chain[0]) + 1
      <4>1. chain'[0] = AddBlock(chain[0], b)
        BY <1>2, <2>1 DEF TypeInv, TypeOK
      <4> QED BY <1>1, <3>1, <3>2, <4>1, AddBlockInOrder DEF FixedInv, ChainsInOrder
    <3>4. ~sequenceLock'[0] /\ fatal' = fatal
      BY <2>1, <3>2 DEF TypeInv, TypeOK, FixedInv, ViewZero, HandleCommit, UnlockSequence
    <3>5. sequenceID'[0] = Len(chain[0]) + 2
      <4>1. sequenceID' = [sequenceID EXCEPT ![0] = @ + 1] /\ sequenceID \in [Node -> SeqID]
        BY <2>1 DEF TypeInv, TypeOK, HandleCommit
      <4> QED BY <3>1, <3>2, <4>1
    <3> QED BY <3>1, <3>2, <3>3, <3>4, <3>5 DEF FixedInv, LeaderRound, NoFatalUnlock, HandleCommit
  <2>2. CASE n # 0
    <3>1. UNCHANGED <<sequenceLock, fatal>>
      BY <2>2 DEF FixedInv, ViewZero, HandleCommit, UnlockSequence
    <3>2. chain'[0] = chain[0] /\ sequenceID'[0] = sequenceID[0]
      BY <2>2 DEF TypeInv, TypeOK, HandleCommit
    <3> QED BY <3>1, <3>2 DEF FixedInv, LeaderRound, NoFatalUnlock, HandleCommit
  <2> QED BY <2>1, <2>2
<1> QED BY <1>3, <1>4, <1>5 DEF FixedInv

\* A node that asks for old requests is not the leader, which has them all, and
\* has no other query or answer under way, since it did not hold askForLock.
LEMMA FixedAskForOld ==
    ASSUME TypeInv, FixedInv, NEW n \in Node \ {0}, NEW b \in 1 .. Len(blocks),
           ~askForLock[n], AskForOld(n, b), UNCHANGED oldReplies
    PROVE  /\ QueryOwned' /\ OneQuery' /\ QueryOpen'
           /\ sequenceLock' = sequenceLock /\ fatal' = fatal /\ askForLock'[0] = askForLock[0]
<1> USE LeaderIsNode
<1> DEFINE q == [from |-> n, to |-> view[n], start |-> sequenceID[n] + 1, end |-> blocks[b].seq]
<1>1. oldRequests' = oldRequests \cup {q}
    BY DEF AskForOld
<1>2. q.from = n /\ q.to = 0
    BY DEF FixedInv, ViewZero
<1> HIDE DEF q
<1>3. \A m \in Node : askForLock'[m] <=> (m = n \/ askForLock[m])
  <2>1. askForLock \in [Node -> BOOLEAN] /\ askForLock' = [askForLock EXCEPT ![n] = TRUE]
    BY DEF TypeInv, TypeOK, AskForOld
  <2> QED BY <2>1
<1>4. /\ \A m \in oldRequests : m.from \in Node /\ m.from # n
      /\ \A m \in oldReplies : m.to \in Node /\ m.to # n
    BY DEF TypeInv, TypeOK, OldRequest, OldReply, FixedInv, QueryOwned
<1>5. QueryOwned'
    BY <1>1, <1>2, <1>3, <1>4 DEF FixedInv, QueryOwned
<1>6. OneQuery'
    BY <1>1, <1>2, <1>4 DEF FixedInv, OneQuery
<1>7. QueryOpen'
    BY <1>1, <1>2, <1>3 DEF FixedInv, QueryOpen
<1>8. sequenceLock' = sequenceLock /\ fatal' = fatal
    BY DEF FixedInv, ViewZero, AskForOld, UnlockSequence
<1>9. askForLock'[0] = askForLock[0]
    BY DEF TypeInv, TypeOK, AskForOld
<1> QED BY <1>5, <1>6, <1>7, <1>8, <1>9

\* handleCommit without the request: the node is not the leader.
LEMMA FixedHandleCommitMissing ==
    ASSUME TypeInv, FixedInv, NEW n \in Node, NEW b \in Block, HandleCommitMissing(n, b)
    PROVE  FixedInv'
<1>1. n # 0 /\ b \in 1 .. Len(blocks)
    BY DEF FixedInv, LeaderRound, HandleCommitMissing, CommitQuorum
<1>2. /\ QueryOwned' /\ OneQuery' /\ QueryOpen'
      /\ sequenceLock' = sequenceLock /\ fatal' = fatal /\ askForLock'[0] = askForLock[0]
    BY <1>1, FixedAskForOld DEF HandleCommitMissing
<1>3. /\ ViewZero' /\ Numbered' /\ DigestAtHeight' /\ ChainsInOrder' /\ LeaderRound'
      /\ NoFatalUnlock'
    BY <1>2 DEF FixedInv, ViewZero, Numbered, DigestAtHeight, ChainsInOrder, LeaderRound,
                NoFatalUnlock, HandleCommitMissing
<1> QED BY <1>2, <1>3 DEF FixedInv

\* Nor is a node that waits for its askForLock.
LEMMA FixedHandleCommitBlocks ==
    ASSUME TypeInv, FixedInv, NEW n \in Node, NEW b \in Block, HandleCommitBlocks(n, b)
    PROVE  FixedInv'
<1>1. n # 0
    BY DEF FixedInv, LeaderRound, HandleCommitBlocks
<1>2. asking'[0] = asking[0]
    BY <1>1, LeaderIsNode DEF TypeInv, TypeOK, HandleCommitBlocks
<1> QED BY <1>2 DEF FixedInv, ViewZero, Numbered, DigestAtHeight, ChainsInOrder, LeaderRound,
       QueryOwned, OneQuery, QueryOpen, NoFatalUnlock, HandleCommitBlocks, netVars

\* The waiting handler sends its query once the lock is free.
LEMMA FixedHandleCommitResumes ==
    ASSUME TypeInv, FixedInv, NEW n \in Node, HandleCommitResumes(n)
    PROVE  FixedInv'
<1>1. n # 0
    BY DEF FixedInv, LeaderRound, HandleCommitResumes
<1>2. asking[n] \in 1 .. Len(blocks)
    BY DEF TypeInv, TypeOK, PoolsBounded, HandleCommitResumes, None
<1>3. /\ QueryOwned' /\ OneQuery' /\ QueryOpen'
      /\ sequenceLock' = sequenceLock /\ fatal' = fatal /\ askForLock'[0] = askForLock[0]
    BY <1>1, <1>2, FixedAskForOld DEF HandleCommitResumes
<1>4. asking'[0] = asking[0]
    BY <1>1, LeaderIsNode DEF TypeInv, TypeOK, HandleCommitResumes
<1>5. /\ ViewZero' /\ Numbered' /\ DigestAtHeight' /\ ChainsInOrder' /\ LeaderRound'
      /\ NoFatalUnlock'
    BY <1>3, <1>4 DEF FixedInv, ViewZero, Numbered, DigestAtHeight, ChainsInOrder, LeaderRound,
                NoFatalUnlock, HandleCommitResumes
<1> QED BY <1>3, <1>5 DEF FixedInv

\* The leader turns a query into one answer that lists its heights in order.
LEMMA FixedHandleRequestOldSeq ==
    ASSUME TypeInv, FixedInv, NEW n \in Node, NEW m \in oldRequests, HandleRequestOldSeq(n, m)
    PROVE  FixedInv'
<1> USE LeaderIsNode
<1>1. n = 0 /\ view[n] = n
    BY DEF FixedInv, ViewZero, QueryOwned, HandleRequestOldSeq
<1>2. PICK last \in {m.start - 1} \cup m.start .. m.end :
        /\ \A h \in m.start .. last : Known(n, h)
        /\ oldReplies' = oldReplies \cup
                  {[to |-> m.from, start |-> m.start, end |-> m.end,
                    reqs |-> [i \in 1 .. last - m.start + 1 |->
                                height2Digest[n][m.start + i - 1]],
                    done |-> 0]}
    BY <1>1 DEF HandleRequestOldSeq
<1> DEFINE reqs == [i \in 1 .. last - m.start + 1 |-> height2Digest[n][m.start + i - 1]]
           r == [to |-> m.from, start |-> m.start, end |-> m.end, reqs |-> reqs, done |-> 0]
<1>3. m.start \in Nat \ {0} /\ m.end \in Nat /\ m.end <= MaxBlocks /\ m.from \in Node
  <2>1. m \in OldRequest
    BY DEF TypeInv, TypeOK
  <2> QED BY <2>1, BoundsAssumption DEF OldRequest, Block
<1>4. last - m.start + 1 \in Nat
    BY <1>2, <1>3
<1>5. Len(reqs) = last - m.start + 1
    BY <1>4
<1>6. \A i \in 1 .. Len(reqs) : reqs[i] = m.start + i - 1 /\ reqs[i] <= m.end
  <2> SUFFICES ASSUME NEW i \in 1 .. last - m.start + 1
               PROVE  reqs[i] = m.start + i - 1 /\ reqs[i] <= m.end
    BY <1>5
  <2>1. /\ m.start + i - 1 \in m.start .. last
        /\ m.start + i - 1 \in SeqID /\ m.start + i - 1 <= m.end
    BY <1>2, <1>3, <1>4, BoundsAssumption DEF SeqID
  <2>2. height2Digest[n][m.start + i - 1] \in requestPool[n]
    BY <1>2, <2>1 DEF Known
  <2>3. height2Digest[n][m.start + i - 1] # None
    BY <2>2 DEF TypeInv, TypeOK, Block, None
  <2>4. height2Digest[n][m.start + i - 1] \in {None, m.start + i - 1}
    BY <2>1 DEF FixedInv, DigestAtHeight
  <2> QED BY <2>1, <2>3, <2>4
<1>7. /\ oldRequests' = oldRequests \ {m}
      /\ oldReplies' = oldReplies \cup {r}
      /\ askForLock' = askForLock
    BY <1>2 DEF HandleRequestOldSeq, pbftVars
<1>8. /\ r.to = m.from
      /\ \A i \in 1 .. Len(r.reqs) : r.reqs[i] = r.start + i - 1 /\ r.reqs[i] <= r.end
    BY <1>6
<1> HIDE DEF r
<1>9. m.from # 0 /\ askForLock[m.from]
    BY DEF FixedInv, QueryOwned
<1>10. QueryOwned'
    BY <1>7, <1>8, <1>9 DEF FixedInv, QueryOwned
<1>11. OneQuery'
    BY <1>7, <1>8 DEF FixedInv, OneQuery
<1>12. QueryOpen'
  <2> SUFFICES ASSUME NEW k \in Node, askForLock[k]
               PROVE  \/ \E q \in oldRequests' : q.from = k
                      \/ \E q \in oldReplies' : q.to = k
    BY <1>7 DEF QueryOpen
  <2>1. CASE k = m.from
    BY <1>7, <1>8, <2>1
  <2>2. CASE k # m.from
    BY <1>7, <2>2 DEF FixedInv, QueryOpen
  <2> QED BY <2>1, <2>2
<1>13. /\ ViewZero' /\ Numbered' /\ DigestAtHeight' /\ ChainsInOrder' /\ LeaderRound'
       /\ NoFatalUnlock'
    BY DEF FixedInv, ViewZero, Numbered, DigestAtHeight, ChainsInOrder, LeaderRound,
                NoFatalUnlock, HandleRequestOldSeq, pbftVars
<1> QED BY <1>10, <1>11, <1>12, <1>13 DEF FixedInv

\* Catching up executes blocks in order, whatever ran since the query.
LEMMA FixedHandleforSequentialRequest ==
    ASSUME TypeInv, FixedInv, NEW n \in Node, NEW m \in oldReplies,
           HandleforSequentialRequest(n, m)
    PROVE  FixedInv'
<1> USE LeaderIsNode
<1> DEFINE r == [m EXCEPT !.done = @ + 1]
           b == m.reqs[m.done + 1]
<1>1. n # 0 /\ m.to = n /\ askForLock[n]
    BY DEF FixedInv, QueryOwned, HandleforSequentialRequest
<1>3. ChainsInOrder'
  <2>1. CASE m.done < Len(m.reqs) /\ chain' = [chain EXCEPT ![n] = AddBlock(@, b)]
    <3>1. b \in 1 .. Len(blocks)
      BY <2>1, ReplyFacts
    <3> QED BY <2>1, <3>1, ChainsStayInOrder
  <2>2. CASE chain' = chain
    BY <2>2 DEF FixedInv, ChainsInOrder
  <2> QED BY <2>1, <2>2 DEF HandleforSequentialRequest
<1>4. /\ oldReplies' = (oldReplies \ {m}) \cup {r}
      /\ oldRequests' = oldRequests /\ askForLock' = askForLock
    BY DEF HandleforSequentialRequest
<1>5. r.to = m.to /\ r.reqs = m.reqs /\ r.start = m.start /\ r.end = m.end
    BY ReplyFacts DEF OldReply
<1> HIDE DEF r
<1>6. QueryOwned'
    BY <1>4, <1>5 DEF FixedInv, QueryOwned
<1>7. OneQuery'
    BY <1>4, <1>5 DEF FixedInv, OneQuery
<1>8. QueryOpen'
  <2> SUFFICES ASSUME NEW k \in Node, askForLock[k]
               PROVE  \/ \E q \in oldRequests' : q.from = k
                      \/ \E q \in oldReplies' : q.to = k
    BY <1>4 DEF QueryOpen
  <2>1. CASE k = n
    BY <1>1, <1>4, <1>5, <2>1
  <2>2. CASE k # n
    BY <1>1, <1>4, <2>2 DEF FixedInv, QueryOpen
  <2> QED BY <2>1, <2>2
<1>9. LeaderRound'
  <2>1. chain'[0] = chain[0] /\ sequenceID'[0] = sequenceID[0]
    BY <1>1 DEF TypeInv, TypeOK, HandleforSequentialRequest
  <2> QED BY <2>1 DEF FixedInv, LeaderRound, HandleforSequentialRequest
<1>10. ViewZero' /\ Numbered' /\ DigestAtHeight' /\ NoFatalUnlock'
    BY DEF FixedInv, ViewZero, Numbered, DigestAtHeight, NoFatalUnlock,
           HandleforSequentialRequest
<1> QED BY <1>3, <1>6, <1>7, <1>8, <1>9, <1>10 DEF FixedInv

\* The answer that releases askForLock is the only one under way to this node.
LEMMA FixedHandleSendOldSeq ==
    ASSUME TypeInv, FixedInv, NEW n \in Node, NEW m \in oldReplies, HandleSendOldSeq(n, m)
    PROVE  FixedInv'
<1> USE LeaderIsNode
<1> DEFINE h2d == [s \in SeqID |-> IF s - m.start + 1 \in 1 .. Len(m.reqs)
                                   THEN m.reqs[s - m.start + 1] ELSE height2Digest[n][s]]
<1>1. n # 0 /\ m.to = n /\ askForLock[n]
    BY DEF FixedInv, QueryOwned, HandleSendOldSeq
<1>2. DigestAtHeight'
  <2>1. height2Digest' = [height2Digest EXCEPT ![n] = h2d]
    BY DEF HandleSendOldSeq
  <2>2. height2Digest \in [Node -> [SeqID -> Block \cup {None}]]
    BY DEF TypeInv, TypeOK
  <2>3. \A s \in SeqID : h2d[s] \in {None, s}
    <3> SUFFICES ASSUME NEW s \in SeqID PROVE h2d[s] \in {None, s}
      OBVIOUS
    <3>1. CASE s - m.start + 1 \in 1 .. Len(m.reqs)
      <4>1. m.reqs[s - m.start + 1] = m.start + (s - m.start + 1) - 1
        BY <3>1 DEF FixedInv, QueryOwned
      <4>2. m.start \in Nat /\ s \in Nat
        BY ReplyFacts DEF SeqID
      <4> QED BY <3>1, <4>1, <4>2
    <3>2. CASE s - m.start + 1 \notin 1 .. Len(m.reqs)
      BY <3>2 DEF FixedInv, DigestAtHeight
    <3> QED BY <3>1, <3>2
  <2> HIDE DEF h2d
  <2> QED BY <2>1, <2>2, <2>3 DEF FixedInv, DigestAtHeight
<1>3. oldReplies' = oldReplies \ {m} /\ oldRequests' = oldRequests
    BY DEF HandleSendOldSeq
<1>4. \A k \in Node : askForLock'[k] <=> (k # n /\ askForLock[k])
  <2>1. askForLock \in [Node -> BOOLEAN] /\ askForLock' = [askForLock EXCEPT ![n] = FALSE]
    BY DEF TypeInv, TypeOK, HandleSendOldSeq
  <2> QED BY <2>1
<1>5. /\ \A q \in oldRequests : q.from \in Node /\ q.from # n
      /\ \A q \in oldReplies \ {m} : q.to \in Node /\ q.to # n
    BY <1>1 DEF TypeInv, TypeOK, OldRequest, OldReply, FixedInv, OneQuery
<1>6. QueryOwned'
    BY <1>3, <1>4, <1>5 DEF FixedInv, QueryOwned
<1>7. OneQuery'
    BY <1>3 DEF FixedInv, OneQuery
<1>8. QueryOpen'
    BY <1>1, <1>3, <1>4 DEF FixedInv, QueryOpen
<1>9. LeaderRound'
  <2>1. askForLock'[0] = askForLock[0] /\ sequenceID'[0] = sequenceID[0]
    BY <1>1 DEF TypeInv, TypeOK, HandleSendOldSeq
  <2>2. requestPool'[0] = requestPool[0]
    BY <1>1 DEF TypeInv, TypeOK, HandleSendOldSeq
  <2> QED BY <2>1, <2>2 DEF FixedInv, LeaderRound, HandleSendOldSeq
<1>10. ViewZero' /\ Numbered' /\ ChainsInOrder' /\ NoFatalUnlock'
    BY <1>1 DEF FixedInv, ViewZero, Numbered, ChainsInOrder, NoFatalUnlock, HandleSendOldSeq
<1> QED BY <1>2, <1>6, <1>7, <1>8, <1>9, <1>10 DEF FixedInv

\* Every step of a fixed-view run keeps the invariant.
LEMMA FixedStep == ASSUME TypeInv, FixedInv, [Round]_vars PROVE FixedInv'
<1>1. CASE Round
    BY <1>1, FixedProposeSignal, FixedPropose, FixedHandlePrePrepare, FixedHandlePrepare, FixedHandleCommit,
       FixedHandleCommitMissing, FixedHandleCommitBlocks, FixedHandleCommitResumes,
       FixedHandleRequestOldSeq, FixedHandleforSequentialRequest, FixedHandleSendOldSeq
       DEF Round
<1>2. CASE UNCHANGED vars
    BY <1>2 DEF vars, pbftVars, netVars, FixedInv, ViewZero, Numbered, DigestAtHeight,
       ChainsInOrder, LeaderRound, QueryOwned, OneQuery, QueryOpen, NoFatalUnlock
<1> QED BY <1>1, <1>2

\* The inductive invariant of a shard whose timers do not expire.
THEOREM FixedInvariant == FixedViewSpec => [](TypeInv /\ FixedInv)
<1>1. Init => TypeInv /\ FixedInv
    BY TypeInit, FixedInit
<1>2. TypeInv /\ FixedInv /\ [Round]_vars => TypeInv' /\ FixedInv'
    BY TypeRound, TypeStutter, FixedStep
<1> QED BY <1>1, <1>2, PTL DEF FixedViewSpec

\* While the view is fixed, the chains of any two nodes agree wherever both
\* have a block, through any delay, reordering and catch-up.
THEOREM FixedAgreement == FixedViewSpec => []Agreement
<1>1. TypeInv /\ FixedInv => Agreement
  <2> SUFFICES ASSUME TypeInv, FixedInv, NEW n \in Node, NEW m \in Node,
                      NEW i \in DOMAIN chain[n] \cap DOMAIN chain[m]
               PROVE  chain[n][i] = chain[m][i]
    BY DEF Agreement
  <2>1. i \in 1 .. Len(chain[n]) /\ i \in 1 .. Len(chain[m])
    BY DEF TypeInv, TypeOK
  <2> QED BY <2>1 DEF FixedInv, ChainsInOrder
<1> QED BY <1>1, FixedInvariant, PTL

\* While the view is fixed, the leader's sequence number is one past its
\* chain: it never builds on a chain that misses a block.
THEOREM FixedLeaderComplete == FixedViewSpec => []LeaderComplete
<1>1. FixedInv => LeaderComplete
    BY DEF FixedInv, LeaderRound, LeaderComplete
<1> QED BY <1>1, FixedInvariant, PTL

\* While the view is fixed, neither handleCommit nor handleSendOldSeq unlocks a
\* mutex that is not locked.
THEOREM FixedNoFatalUnlock == FixedViewSpec => []NoFatalUnlock
<1>1. FixedInv => NoFatalUnlock
    BY DEF FixedInv
<1> QED BY <1>1, FixedInvariant, PTL

\* While the view is fixed, a node that holds askForLock has its query or the
\* answer to it under way.
THEOREM FixedQueryOpen == FixedViewSpec => []QueryOpen
<1>1. FixedInv => QueryOpen
    BY DEF FixedInv
<1> QED BY <1>1, FixedInvariant, PTL
-----------------------------------------------------------------------------
(* Quorums, and the abstract ledger.  V is isCommitBordcast, before or after a *)
(* step.                                                                       *)

Votes(V, b) == {m \in Node : b \in V[m]}
Backed(V, b) == Cardinality(Votes(V, b)) >= Quorum

\* Whatever is executed, asked for or answered has a commit quorum.
BackedInv ==
    /\ \A n \in Node : \A i \in 1 .. Len(chain[n]) : Backed(isCommitBordcast, i)
    /\ \A n \in Node : asking[n] # None => Backed(isCommitBordcast, asking[n])
    /\ \A m \in oldRequests : Backed(isCommitBordcast, m.end)
    /\ \A m \in oldReplies : Backed(isCommitBordcast, m.end)

\* A quorum is at least one vote.
LEMMA QuorumPositive == Quorum \in Nat /\ Quorum >= 1
<1>1. malicious_nums \in Nat
    BY NAssumption DEF malicious_nums
<1> QED BY <1>1 DEF Quorum

\* Votes are finitely many.
LEMMA VotesFinite ==
    ASSUME NEW V, NEW b PROVE IsFiniteSet(Votes(V, b)) /\ Cardinality(Votes(V, b)) \in Nat
<1>1. N - 1 \in Int
    BY NAssumption
<1>2. IsFiniteSet(Node)
    BY <1>1, FS_Interval DEF Node
<1>3. Votes(V, b) \in SUBSET Node
    BY DEF Votes
<1> QED BY <1>2, <1>3, FS_Subset, FS_CardinalityType

\* A commit is never taken back: what has a quorum keeps it.
LEMMA BackedGrows ==
    ASSUME NEW V, NEW W, \A m \in Node : V[m] \subseteq W[m], NEW b, Backed(V, b)
    PROVE  Backed(W, b)
<1>1. Votes(V, b) \in SUBSET Votes(W, b)
    BY DEF Votes
<1>2. Cardinality(Votes(V, b)) <= Cardinality(Votes(W, b))
    BY <1>1, VotesFinite, FS_Subset
<1>3. Cardinality(Votes(V, b)) \in Nat /\ Cardinality(Votes(W, b)) \in Nat
    BY VotesFinite
<1> QED BY <1>2, <1>3, QuorumPositive DEF Backed

\* A new digest has no vote yet.
LEMMA NotBacked ==
    ASSUME NEW V, NEW b, \A m \in Node : b \notin V[m] PROVE ~Backed(V, b)
<1>1. Votes(V, b) = {}
    BY DEF Votes
<1>2. Cardinality(Votes(V, b)) = 0
    BY <1>1, FS_EmptySet, Zenon
<1> QED BY <1>2, QuorumPositive DEF Backed

\* handleCommit's threshold.
LEMMA CommitBacked ==
    ASSUME NEW n, NEW b, CommitQuorum(n, b) PROVE Backed(isCommitBordcast, b)
<1>1. CommitVotes(b) = Votes(isCommitBordcast, b)
    BY DEF CommitVotes, Votes
<1>2. Cardinality(CommitVotes(b)) >= Quorum
    BY DEF CommitQuorum
<1> QED BY <1>1, <1>2, Zenon DEF Backed

\* Every proposal but the last has a quorum: the leader has executed it.
LEMMA EarlierBacked ==
    ASSUME TypeInv, FixedInv, BackedInv, NEW b \in 1 .. Len(blocks),
           b # Len(blocks) \/ ~sequenceLock[0]
    PROVE  Backed(isCommitBordcast, b)
<1>1. chain[0] \in Seq(Block) /\ Len(blocks) \in Nat
    BY LeaderIsNode DEF TypeInv, TypeOK
<1>2. Len(blocks) = IF sequenceLock[0] THEN Len(chain[0]) + 1 ELSE Len(chain[0])
    BY DEF FixedInv, LeaderRound
<1>3. b \in 1 .. Len(chain[0])
    BY <1>1, <1>2
<1> QED BY <1>3, LeaderIsNode DEF BackedInv

\* The requests of an answer have a quorum each.
LEMMA ReplyBacked ==
    ASSUME TypeInv, FixedInv, BackedInv, NEW m \in oldReplies, NEW i \in 1 .. Len(m.reqs)
    PROVE  m.reqs[i] \in 1 .. Len(blocks) /\ Backed(isCommitBordcast, m.reqs[i])
<1>1. m.reqs[i] \in 1 .. Len(blocks) /\ m.end \in Nat /\ m.end <= Len(blocks) /\ Len(blocks) \in Nat
  <2>1. m.end \in Block /\ m.end <= Len(blocks) /\ m.reqs[i] \in 1 .. Len(blocks)
    BY ReplyFacts
  <2>2. Len(blocks) \in Nat
    BY DEF TypeInv, TypeOK
  <2> QED BY <2>1, <2>2, BoundsAssumption DEF Block
<1>2. m.reqs[i] <= m.end
    BY DEF FixedInv, QueryOwned
<1>3. CASE m.reqs[i] = m.end
    BY <1>1, <1>3 DEF BackedInv
<1>4. CASE m.reqs[i] # Len(blocks)
    BY <1>1, <1>4, EarlierBacked
<1> QED BY <1>1, <1>2, <1>3, <1>4

\* Executing a block that has a quorum leaves nothing without one.
LEMMA ChainsBacked ==
    ASSUME TypeInv, FixedInv, BackedInv, NEW n \in Node, NEW b \in 1 .. Len(blocks),
           Backed(isCommitBordcast, b), chain' = [chain EXCEPT ![n] = AddBlock(@, b)]
    PROVE  \A k \in Node : \A i \in 1 .. Len(chain'[k]) : Backed(isCommitBordcast, i)
<1>1. chain[n] \in Seq(Block) /\ \A i \in 1 .. Len(chain[n]) : chain[n][i] = i
    BY DEF TypeInv, TypeOK, FixedInv, ChainsInOrder
<1>2. Len(AddBlock(chain[n], b)) = IF b = Len(chain[n]) + 1 THEN Len(chain[n]) + 1 ELSE Len(chain[n])
    BY <1>1, AddBlockInOrder DEF FixedInv
<1>3. \A k \in Node : chain'[k] = IF k = n THEN AddBlock(chain[n], b) ELSE chain[k]
    BY DEF TypeInv, TypeOK
<1>4. Len(chain[n]) \in Nat /\ b \in Nat
    BY <1>1
<1>5. ASSUME NEW i \in 1 .. Len(AddBlock(chain[n], b)) PROVE Backed(isCommitBordcast, i)
  <2>1. CASE i \in 1 .. Len(chain[n])
    BY <2>1 DEF BackedInv
  <2>2. CASE i \notin 1 .. Len(chain[n])
    <3>1. i = b
      BY <1>2, <1>4, <2>2
    <3> QED BY <3>1
  <2> QED BY <2>1, <2>2
<1> QED BY <1>3, <1>5 DEF BackedInv

\* Nothing is proposed, so nothing is executed, asked for or answered.
LEMMA BackedInit == Init => BackedInv
BY DEF Init, BackedInv, None

\* Every step of a fixed-view run keeps BackedInv.
LEMMA BackedStep == ASSUME TypeInv, FixedInv, BackedInv, [Round]_vars PROVE BackedInv'
<1> USE DEF BackedInv
<1>1. CASE UNCHANGED vars
    BY <1>1 DEF vars, pbftVars, netVars
<1>2. ASSUME NEW n \in Node, ProposeSignal(n) \/ Propose(n) PROVE BackedInv'
    BY <1>2 DEF ProposeSignal, Propose, netVars
<1>3. ASSUME NEW n \in Node, NEW b \in Block, HandlePrePrepare(n, b) PROVE BackedInv'
    BY <1>3 DEF HandlePrePrepare
<1>4. ASSUME NEW n \in Node, NEW b \in Block, HandlePrepare(n, b) PROVE BackedInv'
  <2>1. \A m \in Node : isCommitBordcast[m] \subseteq isCommitBordcast'[m]
    BY <1>4 DEF HandlePrepare, TypeInv, TypeOK
  <2>2. \A c : Backed(isCommitBordcast, c) => Backed(isCommitBordcast', c)
    BY <2>1, BackedGrows
  <2> QED BY <1>4, <2>2 DEF HandlePrepare, netVars
<1>5. ASSUME NEW n \in Node, NEW b \in Block, HandleCommit(n, b) PROVE BackedInv'
  <2>1. b \in 1 .. Len(blocks) /\ Backed(isCommitBordcast, b)
    BY <1>5, CommitBacked DEF HandleCommit, CommitQuorum
  <2>2. \A k \in Node : \A i \in 1 .. Len(chain'[k]) : Backed(isCommitBordcast, i)
    BY <1>5, <2>1, ChainsBacked DEF HandleCommit
  <2> QED BY <1>5, <2>2 DEF HandleCommit, netVars
<1>6. ASSUME NEW n \in Node, NEW b \in 1 .. Len(blocks), AskForOld(n, b),
             Backed(isCommitBordcast, b)
      PROVE  \A m \in oldRequests' : Backed(isCommitBordcast, m.end)
  <2>1. blocks[b].seq = b
    BY DEF FixedInv, Numbered
  <2> QED BY <1>6, <2>1 DEF AskForOld
<1>7. ASSUME NEW n \in Node, NEW b \in Block, HandleCommitMissing(n, b) PROVE BackedInv'
  <2>1. b \in 1 .. Len(blocks) /\ Backed(isCommitBordcast, b) /\ AskForOld(n, b)
    BY <1>7, CommitBacked DEF HandleCommitMissing, CommitQuorum
  <2> QED BY <1>6, <1>7, <2>1 DEF HandleCommitMissing
<1>8. ASSUME NEW n \in Node, NEW b \in Block, HandleCommitBlocks(n, b) PROVE BackedInv'
  <2>1. Backed(isCommitBordcast, b)
    BY <1>8, CommitBacked DEF HandleCommitBlocks
  <2>2. \A k \in Node : asking'[k] = IF k = n THEN b ELSE asking[k]
    BY <1>8 DEF HandleCommitBlocks, TypeInv, TypeOK
  <2> QED BY <1>8, <2>1, <2>2 DEF HandleCommitBlocks, netVars
<1>9. ASSUME NEW n \in Node, HandleCommitResumes(n) PROVE BackedInv'
  <2>1. asking[n] \in 1 .. Len(blocks) /\ Backed(isCommitBordcast, asking[n])
    BY <1>9 DEF TypeInv, TypeOK, PoolsBounded, HandleCommitResumes, None
  <2>2. \A k \in Node : asking'[k] = IF k = n THEN None ELSE asking[k]
    BY <1>9 DEF HandleCommitResumes, TypeInv, TypeOK
  <2>3. \A m \in oldRequests' : Backed(isCommitBordcast, m.end)
    BY <1>6, <1>9, <2>1 DEF HandleCommitResumes
  <2> QED BY <1>9, <2>2, <2>3 DEF HandleCommitResumes
<1>10. ASSUME NEW n \in Node, NEW m \in oldRequests, HandleRequestOldSeq(n, m) PROVE BackedInv'
  <2>1. ASSUME NEW r \in oldReplies', r \notin oldReplies PROVE r.end = m.end
    BY <1>10, <2>1 DEF HandleRequestOldSeq
  <2> QED BY <1>10, <2>1 DEF HandleRequestOldSeq, pbftVars
<1>11. ASSUME NEW n \in Node, NEW m \in oldReplies, HandleforSequentialRequest(n, m)
       PROVE  BackedInv'
  <2> DEFINE r == [m EXCEPT !.done = @ + 1]
  <2>1. r.end = m.end
    BY ReplyFacts DEF OldReply
  <2>2. oldReplies' = (oldReplies \ {m}) \cup {r}
    BY <1>11 DEF HandleforSequentialRequest
  <2> HIDE DEF r
  <2>3. \A q \in oldReplies' : Backed(isCommitBordcast, q.end)
    BY <2>1, <2>2
  <2>4. \A k \in Node : \A i \in 1 .. Len(chain'[k]) : Backed(isCommitBordcast, i)
    <3>1. CASE chain' = chain
      BY <3>1
    <3>2. CASE /\ m.done < Len(m.reqs)
               /\ chain' = [chain EXCEPT ![n] = AddBlock(@, m.reqs[m.done + 1])]
      <4>1. m.done + 1 \in 1 .. Len(m.reqs)
        BY <3>2, ReplyFacts
      <4>2. m.reqs[m.done + 1] \in 1 .. Len(blocks) /\ Backed(isCommitBordcast, m.reqs[m.done + 1])
        BY <4>1, ReplyBacked
      <4> QED BY <3>2, <4>2, ChainsBacked
    <3> QED BY <1>11, <3>1, <3>2 DEF HandleforSequentialRequest
  <2> QED BY <1>11, <2>3, <2>4 DEF HandleforSequentialRequest
<1>12. ASSUME NEW n \in Node, NEW m \in oldReplies, HandleSendOldSeq(n, m) PROVE BackedInv'
    BY <1>12 DEF HandleSendOldSeq
<1> QED BY <1>1, <1>2, <1>3, <1>4, <1>5, <1>7, <1>8, <1>9, <1>10, <1>11, <1>12 DEF Round

\* The invariant of the refinement.
LEMMA BackedInvariant == FixedViewSpec => [](TypeInv /\ FixedInv /\ BackedInv)
<1>1. Init => TypeInv /\ FixedInv /\ BackedInv
    BY TypeInit, FixedInit, BackedInit
<1>2. TypeInv /\ FixedInv /\ BackedInv /\ [Round]_vars => TypeInv' /\ FixedInv' /\ BackedInv'
    BY TypeRound, TypeStutter, FixedStep, BackedStep
<1> QED BY <1>1, <1>2, PTL DEF FixedViewSpec

\* While the view is fixed, a node executes a block, in its commit handler or
\* while catching up, only if 2f+1 nodes have broadcast a Commit for it.
THEOREM FixedCertified == FixedViewSpec => []Certified
<1>1. ASSUME TypeInv, FixedInv, BackedInv PROVE Certified
  <2> SUFFICES ASSUME NEW n \in Node, NEW i \in DOMAIN chain[n]
               PROVE  Cardinality(CommitVotes(chain[n][i])) >= 2 * malicious_nums + 1
    BY DEF Certified
  <2>1. i \in 1 .. Len(chain[n])
    BY <1>1 DEF TypeInv, TypeOK
  <2>2. chain[n][i] = i /\ Backed(isCommitBordcast, i)
    BY <1>1, <2>1 DEF FixedInv, ChainsInOrder, BackedInv
  <2>3. CommitVotes(chain[n][i]) = Votes(isCommitBordcast, i)
    BY <2>2 DEF CommitVotes, Votes
  <2>4. Cardinality(Votes(isCommitBordcast, i)) >= 2 * malicious_nums + 1
    BY <2>2 DEF Backed, Quorum
  <2> QED BY <2>3, <2>4, Zenon
<1> QED BY <1>1, BackedInvariant, PTL
-----------------------------------------------------------------------------
(* The refinement. *)

\* The blocks 1 .. k in order, and how many are decided among L proposals.
Upto(k) == [b \in 1 .. k |-> b]
DecidedLen(V, L) == IF L # 0 /\ ~Backed(V, L) THEN L - 1 ELSE L

\* Prefixes of Upto.
LEMMA UptoFacts ==
    ASSUME NEW k \in Nat
    PROVE  /\ Upto(k) \in Seq(1 .. k) /\ Len(Upto(k)) = k /\ \A i \in 1 .. k : Upto(k)[i] = i
           /\ \A j \in 0 .. k : SubSeq(Upto(k), 1, j) = Upto(j)
           /\ Append(Upto(k), k + 1) = Upto(k + 1)
<1>1. Upto(k) \in Seq(1 .. k) /\ Len(Upto(k)) = k /\ \A i \in 1 .. k : Upto(k)[i] = i
    BY DEF Upto
<1>2. ASSUME NEW j \in 0 .. k PROVE SubSeq(Upto(k), 1, j) = Upto(j)
  <2>1. SubSeq(Upto(k), 1, j) = [i \in 1 .. j |-> Upto(k)[i]]
    BY <1>1
  <2>2. \A i \in 1 .. j : Upto(k)[i] = i
    BY <1>1
  <2> QED BY <2>1, <2>2 DEF Upto
<1>3. Append(Upto(k), k + 1) = Upto(k + 1)
    BY DEF Upto
<1> QED BY <1>1, <1>2, <1>3

\* What the refinement mapping calls decided.
LEMMA DecidedIs ==
    ASSUME Len(blocks) \in Nat, blocks = <<>> <=> Len(blocks) = 0
    PROVE  Decided = Upto(DecidedLen(isCommitBordcast, Len(blocks)))
<1> DEFINE L == Len(blocks)
<1>1. CommitVotes(L) = Votes(isCommitBordcast, L)
    BY DEF CommitVotes, Votes
<1>2. Cardinality(CommitVotes(L)) = Cardinality(Votes(isCommitBordcast, L))
    BY <1>1, Zenon
<1>3. Cardinality(Votes(isCommitBordcast, L)) \in Nat
    BY VotesFinite
<1>4. (Cardinality(CommitVotes(L)) < Quorum) <=> ~Backed(isCommitBordcast, L)
    BY <1>2, <1>3, QuorumPositive DEF Backed
<1>5. Decided = IF blocks # <<>> /\ Cardinality(CommitVotes(L)) < Quorum
                THEN SubSeq(Upto(L), 1, L - 1) ELSE Upto(L)
    BY DEF Decided, Upto
<1>6. ASSUME L # 0 PROVE SubSeq(Upto(L), 1, L - 1) = Upto(L - 1)
  <2>1. L \in Nat /\ L - 1 \in 0 .. L
    BY <1>6
  <2> QED BY <2>1, UptoFacts
<1> QED BY <1>4, <1>5, <1>6 DEF DecidedLen

\* The same after a step.
LEMMA DecidedBecomes ==
    ASSUME Len(blocks') \in Nat, blocks' = <<>> <=> Len(blocks') = 0
    PROVE  Decided' = Upto(DecidedLen(isCommitBordcast', Len(blocks')))
<1> DEFINE L == Len(blocks')
<1>1. CommitVotes(Len(blocks))' = Votes(isCommitBordcast', L)
    BY DEF CommitVotes, Votes
<1>2. Cardinality(CommitVotes(Len(blocks))') = Cardinality(Votes(isCommitBordcast', L))
    BY <1>1, Zenon
<1>3. Cardinality(Votes(isCommitBordcast', L)) \in Nat
    BY VotesFinite
<1>4. (Cardinality(CommitVotes(Len(blocks))') < Quorum) <=> ~Backed(isCommitBordcast', L)
    BY <1>2, <1>3, QuorumPositive DEF Backed
<1>5. Decided' = IF blocks' # <<>> /\ Cardinality(CommitVotes(Len(blocks))') < Quorum
                 THEN SubSeq(Upto(L), 1, L - 1) ELSE Upto(L)
    BY DEF Decided, Upto
<1>6. ASSUME L # 0 PROVE SubSeq(Upto(L), 1, L - 1) = Upto(L - 1)
  <2>1. L \in Nat /\ L - 1 \in 0 .. L
    BY <1>6
  <2> QED BY <2>1, UptoFacts
<1> QED BY <1>4, <1>5, <1>6 DEF DecidedLen

\* Nothing is decided at first.
LEMMA LedgerStart == Init => Ledger!LedgerInit
<1> SUFFICES ASSUME Init PROVE Ledger!LedgerInit
    OBVIOUS
<1>1. blocks = <<>> /\ Len(blocks) = 0 /\ chain = [n \in Node |-> <<>>]
    BY DEF Init
<1>2. Decided = Upto(0)
    BY <1>1, DecidedIs DEF DecidedLen
<1>3. Upto(0) = <<>>
    BY DEF Upto
<1> QED BY <1>1, <1>2, <1>3 DEF Ledger!LedgerInit

\* An execution is a step of the abstract ledger, or skips the block.
LEMMA LedgerApply ==
    ASSUME TypeInv, FixedInv, BackedInv, NEW n \in Node, NEW b \in 1 .. Len(blocks),
           Backed(isCommitBordcast, b), chain' = [chain EXCEPT ![n] = AddBlock(@, b)],
           Decided' = Decided, Decided = Upto(DecidedLen(isCommitBordcast, Len(blocks)))
    PROVE  [Ledger!LedgerNext]_(Ledger!ledgerVars)
<1> DEFINE D == DecidedLen(isCommitBordcast, Len(blocks))
           c == chain[n]
<1>1. c \in Seq(Block) /\ Len(c) \in Nat /\ (\A i \in 1 .. Len(c) : c[i] = i) /\ chain \in [Node -> Seq(Block)]
    BY DEF TypeInv, TypeOK, FixedInv, ChainsInOrder
<1>2. Len(blocks) \in Nat /\ D \in Nat /\ b <= D /\ b \in Nat
  <2>1. Len(blocks) \in Nat /\ b \in Nat
    BY DEF TypeInv, TypeOK
  <2>2. b = Len(blocks) => D = Len(blocks)
    BY DEF DecidedLen
  <2> QED BY <2>1, <2>2 DEF DecidedLen
<1>3. /\ AddBlock(c, b) \in Seq(Block)
      /\ \A i \in 1 .. Len(AddBlock(c, b)) : AddBlock(c, b)[i] = i
      /\ Len(AddBlock(c, b)) = IF b = Len(c) + 1 THEN Len(c) + 1 ELSE Len(c)
    BY <1>1, AddBlockInOrder DEF FixedInv
<1> HIDE DEF D
<1>4. CASE b = Len(c) + 1
  <2>1. AddBlock(c, b) = Upto(b)
    BY <1>2, <1>3, <1>4 DEF Upto
  <2>2. SubSeq(Decided, 1, b) = Upto(b) /\ Len(Decided) = D
    <3>1. b \in 0 .. D
      BY <1>2
    <3>2. SubSeq(Upto(D), 1, b) = Upto(b) /\ Len(Upto(D)) = D
      BY <1>2, <3>1, UptoFacts
    <3> QED BY <3>2 DEF D
  <2>3. b \in Len(c) + 1 .. Len(Decided) /\ b \in 1 .. Len(Decided)
    BY <1>1, <1>2, <1>4, <2>2
  <2>4. chain' = [chain EXCEPT ![n] = SubSeq(Decided, 1, b)]
    BY <2>1, <2>2
  <2>5. Ledger!Apply(n, b)
    BY <2>3, <2>4 DEF Ledger!Apply
  <2> QED BY <2>3, <2>5 DEF Ledger!LedgerNext
<1>5. CASE b # Len(c) + 1
  <2>1. AddBlock(c, b) = c
    BY <1>1, <1>2, <1>3, <1>5 DEF AddBlock
  <2>2. chain' = chain
    BY <1>1, <2>1
  <2> QED BY <2>2 DEF Ledger!ledgerVars
<1> QED BY <1>4, <1>5

\* Every step decides one block, extends one node's prefix, or changes neither.
LEMMA LedgerStep ==
    ASSUME TypeInv, FixedInv, BackedInv, TypeInv', FixedInv', BackedInv', [Round]_vars
    PROVE  [Ledger!LedgerNext]_(Ledger!ledgerVars)
<1> DEFINE L == Len(blocks)
           D == DecidedLen(isCommitBordcast, Len(blocks))
<1>1. L \in Nat /\ (blocks = <<>> <=> L = 0) /\ L <= MaxBlocks
    BY DEF TypeInv, TypeOK
<1>2. Len(blocks') \in Nat /\ (blocks' = <<>> <=> Len(blocks') = 0)
    BY DEF TypeInv, TypeOK
<1>3. Decided = Upto(D)
    BY <1>1, DecidedIs
<1>4. Decided' = Upto(DecidedLen(isCommitBordcast', Len(blocks')))
    BY <1>2, DecidedBecomes
<1>5. ASSUME blocks' = blocks, isCommitBordcast' = isCommitBordcast PROVE Decided' = Decided
    BY <1>3, <1>4, <1>5
<1>6. ASSUME blocks' = blocks, isCommitBordcast' = isCommitBordcast, chain' = chain
      PROVE  [Ledger!LedgerNext]_(Ledger!ledgerVars)
    BY <1>5, <1>6 DEF Ledger!ledgerVars
<1>7. CASE UNCHANGED vars
    BY <1>6, <1>7 DEF vars, pbftVars
<1>8. ASSUME NEW n \in Node, Propose(n) PROVE [Ledger!LedgerNext]_(Ledger!ledgerVars)
  <2>1. n = 0 /\ ~sequenceLock[0]
    BY <1>8 DEF Propose, FixedInv, ViewZero
  <2>2. D = L
    <3>1. L # 0 => L \in 1 .. Len(blocks)
      BY <1>1
    <3> QED BY <2>1, <3>1, EarlierBacked DEF DecidedLen
  <2>3. Len(blocks') = L + 1 /\ isCommitBordcast' = isCommitBordcast /\ chain' = chain
    BY <1>1, <1>8 DEF Propose, TypeInv, TypeOK
  <2>4. \A m \in Node : L + 1 \notin isCommitBordcast[m]
    BY <1>1 DEF TypeInv, PoolsBounded
  <2>5. ~Backed(isCommitBordcast, L + 1)
    BY <2>4, NotBacked
  <2>6. DecidedLen(isCommitBordcast', Len(blocks')) = L
    BY <1>1, <2>3, <2>5 DEF DecidedLen
  <2>7. Decided' = Decided
    BY <1>3, <1>4, <2>2, <2>6
  <2> QED BY <2>3, <2>7 DEF Ledger!ledgerVars
<1>9. ASSUME NEW n \in Node, NEW b \in Block, HandlePrepare(n, b)
      PROVE  [Ledger!LedgerNext]_(Ledger!ledgerVars)
  <2> DEFINE E == DecidedLen(isCommitBordcast', Len(blocks))
  <2>1. blocks' = blocks /\ chain' = chain
    BY <1>9 DEF HandlePrepare
  <2>2. \A m \in Node : isCommitBordcast[m] \subseteq isCommitBordcast'[m]
    BY <1>9 DEF HandlePrepare, TypeInv, TypeOK
  <2>3. Backed(isCommitBordcast, L) => Backed(isCommitBordcast', L)
    BY <2>2, BackedGrows
  <2>4. D \in Nat /\ (E = D \/ (E = D + 1 /\ E = L /\ L # 0))
    BY <1>1, <2>3 DEF DecidedLen
  <2>5. Decided' = Upto(E)
    BY <1>4, <2>1
  <2> HIDE DEF D, E
  <2>6. CASE E = D
    BY <1>3, <2>1, <2>5, <2>6 DEF Ledger!ledgerVars
  <2>7. CASE E = D + 1 /\ E = L /\ L # 0
    <3>1. Decided' = Append(Decided, D + 1)
      BY <1>3, <2>4, <2>5, <2>7, UptoFacts
    <3>2. D + 1 \in Block
      BY <1>1, <2>7, BoundsAssumption DEF Block
    <3>3. Ledger!Decide(D + 1)
      BY <2>1, <3>1 DEF Ledger!Decide
    <3> QED BY <3>2, <3>3 DEF Ledger!LedgerNext
  <2> QED BY <2>4, <2>6, <2>7
<1>10. ASSUME NEW n \in Node, NEW b \in Block, HandleCommit(n, b)
       PROVE  [Ledger!LedgerNext]_(Ledger!ledgerVars)
  <2>1. b \in 1 .. Len(blocks) /\ Backed(isCommitBordcast, b)
    BY <1>10, CommitBacked DEF HandleCommit, CommitQuorum
  <2>2. Decided' = Decided /\ chain' = [chain EXCEPT ![n] = AddBlock(@, b)]
    BY <1>5, <1>10 DEF HandleCommit
  <2> QED BY <1>3, <2>1, <2>2, LedgerApply
<1>11. ASSUME NEW n \in Node, NEW m \in oldReplies, HandleforSequentialRequest(n, m)
       PROVE  [Ledger!LedgerNext]_(Ledger!ledgerVars)
  <2>1. blocks' = blocks /\ isCommitBordcast' = isCommitBordcast
    BY <1>11 DEF HandleforSequentialRequest
  <2>2. CASE chain' = chain
    BY <1>6, <2>1, <2>2
  <2>3. CASE /\ m.done < Len(m.reqs)
             /\ chain' = [chain EXCEPT ![n] = AddBlock(@, m.reqs[m.done + 1])]
    <3>1. m.done + 1 \in 1 .. Len(m.reqs)
      BY <2>3, ReplyFacts
    <3>2. m.reqs[m.done + 1] \in 1 .. Len(blocks) /\ Backed(isCommitBordcast, m.reqs[m.done + 1])
      BY <3>1, ReplyBacked
    <3> QED BY <1>3, <1>5, <2>1, <2>3, <3>2, LedgerApply
  <2> QED BY <1>11, <2>2, <2>3 DEF HandleforSequentialRequest
<1>12. ASSUME NEW n \in Node, NEW b \in Block,
              HandlePrePrepare(n, b) \/ HandleCommitMissing(n, b) \/ HandleCommitBlocks(n, b)
       PROVE  [Ledger!LedgerNext]_(Ledger!ledgerVars)
    BY <1>6, <1>12 DEF HandlePrePrepare, HandleCommitMissing, HandleCommitBlocks
<1>13. ASSUME NEW n \in Node, ProposeSignal(n) \/ HandleCommitResumes(n)
       PROVE  [Ledger!LedgerNext]_(Ledger!ledgerVars)
    BY <1>6, <1>13 DEF ProposeSignal, HandleCommitResumes
<1>14. ASSUME NEW n \in Node, NEW m, HandleRequestOldSeq(n, m) \/ HandleSendOldSeq(n, m)
       PROVE  [Ledger!LedgerNext]_(Ledger!ledgerVars)
    BY <1>6, <1>14 DEF HandleRequestOldSeq, HandleSendOldSeq, pbftVars
<1> HIDE DEF D, L
<1> QED BY <1>7, <1>8, <1>9, <1>10, <1>11, <1>12, <1>13, <1>14 DEF Round

\* While the view is fixed, the shard implements the abstract ledger: one
\* sequence of decided blocks that only grows, of which every node holds a
\* prefix that only grows.
THEOREM FixedImplementsLedger == FixedViewSpec => ImplementsLedger
<1>1. TypeInv /\ FixedInv /\ BackedInv /\ TypeInv' /\ FixedInv' /\ BackedInv' /\ [Round]_vars
        => [Ledger!LedgerNext]_(Ledger!ledgerVars)
    BY LedgerStep
<1> QED BY <1>1, LedgerStart, BackedInvariant, PTL DEF FixedViewSpec, ImplementsLedger, Ledger!LedgerSpec
=============================================================================
