----------------------------- MODULE ChainStore -----------------------------
(***************************************************************************)
(* A node's chain in memory and on disk (chain/blockchain.go,              *)
(* storage/storage.go), and the Merkle proofs made from it                 *)
(* (chain/merkleproof.go).                                                 *)
(*                                                                         *)
(* A block is stored in three bolt transactions, after the trie database   *)
(* has its state.  The node may stop between any two writes; each write is *)
(* atomic and durable.  On restart NewBlockChain reads what is there.      *)
(*                                                                         *)
(* The shard agrees on one chain (theorem FixedAgreement), so a block is   *)
(* named by its height: its hash and its parent's follow.  A state root    *)
(* stands for the transactions executed to reach it, a transaction root    *)
(* for the transactions of the block.                                      *)
(***************************************************************************)
EXTENDS Integers, Sequences, FiniteSets, SequencesExt

CONSTANTS
    Tx,
    ModBytes,       \* the bit of each transaction in a Bloom filter
    Thread,         \* goroutines that add blocks: handlers of Commits, which hold pbftLock,
                    \* and of old requests, which do not (messageHandle.go)
    MaxBlocks,      \* bound: blocks the shard agrees on
    MaxBody,        \* bound: transactions in a block
    MaxCrashes      \* bound

ASSUME StoreAssumption ==
    /\ ModBytes \in [Tx -> Nat]
    /\ {MaxBlocks, MaxBody, MaxCrashes} \subseteq Nat

Height == 0 .. MaxBlocks
NoBlock == -1
EmptyRoot == <<>>

VARIABLES
    ledger,                     \* the blocks agreed on: body and state root
    up,                         \* whether the node has finished NewBlockChain
    CurrentBlock,               \* in memory: the top block
    adding,                     \* calls of AddBlock: {} or {[block, at]} per thread
    blocks, headers, newest,    \* the three buckets
    tries,                      \* state roots in the trie database
    crashes,
    overlapped                  \* history: a call of AddBlock has begun during another

memVars == <<up, CurrentBlock, adding>>
boltVars == <<blocks, headers, newest>>
history == <<crashes, overlapped>>
vars == <<ledger, memVars, boltVars, tries, history>>

\* Where a call of AddBlock is: what it does next.
Steps == <<"trie", "current", "block", "header", "newest">>

TypeOK ==
    /\ ledger \in Seq([body : Seq(Tx), root : Seq(Tx)]) /\ Len(ledger) \in Height
    /\ up \in BOOLEAN
    /\ CurrentBlock \in 0 .. Len(ledger)
    /\ \A th \in Thread :
        /\ adding[th] \subseteq [block : 0 .. Len(ledger), at : ToSet(Steps)]
        /\ Cardinality(adding[th]) <= 1
    /\ blocks \subseteq 0 .. Len(ledger) /\ headers \subseteq blocks
    /\ newest \in {NoBlock} \cup headers
    /\ \A r \in tries : r \in Seq(Tx)
    /\ crashes \in 0 .. MaxCrashes
    /\ overlapped \in BOOLEAN

Init ==
    /\ ledger = <<>>
    /\ up = FALSE
    /\ CurrentBlock = 0
    /\ adding = [th \in Thread |-> {}]
    /\ blocks = {} /\ headers = {} /\ newest = NoBlock
    /\ tries = {EmptyRoot}
    /\ crashes = 0
    /\ overlapped = FALSE
-----------------------------------------------------------------------------
(* Agreeing on blocks. *)

StateRoot(k) == IF k = 0 THEN EmptyRoot ELSE ledger[k].root
Body(k) == IF k = 0 THEN <<>> ELSE ledger[k].body

\* GetUpdateStatusTrie: nothing changes if there is nothing to execute.
GetUpdateStatusTrie(root, body) == root \o body

Recorded == UNION {ToSet(Body(k)) : k \in 0 .. Len(ledger)}
Bodies == {q \in SeqOf(Tx \ Recorded, MaxBody) : IsInjective(q)}

Agreed(body) ==
    Append(ledger, [body |-> body, root |-> GetUpdateStatusTrie(StateRoot(Len(ledger)), body)])

\* Another node leads.
Agree(body) ==
    /\ Len(ledger) < MaxBlocks
    /\ ledger' = Agreed(body)
    /\ UNCHANGED <<memVars, boltVars, tries, history>>

Adding(th, k, s) == adding[th] = {[block |-> k, at |-> s]}
Idle == \A th \in Thread : adding[th] = {}

\* A body can be executed if the state of the top block is there; without it
\* GetUpdateStatusTrie panics.  An empty body needs no state and stores none.
Executable(body) == body = <<>> \/ StateRoot(CurrentBlock) \in tries
Executed(body) ==
    IF body = <<>> THEN {} ELSE {GetUpdateStatusTrie(StateRoot(CurrentBlock), body)}

\* This node leads: GenerateBlock has executed the block, and the trie database
\* has its state, before the shard agrees on it, or refuses it (IsValidBlock).
GenerateBlock(body) ==
    /\ up
    /\ Len(ledger) < MaxBlocks
    /\ Executable(body)
    /\ tries' = tries \cup Executed(body)
    /\ ledger' \in {ledger} \cup {x \in {Agreed(body)} : CurrentBlock = Len(ledger)}
    /\ UNCHANGED <<memVars, boltVars, history>>
-----------------------------------------------------------------------------
(* AddBlock. *)

\* Mutant: any later height will do.
FollowsCurrentLater(k) == k > CurrentBlock

\* The height and the parent's hash.
FollowsCurrent(k) == k = CurrentBlock + 1

\* A block is offered to AddBlock, which returns at once if it does not follow.
AddBlock(th, k) ==
    /\ up
    /\ adding[th] = {}
    /\ FollowsCurrent(k)
    /\ adding' = [adding EXCEPT ![th] = {[block |-> k, at |-> "trie"]}]
    /\ overlapped' = (overlapped \/ ~Idle)
    /\ UNCHANGED <<ledger, up, CurrentBlock, boltVars, tries, crashes>>

Goto(th, k, s) == adding' = [adding EXCEPT ![th] = {[block |-> k, at |-> s]}]

\* What executing the block adds to the trie database, if its root is not there.
NewRoots(k) == IF StateRoot(k) \in tries THEN {} ELSE Executed(Body(k))

CommitTrie(th, k) ==
    /\ Adding(th, k, "trie")
    /\ StateRoot(k) \in tries \/ Executable(Body(k))
    /\ tries' = tries \cup NewRoots(k)
    /\ Goto(th, k, "current")
    /\ UNCHANGED <<ledger, up, CurrentBlock, boltVars, history>>

SetCurrentBlock(th, k) ==
    /\ Adding(th, k, "current")
    /\ CurrentBlock' = k
    /\ Goto(th, k, "block")
    /\ UNCHANGED <<ledger, up, boltVars, tries, history>>
-----------------------------------------------------------------------------
(* Storage.AddBlock. *)

PutBlock(th, k) ==
    /\ Adding(th, k, "block")
    /\ blocks' = blocks \cup {k}
    /\ Goto(th, k, "header")
    /\ UNCHANGED <<ledger, up, CurrentBlock, headers, newest, tries, history>>

\* Mutant: the newest hash is written with the header's transaction missing.
AddBlockHeaderSkips(th, k) ==
    /\ Adding(th, k, "header")
    /\ Goto(th, k, "newest")
    /\ UNCHANGED <<ledger, up, CurrentBlock, boltVars, tries, history>>

AddBlockHeader(th, k) ==
    /\ Adding(th, k, "header")
    /\ headers' = headers \cup {k}
    /\ Goto(th, k, "newest")
    /\ UNCHANGED <<ledger, up, CurrentBlock, blocks, newest, tries, history>>

\* AddGenisisBlock then reads back what it wrote, and the node is up.
UpdateNewestBlock(th, k) ==
    /\ Adding(th, k, "newest")
    /\ newest' = k
    /\ adding' = [adding EXCEPT ![th] = {}]
    /\ up' = TRUE
    /\ UNCHANGED <<ledger, CurrentBlock, blocks, headers, tries, history>>
-----------------------------------------------------------------------------
(* Stopping and NewBlockChain. *)

\* The process ends; what is in memory is lost.
Crash ==
    /\ crashes < MaxCrashes
    /\ crashes' = crashes + 1
    /\ up' = FALSE
    /\ CurrentBlock' = 0
    /\ adding' = [th \in Thread |-> {}]
    /\ UNCHANGED <<ledger, boltVars, tries, overlapped>>

\* GetNewestBlockHash finds nothing: NewGenisisBlock and AddGenisisBlock.
NewChain(th) ==
    /\ ~up /\ Idle
    /\ newest = NoBlock
    /\ Goto(th, 0, "block")
    /\ UNCHANGED <<ledger, up, CurrentBlock, boltVars, tries, history>>

\* It finds a hash; NewBlockChain panics without the block or its state.
ExistingChain ==
    /\ ~up /\ Idle
    /\ newest \in blocks
    /\ StateRoot(newest) \in tries
    /\ CurrentBlock' = newest
    /\ up' = TRUE
    /\ UNCHANGED <<ledger, adding, boltVars, tries, history>>
-----------------------------------------------------------------------------
Next ==
    \/ \E body \in Bodies : Agree(body) \/ GenerateBlock(body)
    \/ \E th \in Thread :
        \/ \E k \in DOMAIN ledger : AddBlock(th, k) \/ CommitTrie(th, k) \/ SetCurrentBlock(th, k)
        \/ \E k \in Height :
             PutBlock(th, k) \/ AddBlockHeader(th, k) \/ UpdateNewestBlock(th, k)
        \/ NewChain(th)
    \/ Crash \/ ExistingChain

Spec == Init /\ [][Next]_vars
-----------------------------------------------------------------------------
(* Merkle proofs. *)

TxProofResult(t, found, root) == [Found |-> found, TxHash |-> t, TxRoot |-> root]
NotFound(t) == TxProofResult(t, FALSE, {})

TxRoot(k) == ToSet(Body(k))
Bloom(k) == {ModBytes[t] : t \in ToSet(Body(k))}

\* trie.Prove on the tree of a block succeeds for every key: without the key in
\* the tree, with the path to where it would be.
Prove(t, k) == TxProofResult(t, TRUE, TxRoot(k))

TxProofGenerateOnTheBlock(t, k) ==
    IF ModBytes[t] \in Bloom(k) /\ t \in ToSet(Body(k)) THEN Prove(t, k) ELSE NotFound(t)

\* Mutant: the walk ends a block early.
TxProofGenerateShort(t) ==
    LET walk[k \in 0 .. CurrentBlock] ==
            IF k <= 1 \/ k \notin blocks THEN NotFound(t)
            ELSE IF TxProofGenerateOnTheBlock(t, k).Found THEN TxProofGenerateOnTheBlock(t, k)
            ELSE walk[k - 1]
    IN  walk[CurrentBlock]

\* From the top block back to, but without, the genesis block.
TxProofGenerate(t) ==
    LET walk[k \in 0 .. CurrentBlock] ==
            IF k = 0 \/ k \notin blocks THEN NotFound(t)
            ELSE IF TxProofGenerateOnTheBlock(t, k).Found THEN TxProofGenerateOnTheBlock(t, k)
            ELSE walk[k - 1]
    IN  walk[CurrentBlock]

\* TxProofBatchGenerateOnBlock for one of the hashes: the filter, and no search.
TxProofBatchGenerateOnBlock(t, k) ==
    IF ModBytes[t] \in Bloom(k) THEN Prove(t, k) ELSE NotFound(t)

\* trie.VerifyProof finds a value only if the tree has the key.
TxProofVerify(proof) == proof.Found /\ proof.TxHash \in proof.TxRoot

\* What is sent along with some transactions relayed by block k; the receiver
\* takes all of them, or none.
RelayWithProofSend(txs, k) == {TxProofBatchGenerateOnBlock(t, k) : t \in txs}
HandleRelayWithProof(proofs) == \A proof \in proofs : TxProofVerify(proof)
-----------------------------------------------------------------------------
\* Whenever the node stops, NewBlockChain can go on, and a walk down the chain finds
\* "all blocks in this chain" (merkleproof.go:27): the newest block is stored with
\* its header, every block before it is, and the trie database has its state.  So
\* is the state of the top block in memory, from which the next one will be
\* executed (AddBlock, GetUpdateStatusTrie).
Recoverable ==
    /\ newest # NoBlock => /\ 0 .. newest \subseteq blocks \cap headers
                           /\ StateRoot(newest) \in tries
    /\ StateRoot(CurrentBlock) \in tries

\* However many goroutines add blocks, and wherever the node stops, the store is
\* recoverable as long as no call of AddBlock began during another: a stop between
\* any two writes of one call does no harm, only an overlap does.
RecoverableInTurn == ~overlapped => Recoverable

\* A proof is found for exactly the transactions of the top blocks that are stored
\* without a gap, and it verifies, also during calls of AddBlock that overlap and
\* after restarts; between calls that never overlapped those are all the blocks.
\* Relaying a list of transactions with the proofs of a block succeeds exactly if
\* all of them are in it, although a Bloom filter shared by two of them lets the
\* batch version claim more (TxProofBatchGenerateOnBlock, TxProofVerify).
ProofsExact ==
    up =>
        /\ \A t \in Tx :
            LET proof == TxProofGenerate(t)
            IN  /\ proof.Found <=> \E k \in 1 .. CurrentBlock :
                                      t \in ToSet(Body(k)) /\ k .. CurrentBlock \subseteq blocks
                /\ proof.Found => TxProofVerify(proof)
        /\ Idle /\ ~overlapped => 0 .. CurrentBlock \subseteq blocks
        /\ \A k \in 1 .. CurrentBlock, txs \in SUBSET Tx :
            HandleRelayWithProof(RelayWithProofSend(txs, k)) <=> txs \subseteq ToSet(Body(k))
=============================================================================
