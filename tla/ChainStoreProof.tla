-------------------------- MODULE ChainStoreProof --------------------------
(***************************************************************************)
(* Proofs about ChainStore for every set of transactions, every Bloom      *)
(* filter, every bound and any number of goroutines: types, what the       *)
(* Merkle proofs show, and what a restart finds as long as no two calls of *)
(* AddBlock overlap.                                                       *)
(***************************************************************************)
EXTENDS ChainStore, ListTheorems

Calls == [block : Height, at : ToSet(Steps)]

\* A write is done when the call has moved past it.
AddingTyped ==
    /\ adding \in [Thread -> SUBSET Calls]
    /\ \A th \in Thread : adding[th] = {} \/ \E c \in Calls : adding[th] = {c}
WrittenSoFar ==
    \A th \in Thread : \A c \in adding[th] :
        /\ c.block <= Len(ledger)
        /\ c.at \in {"header", "newest"} => c.block \in blocks
        /\ c.at = "newest" => c.block \in headers

TypeInv == TypeOK /\ AddingTyped /\ WrittenSoFar

\* The names of the steps.
LEMMA StepNames == ToSet(Steps) = {"trie", "current", "block", "header", "newest"}
<1>1. DOMAIN Steps = 1 .. 5
    BY DEF Steps
<1>2. ToSet(Steps) = {Steps[i] : i \in 1 .. 5}
    BY <1>1 DEF ToSet
<1>3. 1 .. 5 = {1, 2, 3, 4, 5}
    OBVIOUS
<1> QED BY <1>2, <1>3 DEF Steps

\* A block that can be proposed is a sequence of transactions.
LEMMA BodiesTyped == ASSUME NEW body \in Bodies PROVE body \in Seq(Tx)
<1>1. body \in SeqOf(Tx \ Recorded, MaxBody)
    BY DEF Bodies
<1>2. PICK m \in 0 .. MaxBody : body \in [1 .. m -> Tx \ Recorded]
    BY <1>1 DEF SeqOf
<1>3. m \in Nat
    BY <1>2, StoreAssumption
<1>4. body \in [1 .. m -> Tx]
    BY <1>2
<1> QED BY <1>3, <1>4, IsASeq

\* The roots in the ledger are sequences of transactions.
LEMMA RootTyped ==
    ASSUME TypeOK, NEW k \in 0 .. Len(ledger)
    PROVE  StateRoot(k) \in Seq(Tx) /\ Body(k) \in Seq(Tx) /\ Len(ledger) \in Nat
<1>1. ledger \in Seq([body : Seq(Tx), root : Seq(Tx)]) /\ Len(ledger) \in Nat
    BY DEF TypeOK, Height
<1>2. CASE k = 0
    BY <1>1, <1>2, EmptySeq DEF StateRoot, Body, EmptyRoot
<1>3. CASE k # 0
  <2>1. k \in 1 .. Len(ledger)
    BY <1>1, <1>3
  <2>2. ledger[k] \in [body : Seq(Tx), root : Seq(Tx)]
    BY <1>1, <2>1, ElementOfSeq
  <2> QED BY <1>1, <1>3, <2>2 DEF StateRoot, Body
<1> QED BY <1>2, <1>3

\* NewBlockChain has not started.
LEMMA TypeInit == Init => TypeInv
<1> SUFFICES ASSUME Init PROVE TypeInv
    OBVIOUS
<1>1. TypeOK
  <2>1. ledger \in Seq([body : Seq(Tx), root : Seq(Tx)]) /\ Len(ledger) = 0
    BY EmptySeq DEF Init
  <2>2. \A th \in Thread : adding[th] = {}
    BY DEF Init
  <2>3. Cardinality({}) = 0
    BY FS_EmptySet
  <2>4. EmptyRoot \in Seq(Tx)
    BY EmptySeq DEF EmptyRoot
  <2>5. 0 \in Height
    BY StoreAssumption DEF Height
  <2>6. \A th \in Thread : /\ adding[th] \subseteq [block : 0 .. Len(ledger), at : ToSet(Steps)]
                           /\ Cardinality(adding[th]) <= 1
    <3>1. \A th \in Thread : Cardinality(adding[th]) = 0
      BY <2>2, <2>3, Zenon
    <3> QED BY <2>2, <3>1
  <2>7. CurrentBlock \in 0 .. Len(ledger) /\ crashes \in 0 .. MaxCrashes
    BY <2>1, StoreAssumption DEF Init
  <2> QED BY <2>1, <2>4, <2>5, <2>6, <2>7 DEF Init, TypeOK
<1>2. AddingTyped /\ WrittenSoFar
    BY DEF Init, AddingTyped, WrittenSoFar
<1> QED BY <1>1, <1>2 DEF TypeInv

\* What is known of the blocks agreed on stays true when one is appended.
LEMMA AgreedFacts ==
    ASSUME TypeOK, NEW body \in Bodies, Len(ledger) < MaxBlocks
    PROVE  /\ Agreed(body) \in Seq([body : Seq(Tx), root : Seq(Tx)])
           /\ Len(Agreed(body)) = Len(ledger) + 1
           /\ Len(ledger) + 1 \in Height
           /\ \A k \in 1 .. Len(ledger) : Agreed(body)[k] = ledger[k]
           /\ Agreed(body)[Len(ledger) + 1].body = body
           /\ Agreed(body)[Len(ledger) + 1].root = StateRoot(Len(ledger)) \o body
<1> DEFINE root == StateRoot(Len(ledger)) \o body
           new == [body |-> body, root |-> root]
<1>1. Len(ledger) \in Nat /\ Len(ledger) + 1 \in Height
    BY StoreAssumption DEF TypeOK, Height
<1>2. body \in Seq(Tx) /\ root \in Seq(Tx)
    BY <1>1, BodiesTyped, RootTyped, ConcatProperties
<1>3. Agreed(body) = Append(ledger, new)
    BY DEF Agreed, GetUpdateStatusTrie
<1>4. ledger \in Seq([body : Seq(Tx), root : Seq(Tx)]) /\ new \in [body : Seq(Tx), root : Seq(Tx)]
    BY <1>2 DEF TypeOK
<1>5. new.body = body /\ new.root = root
    OBVIOUS
<1> HIDE DEF new, root
<1>6. /\ Append(ledger, new) \in Seq([body : Seq(Tx), root : Seq(Tx)])
      /\ Len(Append(ledger, new)) = Len(ledger) + 1
      /\ \A k \in 1 .. Len(ledger) : Append(ledger, new)[k] = ledger[k]
      /\ Append(ledger, new)[Len(ledger) + 1] = new
    BY <1>4, AppendProperties
<1> QED BY <1>1, <1>3, <1>5, <1>6 DEF root

\* The ledger may grow under a call: the types depend only on its length.
LEMMA TypeLedger ==
    ASSUME TypeInv, NEW body \in Bodies, Len(ledger) < MaxBlocks,
           ledger' = ledger \/ ledger' = Agreed(body),
           UNCHANGED <<memVars, boltVars, history>>,
           \A r \in tries' : r \in Seq(Tx)
    PROVE  TypeInv'
<1>1. Len(ledger) \in Nat
    BY DEF TypeInv, TypeOK, Height
<1>2. /\ ledger' \in Seq([body : Seq(Tx), root : Seq(Tx)])
      /\ Len(ledger') \in Height /\ Len(ledger) <= Len(ledger')
  <2>1. TypeOK
    BY DEF TypeInv
  <2>2. /\ Agreed(body) \in Seq([body : Seq(Tx), root : Seq(Tx)])
        /\ Len(Agreed(body)) = Len(ledger) + 1
        /\ Len(ledger) + 1 \in Height
    BY <2>1, AgreedFacts
  <2> QED BY <1>1, <2>1, <2>2 DEF TypeOK
<1>3. 0 .. Len(ledger) \subseteq 0 .. Len(ledger')
    BY <1>1, <1>2 DEF Height
<1>4. TypeOK'
  <2>1. [block : 0 .. Len(ledger), at : ToSet(Steps)]
            \subseteq [block : 0 .. Len(ledger'), at : ToSet(Steps)]
    BY <1>3
  <2>2. \A th \in Thread :
            adding'[th] \subseteq [block : 0 .. Len(ledger'), at : ToSet(Steps)]
    BY <2>1 DEF TypeInv, TypeOK, memVars
  <2>3. Steps' = Steps /\ (ToSet(Steps))' = ToSet(Steps) /\ Height' = Height
    BY DEF Steps, ToSet, Height
  <2>4. CurrentBlock' \in 0 .. Len(ledger') /\ blocks' \subseteq 0 .. Len(ledger')
    BY <1>3 DEF TypeInv, TypeOK, memVars, boltVars
  <2> QED BY <1>2, <2>2, <2>3, <2>4 DEF TypeInv, TypeOK, memVars, boltVars, history
<1>5. AddingTyped'
    BY DEF TypeInv, AddingTyped, memVars
<1>6. WrittenSoFar'
  <2>1. \A th \in Thread : \A c \in adding[th] : c.block \in Int
    BY DEF TypeInv, AddingTyped, Calls, Height
  <2>2. Len(ledger') \in Int
    BY <1>2 DEF Height
  <2> QED BY <1>1, <1>2, <2>1, <2>2 DEF TypeInv, WrittenSoFar, memVars, boltVars
<1> QED BY <1>4, <1>5, <1>6 DEF TypeInv

\* A call moves on to step s with block k.
LEMMA TypeGoto ==
    ASSUME TypeInv, NEW th \in Thread, NEW k \in 0 .. Len(ledger), NEW s \in ToSet(Steps),
           Goto(th, k, s)
    PROVE  /\ AddingTyped'
           /\ adding'[th] = {[block |-> k, at |-> s]}
           /\ \A t \in Thread \ {th} : adding'[t] = adding[t]
           /\ \A t \in Thread : /\ adding'[t] \subseteq [block : 0 .. Len(ledger), at : ToSet(Steps)]
                                /\ Cardinality(adding'[t]) <= 1
<1> DEFINE c == [block |-> k, at |-> s]
<1>1. c \in Calls /\ c \in [block : 0 .. Len(ledger), at : ToSet(Steps)]
  <2>1. k \in Height
    BY StoreAssumption DEF TypeInv, TypeOK, Height
  <2> QED BY <2>1 DEF Calls
<1>2. Cardinality({c}) = 1
    BY FS_Singleton
<1>3. adding \in [Thread -> SUBSET Calls] /\ adding' = [adding EXCEPT ![th] = {c}]
    BY DEF TypeInv, AddingTyped, Goto
<1>4. adding'[th] = {c} /\ \A t \in Thread \ {th} : adding'[t] = adding[t]
    BY <1>3
<1>5. adding' \in [Thread -> SUBSET Calls]
    BY <1>1, <1>3
<1>6. \A t \in Thread : /\ adding'[t] \subseteq [block : 0 .. Len(ledger), at : ToSet(Steps)]
                        /\ Cardinality(adding'[t]) <= 1
  <2> TAKE t \in Thread
  <2>1. CASE t = th
    <3>1. adding'[t] = {c} /\ Cardinality(adding'[t]) = 1
      BY <1>2, <1>4, <2>1, Zenon
    <3> QED BY <1>1, <3>1
  <2>2. CASE t # th
    BY <1>4, <2>2 DEF TypeInv, TypeOK
  <2> QED BY <2>1, <2>2
<1>7. AddingTyped'
    BY <1>1, <1>4, <1>5 DEF TypeInv, AddingTyped
<1> QED BY <1>4, <1>6, <1>7

\* The type invariant after a step of a call that leaves the ledger alone.
LEMMA TypeAfter ==
    ASSUME TypeInv, ledger' = ledger, AddingTyped', WrittenSoFar',
           \A t \in Thread : /\ adding'[t] \subseteq [block : 0 .. Len(ledger), at : ToSet(Steps)]
                             /\ Cardinality(adding'[t]) <= 1,
           up' \in BOOLEAN, CurrentBlock' \in 0 .. Len(ledger), crashes' \in 0 .. MaxCrashes,
           overlapped' \in BOOLEAN,
           blocks' \subseteq 0 .. Len(ledger), headers' \subseteq blocks',
           newest' \in {NoBlock} \cup headers',
           \A r \in tries' : r \in Seq(Tx)
    PROVE  TypeInv'
<1>1. Steps' = Steps /\ (ToSet(Steps))' = ToSet(Steps) /\ Height' = Height /\ NoBlock' = NoBlock
    BY DEF Steps, ToSet, Height, NoBlock
<1>2. ledger' \in Seq([body : Seq(Tx), root : Seq(Tx)]) /\ Len(ledger') \in Height
    BY DEF TypeInv, TypeOK
<1>3. TypeOK'
    BY <1>1, <1>2 DEF TypeOK
<1> QED BY <1>3 DEF TypeInv

\* AddBlock only starts a call for a block that was agreed on.
LEMMA TypeAddBlock ==
    ASSUME TypeInv, NEW th \in Thread, NEW k \in DOMAIN ledger, AddBlock(th, k) PROVE TypeInv'
<1>1. k \in 0 .. Len(ledger)
    BY DEF TypeInv, TypeOK
<1>2. "trie" \in ToSet(Steps) /\ Goto(th, k, "trie")
    BY StepNames DEF AddBlock, Goto
<1>3. UNCHANGED <<ledger, up, CurrentBlock, blocks, headers, newest, tries, crashes>>
      /\ overlapped' \in BOOLEAN
    BY DEF AddBlock, boltVars
<1>4. WrittenSoFar'
    BY <1>1, <1>2, <1>3, TypeGoto DEF TypeInv, WrittenSoFar
<1>5. TypeOK
    BY DEF TypeInv
<1> QED BY <1>1, <1>2, <1>3, <1>4, <1>5, TypeGoto, TypeAfter DEF TypeOK

\* Executing a block adds the roots of sequences of transactions.
LEMMA TypeCommitTrie ==
    ASSUME TypeInv, NEW th \in Thread, NEW k \in DOMAIN ledger, CommitTrie(th, k) PROVE TypeInv'
<1>1. k \in 0 .. Len(ledger) /\ TypeOK
    BY DEF TypeInv, TypeOK
<1>2. "current" \in ToSet(Steps) /\ Goto(th, k, "current")
    BY StepNames DEF CommitTrie
<1>3. UNCHANGED <<ledger, up, CurrentBlock, blocks, headers, newest, crashes, overlapped>>
    BY DEF CommitTrie, boltVars, history
<1>4. WrittenSoFar'
    BY <1>1, <1>2, <1>3, TypeGoto DEF TypeInv, WrittenSoFar
<1>5. \A r \in tries' : r \in Seq(Tx)
  <2>1. StateRoot(CurrentBlock) \in Seq(Tx) /\ Body(k) \in Seq(Tx)
    BY <1>1, RootTyped DEF TypeOK
  <2>2. StateRoot(CurrentBlock) \o Body(k) \in Seq(Tx)
    BY <2>1, ConcatProperties
  <2> QED BY <1>1, <2>2 DEF CommitTrie, NewRoots, Executed, GetUpdateStatusTrie, TypeOK
<1> QED BY <1>1, <1>2, <1>3, <1>4, <1>5, TypeGoto, TypeAfter DEF TypeOK

\* The top block in memory is one that was agreed on.
LEMMA TypeSetCurrentBlock ==
    ASSUME TypeInv, NEW th \in Thread, NEW k \in DOMAIN ledger, SetCurrentBlock(th, k)
    PROVE  TypeInv'
<1>1. k \in 0 .. Len(ledger) /\ TypeOK
    BY DEF TypeInv, TypeOK
<1>2. "block" \in ToSet(Steps) /\ Goto(th, k, "block")
    BY StepNames DEF SetCurrentBlock
<1>3. UNCHANGED <<ledger, up, blocks, headers, newest, tries, crashes, overlapped>> /\ CurrentBlock' = k
    BY DEF SetCurrentBlock, boltVars, history
<1>4. WrittenSoFar'
    BY <1>1, <1>2, <1>3, TypeGoto DEF TypeInv, WrittenSoFar
<1> QED BY <1>1, <1>2, <1>3, <1>4, TypeGoto, TypeAfter DEF TypeOK

\* The call that writes to the buckets has a block of the ledger.
LEMMA CallTyped ==
    ASSUME TypeInv, NEW th \in Thread, NEW k, NEW s, Adding(th, k, s)
    PROVE  /\ k \in 0 .. Len(ledger)
           /\ s \in {"header", "newest"} => k \in blocks
           /\ s = "newest" => k \in headers
<1> DEFINE c == [block |-> k, at |-> s]
<1>1. c \in adding[th]
    BY DEF Adding
<1>2. c \in [block : 0 .. Len(ledger), at : ToSet(Steps)]
    BY <1>1 DEF TypeInv, TypeOK
<1>3. c.block = k /\ c.at = s
    OBVIOUS
<1>4. k \in 0 .. Len(ledger)
    BY <1>2, <1>3
<1> HIDE DEF c
<1>5. /\ c.at \in {"header", "newest"} => c.block \in blocks
      /\ c.at = "newest" => c.block \in headers
    BY <1>1 DEF TypeInv, WrittenSoFar
<1> QED BY <1>3, <1>4, <1>5

\* Storage.AddBlock, first transaction.
LEMMA TypePutBlock ==
    ASSUME TypeInv, NEW th \in Thread, NEW k \in Height, PutBlock(th, k) PROVE TypeInv'
<1>1. k \in 0 .. Len(ledger) /\ TypeOK
    BY CallTyped DEF PutBlock, TypeInv
<1>2. "header" \in ToSet(Steps) /\ Goto(th, k, "header")
    BY StepNames DEF PutBlock
<1>3. UNCHANGED <<ledger, up, CurrentBlock, headers, newest, tries, crashes, overlapped>>
      /\ blocks' = blocks \cup {k}
    BY DEF PutBlock, history
<1>4. WrittenSoFar'
    BY <1>1, <1>2, <1>3, TypeGoto DEF TypeInv, WrittenSoFar
<1> QED BY <1>1, <1>2, <1>3, <1>4, TypeGoto, TypeAfter DEF TypeOK

\* Second transaction: the block is there already.
LEMMA TypeAddBlockHeader ==
    ASSUME TypeInv, NEW th \in Thread, NEW k \in Height, AddBlockHeader(th, k) PROVE TypeInv'
<1>1. k \in 0 .. Len(ledger) /\ k \in blocks /\ TypeOK
    BY CallTyped DEF AddBlockHeader, TypeInv
<1>2. "newest" \in ToSet(Steps) /\ Goto(th, k, "newest")
    BY StepNames DEF AddBlockHeader
<1>3. UNCHANGED <<ledger, up, CurrentBlock, blocks, newest, tries, crashes, overlapped>>
      /\ headers' = headers \cup {k}
    BY DEF AddBlockHeader, history
<1>4. WrittenSoFar'
    BY <1>1, <1>2, <1>3, TypeGoto DEF TypeInv, WrittenSoFar
<1> QED BY <1>1, <1>2, <1>3, <1>4, TypeGoto, TypeAfter DEF TypeOK

\* Third transaction: the header is there already.
LEMMA TypeUpdateNewestBlock ==
    ASSUME TypeInv, NEW th \in Thread, NEW k \in Height, UpdateNewestBlock(th, k) PROVE TypeInv'
<1>1. k \in 0 .. Len(ledger) /\ k \in headers /\ TypeOK
    BY CallTyped DEF UpdateNewestBlock, TypeInv
<1>2. UNCHANGED <<ledger, CurrentBlock, blocks, headers, tries, crashes, overlapped>>
      /\ newest' = k /\ up' = TRUE /\ adding' = [adding EXCEPT ![th] = {}]
    BY DEF UpdateNewestBlock, history
<1>3. \A t \in Thread : adding'[t] = {} \/ adding'[t] = adding[t]
    BY <1>2 DEF TypeInv, AddingTyped
<1>4. AddingTyped'
    BY <1>2, <1>3 DEF TypeInv, AddingTyped
<1>5. WrittenSoFar'
    BY <1>2, <1>3 DEF TypeInv, WrittenSoFar
<1>6. \A t \in Thread : /\ adding'[t] \subseteq [block : 0 .. Len(ledger), at : ToSet(Steps)]
                        /\ Cardinality(adding'[t]) <= 1
  <2>1. Cardinality({}) = 0
    BY FS_EmptySet
  <2>2. \A t \in Thread : Cardinality(adding'[t]) = 0 \/ Cardinality(adding'[t]) = Cardinality(adding[t])
    BY <1>3, <2>1, Zenon
  <2> QED BY <1>1, <1>3, <2>2 DEF TypeOK
<1> QED BY <1>1, <1>2, <1>4, <1>5, <1>6, TypeAfter DEF TypeOK

\* What is lost and read again at a restart has its types.
LEMMA TypeCrash == ASSUME TypeInv, Crash PROVE TypeInv'
<1>1. TypeOK
    BY DEF TypeInv
<1>2. UNCHANGED <<ledger, blocks, headers, newest, tries, overlapped>>
      /\ up' = FALSE /\ CurrentBlock' = 0 /\ crashes' \in 0 .. MaxCrashes
    BY <1>1, StoreAssumption DEF Crash, boltVars, TypeOK
<1>3. \A t \in Thread : adding'[t] = {}
    BY DEF Crash
<1>4. AddingTyped' /\ WrittenSoFar'
    BY <1>3 DEF Crash, AddingTyped, WrittenSoFar
<1>5. \A t \in Thread : /\ adding'[t] \subseteq [block : 0 .. Len(ledger), at : ToSet(Steps)]
                        /\ Cardinality(adding'[t]) <= 1
  <2>1. \A t \in Thread : Cardinality(adding'[t]) = 0
    BY <1>3, FS_EmptySet, Zenon
  <2> QED BY <1>3, <2>1
<1>6. 0 \in 0 .. Len(ledger)
    BY <1>1 DEF TypeOK, Height
<1> QED BY <1>1, <1>2, <1>4, <1>5, <1>6, TypeAfter DEF TypeOK

\* AddGenisisBlock starts to store the genesis block.
LEMMA TypeNewChain ==
    ASSUME TypeInv, NEW th \in Thread, NewChain(th) PROVE TypeInv'
<1>1. TypeOK /\ 0 \in 0 .. Len(ledger)
    BY DEF TypeInv, TypeOK, Height
<1>2. "block" \in ToSet(Steps) /\ Goto(th, 0, "block")
    BY StepNames DEF NewChain
<1>3. UNCHANGED <<ledger, up, CurrentBlock, blocks, headers, newest, tries, crashes, overlapped>>
    BY DEF NewChain, boltVars, history
<1>4. WrittenSoFar'
    BY <1>1, <1>2, <1>3, TypeGoto DEF TypeInv, WrittenSoFar
<1> QED BY <1>1, <1>2, <1>3, <1>4, TypeGoto, TypeAfter DEF TypeOK

\* The newest block found on disk becomes the top block.
LEMMA TypeExistingChain == ASSUME TypeInv, ExistingChain PROVE TypeInv'
<1>1. TypeOK
    BY DEF TypeInv
<1>2. UNCHANGED <<ledger, adding, blocks, headers, newest, tries, crashes, overlapped>>
      /\ up' = TRUE /\ CurrentBlock' = newest /\ newest \in blocks
    BY DEF ExistingChain, boltVars, history
<1>3. AddingTyped' /\ WrittenSoFar'
    BY <1>2 DEF TypeInv, AddingTyped, WrittenSoFar
<1> QED BY <1>1, <1>2, <1>3, TypeAfter DEF TypeOK

\* Every step keeps the type invariant.
LEMMA TypeNext == TypeInv /\ [Next]_vars => TypeInv'
<1> SUFFICES ASSUME TypeInv, [Next]_vars PROVE TypeInv'
    OBVIOUS
<1>1. ASSUME NEW body \in Bodies, Agree(body) PROVE TypeInv'
    BY <1>1, TypeLedger DEF Agree, TypeInv, TypeOK
<1>2. ASSUME NEW body \in Bodies, GenerateBlock(body) PROVE TypeInv'
  <2>1. TypeOK /\ body \in Seq(Tx)
    BY BodiesTyped DEF TypeInv
  <2>2. StateRoot(CurrentBlock) \o body \in Seq(Tx)
    BY <2>1, RootTyped, ConcatProperties DEF TypeOK
  <2>3. \A r \in tries' : r \in Seq(Tx)
    BY <1>2, <2>1, <2>2 DEF GenerateBlock, Executed, GetUpdateStatusTrie, TypeOK
  <2> QED BY <1>2, <2>3, TypeLedger DEF GenerateBlock
<1>3. CASE UNCHANGED vars
  <2>1. UNCHANGED <<ledger, up, CurrentBlock, adding, blocks, headers, newest, tries, crashes,
                  overlapped>>
    BY <1>3 DEF vars, memVars, boltVars, history
  <2>2. TypeOK /\ AddingTyped' /\ WrittenSoFar'
    BY <2>1 DEF TypeInv, AddingTyped, WrittenSoFar
  <2> QED BY <2>1, <2>2, TypeAfter DEF TypeOK
<1> QED BY <1>1, <1>2, <1>3, TypeAddBlock, TypeCommitTrie, TypeSetCurrentBlock, TypePutBlock,
           TypeAddBlockHeader, TypeUpdateNewestBlock, TypeNewChain, TypeCrash, TypeExistingChain
        DEF Next

\* Everything NewBlockChain, AddBlock and Storage.AddBlock keep has its type, and
\* the buckets are filled in order: a header only for a stored block, the newest
\* hash only for a stored header, with any number of goroutines in AddBlock.
THEOREM TypeCorrect == Spec => []TypeOK
<1>1. TypeInv => TypeOK
    BY DEF TypeInv
<1> QED BY <1>1, TypeInit, TypeNext, PTL DEF Spec
-----------------------------------------------------------------------------
(* Calls of AddBlock in turn: none has begun during another so far.        *)

\* At most one goroutine is in AddBlock.
Serial == \A x, y \in Thread : adding[x] # {} /\ adding[y] # {} => x = y

\* Each root of the ledger is what executing the block on the one before gives.
RootsChained ==
    \A k \in 1 .. Len(ledger) : ledger[k].root = StateRoot(k - 1) \o ledger[k].body

\* The writes of the buckets and of the trie database that are done.
DiskComplete ==
    /\ EmptyRoot \in tries
    /\ newest # NoBlock => /\ 0 .. newest \subseteq blocks \cap headers
                           /\ StateRoot(newest) \in tries

\* Between calls memory and disk have the same top block.
AtRest == Idle => IF up THEN newest = CurrentBlock ELSE CurrentBlock = 0

\* A call before it moves the top block, and one after.
InCall ==
    \A th \in Thread : \A c \in adding[th] :
        /\ c.at \in {"trie", "current"} => up /\ c.block = CurrentBlock + 1 /\ newest = CurrentBlock
        /\ c.at = "current" => StateRoot(c.block) \in tries
        /\ c.at \in {"block", "header", "newest"} =>
               /\ c.block = CurrentBlock
               /\ newest = CurrentBlock - 1
               /\ up <=> CurrentBlock > 0

RecoverInv ==
    /\ TypeInv
    /\ RootsChained
    /\ DiskComplete
    /\ StateRoot(CurrentBlock) \in tries
    /\ AtRest
    /\ InCall
    /\ Serial

\* Until two calls overlap the store is as it should be.
InTurnInv == TypeInv /\ (~overlapped => RecoverInv)

\* Nothing is stored, and the empty state needs no block.
LEMMA RecoverInit == Init => RecoverInv
<1> SUFFICES ASSUME Init PROVE RecoverInv
    OBVIOUS
<1>1. TypeInv
    BY TypeInit
<1>2. RootsChained
  <2>1. Len(ledger) = 0
    BY EmptySeq DEF Init
  <2> QED BY <2>1 DEF RootsChained
<1>3. DiskComplete /\ StateRoot(CurrentBlock) \in tries
    BY DEF Init, DiskComplete, StateRoot
<1>4. AtRest /\ InCall /\ Serial
    BY DEF Init, AtRest, InCall, Serial
<1> QED BY <1>1, <1>2, <1>3, <1>4 DEF RecoverInv

\* Agreeing on another block changes nothing for those there are, and the leader
\* only adds to the trie database.
LEMMA RecoverLedger ==
    ASSUME RecoverInv, TypeInv', NEW body \in Bodies, Len(ledger) < MaxBlocks,
           ledger' = ledger \/ ledger' = Agreed(body),
           UNCHANGED <<memVars, boltVars>>, tries \subseteq tries'
    PROVE  RecoverInv'
<1>1. TypeOK /\ TypeInv /\ Len(ledger) \in Nat
    BY DEF RecoverInv, TypeInv, TypeOK, Height
<1>2. /\ Len(Agreed(body)) = Len(ledger) + 1
      /\ \A k \in 1 .. Len(ledger) : Agreed(body)[k] = ledger[k]
      /\ Agreed(body)[Len(ledger) + 1].body = body
      /\ Agreed(body)[Len(ledger) + 1].root = StateRoot(Len(ledger)) \o body
    BY <1>1, AgreedFacts
<1>3. \A k \in 0 .. Len(ledger) : StateRoot(k)' = StateRoot(k)
    BY <1>1, <1>2 DEF StateRoot, EmptyRoot
<1>4. CurrentBlock \in 0 .. Len(ledger) /\ newest \in {NoBlock} \cup 0 .. Len(ledger)
    BY <1>1 DEF TypeOK
<1>5. \A th \in Thread : \A c \in adding[th] : c.block \in 0 .. Len(ledger)
    BY <1>1 DEF TypeInv, AddingTyped, WrittenSoFar, Calls, Height
<1>6. RootsChained'
  <2>1. CASE ledger' = ledger
    BY <2>1 DEF RecoverInv, RootsChained, StateRoot, EmptyRoot
  <2>2. CASE ledger' = Agreed(body)
    <3> SUFFICES ASSUME NEW k \in 1 .. Len(ledger) + 1
                 PROVE  ledger'[k].root = StateRoot(k - 1)' \o ledger'[k].body
      BY <1>2, <2>2 DEF RootsChained
    <3>1. k - 1 \in 0 .. Len(ledger)
      BY <1>1
    <3>2. StateRoot(k - 1)' = StateRoot(k - 1)
      BY <1>3, <3>1
    <3>3. CASE k \in 1 .. Len(ledger)
      BY <1>2, <2>2, <3>2, <3>3 DEF RecoverInv, RootsChained
    <3>4. CASE k = Len(ledger) + 1
      BY <1>1, <1>2, <2>2, <3>2, <3>4
    <3>5. k \in 1 .. Len(ledger) \/ k = Len(ledger) + 1
      BY <1>1
    <3> QED BY <3>3, <3>4, <3>5
  <2> QED BY <2>1, <2>2
<1>7. DiskComplete' /\ StateRoot(CurrentBlock)' \in tries'
  <2>1. UNCHANGED <<newest, blocks, headers, CurrentBlock>> /\ NoBlock' = NoBlock /\ EmptyRoot' = EmptyRoot
    BY DEF boltVars, memVars, NoBlock, EmptyRoot
  <2>2. StateRoot(CurrentBlock)' = StateRoot(CurrentBlock)
    BY <1>3, <1>4, <2>1
  <2>3. newest # NoBlock => StateRoot(newest)' = StateRoot(newest)
    BY <1>3, <1>4, <2>1
  <2> QED BY <2>1, <2>2, <2>3 DEF RecoverInv, DiskComplete
<1>8. AtRest'
    BY DEF RecoverInv, AtRest, Idle, memVars, boltVars
<1>9. InCall'
  <2>1. UNCHANGED <<adding, CurrentBlock, newest, up>>
    BY DEF boltVars, memVars
  <2>2. \A th \in Thread : \A c \in adding[th] : StateRoot(c.block)' = StateRoot(c.block)
    BY <1>3, <1>5
  <2> QED BY <2>1, <2>2 DEF RecoverInv, InCall
<1>10. Serial'
    BY DEF RecoverInv, Serial, memVars
<1> QED BY <1>6, <1>7, <1>8, <1>9, <1>10 DEF RecoverInv

\* The one call there is, after a step that leaves the ledger alone.
LEMMA RecoverCall ==
    ASSUME RecoverInv, TypeInv', NEW h \in Thread, ledger' = ledger,
           NEW k, NEW s, adding'[h] = {[block |-> k, at |-> s]},
           \A th \in Thread \ {h} : adding'[th] = {},
           s \in {"trie", "current"} => up' /\ k = CurrentBlock' + 1 /\ newest' = CurrentBlock',
           s = "current" => StateRoot(k) \in tries',
           s \in {"block", "header", "newest"} =>
               k = CurrentBlock' /\ newest' = CurrentBlock' - 1 /\ (up' <=> CurrentBlock' > 0),
           tries \subseteq tries', StateRoot(CurrentBlock') \in tries',
           newest' = newest, blocks \subseteq blocks', headers \subseteq headers'
    PROVE  RecoverInv'
<1>1. \A x : StateRoot(x)' = StateRoot(x)
    BY DEF StateRoot, EmptyRoot
<1>2. RootsChained'
    BY DEF RecoverInv, RootsChained, StateRoot, EmptyRoot
<1>3. DiskComplete'
    BY <1>1 DEF RecoverInv, DiskComplete, StateRoot, EmptyRoot, NoBlock
<1>4. AtRest'
    BY DEF AtRest, Idle
<1>5. InCall' /\ Serial'
    BY <1>1 DEF InCall, Serial, StateRoot, EmptyRoot
<1>6. StateRoot(CurrentBlock)' \in tries'
    BY DEF StateRoot, EmptyRoot
<1> QED BY <1>2, <1>3, <1>4, <1>5, <1>6 DEF RecoverInv

\* What the invariant says of a call at step s.
LEMMA CallState ==
    ASSUME RecoverInv, NEW th \in Thread, NEW k, NEW s, Adding(th, k, s)
    PROVE  /\ s \in {"trie", "current"} => up /\ k = CurrentBlock + 1 /\ newest = CurrentBlock
           /\ s = "current" => StateRoot(k) \in tries
           /\ s \in {"block", "header", "newest"} =>
                  k = CurrentBlock /\ newest = CurrentBlock - 1 /\ (up <=> CurrentBlock > 0)
<1> DEFINE c == [block |-> k, at |-> s]
<1>1. c \in adding[th] /\ c.block = k /\ c.at = s
    BY DEF Adding
<1> HIDE DEF c
<1> QED BY <1>1 DEF RecoverInv, InCall

\* While a goroutine is in a call the others are not.
LEMMA OthersIdle ==
    ASSUME RecoverInv, NEW h \in Thread, NEW k, NEW s, Adding(h, k, s)
    PROVE  \A th \in Thread \ {h} : adding[th] = {}
<1>1. adding[h] # {}
    BY DEF Adding
<1> QED BY <1>1 DEF RecoverInv, Serial

\* Every step of a goroutine that adds blocks, and of a restart, unless it makes
\* two calls overlap.
LEMMA RecoverNext ==
    ASSUME RecoverInv, [Next]_vars, ~overlapped' PROVE RecoverInv'
<1>1. TypeInv /\ TypeInv' /\ TypeOK
    BY TypeNext DEF RecoverInv, TypeInv
<1>2. adding \in [Thread -> SUBSET Calls] /\ CurrentBlock \in Nat /\ Len(ledger) \in Nat
    BY <1>1 DEF TypeInv, AddingTyped, TypeOK, Height
<1>3. ASSUME NEW body \in Bodies, Agree(body) PROVE RecoverInv'
    BY <1>1, <1>3, RecoverLedger DEF Agree
<1>4. ASSUME NEW body \in Bodies, GenerateBlock(body) PROVE RecoverInv'
    BY <1>1, <1>4, RecoverLedger DEF GenerateBlock
<1>5. ASSUME NEW h \in Thread, NEW k \in DOMAIN ledger, AddBlock(h, k) PROVE RecoverInv'
  <2>1. adding'[h] = {[block |-> k, at |-> "trie"]}
    BY <1>2, <1>5 DEF AddBlock
  <2>2. Idle /\ up /\ k = CurrentBlock + 1
    BY <1>5 DEF AddBlock, Idle, FollowsCurrent
  <2>3. newest = CurrentBlock
    BY <2>2 DEF RecoverInv, AtRest
  <2>4. UNCHANGED <<ledger, up, CurrentBlock, blocks, headers, newest, tries>>
    BY <1>5 DEF AddBlock, boltVars
  <2>5. StateRoot(CurrentBlock) \in tries
    BY DEF RecoverInv
  <2>6. \A th \in Thread \ {h} : adding'[th] = {}
    BY <1>2, <1>5, <2>2 DEF AddBlock, Idle
  <2>7. /\ up' /\ k = CurrentBlock' + 1 /\ newest' = CurrentBlock' /\ StateRoot(CurrentBlock') \in tries'
        /\ ledger' = ledger /\ newest' = newest
        /\ tries \subseteq tries' /\ blocks \subseteq blocks' /\ headers \subseteq headers'
    BY <2>2, <2>3, <2>4, <2>5
  <2> QED BY <1>1, <2>1, <2>6, <2>7, RecoverCall
<1>6. ASSUME NEW h \in Thread, NEW k \in DOMAIN ledger, CommitTrie(h, k) PROVE RecoverInv'
  <2>1. adding'[h] = {[block |-> k, at |-> "current"]}
    BY <1>2, <1>6 DEF CommitTrie, Goto
  <2>2. up /\ k = CurrentBlock + 1 /\ newest = CurrentBlock
    BY <1>6, CallState DEF CommitTrie
  <2>3. StateRoot(k) = StateRoot(CurrentBlock) \o Body(k)
    <3>1. k \in 1 .. Len(ledger) /\ k - 1 = CurrentBlock
      BY <1>1, <1>2, <2>2 DEF TypeOK
    <3>2. ledger[k].root = StateRoot(k - 1) \o ledger[k].body
      BY <3>1 DEF RecoverInv, RootsChained
    <3>3. k # 0
      BY <3>1
    <3> QED BY <3>1, <3>2, <3>3 DEF StateRoot, Body
  <2>4. StateRoot(k) \in tries'
    <3>1. CASE Body(k) = <<>>
      <4>1. StateRoot(CurrentBlock) \in Seq(Tx) /\ StateRoot(CurrentBlock) \in tries
        BY <1>1, RootTyped DEF TypeOK, RecoverInv
      <4>2. StateRoot(k) = StateRoot(CurrentBlock)
        BY <2>3, <3>1, <4>1, ConcatEmptySeq
      <4> QED BY <1>6, <4>1, <4>2 DEF CommitTrie
    <3>2. CASE Body(k) # <<>>
      BY <1>6, <2>3, <3>2 DEF CommitTrie, NewRoots, Executed, GetUpdateStatusTrie
    <3> QED BY <3>1, <3>2
  <2>5. \A th \in Thread \ {h} : adding'[th] = {}
    BY <1>2, <1>6, OthersIdle DEF CommitTrie, Goto
  <2> QED BY <1>1, <1>6, <2>1, <2>2, <2>4, <2>5, RecoverCall DEF CommitTrie, boltVars, RecoverInv
<1>7. ASSUME NEW h \in Thread, NEW k \in DOMAIN ledger, SetCurrentBlock(h, k) PROVE RecoverInv'
  <2>1. adding'[h] = {[block |-> k, at |-> "block"]}
    BY <1>2, <1>7 DEF SetCurrentBlock, Goto
  <2>2. up /\ k = CurrentBlock + 1 /\ newest = CurrentBlock /\ StateRoot(k) \in tries
    BY <1>7, CallState DEF SetCurrentBlock
  <2>3. newest = k - 1 /\ k > 0
    BY <1>2, <2>2
  <2>4. \A th \in Thread \ {h} : adding'[th] = {}
    BY <1>2, <1>7, OthersIdle DEF SetCurrentBlock, Goto
  <2> QED BY <1>1, <1>7, <2>1, <2>2, <2>3, <2>4, RecoverCall DEF SetCurrentBlock, boltVars
<1>8. ASSUME NEW h \in Thread, NEW k \in Height, PutBlock(h, k) PROVE RecoverInv'
  <2>1. adding'[h] = {[block |-> k, at |-> "header"]}
    BY <1>2, <1>8 DEF PutBlock, Goto
  <2>2. k = CurrentBlock /\ newest = CurrentBlock - 1 /\ (up <=> CurrentBlock > 0)
    BY <1>8, CallState DEF PutBlock
  <2>3. \A th \in Thread \ {h} : adding'[th] = {}
    BY <1>2, <1>8, OthersIdle DEF PutBlock, Goto
  <2> QED BY <1>1, <1>8, <2>1, <2>2, <2>3, RecoverCall DEF PutBlock, RecoverInv
<1>9. ASSUME NEW h \in Thread, NEW k \in Height, AddBlockHeader(h, k) PROVE RecoverInv'
  <2>1. adding'[h] = {[block |-> k, at |-> "newest"]}
    BY <1>2, <1>9 DEF AddBlockHeader, Goto
  <2>2. k = CurrentBlock /\ newest = CurrentBlock - 1 /\ (up <=> CurrentBlock > 0)
    BY <1>9, CallState DEF AddBlockHeader
  <2>3. \A th \in Thread \ {h} : adding'[th] = {}
    BY <1>2, <1>9, OthersIdle DEF AddBlockHeader, Goto
  <2> QED BY <1>1, <1>9, <2>1, <2>2, <2>3, RecoverCall DEF AddBlockHeader, RecoverInv
<1>10. ASSUME NEW h \in Thread, NEW k \in Height, UpdateNewestBlock(h, k) PROVE RecoverInv'
  <2>1. UNCHANGED <<ledger, CurrentBlock, blocks, headers, tries>> /\ newest' = k /\ up'
        /\ \A th \in Thread : adding'[th] = {}
    BY <1>2, <1>10, OthersIdle DEF UpdateNewestBlock
  <2>2. k = CurrentBlock /\ newest = CurrentBlock - 1 /\ k \in blocks /\ k \in headers
    BY <1>1, <1>10, CallState, CallTyped DEF UpdateNewestBlock
  <2>3. RootsChained'
    BY <2>1 DEF RecoverInv, RootsChained, StateRoot, EmptyRoot
  <2>4. 0 .. k \subseteq blocks \cap headers
    <3>1. CASE k = 0
      BY <2>2, <3>1
    <3>2. CASE k # 0
      <4>1. newest # NoBlock /\ 0 .. k = (0 .. newest) \cup {k}
        BY <1>2, <2>2, <3>2 DEF NoBlock
      <4> QED BY <2>2, <4>1 DEF RecoverInv, DiskComplete
    <3> QED BY <3>1, <3>2
  <2>5. StateRoot(k) \in tries /\ EmptyRoot \in tries
    BY <2>2 DEF RecoverInv, DiskComplete
  <2>6. DiskComplete' /\ StateRoot(CurrentBlock)' \in tries'
    BY <2>1, <2>2, <2>4, <2>5 DEF DiskComplete, StateRoot, EmptyRoot
  <2>7. AtRest' /\ InCall' /\ Serial'
    BY <2>1, <2>2 DEF AtRest, InCall, Serial
  <2> QED BY <1>1, <2>3, <2>6, <2>7 DEF RecoverInv
<1>11. ASSUME NEW h \in Thread, NewChain(h) PROVE RecoverInv'
  <2>1. adding'[h] = {[block |-> 0, at |-> "block"]}
    BY <1>2, <1>11 DEF NewChain, Goto
  <2>2. CurrentBlock = 0 /\ ~up /\ newest = -1
    BY <1>11 DEF NewChain, RecoverInv, AtRest, NoBlock
  <2>3. \A th \in Thread \ {h} : adding'[th] = {}
    BY <1>2, <1>11 DEF NewChain, Goto, Idle
  <2> QED BY <1>1, <1>11, <2>1, <2>2, <2>3, RecoverCall DEF NewChain, boltVars, RecoverInv
<1>12. CASE Crash
  <2>1. UNCHANGED <<ledger, blocks, headers, newest, tries>> /\ ~up' /\ CurrentBlock' = 0
        /\ \A th \in Thread : adding'[th] = {}
    BY <1>12 DEF Crash, boltVars
  <2>2. RootsChained' /\ DiskComplete'
    BY <2>1 DEF RecoverInv, RootsChained, DiskComplete, StateRoot, EmptyRoot, NoBlock
  <2>3. StateRoot(CurrentBlock)' \in tries'
    BY <2>1 DEF RecoverInv, DiskComplete, StateRoot, EmptyRoot
  <2>4. AtRest' /\ InCall' /\ Serial'
    BY <2>1 DEF AtRest, InCall, Serial
  <2> QED BY <1>1, <2>2, <2>3, <2>4 DEF RecoverInv
<1>13. CASE ExistingChain
  <2>1. UNCHANGED <<ledger, adding, blocks, headers, newest, tries>> /\ up' /\ CurrentBlock' = newest
        /\ StateRoot(newest) \in tries /\ Idle
    BY <1>13 DEF ExistingChain, boltVars
  <2>2. RootsChained' /\ DiskComplete'
    BY <2>1 DEF RecoverInv, RootsChained, DiskComplete, StateRoot, EmptyRoot, NoBlock
  <2>3. StateRoot(CurrentBlock)' \in tries'
    BY <2>1 DEF StateRoot, EmptyRoot
  <2>4. AtRest' /\ InCall' /\ Serial'
    BY <2>1 DEF AtRest, InCall, Serial, Idle, RecoverInv
  <2> QED BY <1>1, <2>2, <2>3, <2>4 DEF RecoverInv
<1>14. CASE UNCHANGED vars
  <2>1. UNCHANGED <<ledger, up, CurrentBlock, adding, blocks, headers, newest, tries>>
    BY <1>14 DEF vars, memVars, boltVars
  <2> QED BY <1>1, <2>1 DEF RecoverInv, RootsChained, DiskComplete, StateRoot, EmptyRoot, NoBlock, AtRest,
                     InCall, Serial, Idle
<1> QED BY <1>3, <1>4, <1>5, <1>6, <1>7, <1>8, <1>9, <1>10, <1>11, <1>12, <1>13, <1>14
        DEF Next

\* Two calls that have overlapped have done so for good.
LEMMA OverlapStays == ASSUME TypeOK, [Next]_vars, overlapped PROVE overlapped'
<1>1. CASE UNCHANGED vars
    BY <1>1 DEF vars, history
<1>2. CASE Next
    BY <1>2 DEF Next, Agree, GenerateBlock, AddBlock, CommitTrie, SetCurrentBlock, PutBlock,
                AddBlockHeader, UpdateNewestBlock, Crash, NewChain, ExistingChain, history
<1> QED BY <1>1, <1>2

\* Whatever the number of goroutines, until two of their calls overlap.
LEMMA InTurnInductive ==
    /\ Init => InTurnInv
    /\ InTurnInv /\ [Next]_vars => InTurnInv'
<1>1. Init => InTurnInv
    BY RecoverInit DEF InTurnInv, RecoverInv
<1>2. ASSUME InTurnInv, [Next]_vars PROVE InTurnInv'
  <2>1. TypeInv /\ TypeOK /\ TypeInv'
    BY <1>2, TypeNext DEF InTurnInv, TypeInv
  <2>2. ASSUME ~overlapped' PROVE RecoverInv'
    <3>1. ~overlapped
      BY <1>2, <2>1, <2>2, OverlapStays
    <3> QED BY <1>2, <2>2, <3>1, RecoverNext DEF InTurnInv
  <2> QED BY <2>1, <2>2 DEF InTurnInv
<1> QED BY <1>1, <1>2

\* Wherever the process ends, also between the writes of AddBlock, a restart finds
\* a newest block that is stored with all before it, and its state: for every
\* number of goroutines, blocks, transactions and crashes, until two calls of
\* AddBlock overlap.
THEOREM RestartRecovers == Spec => []RecoverableInTurn
<1>1. InTurnInv => RecoverableInTurn
    BY DEF InTurnInv, RecoverInv, DiskComplete, Recoverable, RecoverableInTurn
<1> QED BY <1>1, InTurnInductive, PTL DEF Spec
-----------------------------------------------------------------------------
(* Merkle proofs: what the walk of TxProofGenerate down the chain finds.   *)

WalkStep(t, w, k) ==
    IF k = 0 \/ k \notin blocks THEN NotFound(t)
    ELSE IF TxProofGenerateOnTheBlock(t, k).Found THEN TxProofGenerateOnTheBlock(t, k)
    ELSE w[k - 1]

\* The walk ends at every block.
LEMMA WalkDefined ==
    ASSUME NEW t, NEW top \in Nat
    PROVE  \E w : w = [k \in 0 .. top |-> WalkStep(t, w, k)]
<1> DEFINE Good == {n \in Nat : \E w : w = [k \in 0 .. n |-> WalkStep(t, w, k)]}
<1>1. 0 \in Good
  <2> DEFINE w == [k \in 0 .. 0 |-> NotFound(t)]
  <2>1. w = [k \in 0 .. 0 |-> WalkStep(t, w, k)]
    BY DEF WalkStep
  <2> QED BY <2>1
<1>2. ASSUME NEW n \in Nat, n \in Good PROVE n + 1 \in Good
  <2>1. PICK w : w = [k \in 0 .. n |-> WalkStep(t, w, k)]
    BY <1>2
  <2> DEFINE v == [k \in 0 .. n + 1 |-> WalkStep(t, w, k)]
  <2>2. \A k \in 0 .. n : v[k] = w[k]
    BY <2>1
  <2>3. \A k \in 0 .. n + 1 : k = 0 \/ k - 1 \in 0 .. n
    OBVIOUS
  <2>4. \A k \in 0 .. n + 1 : WalkStep(t, w, k) = WalkStep(t, v, k)
    BY <2>2, <2>3 DEF WalkStep
  <2>5. v = [k \in 0 .. n + 1 |-> WalkStep(t, v, k)]
    BY <2>4, Zenon
  <2> HIDE DEF v
  <2>6. \E u : u = [k \in 0 .. n + 1 |-> WalkStep(t, u, k)]
    BY <2>5, Zenon
  <2> QED BY <2>6
<1>3. Nat \subseteq Good
  <2> HIDE DEF Good
  <2> QED BY <1>1, <1>2, SetInduction
<1> QED BY <1>3

\* A proof for one block is found if the block has the transaction: the Bloom
\* filter has every bit of its transactions.
LEMMA OneBlockProof ==
    ASSUME NEW t, NEW k
    PROVE  LET proof == TxProofGenerateOnTheBlock(t, k)
           IN  /\ proof.Found <=> t \in ToSet(Body(k))
               /\ proof.Found => TxProofVerify(proof)
               /\ proof.Found \in BOOLEAN
<1>1. t \in ToSet(Body(k)) => ModBytes[t] \in Bloom(k)
    BY DEF Bloom
<1> QED BY <1>1 DEF TxProofGenerateOnTheBlock, Prove, NotFound, TxProofResult, TxProofVerify, TxRoot

\* The transaction is in a block from which all up to block n are stored.
InStored(t, n) == \E k \in 1 .. n : t \in ToSet(Body(k)) /\ k .. n \subseteq blocks

\* The stored run that ends at a block: the block, and what is below it.
LEMMA InStoredStep ==
    ASSUME NEW t, NEW n \in Nat
    PROVE  InStored(t, n + 1) <=>
               n + 1 \in blocks /\ (t \in ToSet(Body(n + 1)) \/ InStored(t, n))
<1>1. \A k \in 1 .. n : k .. n + 1 = (k .. n) \cup {n + 1}
    OBVIOUS
<1>2. 1 .. n + 1 = (1 .. n) \cup {n + 1} /\ (n + 1) .. (n + 1) = {n + 1}
    OBVIOUS
<1>3. ASSUME InStored(t, n + 1)
      PROVE  n + 1 \in blocks /\ (t \in ToSet(Body(n + 1)) \/ InStored(t, n))
  <2>1. PICK k \in 1 .. n + 1 : t \in ToSet(Body(k)) /\ k .. n + 1 \subseteq blocks
    BY <1>3 DEF InStored
  <2>2. n + 1 \in k .. n + 1
    OBVIOUS
  <2>3. CASE k = n + 1
    BY <2>1, <2>2, <2>3
  <2>4. CASE k \in 1 .. n
    BY <1>1, <2>1, <2>2, <2>4 DEF InStored
  <2> QED BY <1>2, <2>3, <2>4
<1>4. ASSUME n + 1 \in blocks, t \in ToSet(Body(n + 1)) PROVE InStored(t, n + 1)
  <2>1. n + 1 \in 1 .. n + 1 /\ (n + 1) .. (n + 1) \subseteq blocks
    BY <1>2, <1>4
  <2> QED BY <1>4, <2>1 DEF InStored
<1>5. ASSUME n + 1 \in blocks, InStored(t, n) PROVE InStored(t, n + 1)
  <2>1. PICK k \in 1 .. n : t \in ToSet(Body(k)) /\ k .. n \subseteq blocks
    BY <1>5 DEF InStored
  <2>2. k \in 1 .. n + 1 /\ k .. n + 1 \subseteq blocks
    BY <1>1, <1>2, <1>5, <2>1
  <2> QED BY <2>1, <2>2 DEF InStored
<1> QED BY <1>3, <1>4, <1>5

\* The walk finds exactly the transactions of the stored run below its start.
LEMMA WalkExact ==
    ASSUME NEW t, NEW top \in Nat,
           NEW w, w = [k \in 0 .. top |-> WalkStep(t, w, k)]
    PROVE  \A n \in 0 .. top :
               /\ w[n].Found <=> InStored(t, n)
               /\ w[n].Found => TxProofVerify(w[n])
<1> DEFINE Good == {n \in Nat : n <= top =>
                       /\ w[n].Found \in BOOLEAN
                       /\ w[n].Found <=> InStored(t, n)
                       /\ w[n].Found => TxProofVerify(w[n])}
<1>1. 0 \in Good
  <2>1. w[0] = NotFound(t)
    BY DEF WalkStep
  <2>2. w[0].Found = FALSE
    BY <2>1 DEF NotFound, TxProofResult
  <2>3. ~InStored(t, 0)
    BY DEF InStored
  <2> QED BY <2>2, <2>3
<1>2. ASSUME NEW n \in Nat, n \in Good PROVE n + 1 \in Good
  <2> SUFFICES ASSUME n + 1 <= top
               PROVE  /\ w[n + 1].Found \in BOOLEAN
                      /\ w[n + 1].Found <=> InStored(t, n + 1)
                      /\ w[n + 1].Found => TxProofVerify(w[n + 1])
    OBVIOUS
  <2> DEFINE proof == TxProofGenerateOnTheBlock(t, n + 1)
  <2>1. /\ w[n].Found \in BOOLEAN
        /\ w[n].Found <=> InStored(t, n)
        /\ w[n].Found => TxProofVerify(w[n])
    BY <1>2
  <2>2. n + 1 \in 0 .. top /\ n + 1 # 0 /\ (n + 1) - 1 = n
    OBVIOUS
  <2>3. w[n + 1] = IF n + 1 \notin blocks THEN NotFound(t)
                   ELSE IF proof.Found THEN proof ELSE w[n]
    BY <2>2 DEF WalkStep
  <2>4. /\ proof.Found <=> t \in ToSet(Body(n + 1))
        /\ proof.Found => TxProofVerify(proof)
        /\ proof.Found \in BOOLEAN
    BY OneBlockProof
  <2>5. InStored(t, n + 1) <=> n + 1 \in blocks /\ (t \in ToSet(Body(n + 1)) \/ InStored(t, n))
    BY InStoredStep
  <2>6. NotFound(t).Found = FALSE
    BY DEF NotFound, TxProofResult
  <2> HIDE DEF proof
  <2>7. CASE n + 1 \notin blocks
    BY <2>3, <2>5, <2>6, <2>7
  <2>8. CASE n + 1 \in blocks
    BY <2>1, <2>3, <2>4, <2>5, <2>8
  <2> QED BY <2>7, <2>8
<1>3. Nat \subseteq Good
  <2> HIDE DEF Good
  <2> QED BY <1>1, <1>2, SetInduction
<1>4. \A n \in 0 .. top : n \in Good /\ n <= top
    BY <1>3
<1> QED BY <1>4, Zenon

\* The batch version claims whatever passes the filter, and is found out.
LEMMA BatchExact ==
    ASSUME NEW k, NEW txs
    PROVE  HandleRelayWithProof(RelayWithProofSend(txs, k)) <=> txs \subseteq ToSet(Body(k))
<1>1. \A t : TxProofVerify(TxProofBatchGenerateOnBlock(t, k)) <=> t \in ToSet(Body(k))
  <2> TAKE t
  <2>1. t \in ToSet(Body(k)) => ModBytes[t] \in Bloom(k)
    BY DEF Bloom
  <2> QED BY <2>1 DEF TxProofBatchGenerateOnBlock, Prove, NotFound, TxProofResult, TxProofVerify, TxRoot
<1> QED BY <1>1 DEF HandleRelayWithProof, RelayWithProofSend

\* TxProofGenerate is the walk from the top block.
LEMMA GenerateIsWalk ==
    ASSUME NEW t, CurrentBlock \in Nat
    PROVE  \E w : /\ w = [k \in 0 .. CurrentBlock |-> WalkStep(t, w, k)]
                  /\ TxProofGenerate(t) = w[CurrentBlock]
<1> DEFINE w == CHOOSE w : w = [k \in 0 .. CurrentBlock |-> WalkStep(t, w, k)]
<1>1. w = [k \in 0 .. CurrentBlock |-> WalkStep(t, w, k)]
    BY WalkDefined
<1>2. TxProofGenerate(t) = w[CurrentBlock]
    BY Zenon DEF TxProofGenerate, WalkStep
<1> QED BY <1>1, <1>2

\* A proof is found, and verifies, for exactly the transactions of the top blocks
\* stored without a gap, which are all blocks until two calls of AddBlock overlap,
\* and a batch is accepted exactly if all of it is in the block: for every filter,
\* every chain, any number of goroutines and after any number of restarts.
THEOREM MerkleProofsExact == Spec => []ProofsExact
<1>1. InTurnInv => ProofsExact
  <2> SUFFICES ASSUME InTurnInv, up
               PROVE  /\ \A t \in Tx :
                            LET proof == TxProofGenerate(t)
                            IN  /\ proof.Found <=> InStored(t, CurrentBlock)
                                /\ proof.Found => TxProofVerify(proof)
                      /\ Idle /\ ~overlapped => 0 .. CurrentBlock \subseteq blocks
                      /\ \A k \in 1 .. CurrentBlock, txs \in SUBSET Tx :
                            HandleRelayWithProof(RelayWithProofSend(txs, k)) <=> txs \subseteq ToSet(Body(k))
    BY DEF ProofsExact, InStored
  <2>1. CurrentBlock \in Nat
    BY DEF InTurnInv, TypeInv, TypeOK, Height
  <2>2. Idle /\ ~overlapped => 0 .. CurrentBlock \subseteq blocks
    BY <2>1 DEF InTurnInv, RecoverInv, AtRest, DiskComplete, NoBlock
  <2>3. ASSUME NEW t \in Tx
        PROVE  /\ TxProofGenerate(t).Found <=> InStored(t, CurrentBlock)
               /\ TxProofGenerate(t).Found => TxProofVerify(TxProofGenerate(t))
    <3>1. PICK w : /\ w = [k \in 0 .. CurrentBlock |-> WalkStep(t, w, k)]
                   /\ TxProofGenerate(t) = w[CurrentBlock]
      BY <2>1, GenerateIsWalk
    <3>2. \A n \in 0 .. CurrentBlock :
              /\ w[n].Found <=> InStored(t, n)
              /\ w[n].Found => TxProofVerify(w[n])
      BY <2>1, <3>1, WalkExact, Zenon
    <3>3. CurrentBlock \in 0 .. CurrentBlock
      BY <2>1
    <3> QED BY <3>1, <3>2, <3>3
  <2> QED BY <2>2, <2>3, BatchExact
<1> QED BY <1>1, InTurnInductive, PTL DEF Spec
=============================================================================
