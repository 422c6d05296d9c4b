----------------------------- MODULE RelayProof -----------------------------
(***************************************************************************)
(* Theorems about RelaySystem, for any shards, accounts and dataset: every *)
(* transaction is executed exactly once in each shard it touches.          *)
(***************************************************************************)
EXTENDS RelaySystem, TransactionTheorems

(* Transactions, entries and messages. *)

\* The entries shard s executes.
AtHome(s) == {e \in Entry : CorrectTx(s, e)}

LEMMA HomeFacts ==
    ASSUME NEW t \in TxID, NEW s
    PROVE  /\ First(t) \in AtHome(s) <=> PartitionMap[Sender(t)] = s
           /\ Second(t) \in AtHome(s) <=> PartitionMap[Recipient(t)] = s
           /\ First(t) \in SentFrom(s) <=> PartitionMap[Sender(t)] = s
           /\ \A d : First(t) \in RelayTo(s, d) <=> PartitionMap[Recipient(t)] = d /\ d # s
<1>1. First(t) \in Entry /\ Second(t) \in Entry
    BY EntryFacts
<1>2. First(t) \in AtHome(s) <=> PartitionMap[Sender(t)] = s
    BY <1>1 DEF AtHome, CorrectTx, First
<1>3. Second(t) \in AtHome(s) <=> PartitionMap[Recipient(t)] = s
    BY <1>1 DEF AtHome, CorrectTx, Second
<1>4. First(t) \in SentFrom(s) <=> PartitionMap[Sender(t)] = s
    BY <1>1, EntryFacts DEF SentFrom
<1>5. \A d : First(t) \in RelayTo(s, d) <=> PartitionMap[Recipient(t)] = d /\ d # s
    BY <1>1, EntryFacts DEF RelayTo, Relay1
<1> QED BY <1>2, <1>3, <1>4, <1>5

\* What a shard relays are first halves of its own transactions.
LEMMA RelayedAreFirsts ==
    ASSUME NEW s \in Shard, NEW d \in Shard
    PROVE  /\ AtHome(s) \cap RelayTo(s, d) \subseteq Firsts
           /\ AtHome(s) \subseteq Entry
<1>1. ASSUME NEW e \in AtHome(s), e \in RelayTo(s, d) PROVE e \in Firsts
  <2>1. e \in Entry /\ PartitionMap[Recipient(e.tx)] # s
    BY <1>1 DEF RelayTo, Relay1
  <2>2. e.tx \in TxID /\ (e = First(e.tx) \/ e = Second(e.tx))
    BY <2>1, EntryFacts
  <2>3. e # Second(e.tx)
    BY <2>1, <2>2, HomeFacts
  <2> QED BY <2>2, <2>3 DEF Firsts
<1> QED BY <1>1 DEF AtHome

-----------------------------------------------------------------------------
(* A family of lists, one per shard, sent as messages. *)

\* The messages of a commit carry the second halves of what it relays.
LEMMA CommitMsgs ==
    ASSUME NEW s \in Shard, NEW body \in Seq(AtHome(s))
    PROVE  LET M == RelayMsgSend(s, body) IN
           /\ IsFiniteSet(M) /\ M \subseteq Message
           /\ \A m \in M : m.txs # <<>> /\ m.txs \in Seq(Seconds \cap AtHome(m.to))
           /\ \A t \in TxID :
                /\ InMsgs(M, First(t)) = 0
                /\ InMsgs(M, Second(t)) = IF CrossShard(t) THEN Occurrences(First(t), body) ELSE 0
<1> DEFINE P(d) == RelayPool(s, body, d)
           q == [d \in Shard |-> Marked(P(d))]
           M == RelayMsgSend(s, body)
<1>1. ASSUME NEW d \in Shard
      PROVE  /\ P(d) \in Seq(Firsts) /\ P(d) \in Seq(AtHome(s) \cap RelayTo(s, d))
             /\ \A e : Occurrences(e, P(d)) = IF e \in RelayTo(s, d) THEN Occurrences(e, body) ELSE 0
  <2>1. /\ P(d) \in Seq(AtHome(s) \cap RelayTo(s, d))
        /\ \A e : Occurrences(e, P(d)) = IF e \in RelayTo(s, d) THEN Occurrences(e, body) ELSE 0
    BY KeepFacts DEF RelayPool
  <2>2. AtHome(s) \cap RelayTo(s, d) \subseteq Firsts
    BY RelayedAreFirsts
  <2>3. P(d) \in Seq(Firsts)
    <3> HIDE DEF P
    <3> QED BY <2>1, <2>2, SeqMonotonic
  <2> QED BY <2>1, <2>3
<1>2. ASSUME NEW d \in Shard
      PROVE  /\ q[d] \in Seq(Seconds \cap AtHome(d)) /\ q[d] \in Seq(Entry)
             /\ q[d] # <<>> <=> P(d) # <<>>
  <2> DEFINE p == P(d)
  <2>1. p \in Seq(Firsts) /\ p \in Seq(AtHome(s) \cap RelayTo(s, d))
    BY <1>1
  <2>2. q[d] = Marked(p)
    OBVIOUS
  <2> HIDE DEF p, P
  <2>3. Marked(p) \in Seq(Seconds) /\ Len(Marked(p)) = Len(p) /\ Len(p) \in Nat
    BY <2>1, MarkedFacts
  <2>4. ASSUME NEW i \in 1 .. Len(p) PROVE Marked(p)[i] \in Seconds \cap AtHome(d)
    <3>1. /\ Marked(p)[i] = Second(p[i].tx) /\ p[i] = First(p[i].tx) /\ p[i].tx \in TxID
      BY <2>1, MarkedFacts
    <3>2. p[i] \in RelayTo(s, d)
      BY <2>1
    <3>3. First(p[i].tx) \in RelayTo(s, d)
      BY <3>1, <3>2
    <3>4. PartitionMap[Recipient(p[i].tx)] = d
      BY <3>1, <3>3, HomeFacts
    <3>5. Second(p[i].tx) \in AtHome(d)
      BY <3>1, <3>4, HomeFacts
    <3> QED BY <2>3, <3>1, <3>5
  <2>5. Marked(p) \in Seq(Seconds \cap AtHome(d))
    BY <2>3, <2>4
  <2>6. Seconds \cap AtHome(d) \subseteq Entry
    BY DEF AtHome
  <2>7. Marked(p) \in Seq(Entry)
    BY <2>5, <2>6, SeqMonotonic
  <2>8. Marked(p) # <<>> <=> p # <<>>
    BY <2>1, <2>3
  <2> QED BY <2>2, <2>5, <2>7, <2>8 DEF p
<1>3. q \in [Shard -> Seq(Entry)]
  <2>1. \A d \in Shard : Marked(P(d)) \in Seq(Entry)
    BY <1>2
  <2> QED BY <2>1
<1>4. M = Sends(q)
  <2>1. {d \in Shard : P(d) # <<>>} = {d \in Shard : q[d] # <<>>}
    BY <1>2
  <2>2. \A d \in Shard : [to |-> d, txs |-> Marked(P(d))] = [to |-> d, txs |-> q[d]]
    OBVIOUS
  <2> HIDE DEF q
  <2>3. {[to |-> d, txs |-> Marked(P(d))] : d \in {d \in Shard : P(d) # <<>>}} = Sends(q)
    BY <2>1, <2>2 DEF Sends
  <2> QED BY <2>3 DEF RelayMsgSend
<1>5. ASSUME NEW t \in TxID
      PROVE  /\ InMsgs(M, First(t)) = 0
             /\ InMsgs(M, Second(t)) = IF CrossShard(t) THEN Occurrences(First(t), body) ELSE 0
  <2> DEFINE h == PartitionMap[Recipient(t)]
  <2>1. h \in Shard
    BY TxFacts
  <2>2. \A d \in Shard : /\ Occurrences(First(t), q[d]) = 0
                         /\ Occurrences(Second(t), q[d]) = Occurrences(First(t), P(d))
    <3> SUFFICES ASSUME NEW d \in Shard
                 PROVE  /\ Occurrences(First(t), q[d]) = 0
                        /\ Occurrences(Second(t), q[d]) = Occurrences(First(t), P(d))
      OBVIOUS
    <3>1. P(d) \in Seq(Firsts) /\ q[d] = Marked(P(d))
      BY <1>1
    <3> HIDE DEF P, q
    <3> QED BY <3>1, MarkedFacts
  <2>3. \A d \in Shard : Occurrences(First(t), P(d))
                            = IF h = d /\ d # s THEN Occurrences(First(t), body) ELSE 0
    <3>1. \A d : First(t) \in RelayTo(s, d) <=> h = d /\ d # s
      BY HomeFacts
    <3> QED BY <1>1, <3>1
  <2>4. CASE h # s /\ PartitionMap[Sender(t)] = s
    <3>1. CrossShard(t)
      BY <2>4 DEF CrossShard
    <3>2. InMsgs(M, Second(t)) = Occurrences(Second(t), q[h])
      <4> HIDE DEF q, h, P, M
      <4>1. \A d \in Shard \ {h} : Occurrences(Second(t), q[d]) = 0
        BY <2>2, <2>3
      <4> QED BY <1>3, <1>4, <2>1, <4>1, SendsFacts
    <3>3. InMsgs(M, First(t)) = 0
      <4> HIDE DEF q, h, P, M
      <4>1. \A d \in Shard \ {h} : Occurrences(First(t), q[d]) = 0
        BY <2>2
      <4>2. InMsgs(M, First(t)) = Occurrences(First(t), q[h])
        BY <1>3, <1>4, <2>1, <4>1, SendsFacts
      <4> QED BY <2>1, <2>2, <4>2
    <3> HIDE DEF q, h, P, M
    <3> QED BY <2>1, <2>2, <2>3, <2>4, <3>1, <3>2, <3>3
  <2>5. CASE ~(h # s /\ PartitionMap[Sender(t)] = s)
    <3>1. CrossShard(t) => Occurrences(First(t), body) = 0
      <4> SUFFICES ASSUME CrossShard(t) PROVE Occurrences(First(t), body) = 0
        OBVIOUS
      <4>1. PartitionMap[Sender(t)] # s
        BY <2>5 DEF CrossShard
      <4>2. First(t) \notin AtHome(s)
        BY <4>1, HomeFacts
      <4>3. \A i \in 1 .. Len(body) : body[i] # First(t)
        BY <4>2
      <4>4. Occurrences(First(t), body) \in Nat /\ ~(Occurrences(First(t), body) > 0)
        BY <4>3, OccurrencesUpto, OccurrencesIn
      <4> QED BY <4>4
    <3>2. h # s => Occurrences(First(t), body) = 0
      <4> SUFFICES ASSUME h # s PROVE Occurrences(First(t), body) = 0
        OBVIOUS
      <4>1. PartitionMap[Sender(t)] # s
        BY <2>5
      <4>2. First(t) \notin AtHome(s)
        BY <4>1, HomeFacts
      <4>3. \A i \in 1 .. Len(body) : body[i] # First(t)
        BY <4>2
      <4>4. Occurrences(First(t), body) \in Nat /\ ~(Occurrences(First(t), body) > 0)
        BY <4>3, OccurrencesUpto, OccurrencesIn
      <4> QED BY <4>4
    <3> HIDE DEF q, h, P, M
    <3>3. \A d \in Shard : Occurrences(Second(t), q[d]) = 0 /\ Occurrences(First(t), q[d]) = 0
      BY <2>2, <2>3, <3>2
    <3>4. /\ InMsgs(M, Second(t)) = Occurrences(Second(t), q[h])
          /\ InMsgs(M, First(t)) = Occurrences(First(t), q[h])
      BY <1>3, <1>4, <2>1, <3>3, SendsFacts
    <3> QED BY <2>1, <3>1, <3>3, <3>4
  <2> QED BY <2>4, <2>5
<1>6. IsFiniteSet(M) /\ M \subseteq Message
  <2> HIDE DEF q, M
  <2> QED BY <1>3, <1>4, SendsFacts
<1>7. ASSUME NEW m \in M PROVE m.txs # <<>> /\ m.txs \in Seq(Seconds \cap AtHome(m.to))
  <2>1. m.txs # <<>> /\ m.to \in Shard /\ m.txs = q[m.to]
    <3> HIDE DEF q, M
    <3> QED BY <1>3, <1>4, SendsFacts
  <2>2. q[m.to] \in Seq(Seconds \cap AtHome(m.to))
    BY <1>2, <2>1
  <2> HIDE DEF q
  <2> QED BY <2>1, <2>2
<1> QED BY <1>5, <1>6, <1>7

\* One second's transactions: the rows after the first n, k of them.
NewTxs(n, k) == [i \in 1 .. k |-> [tx |-> n + i, relayed |-> FALSE]]

\* Each of them is in one message, to the shard of its sender.
LEMMA InjectFacts ==
    ASSUME NEW n \in Nat, NEW k \in Nat, n + k <= Len(TxList)
    PROVE  LET M == InjectMsgs(NewTxs(n, k)) IN
           /\ IsFiniteSet(M) /\ M \subseteq Message
           /\ \A m \in M : m.txs # <<>> /\ m.txs \in Seq(Firsts \cap AtHome(m.to))
           /\ \A t \in TxID :
                /\ InMsgs(M, First(t)) = IF n < t /\ t <= n + k THEN 1 ELSE 0
                /\ InMsgs(M, Second(t)) = 0
<1> DEFINE txs == NewTxs(n, k)
           P(d) == Keep(txs, SentFrom(d))
           q == [d \in Shard |-> P(d)]
           M == InjectMsgs(txs)
<1>1. txs = [i \in 1 .. k |-> First(n + i)]
    BY DEF NewTxs, First
<1>2. \A i \in 1 .. k : n + i \in TxID /\ First(n + i) \in Firsts
    BY TxFacts DEF Firsts
<1>3. txs \in Seq(Firsts) /\ Len(txs) = k
  <2> HIDE DEF txs
  <2>1. txs \in [1 .. k -> Firsts]
    BY <1>1, <1>2
  <2> QED BY <2>1
<1>4. \A t \in TxID : Occurrences(First(t), txs) = IF n < t /\ t <= n + k THEN 1 ELSE 0
  <2> SUFFICES ASSUME NEW t \in TxID
               PROVE  Occurrences(First(t), txs) = IF n < t /\ t <= n + k THEN 1 ELSE 0
    OBVIOUS
  <2> DEFINE At == {i \in DOMAIN txs : txs[i] = First(t)}
  <2>0. t \in Nat
    BY TxFacts
  <2>1. At = {i \in 1 .. k : n + i = t}
    BY <1>1, EntryFacts
  <2>2. CASE n < t /\ t <= n + k
    <3>1. At = {t - n}
      BY <2>0, <2>1, <2>2
    <3>2. Cardinality(At) = 1
      BY <3>1, FS_Singleton
    <3> QED BY <2>2, <3>2 DEF Occurrences
  <2>3. CASE ~(n < t /\ t <= n + k)
    <3>1. At = {}
      BY <2>0, <2>1, <2>3
    <3> HIDE DEF At
    <3>2. Cardinality(At) = 0
      BY <3>1, FS_EmptySet, Zenon
    <3> QED BY <2>3, <3>2 DEF Occurrences, At
  <2> QED BY <2>2, <2>3
<1> HIDE DEF txs
<1>5. ASSUME NEW d \in Shard
      PROVE  /\ P(d) \in Seq(Firsts \cap SentFrom(d))
             /\ \A e : Occurrences(e, P(d)) = IF e \in SentFrom(d) THEN Occurrences(e, txs) ELSE 0
    BY <1>3, KeepFacts
<1>6. ASSUME NEW d \in Shard
      PROVE  P(d) \in Seq(Firsts \cap AtHome(d)) /\ P(d) \in Seq(Entry) /\ P(d) \in Seq(Firsts)
  <2>1. Firsts \cap SentFrom(d) \subseteq Firsts \cap AtHome(d)
    BY HomeFacts DEF Firsts
  <2>2. P(d) \in Seq(Firsts \cap SentFrom(d))
    BY <1>5
  <2> HIDE DEF P
  <2>3. P(d) \in Seq(Firsts \cap AtHome(d))
    BY <2>1, <2>2, SeqMonotonic
  <2>4. Firsts \cap AtHome(d) \subseteq Entry /\ Firsts \cap AtHome(d) \subseteq Firsts
    BY DEF AtHome
  <2> QED BY <2>3, <2>4, SeqMonotonic
<1>7. q \in [Shard -> Seq(Entry)]
    BY <1>6
<1>8. M = Sends(q)
  <2>1. \A d \in Shard : q[d] = P(d)
    OBVIOUS
  <2> HIDE DEF q, P
  <2>2. {[to |-> d, txs |-> P(d)] : d \in {d \in Shard : P(d) # <<>>}} = Sends(q)
    BY <2>1 DEF Sends
  <2> QED BY <2>2 DEF InjectMsgs, P
<1>9. ASSUME NEW t \in TxID
      PROVE  /\ InMsgs(M, First(t)) = IF n < t /\ t <= n + k THEN 1 ELSE 0
             /\ InMsgs(M, Second(t)) = 0
  <2> DEFINE h == PartitionMap[Sender(t)]
  <2>1. h \in Shard
    BY TxFacts
  <2>2. \A d \in Shard : /\ Occurrences(First(t), q[d])
                                = IF h = d THEN Occurrences(First(t), txs) ELSE 0
                         /\ Occurrences(Second(t), q[d]) = 0
    <3> SUFFICES ASSUME NEW d \in Shard
                 PROVE  /\ Occurrences(First(t), P(d))
                                = IF h = d THEN Occurrences(First(t), txs) ELSE 0
                        /\ Occurrences(Second(t), P(d)) = 0
      OBVIOUS
    <3>1. First(t) \in SentFrom(d) <=> h = d
      BY HomeFacts
    <3>2. P(d) \in Seq(Firsts)
      BY <1>6
    <3>3. \A i \in 1 .. Len(P(d)) : P(d)[i] \in Firsts
      <4> HIDE DEF P
      <4> QED BY <3>2
    <3>4. \A i \in 1 .. Len(P(d)) : P(d)[i] # Second(t)
      BY <3>3, EntryFacts DEF Firsts
    <3>5. Occurrences(Second(t), P(d)) \in Nat /\ ~(Occurrences(Second(t), P(d)) > 0)
      <4> HIDE DEF P
      <4> QED BY <3>2, <3>4, OccurrencesUpto, OccurrencesIn
    <3>6. Occurrences(First(t), P(d)) = IF First(t) \in SentFrom(d) THEN Occurrences(First(t), txs) ELSE 0
      BY <1>5
    <3> HIDE DEF P, h
    <3> QED BY <3>1, <3>5, <3>6
  <2> HIDE DEF q, h, P, M
  <2>3. /\ InMsgs(M, First(t)) = Occurrences(First(t), q[h])
        /\ InMsgs(M, Second(t)) = Occurrences(Second(t), q[h])
    BY <1>7, <1>8, <2>1, <2>2, SendsFacts
  <2> QED BY <1>4, <2>1, <2>2, <2>3
<1>10. IsFiniteSet(M) /\ M \subseteq Message
  <2> HIDE DEF q, M
  <2> QED BY <1>7, <1>8, SendsFacts
<1>11. ASSUME NEW m \in M PROVE m.txs # <<>> /\ m.txs \in Seq(Firsts \cap AtHome(m.to))
  <2>1. m.txs # <<>> /\ m.to \in Shard /\ m.txs = q[m.to]
    <3> HIDE DEF q, M
    <3> QED BY <1>7, <1>8, SendsFacts
  <2>2. P(m.to) \in Seq(Firsts \cap AtHome(m.to)) /\ q[m.to] = P(m.to)
    BY <1>6, <2>1
  <2> HIDE DEF q, P
  <2> QED BY <2>1, <2>2
<1> QED BY <1>9, <1>10, <1>11 DEF txs

\* Packing splits the queue.
LEMMA PackFacts ==
    ASSUME NEW X, NEW q \in Seq(X)
    PROVE  /\ PackTxs(q)[1] \in Seq(X) /\ PackTxs(q)[2] \in Seq(X)
           /\ \A e : Occurrences(e, q) = Occurrences(e, PackTxs(q)[1]) + Occurrences(e, PackTxs(q)[2])
<1>1. BlockSize \in Nat
    BY TxAssumption
<1>2. PackTxs(q)[1] = Packed(q, BlockSize) /\ PackTxs(q)[2] = Unpacked(q, BlockSize)
    BY DEF PackTxs, Packed, Unpacked
<1>3. /\ Packed(q, BlockSize) \in Seq(X) /\ Unpacked(q, BlockSize) \in Seq(X)
      /\ \A e : Occurrences(e, q)
                  = Occurrences(e, Packed(q, BlockSize)) + Occurrences(e, Unpacked(q, BlockSize))
    BY <1>1, CutFacts
<1> QED BY <1>2, <1>3
-----------------------------------------------------------------------------
(* The state trie. *)

TrieStep(s, bal, body, trie, i) == IF i = 0 THEN bal ELSE Execute(s, trie[i - 1], body[i])

\* The recursion that defines GetUpdateStatusTrie has a solution.
LEMMA TrieDefined ==
    ASSUME NEW s, NEW body, Len(body) \in Nat
    PROVE  \E trie : /\ trie = [i \in 0 .. Len(body) |-> TrieStep(s, balance, body, trie, i)]
                     /\ GetUpdateStatusTrie(s, body) = trie[Len(body)]
<1> DEFINE Good == {n \in Nat : \E k : k = [i \in 0 .. n |-> TrieStep(s, balance, body, k, i)]}
<1>1. 0 \in Good
  <2> DEFINE k == [i \in 0 .. 0 |-> balance]
  <2>1. \A i \in 0 .. 0 : TrieStep(s, balance, body, k, i) = balance
    BY DEF TrieStep
  <2>2. k = [i \in 0 .. 0 |-> TrieStep(s, balance, body, k, i)]
    BY <2>1
  <2> HIDE DEF k
  <2>3. \E u : u = [i \in 0 .. 0 |-> TrieStep(s, balance, body, u, i)]
    BY <2>2, Zenon
  <2> QED BY <2>3
<1>2. ASSUME NEW n \in Nat, n \in Good PROVE n + 1 \in Good
  <2>1. PICK k : k = [i \in 0 .. n |-> TrieStep(s, balance, body, k, i)]
    BY <1>2
  <2> DEFINE more == [i \in 0 .. n + 1 |-> TrieStep(s, balance, body, k, i)]
  <2>2. \A i \in 0 .. n : more[i] = k[i]
    BY <2>1
  <2>3. \A i \in 0 .. n + 1 : i = 0 \/ i - 1 \in 0 .. n
    OBVIOUS
  <2> HIDE DEF more
  <2>4. \A i \in 0 .. n + 1 : TrieStep(s, balance, body, k, i) = TrieStep(s, balance, body, more, i)
    BY <2>2, <2>3 DEF TrieStep
  <2>5. more = [i \in 0 .. n + 1 |-> TrieStep(s, balance, body, more, i)]
    BY <2>4, Zenon DEF more
  <2>6. \E u : u = [i \in 0 .. n + 1 |-> TrieStep(s, balance, body, u, i)]
    BY <2>5, Zenon
  <2> QED BY <2>6
<1>3. Nat \subseteq Good
  <2> HIDE DEF Good
  <2> QED BY <1>1, <1>2, SetInduction
<1>4. \E k : k = [i \in 0 .. Len(body) |-> TrieStep(s, balance, body, k, i)]
    BY <1>3
<1> DEFINE trie == CHOOSE k : k = [i \in 0 .. Len(body) |-> TrieStep(s, balance, body, k, i)]
<1>5. trie = [i \in 0 .. Len(body) |-> TrieStep(s, balance, body, trie, i)]
    BY <1>4, Zenon
<1>6. GetUpdateStatusTrie(s, body) = trie[Len(body)]
    BY Zenon DEF GetUpdateStatusTrie, TrieStep
<1> QED BY <1>5, <1>6

\* Executing a transaction is paying for it, and nobody's balance becomes negative.
LEMMA ExecuteFacts ==
    ASSUME NEW s \in Shard, NEW bal \in [Account -> Nat], NEW e \in Entry
    PROVE  Execute(s, bal, e) = Pay(s, bal, e) /\ Execute(s, bal, e) \in [Account -> Nat]
<1>1. Execute(s, bal, e) = Pay(s, bal, e)
    BY Zenon DEF Execute, Pay
<1>2. Pay(s, bal, e) \in [Account -> Nat]
    BY PayType
<1> QED BY <1>1, <1>2, Zenon

LEMMA TrieType ==
    ASSUME NEW s \in Shard, NEW body \in Seq(Entry), balance \in [Account -> Nat]
    PROVE  GetUpdateStatusTrie(s, body) \in [Account -> Nat]
<1>1. Len(body) \in Nat /\ \A i \in 1 .. Len(body) : body[i] \in Entry
    OBVIOUS
<1>2. PICK trie : /\ trie = [i \in 0 .. Len(body) |-> TrieStep(s, balance, body, trie, i)]
                  /\ GetUpdateStatusTrie(s, body) = trie[Len(body)]
    BY <1>1, TrieDefined
<1>3. \A i \in 0 .. Len(body) : trie[i] = TrieStep(s, balance, body, trie, i)
    BY <1>2
<1> DEFINE Good == {n \in Nat : n <= Len(body) => trie[n] \in [Account -> Nat]}
<1>4. 0 \in Good
    BY <1>1, <1>3 DEF TrieStep
<1>5. ASSUME NEW n \in Nat, n \in Good PROVE n + 1 \in Good
  <2> SUFFICES ASSUME n + 1 <= Len(body) PROVE trie[n + 1] \in [Account -> Nat]
    OBVIOUS
  <2>1. n + 1 \in 0 .. Len(body) /\ n + 1 # 0 /\ (n + 1) - 1 = n /\ n <= Len(body) /\ n + 1 \in 1 .. Len(body)
    BY <1>1
  <2>2. trie[n] \in [Account -> Nat] /\ body[n + 1] \in Entry
    BY <1>1, <1>5, <2>1
  <2>3. trie[n + 1] = Execute(s, trie[n], body[n + 1])
    BY <1>3, <2>1 DEF TrieStep
  <2>4. Execute(s, trie[n], body[n + 1]) \in [Account -> Nat]
    BY <2>2, ExecuteFacts
  <2> QED BY <2>3, <2>4
<1>6. Nat \subseteq Good
  <2> HIDE DEF Good
  <2> QED BY <1>4, <1>5, SetInduction
<1> QED BY <1>1, <1>2, <1>6

LEMMA InfoType ==
    ASSUME NEW s, NEW body \in Seq(Entry)
    PROVE  BlockInfo(s, body) \in BlockInfoMsg
<1>1. ASSUME NEW S PROVE TxsOf(Keep(body, S)) \in Seq(TxID)
  <2> DEFINE p == Keep(body, S)
  <2>1. p \in Seq(Entry \cap S)
    BY KeepFacts
  <2> HIDE DEF p
  <2>2. DOMAIN p = 1 .. Len(p) /\ Len(p) \in Nat /\ \A i \in 1 .. Len(p) : p[i].tx \in TxID
    BY <2>1, EntryFacts
  <2>3. TxsOf(p) \in [1 .. Len(p) -> TxID]
    BY <2>2 DEF TxsOf
  <2>4. TxsOf(p) \in Seq(TxID)
    BY <2>2, <2>3
  <2> QED BY <2>4 DEF p
<1> QED BY <1>1 DEF BlockInfo, BlockInfoMsg
-----------------------------------------------------------------------------
(* Type correctness, and every transaction in its shard. *)

\* Messages, queues and open blocks have transactions of their shard only, injected
\* ones are first halves and relayed ones second halves, and no message is empty.
Located ==
    /\ \A m \in injects : m.txs # <<>> /\ m.txs \in Seq(Firsts \cap AtHome(m.to))
    /\ \A m \in relays : m.txs # <<>> /\ m.txs \in Seq(Seconds \cap AtHome(m.to))
    /\ \A s \in Shard : txQueue[s] \in Seq(AtHome(s)) /\ open[s] \subseteq Seq(AtHome(s))

TypeInv ==
    /\ TypeOK
    /\ \A s \in Shard : open[s] = {} \/ \E body \in open[s] : open[s] = {body}
    /\ IsFiniteSet(injects) /\ IsFiniteSet(relays) /\ IsFiniteSet(infos)
    /\ batch <= TotalDataSize
    /\ Located

LEMMA NextBatchType ==
    ASSUME NEW k \in 0 .. Len(TxList), k <= TotalDataSize
    PROVE  NextBatch(k) \in k .. Len(TxList) /\ NextBatch(k) <= TotalDataSize
<1>1. k + BatchSize \in Int /\ TotalDataSize \in Int /\ BatchSize \in Nat /\ Len(TxList) \in Nat
    BY SupervisorAssumption, TxFacts
<1>2. Min({k + BatchSize, TotalDataSize})
        = IF k + BatchSize <= TotalDataSize THEN k + BatchSize ELSE TotalDataSize
    BY <1>1, MinPair
<1> QED BY <1>1, <1>2 DEF NextBatch

LEMMA TypeInvInit == Init => TypeInv
<1> SUFFICES ASSUME Init PROVE TypeInv
    OBVIOUS
<1> USE DEF Init, ShardInit
<1>1. Len(TxList) \in Nat /\ TotalDataSize \in Nat
    BY TxFacts, SupervisorAssumption
<1>2. 0 \in 0 .. Len(TxList) /\ 0 <= TotalDataSize
    BY <1>1
<1>3. batch \in 0 .. Len(TxList) /\ batch <= TotalDataSize
    BY <1>2, NextBatchType
<1>4. IsFiniteSet({}) /\ Cardinality({}) = 0
    BY FS_EmptySet, Zenon
<1>5. ShardTypeOK
  <2>1. \A s \in Shard : Cardinality(open[s]) <= 1
    BY <1>4
  <2>2. /\ ledger \in [Shard -> [Entry -> Nat]] /\ balance \in [Account -> Nat]
        /\ txQueue \in [Shard -> Seq(Entry)] /\ open \in [Shard -> SUBSET Seq(Entry)]
    BY TxAssumption
  <2>3. emptyInfos \in [Shard -> 0 .. MaxEmpty]
    BY TxAssumption
  <2> QED BY <2>1, <2>2, <2>3 DEF ShardTypeOK
<1>6. stopGap \in 0 .. stopThreshold
  <2>1. Cardinality(Shard) \in Nat
    BY DataAssumption, FS_CardinalityType
  <2> QED BY <2>1 DEF stopThreshold
<1>7. TypeOK
    BY <1>1, <1>3, <1>5, <1>6 DEF TypeOK
<1>8. Located
    BY DEF Located
<1> QED BY <1>3, <1>4, <1>7, <1>8 DEF TypeInv

\* Transactions join the queue of their shard.
LEMMA AddedToPool ==
    ASSUME TypeInv, NEW m \in Message, m.txs \in Seq(AtHome(m.to)), AddTxs2Pool(m.to, m.txs)
    PROVE  /\ txQueue' \in [Shard -> Seq(Entry)]
           /\ txQueue' = [txQueue EXCEPT ![m.to] = @ \o m.txs]
           /\ \A s \in Shard : txQueue'[s] \in Seq(AtHome(s))
<1>1. m.to \in Shard /\ txQueue \in [Shard -> Seq(Entry)] /\ \A s \in Shard : txQueue[s] \in Seq(AtHome(s))
    BY DEF TypeInv, TypeOK, ShardTypeOK, Located, Message
<1>2. txQueue' = [txQueue EXCEPT ![m.to] = @ \o m.txs]
    BY DEF AddTxs2Pool
<1>3. txQueue[m.to] \o m.txs \in Seq(AtHome(m.to))
  <2>1. txQueue[m.to] \in Seq(AtHome(m.to))
    BY <1>1
  <2> QED BY <2>1, ConcatProperties
<1>4. \A s \in Shard : AtHome(s) \subseteq Entry
    BY DEF AtHome
<1>5. txQueue[m.to] \o m.txs \in Seq(Entry)
    BY <1>1, <1>3, <1>4, SeqMonotonic
<1>6. txQueue' \in [Shard -> Seq(Entry)]
    BY <1>1, <1>2, <1>5
<1>7. \A s \in Shard : txQueue'[s] = IF s = m.to THEN txQueue[m.to] \o m.txs ELSE txQueue[s]
    BY <1>1, <1>2
<1>8. \A s \in Shard : txQueue'[s] \in Seq(AtHome(s))
    BY <1>1, <1>3, <1>7
<1> QED BY <1>2, <1>6, <1>8

LEMMA TypeInvInject ==
    ASSUME TypeInv, NEW m \in injects, HandleInjectTx(m), UNCHANGED superVars PROVE TypeInv'
<1> USE DEF superVars
<1>1. m \in Message /\ m.txs \in Seq(Firsts \cap AtHome(m.to)) /\ Firsts \cap AtHome(m.to) \subseteq AtHome(m.to)
    BY DEF TypeInv, TypeOK, ShardTypeOK, Located
<1>2. m.txs \in Seq(AtHome(m.to))
    BY <1>1, SeqMonotonic
<1>3. AddTxs2Pool(m.to, m.txs)
    BY DEF HandleInjectTx
<1>4. txQueue' \in [Shard -> Seq(Entry)] /\ \A s \in Shard : txQueue'[s] \in Seq(AtHome(s))
    BY <1>1, <1>2, <1>3, AddedToPool
<1>5. injects' = injects \ {m} /\ IsFiniteSet(injects')
    BY FS_RemoveElement DEF HandleInjectTx, TypeInv
<1>6. TypeOK'
    BY <1>4, <1>5 DEF TypeInv, TypeOK, ShardTypeOK, HandleInjectTx
<1>7. Located'
    BY <1>4, <1>5 DEF TypeInv, Located, HandleInjectTx
<1> QED BY <1>5, <1>6, <1>7 DEF TypeInv, HandleInjectTx

LEMMA TypeInvRelay ==
    ASSUME TypeInv, NEW m \in relays, HandleRelay(m), UNCHANGED superVars PROVE TypeInv'
<1> USE DEF superVars
<1>1. m \in Message /\ m.txs \in Seq(Seconds \cap AtHome(m.to)) /\ Seconds \cap AtHome(m.to) \subseteq AtHome(m.to)
    BY DEF TypeInv, TypeOK, ShardTypeOK, Located
<1>2. m.txs \in Seq(AtHome(m.to))
    BY <1>1, SeqMonotonic
<1>3. AddTxs2Pool(m.to, m.txs)
    BY DEF HandleRelay
<1>4. txQueue' \in [Shard -> Seq(Entry)] /\ \A s \in Shard : txQueue'[s] \in Seq(AtHome(s))
    BY <1>1, <1>2, <1>3, AddedToPool
<1>5. relays' = relays \ {m} /\ IsFiniteSet(relays')
    BY FS_RemoveElement DEF HandleRelay, TypeInv
<1>6. TypeOK'
    BY <1>4, <1>5 DEF TypeInv, TypeOK, ShardTypeOK, HandleRelay
<1>7. Located'
    BY <1>4, <1>5 DEF TypeInv, Located, HandleRelay
<1> QED BY <1>5, <1>6, <1>7 DEF TypeInv, HandleRelay

LEMMA TypeInvPropose ==
    ASSUME TypeInv, NEW s \in Shard, Propose(s), UNCHANGED superVars PROVE TypeInv'
<1> USE DEF superVars, netVars
<1> DEFINE a == PackTxs(txQueue[s])[1]
           b == PackTxs(txQueue[s])[2]
<1>1. txQueue[s] \in Seq(AtHome(s)) /\ AtHome(s) \subseteq Entry
      /\ txQueue \in [Shard -> Seq(Entry)] /\ open \in [Shard -> SUBSET Seq(Entry)]
    BY DEF TypeInv, Located, AtHome, TypeOK, ShardTypeOK
<1>2. a \in Seq(AtHome(s)) /\ b \in Seq(AtHome(s))
    BY <1>1, PackFacts
<1>3. open' = [open EXCEPT ![s] = {a}] /\ txQueue' = [txQueue EXCEPT ![s] = b]
    BY <1>1 DEF Propose
<1> HIDE DEF a, b
<1>4. a \in Seq(Entry) /\ b \in Seq(Entry)
    BY <1>1, <1>2, SeqMonotonic
<1>5. txQueue' \in [Shard -> Seq(Entry)] /\ open' \in [Shard -> SUBSET Seq(Entry)]
    BY <1>1, <1>3, <1>4
<1>6. \A d \in Shard : open'[d] = IF d = s THEN {a} ELSE open[d]
    BY <1>1, <1>3
<1>7. \A d \in Shard : txQueue'[d] = IF d = s THEN b ELSE txQueue[d]
    BY <1>1, <1>3
<1>8. \A d \in Shard : Cardinality(open'[d]) <= 1
  <2>1. Cardinality({a}) = 1
    BY FS_Singleton
  <2>2. \A d \in Shard : Cardinality(open[d]) <= 1
    BY DEF TypeInv, TypeOK, ShardTypeOK
  <2> QED BY <1>6, <2>1, <2>2
<1>9. TypeOK'
    BY <1>5, <1>8 DEF TypeInv, TypeOK, ShardTypeOK, Propose
<1>10. Located'
  <2>1. \A d \in Shard : txQueue'[d] \in Seq(AtHome(d))
    BY <1>2, <1>7 DEF TypeInv, Located
  <2>2. \A d \in Shard : open'[d] \subseteq Seq(AtHome(d))
    BY <1>2, <1>6 DEF TypeInv, Located
  <2> QED BY <2>1, <2>2 DEF TypeInv, Located, Propose
<1>11. \A d \in Shard : open'[d] = {} \/ \E body \in open'[d] : open'[d] = {body}
    BY <1>6 DEF TypeInv
<1> QED BY <1>9, <1>10, <1>11 DEF TypeInv, Propose

LEMMA TypeInvCommit ==
    ASSUME TypeInv, NEW s \in Shard, HandleinCommit(s), UNCHANGED superVars PROVE TypeInv'
<1> USE DEF superVars
<1>1. PICK body \in open[s] :
        /\ body = <<>> => emptyInfos[s] < MaxEmpty
        /\ ledger' = [ledger EXCEPT ![s] = [e \in Entry |-> @[e] + Occurrences(e, body)]]
        /\ balance' = GetUpdateStatusTrie(s, body)
        /\ relays' = relays \cup RelayMsgSend(s, body)
        /\ infos' = IF body = <<>> THEN infos ELSE infos \cup {BlockInfo(s, body)}
        /\ emptyInfos' = [emptyInfos EXCEPT ![s] = IF body = <<>> THEN @ + 1 ELSE @]
    BY DEF HandleinCommit
<1>2. /\ open' = [open EXCEPT ![s] = {}]
      /\ UNCHANGED <<txQueue, stopped, injects, stops>>
    BY DEF HandleinCommit
<1> DEFINE M == RelayMsgSend(s, body)
<1>3. body \in Seq(AtHome(s)) /\ body \in Seq(Entry)
    BY DEF TypeInv, Located, TypeOK, ShardTypeOK
<1>4. /\ IsFiniteSet(M) /\ M \subseteq Message
      /\ \A m \in M : m.txs # <<>> /\ m.txs \in Seq(Seconds \cap AtHome(m.to))
    BY <1>3, CommitMsgs
<1> HIDE DEF M
<1>5. relays' = relays \cup M
    BY <1>1 DEF M
<1>6. ShardTypeOK /\ TypeOK /\ Located
    BY DEF TypeInv, TypeOK
<1>7. ledger' \in [Shard -> [Entry -> Nat]]
  <2>1. \A e \in Entry : Occurrences(e, body) \in Nat
    BY <1>3, OccurrencesUpto
  <2>2. ledger \in [Shard -> [Entry -> Nat]]
    BY <1>6 DEF ShardTypeOK
  <2>3. [e \in Entry |-> ledger[s][e] + Occurrences(e, body)] \in [Entry -> Nat]
    BY <2>1, <2>2
  <2>4. ledger' = [ledger EXCEPT ![s] = [e \in Entry |-> ledger[s][e] + Occurrences(e, body)]]
    BY <1>1, <2>2
  <2> HIDE DEF Entry
  <2> QED BY <2>2, <2>3, <2>4
<1>8. balance' \in [Account -> Nat]
    BY <1>1, <1>3, <1>6, TrieType DEF ShardTypeOK
<1>9. infos' \in SUBSET BlockInfoMsg /\ IsFiniteSet(infos')
  <2>1. BlockInfo(s, body) \in BlockInfoMsg
    BY <1>3, InfoType
  <2>2. infos \in SUBSET BlockInfoMsg /\ IsFiniteSet(infos)
    BY DEF TypeInv, TypeOK, ShardTypeOK
  <2>3. IsFiniteSet(infos \cup {BlockInfo(s, body)})
    BY <2>2, FS_AddElement
  <2> QED BY <1>1, <2>1, <2>2, <2>3
<1>10. emptyInfos' \in [Shard -> 0 .. MaxEmpty]
  <2>1. emptyInfos \in [Shard -> 0 .. MaxEmpty] /\ MaxEmpty \in Nat
    BY <1>6, TxAssumption DEF ShardTypeOK
  <2>2. (IF body = <<>> THEN emptyInfos[s] + 1 ELSE emptyInfos[s]) \in 0 .. MaxEmpty
    BY <1>1, <2>1
  <2> QED BY <1>1, <2>1, <2>2
<1>11. open \in [Shard -> SUBSET Seq(Entry)]
    BY <1>6 DEF ShardTypeOK
<1>12. \A d \in Shard : open'[d] = IF d = s THEN {} ELSE open[d]
    BY <1>2, <1>11
<1>13. /\ open' \in [Shard -> SUBSET Seq(Entry)]
       /\ \A d \in Shard : Cardinality(open'[d]) <= 1
  <2>1. Cardinality({}) = 0
    BY FS_EmptySet, Zenon
  <2>2. \A d \in Shard : Cardinality(open[d]) <= 1
    BY <1>6 DEF ShardTypeOK
  <2>3. \A d \in Shard : Cardinality(open'[d]) <= 1
    BY <1>12, <2>1, <2>2
  <2> QED BY <1>2, <1>11, <2>3
<1>14. relays' \in SUBSET Message /\ IsFiniteSet(relays')
  <2>1. relays \in SUBSET Message /\ IsFiniteSet(relays)
    BY DEF TypeInv, TypeOK, ShardTypeOK
  <2> QED BY <1>4, <1>5, <2>1, FS_Union
<1>15. TypeOK'
    BY <1>2, <1>6, <1>7, <1>8, <1>9, <1>10, <1>13, <1>14 DEF TypeOK, ShardTypeOK
<1>16. Located'
  <2>1. \A m \in relays' : m.txs # <<>> /\ m.txs \in Seq(Seconds \cap AtHome(m.to))
    BY <1>4, <1>5, <1>6 DEF Located
  <2>2. \A d \in Shard : open'[d] \subseteq Seq(AtHome(d))
    BY <1>6, <1>12 DEF Located
  <2> QED BY <1>2, <1>6, <2>1, <2>2 DEF Located
<1>17. \A d \in Shard : open'[d] = {} \/ \E b \in open'[d] : open'[d] = {b}
    BY <1>12 DEF TypeInv
<1> QED BY <1>2, <1>9, <1>14, <1>15, <1>16, <1>17 DEF TypeInv

LEMMA TypeInvStop ==
    ASSUME TypeInv, NEW s \in Shard, WaitToStop(s), UNCHANGED superVars PROVE TypeInv'
<1> USE DEF superVars
<1>1. TypeOK'
    BY DEF TypeInv, TypeOK, ShardTypeOK, WaitToStop
<1>2. Located'
    BY DEF TypeInv, Located, WaitToStop
<1> QED BY <1>1, <1>2 DEF TypeInv, WaitToStop

LEMMA Difference == \A a, b \in Nat : a <= b => b - a \in Nat /\ a + (b - a) = b
OBVIOUS

\* How many transactions TxSending sends.
LEMMA Sent ==
    ASSUME TypeInv, TxSending
    PROVE  /\ sent \in Nat /\ sent' \in sent .. batch /\ sent' - sent \in Nat
           /\ sent + (sent' - sent) = sent' /\ sent' <= Len(TxList) /\ sent' \in 0 .. Len(TxList)
           /\ injects' = injects \cup InjectMsgs(NewTxs(sent, sent' - sent))
<1>1. sent \in 0 .. Len(TxList) /\ batch \in sent .. Len(TxList) /\ sent < batch
      /\ Len(TxList) \in Nat /\ InjectSpeed \in Nat \ {0}
    BY SupervisorAssumption, TxFacts DEF TypeInv, TypeOK, TxSending
<1>2. sent + InjectSpeed \in Int /\ batch \in Int
    BY <1>1
<1>3. Min({sent + InjectSpeed, batch}) = IF sent + InjectSpeed <= batch THEN sent + InjectSpeed ELSE batch
    BY <1>2, MinPair
<1>4. sent' = Min({sent + InjectSpeed, batch})
    BY DEF TxSending
<1>5. sent' \in sent .. batch
    BY <1>1, <1>3, <1>4
<1>6. injects' = injects \cup InjectMsgs(NewTxs(sent, sent' - sent))
    BY DEF TxSending, NewTxs
<1>7. /\ sent \in Nat /\ sent' - sent \in Nat /\ sent + (sent' - sent) = sent'
      /\ sent' <= Len(TxList) /\ sent' \in 0 .. Len(TxList)
  <2>1. sent \in Nat /\ batch \in Nat /\ batch <= Len(TxList)
    BY <1>1
  <2>2. sent' \in Nat /\ sent <= sent' /\ sent' <= batch
    BY <1>5, <2>1
  <2>3. Len(TxList) \in Nat
    BY TxFacts
  <2>4. sent' <= Len(TxList)
    BY <2>1, <2>2, <2>3
  <2>5. sent' - sent \in Nat /\ sent + (sent' - sent) = sent'
    BY <2>1, <2>2, Difference
  <2>6. sent' \in 0 .. Len(TxList)
    BY <2>2, <2>3, <2>4
  <2> QED BY <2>1, <2>4, <2>5, <2>6
<1> QED BY <1>5, <1>6, <1>7

LEMMA TypeInvSending == ASSUME TypeInv, TxSending PROVE TypeInv'
<1> USE DEF shardVars
<1> DEFINE k == sent' - sent
           M == InjectMsgs(NewTxs(sent, k))
<1>1. /\ sent \in Nat /\ k \in Nat /\ sent + k <= Len(TxList)
      /\ sent' \in sent .. batch /\ sent' \in 0 .. Len(TxList) /\ injects' = injects \cup M
    BY Sent
<1>2. batch \in sent' .. Len(TxList)
  <2>1. batch \in sent .. Len(TxList) /\ Len(TxList) \in Nat
    BY TxFacts DEF TypeInv, TypeOK
  <2> QED BY <1>1, <2>1
<1>3. /\ IsFiniteSet(M) /\ M \subseteq Message
      /\ \A m \in M : m.txs # <<>> /\ m.txs \in Seq(Firsts \cap AtHome(m.to))
  <2> HIDE DEF k
  <2> QED BY <1>1, InjectFacts
<1> HIDE DEF M
<1>4. injects' \in SUBSET Message /\ IsFiniteSet(injects')
  <2>1. injects \in SUBSET Message /\ IsFiniteSet(injects)
    BY DEF TypeInv, TypeOK, ShardTypeOK
  <2> QED BY <1>1, <1>3, <2>1, FS_Union
<1>5. TypeOK'
    BY <1>1, <1>2, <1>4 DEF TypeInv, TypeOK, ShardTypeOK, TxSending
<1>6. \A m \in injects' : m.txs # <<>> /\ m.txs \in Seq(Firsts \cap AtHome(m.to))
    BY <1>1, <1>3 DEF TypeInv, Located
<1>7. Located'
    BY <1>6 DEF TypeInv, Located, TxSending
<1> QED BY <1>4, <1>5, <1>7 DEF TypeInv, TxSending

LEMMA GapType == stopThreshold \in Nat
<1>1. Cardinality(Shard) \in Nat
    BY DataAssumption, FS_CardinalityType
<1> QED BY <1>1 DEF stopThreshold

LEMMA TypeInvSupervisor ==
    ASSUME TypeInv, BatchSent \/ SendStop \/ CloseSupervisor PROVE TypeInv'
<1> USE DEF shardVars, netVars
<1>1. CASE BatchSent
  <2>1. sent \in 0 .. Len(TxList) /\ sent <= TotalDataSize /\ sent = batch
    BY <1>1, TxFacts DEF TypeInv, TypeOK, BatchSent
  <2>2. batch' \in sent .. Len(TxList) /\ batch' <= TotalDataSize
    BY <1>1, <2>1, NextBatchType DEF BatchSent
  <2>3. TypeOK'
    BY <1>1, <2>2, GapType DEF TypeInv, TypeOK, ShardTypeOK, BatchSent
  <2>4. Located'
    BY <1>1 DEF TypeInv, Located, BatchSent
  <2> QED BY <1>1, <2>2, <2>3, <2>4 DEF TypeInv, BatchSent
<1>2. CASE SendStop
  <2>1. TypeOK'
    BY <1>2 DEF TypeInv, TypeOK, ShardTypeOK, SendStop
  <2>2. Located'
    BY <1>2 DEF TypeInv, Located, SendStop
  <2> QED BY <1>2, <2>1, <2>2 DEF TypeInv, SendStop
<1>3. CASE CloseSupervisor
  <2>1. TypeOK'
    BY <1>3 DEF TypeInv, TypeOK, ShardTypeOK, CloseSupervisor
  <2>2. Located'
    BY <1>3 DEF TypeInv, Located, CloseSupervisor
  <2> QED BY <1>3, <2>1, <2>2 DEF TypeInv, CloseSupervisor
<1> QED BY <1>1, <1>2, <1>3

LEMMA TypeInvEmptyInfo ==
    ASSUME TypeInv, NEW s \in Shard, HandleEmptyBlockInfo(s) PROVE TypeInv'
<1> USE DEF shardVars
<1>1. emptyInfos \in [Shard -> 0 .. MaxEmpty] /\ MaxEmpty \in Nat /\ emptyInfos[s] > 0
      /\ emptyInfos' = [emptyInfos EXCEPT ![s] = @ - 1]
    BY TxAssumption DEF TypeInv, TypeOK, ShardTypeOK, HandleEmptyBlockInfo
<1>2. emptyInfos[s] - 1 \in 0 .. MaxEmpty
    BY <1>1
<1>3. emptyInfos' \in [Shard -> 0 .. MaxEmpty]
    BY <1>1, <1>2
<1>4. stopGap' \in 0 .. stopThreshold
  <2>1. stopGap \in 0 .. stopThreshold /\ stopThreshold \in Nat
    BY GapType DEF TypeInv, TypeOK
  <2>2. stopGap + 1 \in Int /\ stopThreshold \in Int
    BY <2>1
  <2>3. Min({stopGap + 1, stopThreshold}) = IF stopGap + 1 <= stopThreshold THEN stopGap + 1 ELSE stopThreshold
    BY <2>2, MinPair
  <2> QED BY <2>1, <2>3 DEF HandleEmptyBlockInfo, StopGap_Inc
<1>5. stopThreshold' = stopThreshold
    BY DEF stopThreshold
<1>6. TypeOK'
    BY <1>3, <1>4, <1>5 DEF TypeInv, TypeOK, ShardTypeOK, HandleEmptyBlockInfo
<1>7. Located'
    BY DEF TypeInv, Located, HandleEmptyBlockInfo
<1> QED BY <1>6, <1>7 DEF TypeInv, HandleEmptyBlockInfo

LEMMA TypeInvInfo ==
    ASSUME TypeInv, NEW b \in infos, HandleBlockInfo(b) PROVE TypeInv'
<1> USE DEF shardVars
<1>1. b \in BlockInfoMsg /\ measured \in [{"normal", "relay1", "relay2"} -> Nat]
    BY DEF TypeInv, TypeOK, ShardTypeOK
<1>2. Len(b.inner) \in Nat /\ Len(b.relay1) \in Nat /\ Len(b.relay2) \in Nat
    BY <1>1 DEF BlockInfoMsg
<1>3. measured' \in [{"normal", "relay1", "relay2"} -> Nat]
    BY <1>1, <1>2 DEF HandleBlockInfo, UpdateMeasureRecord
<1>4. infos' = infos \ {b} /\ IsFiniteSet(infos')
    BY FS_RemoveElement DEF HandleBlockInfo, TypeInv
<1>5. TypeOK'
    BY <1>3, <1>4, GapType DEF TypeInv, TypeOK, ShardTypeOK, HandleBlockInfo
<1>6. Located'
    BY DEF TypeInv, Located, HandleBlockInfo
<1> QED BY <1>4, <1>5, <1>6 DEF TypeInv, HandleBlockInfo

LEMMA TypeInvNext == ASSUME TypeInv, [Next]_vars PROVE TypeInv'
<1>1. CASE UNCHANGED vars
  <2>1. TypeOK'
    BY <1>1 DEF TypeInv, TypeOK, ShardTypeOK, vars, shardVars, netVars, superVars
  <2>2. Located'
    BY <1>1 DEF TypeInv, Located, vars, shardVars, netVars, superVars
  <2> QED BY <1>1, <2>1, <2>2 DEF TypeInv, vars, shardVars, netVars, superVars
<1>2. CASE ShardNext /\ UNCHANGED superVars
    BY <1>2, TypeInvInject, TypeInvRelay, TypeInvPropose, TypeInvCommit, TypeInvStop DEF ShardNext
<1>3. CASE SupervisorNext
    BY <1>3, TypeInvSending, TypeInvSupervisor, TypeInvEmptyInfo, TypeInvInfo DEF SupervisorNext
<1> QED BY <1>1, <1>2, <1>3 DEF Next

LEMMA TypeInvariant == Spec => []TypeInv
<1>1. TypeInv /\ [Next]_vars => TypeInv'
    BY TypeInvNext
<1> QED BY <1>1, TypeInvInit, PTL DEF Spec

\* No run takes an account below zero, a report outside the dataset or the counters of
\* the supervisor out of their range, for any shards, accounts, dataset and batch size.
THEOREM TypeCorrect == Spec => []TypeOK
<1>1. TypeInv => TypeOK
    BY DEF TypeInv
<1> QED BY <1>1, TypeInvariant, PTL

\* No leader ever meets a transaction of another shard in a block it commits: the
\* "incorrect tx" panics of HandleinCommit cannot be reached.
THEOREM NeverIncorrect == Spec => []NoIncorrectTx
<1>1. ASSUME TypeInv PROVE NoIncorrectTx
  <2> SUFFICES ASSUME NEW s \in Shard, NEW body \in open[s], NEW i \in DOMAIN body
               PROVE  CorrectTx(s, body[i])
    BY DEF NoIncorrectTx
  <2>1. body \in Seq(AtHome(s))
    BY <1>1 DEF TypeInv, Located
  <2>2. body[i] \in AtHome(s)
    BY <2>1
  <2> QED BY <2>2 DEF AtHome
<1>2. TypeInv => NoIncorrectTx
    BY <1>1
<1> QED BY <1>2, TypeInvariant, PTL
-----------------------------------------------------------------------------
(* Each transaction once. *)

LEMMA PendingIs ==
    ASSUME NEW e
    PROVE  /\ Pending(e) = InMsgs(injects \cup relays, e) + InPools(txQueue, e) + InOpen(open, e)
           /\ Executed(e) = InLedger(ledger, e)
BY DEF Pending, Executed, InMsgs, InPools, InOpen, InBlock, InLedger

\* The same of the next state, for an entry that does not depend on the state.
LEMMA PendingNext ==
    ASSUME NEW CONSTANT e
    PROVE  /\ Pending(e)' = InMsgs(injects' \cup relays', e) + InPools(txQueue', e) + InOpen(open', e)
           /\ Executed(e)' = InLedger(ledger', e)
BY DEF Pending, Executed, InMsgs, InPools, InOpen, InBlock, InLedger

\* The counts are numbers, whatever the entry; and there is some shard.
LEMMA CountsAreNat ==
    ASSUME TypeInv, NEW e \in Entry
    PROVE  /\ InMsgs(injects \cup relays, e) \in Nat
           /\ InPools(txQueue, e) \in Nat
           /\ InOpen(open, e) \in Nat
           /\ InLedger(ledger, e) \in Nat
           /\ OneOpen(open)
           /\ IsFiniteSet(injects \cup relays) /\ injects \cup relays \subseteq Message
<1>1. PICK s : s \in Shard
    BY EntryFacts, TxFacts
<1>2. /\ Lists(txQueue) /\ Ledgers(ledger) /\ Elsewhere(txQueue, txQueue, s)
      /\ Elsewhere(ledger, ledger, s) /\ Elsewhere(open, open, s)
    BY DEF TypeInv, TypeOK, ShardTypeOK, Lists, Ledgers, Elsewhere
<1>3. OneOpen(open)
    BY DEF TypeInv, TypeOK, ShardTypeOK, OneOpen
<1>4. InPools(txQueue, e) \in Nat
    BY <1>1, <1>2, PoolsChange
<1>5. InOpen(open, e) \in Nat
    BY <1>1, <1>2, <1>3, OpenChange
<1>6. InLedger(ledger, e) \in Nat
    BY <1>1, <1>2, LedgerChange
<1>7. IsFiniteSet(injects \cup relays) /\ injects \cup relays \subseteq Message
    BY FS_Union DEF TypeInv, TypeOK, ShardTypeOK
<1>8. InMsgs(injects \cup relays, e) \in Nat
  <2> DEFINE M == injects \cup relays
  <2>1. IsFiniteSet({}) /\ M \cap {} = {} /\ M \cup {} = M
    BY FS_EmptySet
  <2> HIDE DEF M
  <2> QED BY <1>7, <2>1, InMsgsUnion DEF M
<1> QED BY <1>3, <1>4, <1>5, <1>6, <1>7, <1>8

OnceInv == TypeInv /\ ExactlyOnce

\* What an entry's totals must be, as a property of the four counts.
Balanced(t, n, pend1, done1, pend2, done2) ==
    /\ pend1 + done1 = IF t <= n THEN 1 ELSE 0
    /\ pend2 + done2 = IF CrossShard(t) THEN done1 ELSE 0

LEMMA OnceIs ==
    ExactlyOnce <=> \A t \in TxID : Balanced(t, sent, Pending(First(t)), Executed(First(t)),
                                             Pending(Second(t)), Executed(Second(t)))
BY DEF ExactlyOnce, Balanced

\* A step that leaves every total of an entry as it was.
LEMMA OnceUnmoved ==
    ASSUME ExactlyOnce, sent' = sent,
           \A t \in TxID : /\ Pending(First(t))' = Pending(First(t))
                           /\ Executed(First(t))' = Executed(First(t))
                           /\ Pending(Second(t))' = Pending(Second(t))
                           /\ Executed(Second(t))' = Executed(Second(t))
    PROVE  ExactlyOnce'
BY DEF ExactlyOnce

LEMMA OnceInit == Init => ExactlyOnce
<1> SUFFICES ASSUME Init, NEW t \in TxID
             PROVE  Balanced(t, sent, Pending(First(t)), Executed(First(t)),
                             Pending(Second(t)), Executed(Second(t)))
    BY OnceIs
<1>1. ASSUME NEW e \in Entry PROVE Pending(e) = 0 /\ Executed(e) = 0
  <2>1. PICK s : s \in Shard
    BY TxFacts
  <2>2. InMsgs(injects \cup relays, e) = 0
    <3>1. injects \cup relays = {}
      BY DEF Init, ShardInit
    <3>2. InMsgs({}, e) = SumFunctionOnSet([m \in {} |-> Occurrences(e, m.txs)], {})
      BY InMsgsIs
    <3>3. InMsgs({}, e) = 0
      BY <3>2, SumEmpty
    <3> QED BY <3>1, <3>3, Zenon
  <2>3. InPools(txQueue, e) = 0
    <3> DEFINE f == [d \in Shard |-> Occurrences(e, txQueue[d])]
    <3>1. \A d \in Shard : f[d] = 0
      BY OccurrencesEmpty DEF Init, ShardInit
    <3>2. InPools(txQueue, e) = SumFunctionOnSet(f, Shard)
      BY DEF InPools, SumFunction
    <3> HIDE DEF f
    <3> QED BY <2>1, <3>1, <3>2, DataAssumption, SumSingle
  <2>4. InOpen(open, e) = 0
    <3> DEFINE f == [d \in Shard |-> InBlock(open[d], e)]
    <3>1. \A d \in Shard : f[d] = 0
      BY InBlockIs DEF Init, ShardInit
    <3>2. InOpen(open, e) = SumFunctionOnSet(f, Shard)
      BY DEF InOpen, SumFunction
    <3> HIDE DEF f
    <3> QED BY <2>1, <3>1, <3>2, DataAssumption, SumSingle
  <2>5. InLedger(ledger, e) = 0
    <3> DEFINE f == [d \in Shard |-> ledger[d][e]]
    <3>1. \A d \in Shard : f[d] = 0
      BY DEF Init, ShardInit
    <3>2. InLedger(ledger, e) = SumFunctionOnSet(f, Shard)
      BY DEF InLedger, SumFunction
    <3> HIDE DEF f
    <3> QED BY <2>1, <3>1, <3>2, DataAssumption, SumSingle
  <2> QED BY <2>2, <2>3, <2>4, <2>5, PendingIs
<1>2. sent = 0 /\ ~(t <= sent)
    BY TxFacts DEF Init
<1>3. First(t) \in Entry /\ Second(t) \in Entry
    BY EntryFacts
<1> QED BY <1>1, <1>2, <1>3 DEF Balanced

\* Handling a message moves its transactions to the pool.
LEMMA OnceHandled ==
    ASSUME OnceInv, NEW m \in injects \cup relays, m.txs \in Seq(AtHome(m.to)),
           AddTxs2Pool(m.to, m.txs), injects' \cup relays' = (injects \cup relays) \ {m},
           UNCHANGED <<open, ledger, sent>>
    PROVE  ExactlyOnce'
<1>1. TypeInv /\ ExactlyOnce
    BY DEF OnceInv
<1>2. IsFiniteSet(injects) /\ injects \cup relays \subseteq Message /\ m \in Message /\ IsFiniteSet(relays)
    BY <1>1 DEF TypeInv, TypeOK, ShardTypeOK
<1>3. txQueue' \in [Shard -> Seq(Entry)] /\ txQueue' = [txQueue EXCEPT ![m.to] = @ \o m.txs]
    BY <1>1, <1>2, AddedToPool
<1>4. m.to \in Shard /\ m.txs \in Seq(Entry) /\ txQueue \in [Shard -> Seq(Entry)]
    BY <1>1, <1>2 DEF Message, TypeInv, TypeOK, ShardTypeOK
<1>5. ASSUME NEW CONSTANT e \in Entry PROVE Pending(e)' = Pending(e) /\ Executed(e)' = Executed(e)
  <2>1. /\ InMsgs(injects \cup relays, e) = Occurrences(e, m.txs) + InMsgs((injects \cup relays) \ {m}, e)
        /\ InMsgs((injects \cup relays) \ {m}, e) \in Nat /\ Occurrences(e, m.txs) \in Nat
    <3>1. IsFiniteSet(injects \cup relays)
      BY <1>2, FS_Union
    <3> DEFINE M == injects \cup relays
    <3> HIDE DEF M
    <3>2. IsFiniteSet(M) /\ M \subseteq Message /\ m \in M
      BY <1>2, <3>1 DEF M
    <3>3. /\ InMsgs(M, e) = Occurrences(e, m.txs) + InMsgs(M \ {m}, e)
          /\ InMsgs(M \ {m}, e) \in Nat /\ Occurrences(e, m.txs) \in Nat
      BY <3>2, InMsgsRemove
    <3> QED BY <3>3 DEF M
  <2>2. Lists(txQueue) /\ Lists(txQueue') /\ Elsewhere(txQueue, txQueue', m.to)
    BY <1>3, <1>4 DEF Lists, Elsewhere
  <2>3. /\ InPools(txQueue', e) = InPools(txQueue, e) - Occurrences(e, txQueue[m.to]) + Occurrences(e, txQueue'[m.to])
        /\ InPools(txQueue, e) \in Nat /\ Occurrences(e, txQueue[m.to]) \in Nat
    BY <1>4, <2>2, PoolsChange
  <2>4. txQueue'[m.to] = txQueue[m.to] \o m.txs
    BY <1>3, <1>4
  <2>5. Occurrences(e, txQueue[m.to] \o m.txs) = Occurrences(e, txQueue[m.to]) + Occurrences(e, m.txs)
    <3>1. txQueue[m.to] \in Seq(Entry)
      BY <1>4
    <3> QED BY <1>4, <3>1, OccurrencesConcat
  <2>6. InPools(txQueue', e) = InPools(txQueue, e) + Occurrences(e, m.txs)
    BY <2>1, <2>3, <2>4, <2>5
  <2>7. /\ InMsgs(injects' \cup relays', e) = InMsgs((injects \cup relays) \ {m}, e)
        /\ InOpen(open', e) = InOpen(open, e)
        /\ InLedger(ledger', e) = InLedger(ledger, e)
    BY Zenon
  <2>8. InOpen(open, e) \in Nat
    BY <1>1, CountsAreNat
  <2>9. Pending(e)' = Pending(e)
    <3>1. Pending(e)' = InMsgs(injects' \cup relays', e) + InPools(txQueue', e) + InOpen(open', e)
      BY PendingNext
    <3>2. Pending(e) = InMsgs(injects \cup relays, e) + InPools(txQueue, e) + InOpen(open, e)
      BY PendingIs
    <3> QED BY <2>1, <2>3, <2>6, <2>7, <2>8, <3>1, <3>2
  <2> QED BY <2>7, <2>9, PendingIs, PendingNext
<1>6. \A t \in TxID : First(t) \in Entry /\ Second(t) \in Entry
    BY EntryFacts
<1> QED BY <1>1, <1>5, <1>6, OnceUnmoved

LEMMA OnceInject ==
    ASSUME OnceInv, NEW m \in injects, HandleInjectTx(m), UNCHANGED superVars PROVE ExactlyOnce'
<1>1. m.txs # <<>> /\ m.txs \in Seq(Firsts \cap AtHome(m.to)) /\ \A n \in relays : n.txs \in Seq(Seconds \cap AtHome(n.to))
    BY DEF OnceInv, TypeInv, Located
<1>2. m.txs \in Seq(AtHome(m.to)) /\ m.txs[1] \in Firsts
    BY <1>1, SeqMonotonic
<1>3. m \notin relays
  <2> SUFFICES ASSUME m \in relays PROVE FALSE
    OBVIOUS
  <2>1. m.txs \in Seq(Seconds \cap AtHome(m.to))
    BY <1>1
  <2>2. m.txs[1] \in Seconds
    BY <1>1, <2>1
  <2> QED BY <1>2, <2>2, EntryFacts DEF Firsts, Seconds
<1>4. injects' \cup relays' = (injects \cup relays) \ {m}
    BY <1>3 DEF HandleInjectTx
<1> QED BY <1>2, <1>4, OnceHandled DEF HandleInjectTx, superVars

LEMMA OnceRelay ==
    ASSUME OnceInv, NEW m \in relays, HandleRelay(m), UNCHANGED superVars PROVE ExactlyOnce'
<1>1. m.txs # <<>> /\ m.txs \in Seq(Seconds \cap AtHome(m.to)) /\ \A n \in injects : n.txs \in Seq(Firsts \cap AtHome(n.to))
    BY DEF OnceInv, TypeInv, Located
<1>2. m.txs \in Seq(AtHome(m.to)) /\ m.txs[1] \in Seconds
    BY <1>1, SeqMonotonic
<1>3. m \notin injects
  <2> SUFFICES ASSUME m \in injects PROVE FALSE
    OBVIOUS
  <2>1. m.txs \in Seq(Firsts \cap AtHome(m.to))
    BY <1>1
  <2>2. m.txs[1] \in Firsts
    BY <1>1, <2>1
  <2> QED BY <1>2, <2>2, EntryFacts DEF Firsts, Seconds
<1>4. injects' \cup relays' = (injects \cup relays) \ {m}
    BY <1>3 DEF HandleRelay
<1> QED BY <1>2, <1>4, OnceHandled DEF HandleRelay, superVars

LEMMA OncePropose ==
    ASSUME OnceInv, NEW s \in Shard, Propose(s), UNCHANGED superVars PROVE ExactlyOnce'
<1> DEFINE a == PackTxs(txQueue[s])[1]
           b == PackTxs(txQueue[s])[2]
<1>1. TypeInv /\ ExactlyOnce
    BY DEF OnceInv
<1>2. txQueue \in [Shard -> Seq(Entry)] /\ open \in [Shard -> SUBSET Seq(Entry)] /\ open[s] = {}
    BY <1>1 DEF TypeInv, TypeOK, ShardTypeOK, Propose
<1>3. /\ a \in Seq(Entry) /\ b \in Seq(Entry)
      /\ \A e : Occurrences(e, txQueue[s]) = Occurrences(e, a) + Occurrences(e, b)
  <2>1. txQueue[s] \in Seq(Entry)
    BY <1>2
  <2> QED BY <2>1, PackFacts
<1>4. open' = [open EXCEPT ![s] = {a}] /\ txQueue' = [txQueue EXCEPT ![s] = b]
      /\ UNCHANGED <<injects, relays, ledger, sent>>
    BY <1>2 DEF Propose, superVars, netVars
<1> HIDE DEF a, b
<1>5. /\ Lists(txQueue) /\ Lists(txQueue')
      /\ Elsewhere(txQueue, txQueue', s) /\ Elsewhere(open, open', s)
      /\ open'[s] = {a} /\ txQueue'[s] = b
    BY <1>2, <1>3, <1>4 DEF Lists, Elsewhere
<1>6. \A d \in Shard : open[d] = {} \/ \E body \in Seq(Entry) : open[d] = {body}
    BY <1>1, <1>2 DEF TypeInv
<1>7. OneOpen(open) /\ OneOpen(open')
    BY <1>3, <1>5, <1>6 DEF OneOpen, Elsewhere
<1>8. ASSUME NEW CONSTANT e \in Entry PROVE Pending(e)' = Pending(e) /\ Executed(e)' = Executed(e)
  <2>1. /\ InPools(txQueue', e) = InPools(txQueue, e) - Occurrences(e, txQueue[s]) + Occurrences(e, txQueue'[s])
        /\ InPools(txQueue, e) \in Nat /\ Occurrences(e, txQueue[s]) \in Nat /\ Occurrences(e, txQueue'[s]) \in Nat
    BY <1>5, PoolsChange
  <2>2. /\ InOpen(open', e) = InOpen(open, e) - InBlock(open[s], e) + InBlock(open'[s], e)
        /\ InOpen(open, e) \in Nat
    BY <1>5, <1>7, OpenChange
  <2>3. InBlock(open[s], e) = 0
    BY <1>2, InBlockIs, Zenon
  <2>4. InBlock(open'[s], e) = Occurrences(e, a) /\ Occurrences(e, a) \in Nat
    BY <1>3, <1>5, InBlockIs, Zenon
  <2>5. Occurrences(e, txQueue[s]) = Occurrences(e, a) + Occurrences(e, txQueue'[s])
    BY <1>3, <1>5
  <2>6. InPools(txQueue', e) + InOpen(open', e) = InPools(txQueue, e) + InOpen(open, e)
        /\ InPools(txQueue', e) \in Int /\ InOpen(open', e) \in Int
    BY <2>1, <2>2, <2>3, <2>4, <2>5
  <2>7. InMsgs(injects' \cup relays', e) = InMsgs(injects \cup relays, e) /\ InLedger(ledger', e) = InLedger(ledger, e)
    BY <1>4, Zenon
  <2>8. InMsgs(injects \cup relays, e) \in Nat
    BY <1>1, CountsAreNat
  <2>9. Pending(e)' = Pending(e)
    <3>1. Pending(e)' = InMsgs(injects' \cup relays', e) + InPools(txQueue', e) + InOpen(open', e)
      BY PendingNext
    <3>2. Pending(e) = InMsgs(injects \cup relays, e) + InPools(txQueue, e) + InOpen(open, e)
      BY PendingIs
    <3> QED BY <2>1, <2>2, <2>6, <2>7, <2>8, <3>1, <3>2
  <2> QED BY <2>7, <2>9, PendingIs, PendingNext
<1>9. \A t \in TxID : First(t) \in Entry /\ Second(t) \in Entry
    BY EntryFacts
<1>10. sent' = sent
    BY <1>4
<1> QED BY <1>1, <1>8, <1>9, <1>10, OnceUnmoved

\* The part of a commit the counts see.
Commits(s, body) ==
    /\ body \in open[s]
    /\ ledger' = [ledger EXCEPT ![s] = [e \in Entry |-> @[e] + Occurrences(e, body)]]
    /\ relays' = relays \cup RelayMsgSend(s, body)
    /\ open' = [open EXCEPT ![s] = {}]
    /\ UNCHANGED <<txQueue, injects>>

LEMMA CommitsIs ==
    ASSUME NEW s \in Shard, HandleinCommit(s) PROVE \E body : Commits(s, body)
BY DEF HandleinCommit, Commits

\* A commit moves what is in the block to the ledger, and nothing else there.
LEMMA CommitCounts ==
    ASSUME TypeInv, NEW s \in Shard, NEW body, Commits(s, body), NEW CONSTANT e \in Entry
    PROVE  /\ body \in Seq(AtHome(s)) /\ body \in Seq(Entry) /\ Occurrences(e, body) \in Nat
           /\ Executed(e)' = Executed(e) + Occurrences(e, body) /\ Executed(e) \in Nat
           /\ InOpen(open', e) = InOpen(open, e) - Occurrences(e, body)
           /\ InOpen(open, e) \in Nat /\ Occurrences(e, body) <= InOpen(open, e)
<1>1. /\ open \in [Shard -> SUBSET Seq(Entry)] /\ ledger \in [Shard -> [Entry -> Nat]]
      /\ body \in open[s] /\ open[s] \subseteq Seq(AtHome(s))
    BY DEF TypeInv, TypeOK, ShardTypeOK, Commits, Located
<1>2. body \in Seq(AtHome(s)) /\ body \in Seq(Entry) /\ open[s] = {body}
    BY <1>1 DEF TypeInv
<1>3. \A x : Occurrences(x, body) \in Nat
    BY <1>2, OccurrencesUpto
<1>4. /\ Elsewhere(open, open', s) /\ open'[s] = {} /\ OneOpen(open)
    BY <1>1, CountsAreNat DEF Commits, Elsewhere
<1>5. OneOpen(open')
    BY <1>4 DEF OneOpen, Elsewhere
<1>6. /\ InOpen(open', e) = InOpen(open, e) - InBlock(open[s], e) + InBlock(open'[s], e)
      /\ InOpen(open, e) \in Nat /\ InBlock(open[s], e) \in Nat
      /\ InBlock(open[s], e) <= InOpen(open, e)
  <2>1. OneOpen(open) /\ OneOpen(open') /\ Elsewhere(open, open', s)
    BY <1>4, <1>5
  <2> QED BY ONLY <2>1, s \in Shard, OpenChange
<1>7. InBlock(open[s], e) = Occurrences(e, body)
    BY <1>2, InBlockIs, Zenon
<1>8. InBlock(open'[s], e) = 0
    BY <1>4, InBlockIs, Zenon
<1>9. ledger' = [ledger EXCEPT ![s] = [x \in Entry |-> ledger[s][x] + Occurrences(x, body)]]
    BY <1>1 DEF Commits
<1>10. [x \in Entry |-> ledger[s][x] + Occurrences(x, body)] \in [Entry -> Nat]
    BY <1>1, <1>3
<1>11. /\ ledger'[s] = [x \in Entry |-> ledger[s][x] + Occurrences(x, body)]
       /\ Elsewhere(ledger, ledger', s)
  <2> HIDE DEF Entry
  <2> QED BY <1>1, <1>9 DEF Elsewhere
<1>12. Ledgers(ledger) /\ Ledgers(ledger')
    BY <1>1, <1>10, <1>11 DEF Ledgers, Elsewhere
<1>13. /\ InLedger(ledger', e) = InLedger(ledger, e) - ledger[s][e] + ledger'[s][e]
       /\ InLedger(ledger, e) \in Nat /\ ledger[s][e] \in Nat
    BY <1>11, <1>12, LedgerChange
<1>14. ledger'[s][e] = ledger[s][e] + Occurrences(e, body)
    BY <1>11
<1>15. InLedger(ledger', e) = InLedger(ledger, e) + Occurrences(e, body)
    BY <1>3, <1>13, <1>14
<1>16. Executed(e)' = InLedger(ledger', e)
    BY PendingNext
<1>17. Executed(e) = InLedger(ledger, e)
    BY PendingIs
<1> QED BY <1>2, <1>3, <1>6, <1>7, <1>8, <1>13, <1>15, <1>16, <1>17

\* The counts of one transaction, all numbers.
LEMMA TotalsOf ==
    ASSUME OnceInv, NEW CONSTANT t \in TxID
    PROVE  /\ Pending(First(t)) \in Nat /\ Executed(First(t)) \in Nat
           /\ Pending(Second(t)) \in Nat /\ Executed(Second(t)) \in Nat
           /\ InMsgs(injects \cup relays, First(t)) <= Pending(First(t))
           /\ InMsgs(injects \cup relays, Second(t)) <= Pending(Second(t))
           /\ InMsgs(injects \cup relays, First(t)) \in Nat
           /\ InMsgs(injects \cup relays, Second(t)) \in Nat
           /\ InOpen(open, First(t)) <= Pending(First(t)) /\ InOpen(open, First(t)) \in Nat
           /\ InOpen(open, Second(t)) <= Pending(Second(t)) /\ InOpen(open, Second(t)) \in Nat
           /\ Pending(First(t)) + Executed(First(t)) = IF t <= sent THEN 1 ELSE 0
           /\ Pending(Second(t)) + Executed(Second(t)) = IF CrossShard(t) THEN Executed(First(t)) ELSE 0
<1>1. TypeInv /\ ExactlyOnce
    BY DEF OnceInv
<1>2. ASSUME NEW CONSTANT e \in Entry
      PROVE  /\ Pending(e) \in Nat /\ Executed(e) \in Nat
             /\ InMsgs(injects \cup relays, e) <= Pending(e) /\ InMsgs(injects \cup relays, e) \in Nat
             /\ InOpen(open, e) <= Pending(e) /\ InOpen(open, e) \in Nat
  <2>1. /\ InMsgs(injects \cup relays, e) \in Nat /\ InPools(txQueue, e) \in Nat
        /\ InOpen(open, e) \in Nat /\ InLedger(ledger, e) \in Nat
    BY <1>1, CountsAreNat
  <2>2. Pending(e) = InMsgs(injects \cup relays, e) + InPools(txQueue, e) + InOpen(open, e)
    BY PendingIs
  <2>3. Executed(e) = InLedger(ledger, e)
    BY PendingIs
  <2> QED BY <2>1, <2>2, <2>3
<1>3. First(t) \in Entry /\ Second(t) \in Entry
    BY EntryFacts
<1>4. /\ Pending(First(t)) + Executed(First(t)) = IF t <= sent THEN 1 ELSE 0
      /\ Pending(Second(t)) + Executed(Second(t)) = IF CrossShard(t) THEN Executed(First(t)) ELSE 0
    BY <1>1 DEF ExactlyOnce
<1> QED BY <1>2, <1>3, <1>4

LEMMA OnceCommit ==
    ASSUME OnceInv, NEW s \in Shard, HandleinCommit(s), UNCHANGED superVars PROVE ExactlyOnce'
<1>1. TypeInv /\ ExactlyOnce /\ sent' = sent
    BY DEF OnceInv, superVars
<1>2. PICK body : Commits(s, body)
    BY CommitsIs
<1> DEFINE M == RelayMsgSend(s, body)
           N == injects \cup relays
<1>3. injects' \cup relays' = N \cup M /\ txQueue' = txQueue
    BY <1>2 DEF Commits
<1>4. body \in Seq(AtHome(s)) /\ body \in Seq(Entry)
    BY <1>1, <1>2 DEF Commits, TypeInv, Located, TypeOK, ShardTypeOK
<1>5. /\ IsFiniteSet(M) /\ M \subseteq Message
      /\ \A m \in M : m.txs # <<>> /\ m.txs \in Seq(Seconds \cap AtHome(m.to))
      /\ \A t \in TxID :
            /\ InMsgs(M, First(t)) = 0
            /\ InMsgs(M, Second(t)) = IF CrossShard(t) THEN Occurrences(First(t), body) ELSE 0
    BY <1>4, CommitMsgs
<1>6. IsFiniteSet(N) /\ N \subseteq Message
    BY <1>1, FS_Union DEF TypeInv, TypeOK, ShardTypeOK
<1> HIDE DEF M, N
<1>7. N \cap M = {}
  <2> SUFFICES ASSUME NEW m \in N, m \in M PROVE FALSE
    OBVIOUS
  <2>1. m.txs # <<>> /\ m.txs \in Seq(Seconds \cap AtHome(m.to))
    BY <1>5
  <2>2. 1 \in 1 .. Len(m.txs) /\ m.txs[1] \in Seconds
    BY <2>1
  <2>3. PICK t \in TxID : m.txs[1] = Second(t)
    BY <2>2 DEF Seconds
  <2>4. InMsgs(M, Second(t)) > 0
    BY <1>5, <2>2, <2>3, InMsgsAtLeast
  <2>5. InMsgs(N, Second(t)) > 0
    BY <1>6, <2>2, <2>3, InMsgsAtLeast
  <2>6. CrossShard(t) /\ Occurrences(First(t), body) > 0
    BY <1>5, <2>4
  <2>7. Occurrences(First(t), body) <= InOpen(open, First(t)) /\ Occurrences(First(t), body) \in Nat
    BY <1>1, <1>2, CommitCounts, EntryFacts
  <2>8. /\ Pending(First(t)) \in Nat /\ Executed(First(t)) \in Nat
        /\ Pending(Second(t)) \in Nat /\ Executed(Second(t)) \in Nat
        /\ InMsgs(N, Second(t)) <= Pending(Second(t)) /\ InMsgs(N, Second(t)) \in Nat
        /\ InOpen(open, First(t)) <= Pending(First(t)) /\ InOpen(open, First(t)) \in Nat
        /\ Pending(First(t)) + Executed(First(t)) = IF t <= sent THEN 1 ELSE 0
        /\ Pending(Second(t)) + Executed(Second(t)) = IF CrossShard(t) THEN Executed(First(t)) ELSE 0
    BY TotalsOf DEF N
  <2>9. Executed(First(t)) = 0
    BY <2>6, <2>7, <2>8
  <2> QED BY <2>5, <2>6, <2>8, <2>9
<1>8. ASSUME NEW CONSTANT e \in Entry
      PROVE  /\ Pending(e)' + Executed(e)' = Pending(e) + Executed(e) + InMsgs(M, e)
             /\ Executed(e)' = Executed(e) + Occurrences(e, body)
  <2>1. /\ Executed(e)' = Executed(e) + Occurrences(e, body) /\ Executed(e) \in Nat
        /\ InOpen(open', e) = InOpen(open, e) - Occurrences(e, body)
        /\ InOpen(open, e) \in Nat /\ Occurrences(e, body) \in Nat
    BY <1>1, <1>2, CommitCounts
  <2>2. InMsgs(N \cup M, e) = InMsgs(N, e) + InMsgs(M, e) /\ InMsgs(N, e) \in Nat /\ InMsgs(M, e) \in Nat
    <3>1. N \cup M \subseteq Message
      BY <1>5, <1>6
    <3> QED BY <1>5, <1>6, <1>7, <3>1, InMsgsUnion
  <2>3. InPools(txQueue, e) \in Nat
    BY <1>1, CountsAreNat
  <2>4. Pending(e)' = InMsgs(N \cup M, e) + InPools(txQueue, e) + InOpen(open', e)
    <3>1. Pending(e)' = InMsgs(injects' \cup relays', e) + InPools(txQueue', e) + InOpen(open', e)
      BY PendingNext
    <3> QED BY <1>3, <3>1, Zenon
  <2>5. Pending(e) = InMsgs(N, e) + InPools(txQueue, e) + InOpen(open, e)
    BY PendingIs DEF N
  <2> QED BY <2>1, <2>2, <2>3, <2>4, <2>5
<1>9. ASSUME NEW CONSTANT t \in TxID
      PROVE  Balanced(t, sent, Pending(First(t))', Executed(First(t))',
                               Pending(Second(t))', Executed(Second(t))')
  <2>1. First(t) \in Entry /\ Second(t) \in Entry
    BY EntryFacts
  <2>2. /\ Pending(First(t))' + Executed(First(t))' = Pending(First(t)) + Executed(First(t)) + InMsgs(M, First(t))
        /\ Executed(First(t))' = Executed(First(t)) + Occurrences(First(t), body)
        /\ Pending(Second(t))' + Executed(Second(t))' = Pending(Second(t)) + Executed(Second(t)) + InMsgs(M, Second(t))
    BY <1>8, <2>1
  <2>3. /\ Pending(First(t)) \in Nat /\ Executed(First(t)) \in Nat
        /\ Pending(Second(t)) \in Nat /\ Executed(Second(t)) \in Nat
        /\ Pending(First(t)) + Executed(First(t)) = IF t <= sent THEN 1 ELSE 0
        /\ Pending(Second(t)) + Executed(Second(t)) = IF CrossShard(t) THEN Executed(First(t)) ELSE 0
    BY TotalsOf
  <2>4. /\ InMsgs(M, First(t)) = 0
        /\ InMsgs(M, Second(t)) = IF CrossShard(t) THEN Occurrences(First(t), body) ELSE 0
    BY <1>5
  <2>5. Occurrences(First(t), body) \in Nat
    BY <1>4, OccurrencesUpto
  <2>6. Pending(First(t))' + Executed(First(t))' = IF t <= sent THEN 1 ELSE 0
    BY <2>2, <2>3, <2>4
  <2>7. Pending(Second(t))' + Executed(Second(t))' = IF CrossShard(t) THEN Executed(First(t))' ELSE 0
    BY <2>2, <2>3, <2>4, <2>5
  <2> QED BY <2>6, <2>7 DEF Balanced
<1> QED BY <1>1, <1>9 DEF ExactlyOnce, Balanced

LEMMA OnceSending == ASSUME OnceInv, TxSending PROVE ExactlyOnce'
<1>1. TypeInv /\ ExactlyOnce
    BY DEF OnceInv
<1> DEFINE k == sent' - sent
           M == InjectMsgs(NewTxs(sent, k))
           N == injects \cup relays
<1>2. /\ sent \in Nat /\ k \in Nat /\ sent + k = sent' /\ sent + k <= Len(TxList)
      /\ injects' = injects \cup M /\ sent' \in Nat
    BY <1>1, Sent
<1> HIDE DEF k
<1>3. injects' \cup relays' = N \cup M /\ UNCHANGED <<txQueue, open, ledger>>
    BY <1>2 DEF TxSending, shardVars
<1>4. /\ IsFiniteSet(M) /\ M \subseteq Message
      /\ \A m \in M : m.txs # <<>> /\ m.txs \in Seq(Firsts \cap AtHome(m.to))
      /\ \A t \in TxID : /\ InMsgs(M, First(t)) = IF sent < t /\ t <= sent + k THEN 1 ELSE 0
                         /\ InMsgs(M, Second(t)) = 0
    BY <1>2, InjectFacts
<1>5. IsFiniteSet(N) /\ N \subseteq Message
    BY <1>1, FS_Union DEF TypeInv, TypeOK, ShardTypeOK
<1> HIDE DEF M, N
<1>6. N \cap M = {}
  <2> SUFFICES ASSUME NEW m \in N, m \in M PROVE FALSE
    OBVIOUS
  <2>1. m.txs # <<>> /\ m.txs \in Seq(Firsts \cap AtHome(m.to))
    BY <1>4
  <2>2. 1 \in 1 .. Len(m.txs) /\ m.txs[1] \in Firsts
    BY <2>1
  <2>3. PICK t \in TxID : m.txs[1] = First(t)
    BY <2>2 DEF Firsts
  <2>4. InMsgs(M, First(t)) > 0
    BY <1>4, <2>2, <2>3, InMsgsAtLeast
  <2>5. InMsgs(N, First(t)) > 0
    BY <1>5, <2>2, <2>3, InMsgsAtLeast
  <2>6. sent < t /\ t \in Nat
    BY <1>4, <2>4, TxFacts
  <2>7. /\ Pending(First(t)) \in Nat /\ Executed(First(t)) \in Nat
        /\ InMsgs(N, First(t)) <= Pending(First(t)) /\ InMsgs(N, First(t)) \in Nat
        /\ Pending(First(t)) + Executed(First(t)) = IF t <= sent THEN 1 ELSE 0
    BY TotalsOf DEF N
  <2> QED BY <1>2, <2>5, <2>6, <2>7
<1>7. ASSUME NEW CONSTANT e \in Entry
      PROVE  Pending(e)' = Pending(e) + InMsgs(M, e) /\ Executed(e)' = Executed(e)
  <2>1. InMsgs(N \cup M, e) = InMsgs(N, e) + InMsgs(M, e) /\ InMsgs(N, e) \in Nat /\ InMsgs(M, e) \in Nat
    <3>1. N \cup M \subseteq Message
      BY <1>4, <1>5
    <3> QED BY <1>4, <1>5, <1>6, <3>1, InMsgsUnion
  <2>2. InPools(txQueue, e) \in Nat /\ InOpen(open, e) \in Nat
    BY <1>1, CountsAreNat
  <2>3. /\ Pending(e)' = InMsgs(N \cup M, e) + InPools(txQueue, e) + InOpen(open, e)
        /\ Executed(e)' = Executed(e)
    <3>1. /\ Pending(e)' = InMsgs(injects' \cup relays', e) + InPools(txQueue', e) + InOpen(open', e)
          /\ Executed(e)' = InLedger(ledger', e)
      BY PendingNext
    <3>2. Executed(e) = InLedger(ledger, e)
      BY PendingIs
    <3> QED BY <1>3, <3>1, <3>2, Zenon
  <2>4. Pending(e) = InMsgs(N, e) + InPools(txQueue, e) + InOpen(open, e)
    BY PendingIs DEF N
  <2> QED BY <2>1, <2>2, <2>3, <2>4
<1>8. ASSUME NEW CONSTANT t \in TxID
      PROVE  /\ Pending(First(t))' + Executed(First(t))' = IF t <= sent' THEN 1 ELSE 0
             /\ Pending(Second(t))' + Executed(Second(t))' = IF CrossShard(t) THEN Executed(First(t))' ELSE 0
  <2>1. First(t) \in Entry /\ Second(t) \in Entry /\ t \in Nat
    BY EntryFacts, TxFacts
  <2>2. /\ Pending(First(t))' = Pending(First(t)) + InMsgs(M, First(t))
        /\ Executed(First(t))' = Executed(First(t))
        /\ Pending(Second(t))' = Pending(Second(t)) + InMsgs(M, Second(t))
        /\ Executed(Second(t))' = Executed(Second(t))
    BY <1>7, <2>1
  <2>3. /\ Pending(First(t)) \in Nat /\ Executed(First(t)) \in Nat
        /\ Pending(Second(t)) \in Nat /\ Executed(Second(t)) \in Nat
        /\ Pending(First(t)) + Executed(First(t)) = IF t <= sent THEN 1 ELSE 0
        /\ Pending(Second(t)) + Executed(Second(t)) = IF CrossShard(t) THEN Executed(First(t)) ELSE 0
    BY TotalsOf
  <2>4. /\ InMsgs(M, First(t)) = IF sent < t /\ t <= sent' THEN 1 ELSE 0
        /\ InMsgs(M, Second(t)) = 0
    BY <1>2, <1>4
  <2>5. Pending(First(t))' + Executed(First(t))' = IF t <= sent' THEN 1 ELSE 0
    <3>1. sent \in Nat /\ sent' \in Nat /\ sent <= sent'
      BY <1>2
    <3> QED BY <2>1, <2>2, <2>3, <2>4, <3>1
  <2>6. Pending(Second(t))' + Executed(Second(t))' = IF CrossShard(t) THEN Executed(First(t))' ELSE 0
    BY <2>2, <2>3, <2>4
  <2> QED BY <2>5, <2>6
<1> QED BY <1>8 DEF ExactlyOnce

\* The other steps move no transaction.
LEMMA OnceIdle ==
    ASSUME OnceInv, UNCHANGED <<injects, relays, txQueue, open, ledger, sent>> PROVE ExactlyOnce'
BY DEF OnceInv, ExactlyOnce, Pending, Executed

LEMMA OnceNext == ASSUME OnceInv, [Next]_vars PROVE OnceInv'
<1>1. TypeInv'
    BY TypeInvNext DEF OnceInv
<1>2. ExactlyOnce'
  <2>1. CASE UNCHANGED vars
    BY <2>1, OnceIdle DEF vars, shardVars, netVars, superVars
  <2>2. CASE ShardNext /\ UNCHANGED superVars
    <3>1. CASE \E s \in Shard : WaitToStop(s)
      BY <2>2, <3>1, OnceIdle DEF WaitToStop, superVars
    <3> QED BY <2>2, <3>1, OnceInject, OnceRelay, OncePropose, OnceCommit DEF ShardNext
  <2>3. CASE SupervisorNext
    <3>1. CASE TxSending
      BY <3>1, OnceSending
    <3>2. CASE BatchSent \/ SendStop \/ CloseSupervisor
      BY <3>2, OnceIdle DEF BatchSent, SendStop, CloseSupervisor, shardVars, netVars
    <3>3. CASE \E s \in Shard : HandleEmptyBlockInfo(s)
      BY <3>3, OnceIdle DEF HandleEmptyBlockInfo, shardVars
    <3>4. CASE \E b \in infos : HandleBlockInfo(b)
      BY <3>4, OnceIdle DEF HandleBlockInfo, shardVars
    <3> QED BY <2>3, <3>1, <3>2, <3>3, <3>4 DEF SupervisorNext
  <2> QED BY <2>1, <2>2, <2>3 DEF Next
<1> QED BY <1>1, <1>2 DEF OnceInv

LEMMA OnceInvariant == Spec => []OnceInv
<1>1. Init => OnceInv
    BY TypeInvInit, OnceInit DEF OnceInv
<1>2. OnceInv /\ [Next]_vars => OnceInv'
    BY OnceNext
<1> QED BY <1>1, <1>2, PTL DEF Spec

\* For any shards, accounts, dataset and pace: a transaction that was sent is in
\* exactly one message, pool or block or has been executed, and the second half of
\* a cross-shard one exists, once, from the commit of the first on.
THEOREM EachExactlyOnce == Spec => []ExactlyOnce
<1>1. OnceInv => ExactlyOnce
    BY DEF OnceInv
<1> QED BY <1>1, OnceInvariant, PTL
-----------------------------------------------------------------------------
(* The supervisor's counts. *)

\* X is what shard s may have of S in a block: filtering by S counts X.
LEMMA KeptIsSum ==
    ASSUME NEW s, NEW body \in Seq(AtHome(s)), NEW S, NEW X, IsFiniteSet(X),
           AtHome(s) \cap S \subseteq X, X \cap AtHome(s) \subseteq S
    PROVE  Len(Keep(body, S)) = SumFunctionOnSet([e \in X |-> Occurrences(e, body)], X)
<1> DEFINE p == Keep(body, S)
<1>1. /\ p \in Seq(AtHome(s) \cap S)
      /\ \A e : Occurrences(e, p) = IF e \in S THEN Occurrences(e, body) ELSE 0
    BY KeepFacts
<1> HIDE DEF p
<1>2. p \in Seq(X)
    BY <1>1, SeqMonotonic
<1>3. \A e \in X : e \notin S => Occurrences(e, body) = 0
  <2> SUFFICES ASSUME NEW e \in X, e \notin S PROVE Occurrences(e, body) = 0
    OBVIOUS
  <2>1. e \notin AtHome(s)
    OBVIOUS
  <2>2. \A i \in 1 .. Len(body) : body[i] # e
    BY <2>1
  <2>3. Occurrences(e, body) \in Nat /\ ~(Occurrences(e, body) > 0)
    BY <2>2, OccurrencesUpto, OccurrencesIn
  <2> QED BY <2>3
<1>4. \A e \in X : Occurrences(e, p) = Occurrences(e, body)
    BY <1>1, <1>3
<1>5. [e \in X |-> Occurrences(e, p)] = [e \in X |-> Occurrences(e, body)]
    BY <1>4
<1>6. Len(p) = SumFunctionOnSet([e \in X |-> Occurrences(e, p)], X)
    BY <1>2, LengthIsSum
<1> QED BY <1>5, <1>6 DEF p

Kinds == {"normal", "relay1", "relay2"}

LEMMA ClassFacts ==
    /\ Class["normal"] = {First(t) : t \in {t \in TxID : ~CrossShard(t)}}
    /\ Class["relay1"] = {First(t) : t \in {t \in TxID : CrossShard(t)}}
    /\ Class["relay2"] = Seconds
    /\ \A c \in Kinds : Class[c] \subseteq Entry /\ IsFiniteSet(Class[c])
<1>1. /\ Class["normal"] = {First(t) : t \in {t \in TxID : ~CrossShard(t)}}
      /\ Class["relay1"] = {First(t) : t \in {t \in TxID : CrossShard(t)}}
      /\ Class["relay2"] = Seconds
    BY DEF Class, Seconds
<1>2. IsFiniteSet(TxID)
    BY TxFacts, FS_Interval
<1>3. IsFiniteSet(Firsts)
  <2> DEFINE f == [t \in TxID |-> First(t)]
  <2>1. f \in Surjection(TxID, Firsts)
    BY DEF Surjection, Firsts
  <2> QED BY <1>2, <2>1, FS_Surjection
<1>4. IsFiniteSet(Seconds)
  <2> DEFINE f == [t \in TxID |-> Second(t)]
  <2>1. f \in Surjection(TxID, Seconds)
    BY DEF Surjection, Seconds
  <2> QED BY <1>2, <2>1, FS_Surjection
<1>5. /\ Class["normal"] \subseteq Firsts /\ Class["relay1"] \subseteq Firsts
      /\ Firsts \subseteq Entry /\ Seconds \subseteq Entry
    BY <1>1, EntryFacts DEF Firsts, Seconds
<1>6. IsFiniteSet(Class["normal"]) /\ IsFiniteSet(Class["relay1"]) /\ IsFiniteSet(Class["relay2"])
    BY <1>1, <1>3, <1>4, <1>5, FS_Subset
<1> QED BY <1>1, <1>5, <1>6 DEF Kinds

\* A report's three numbers are the block's transactions of each class.
LEMMA ReportCounts ==
    ASSUME NEW s \in Shard, NEW body \in Seq(AtHome(s)), NEW c \in Kinds
    PROVE  /\ Reported(BlockInfo(s, body))[c]
                = SumFunctionOnSet([e \in Class[c] |-> Occurrences(e, body)], Class[c])
           /\ Reported(BlockInfo(s, body))[c] \in Nat
<1> DEFINE b == BlockInfo(s, body)
           Counted(S, n) == Reported(b)[n] = Len(Keep(body, S)) /\ Len(Keep(body, S)) \in Nat
<1>1. \A S : Len(TxsOf(Keep(body, S))) = Len(Keep(body, S)) /\ Len(Keep(body, S)) \in Nat
  <2> SUFFICES ASSUME NEW S PROVE Len(TxsOf(Keep(body, S))) = Len(Keep(body, S)) /\ Len(Keep(body, S)) \in Nat
    OBVIOUS
  <2> DEFINE p == Keep(body, S)
  <2>1. p \in Seq(AtHome(s) \cap S)
    BY KeepFacts
  <2> HIDE DEF p
  <2>2. DOMAIN p = 1 .. Len(p) /\ Len(p) \in Nat
    BY <2>1
  <2>3. Len(TxsOf(p)) = Len(p)
    BY <2>2 DEF TxsOf
  <2> QED BY <2>2, <2>3 DEF p
<1>2. Counted(Inner(s), "normal") /\ Counted(Relay1(s), "relay1") /\ Counted(Relay2(s), "relay2")
    BY <1>1 DEF Reported, BlockInfo
<1>3. \A t \in TxID :
        /\ First(t) \in Inner(s) <=> PartitionMap[Recipient(t)] = s
        /\ Second(t) \notin Inner(s)
        /\ First(t) \in Relay1(s) <=> PartitionMap[Recipient(t)] # s
        /\ Second(t) \in Relay1(s) <=> PartitionMap[Recipient(t)] # s
        /\ First(t) \notin Relay2(s)
        /\ Second(t) \in Relay2(s) <=> PartitionMap[Recipient(t)] = s
    BY EntryFacts DEF Inner, Relay1, Relay2, First, Second
<1>4. \A t \in TxID :
        /\ First(t) \in AtHome(s) <=> PartitionMap[Sender(t)] = s
        /\ Second(t) \in AtHome(s) <=> PartitionMap[Recipient(t)] = s
    BY HomeFacts
<1>5. \A e \in AtHome(s) : \E t \in TxID : e = First(t) \/ e = Second(t)
    BY EntryFacts DEF AtHome
<1>6. /\ AtHome(s) \cap Inner(s) \subseteq Class["normal"]
      /\ Class["normal"] \cap AtHome(s) \subseteq Inner(s)
    BY <1>3, <1>4, <1>5, ClassFacts DEF CrossShard
<1>7. /\ AtHome(s) \cap Relay1(s) \subseteq Class["relay1"]
      /\ Class["relay1"] \cap AtHome(s) \subseteq Relay1(s)
    BY <1>3, <1>4, <1>5, ClassFacts DEF CrossShard
<1>8. /\ AtHome(s) \cap Relay2(s) \subseteq Class["relay2"]
      /\ Class["relay2"] \cap AtHome(s) \subseteq Relay2(s)
    BY <1>3, <1>4, <1>5, ClassFacts DEF Seconds
<1>9. \A n \in Kinds : IsFiniteSet(Class[n])
    BY ClassFacts
<1> HIDE DEF b
<1>10. CASE c = "normal"
  <2>1. Len(Keep(body, Inner(s))) = SumFunctionOnSet([e \in Class[c] |-> Occurrences(e, body)], Class[c])
    BY <1>6, <1>9, <1>10, KeptIsSum
  <2> QED BY <1>2, <1>10, <2>1 DEF b
<1>11. CASE c = "relay1"
  <2>1. Len(Keep(body, Relay1(s))) = SumFunctionOnSet([e \in Class[c] |-> Occurrences(e, body)], Class[c])
    BY <1>7, <1>9, <1>11, KeptIsSum
  <2> QED BY <1>2, <1>11, <2>1 DEF b
<1>12. CASE c = "relay2"
  <2>1. Len(Keep(body, Relay2(s))) = SumFunctionOnSet([e \in Class[c] |-> Occurrences(e, body)], Class[c])
    BY <1>8, <1>9, <1>12, KeptIsSum
  <2> QED BY <1>2, <1>12, <2>1 DEF b
<1> QED BY <1>10, <1>11, <1>12 DEF Kinds

\* The entries a report is about.
InfoEntries(b) ==
    {First(b.inner[i]) : i \in 1 .. Len(b.inner)}
    \cup {First(b.relay1[i]) : i \in 1 .. Len(b.relay1)}
    \cup {Second(b.relay2[i]) : i \in 1 .. Len(b.relay2)}

\* A report is about transactions of its block, and about one at least if the block
\* has any.
LEMMA InfoEntriesFacts ==
    ASSUME NEW s \in Shard, NEW body \in Seq(AtHome(s))
    PROVE  LET B == InfoEntries(BlockInfo(s, body)) IN
           /\ \A e \in B : e \in Entry /\ \E i \in 1 .. Len(body) : body[i] = e
           /\ body # <<>> => B # {}
<1> DEFINE b == BlockInfo(s, body)
           P(S) == Keep(body, S)
<1>1. ASSUME NEW S
      PROVE  /\ Len(TxsOf(P(S))) = Len(P(S)) /\ Len(P(S)) \in Nat
             /\ \A i \in 1 .. Len(P(S)) : TxsOf(P(S))[i] = P(S)[i].tx /\ P(S)[i] \in AtHome(s) \cap S
  <2>1. P(S) \in Seq(AtHome(s) \cap S)
    BY KeepFacts
  <2> DEFINE p == P(S)
  <2> HIDE DEF p, P
  <2>2. p \in Seq(AtHome(s) \cap S)
    BY <2>1 DEF p
  <2>3. DOMAIN p = 1 .. Len(p) /\ Len(p) \in Nat /\ \A i \in 1 .. Len(p) : p[i] \in AtHome(s) \cap S
    BY <2>2
  <2>4. Len(TxsOf(p)) = Len(p) /\ \A i \in 1 .. Len(p) : TxsOf(p)[i] = p[i].tx
    BY <2>3 DEF TxsOf
  <2> QED BY <2>3, <2>4 DEF p
<1>2. ASSUME NEW S, NEW i \in 1 .. Len(P(S)) PROVE \E j \in 1 .. Len(body) : body[j] = P(S)[i]
  <2> DEFINE x == P(S)[i]
  <2>1. \E j \in 1 .. Len(Keep(body, S)) : Keep(body, S)[j] = x
    OBVIOUS
  <2> HIDE DEF x, P
  <2>2. body \in Seq(AtHome(s))
    OBVIOUS
  <2>3. \A y : (\E j \in 1 .. Len(Keep(body, S)) : Keep(body, S)[j] = y)
            <=> y \in S /\ \E j \in 1 .. Len(body) : body[j] = y
    BY ONLY <2>2, KeepIn
  <2> QED BY <2>1, <2>3 DEF x
<1>3. \A e \in AtHome(s) : /\ e \in Entry
                           /\ e \in Inner(s) => First(e.tx) = e
                           /\ e \in Relay1(s) => First(e.tx) = e
                           /\ e \in Relay2(s) => Second(e.tx) = e
                           /\ e \in Inner(s) \cup Relay1(s) \cup Relay2(s)
  <2> SUFFICES ASSUME NEW e \in AtHome(s)
               PROVE  /\ e \in Entry
                      /\ e \in Inner(s) => First(e.tx) = e
                      /\ e \in Relay1(s) => First(e.tx) = e
                      /\ e \in Relay2(s) => Second(e.tx) = e
                      /\ e \in Inner(s) \cup Relay1(s) \cup Relay2(s)
    OBVIOUS
  <2>1. e \in Entry /\ e.tx \in TxID /\ (e = First(e.tx) \/ e = Second(e.tx))
    BY EntryFacts DEF AtHome
  <2>2. PICK t \in TxID : e.tx = t
    BY <2>1
  <2>3. First(t) \notin Relay2(s) /\ Second(t) \notin Inner(s)
    BY DEF Relay2, Inner, First, Second
  <2>4. e = Second(t) => PartitionMap[Recipient(t)] = s
    BY HomeFacts
  <2>5. e \in Relay1(s) => PartitionMap[Recipient(t)] # s
    BY <2>2 DEF Relay1
  <2>6. e \in Inner(s) \cup Relay1(s) \cup Relay2(s)
    BY <2>1 DEF Relay1, Inner, Relay2
  <2> QED BY <2>1, <2>2, <2>3, <2>4, <2>5, <2>6
<1>4. b.inner = TxsOf(P(Inner(s))) /\ b.relay1 = TxsOf(P(Relay1(s))) /\ b.relay2 = TxsOf(P(Relay2(s)))
    BY DEF BlockInfo
<1> HIDE DEF b, P
<1>5. ASSUME NEW e \in InfoEntries(b) PROVE e \in Entry /\ \E i \in 1 .. Len(body) : body[i] = e
  <2>1. CASE \E i \in 1 .. Len(b.inner) : e = First(b.inner[i])
    <3>1. PICK i \in 1 .. Len(P(Inner(s))) : e = First(P(Inner(s))[i].tx)
      BY <1>1, <1>4, <2>1
    <3>2. e = P(Inner(s))[i] /\ e \in Entry
      BY <1>1, <1>3, <3>1
    <3> QED BY <1>2, <3>2
  <2>2. CASE \E i \in 1 .. Len(b.relay1) : e = First(b.relay1[i])
    <3>1. PICK i \in 1 .. Len(P(Relay1(s))) : e = First(P(Relay1(s))[i].tx)
      BY <1>1, <1>4, <2>2
    <3>2. e = P(Relay1(s))[i] /\ e \in Entry
      BY <1>1, <1>3, <3>1
    <3> QED BY <1>2, <3>2
  <2>3. CASE \E i \in 1 .. Len(b.relay2) : e = Second(b.relay2[i])
    <3>1. PICK i \in 1 .. Len(P(Relay2(s))) : e = Second(P(Relay2(s))[i].tx)
      BY <1>1, <1>4, <2>3
    <3>2. e = P(Relay2(s))[i] /\ e \in Entry
      BY <1>1, <1>3, <3>1
    <3> QED BY <1>2, <3>2
  <2> QED BY <2>1, <2>2, <2>3 DEF InfoEntries
<1>6. ASSUME body # <<>> PROVE InfoEntries(b) # {}
  <2> DEFINE e == body[1]
  <2>1. 1 \in 1 .. Len(body) /\ e \in AtHome(s)
    BY <1>6
  <2>2. PICK S \in {Inner(s), Relay1(s), Relay2(s)} : e \in S
    BY <1>3, <2>1
  <2>3. \E i \in 1 .. Len(P(S)) : P(S)[i] = e
    BY <2>1, <2>2, KeepIn DEF P
  <2>4. PICK i \in 1 .. Len(P(S)) : TRUE
    BY <2>3
  <2>5. CASE S = Inner(s)
    <3>1. i \in 1 .. Len(b.inner)
      BY <1>1, <1>4, <2>4, <2>5
    <3>2. First(b.inner[i]) \in InfoEntries(b)
      BY <3>1 DEF InfoEntries
    <3> QED BY <3>2
  <2>6. CASE S = Relay1(s)
    <3>1. i \in 1 .. Len(b.relay1)
      BY <1>1, <1>4, <2>4, <2>6
    <3>2. First(b.relay1[i]) \in InfoEntries(b)
      BY <3>1 DEF InfoEntries
    <3> QED BY <3>2
  <2>7. CASE S = Relay2(s)
    <3>1. i \in 1 .. Len(b.relay2)
      BY <1>1, <1>4, <2>4, <2>7
    <3>2. Second(b.relay2[i]) \in InfoEntries(b)
      BY <3>1 DEF InfoEntries
    <3> QED BY <3>2
  <2> QED BY <2>2, <2>5, <2>6, <2>7
<1> QED BY <1>5, <1>6 DEF b

InInfos(I, c) == SumFunctionOnSet([b \in I |-> Reported(b)[c]], I)
ClassSum(c) == SumFunctionOnSet([e \in Class[c] |-> Executed(e)], Class[c])

LEMMA CountsMatchIs == CountsMatch <=> \A c \in Kinds : measured[c] + InInfos(infos, c) = ClassSum(c)
BY DEF CountsMatch, Kinds, InInfos, ClassSum, SumFunction

LEMMA ReportedType ==
    ASSUME NEW b \in BlockInfoMsg, NEW c \in Kinds PROVE Reported(b)[c] \in Nat
<1>1. Len(b.inner) \in Nat /\ Len(b.relay1) \in Nat /\ Len(b.relay2) \in Nat
    BY DEF BlockInfoMsg
<1> QED BY <1>1 DEF Kinds, Reported

LEMMA InInfosAdd ==
    ASSUME NEW I, IsFiniteSet(I), NEW b, b \notin I, I \cup {b} \subseteq BlockInfoMsg, NEW c \in Kinds
    PROVE  /\ InInfos(I \cup {b}, c) = InInfos(I, c) + Reported(b)[c]
           /\ InInfos(I, c) \in Nat /\ Reported(b)[c] \in Nat
<1> DEFINE J == I \cup {b}
           f == [x \in J |-> Reported(x)[c]]
           g == [x \in I |-> Reported(x)[c]]
<1>1. \A x \in J : f[x] \in Nat
    BY ReportedType
<1>2. \A x \in I : f[x] = g[x]
    OBVIOUS
<1>3. f[b] = Reported(b)[c] /\ b \in J
    OBVIOUS
<1>4. InInfos(J, c) = SumFunctionOnSet(f, J) /\ InInfos(I, c) = SumFunctionOnSet(g, I)
    BY DEF InInfos
<1> HIDE DEF f, g
<1>5. \A x \in I \cup {b} : f[x] \in Int
    BY <1>1
<1>6. SumFunctionOnSet(f, I \cup {b}) = f[b] + SumFunctionOnSet(f, I)
    BY <1>5, SumAdd
<1>7. SumFunctionOnSet(f, I) = SumFunctionOnSet(g, I)
    BY <1>2, SumAgree
<1>8. SumFunctionOnSet(f, I) \in Nat
    BY <1>1, SumNat
<1> QED BY <1>1, <1>3, <1>4, <1>6, <1>7, <1>8

\* Reports are about transactions that have been executed.
Settled == \A b \in infos : \E e \in InfoEntries(b) \cap Entry : Executed(e) > 0

CountInv == OnceInv /\ CountsMatch /\ Settled

LEMMA CountInit == Init => CountsMatch /\ Settled
<1> SUFFICES ASSUME Init PROVE CountsMatch /\ Settled
    OBVIOUS
<1>1. infos = {} /\ \A c \in Kinds : measured[c] = 0
    BY DEF Init, ShardInit, Kinds
<1>2. \A c \in Kinds : InInfos(infos, c) = 0
    BY <1>1, SumEmpty DEF InInfos
<1>3. ASSUME NEW c \in Kinds PROVE ClassSum(c) = 0
  <2> DEFINE f == [e \in Class[c] |-> Executed(e)]
  <2>1. \A e \in Class[c] : f[e] = 0
    <3> SUFFICES ASSUME NEW e \in Class[c] PROVE Executed(e) = 0
      OBVIOUS
    <3>1. e \in Entry
      BY ClassFacts
    <3> DEFINE g == [d \in Shard |-> ledger[d][e]]
    <3>2. \A d \in Shard : g[d] = 0
      BY <3>1 DEF Init, ShardInit
    <3>3. Executed(e) = SumFunctionOnSet(g, Shard)
      BY DEF Executed, SumFunction
    <3> HIDE DEF g
    <3>4. \A d \in Shard : g[d] \in Nat
      BY <3>2
    <3> QED BY <3>2, <3>3, <3>4, DataAssumption, SumNat
  <2> HIDE DEF f
  <2>2. IsFiniteSet(Class[c]) /\ \A e \in Class[c] : f[e] \in Nat
    BY <2>1, ClassFacts
  <2>3. SumFunctionOnSet(f, Class[c]) = 0
    BY <2>1, <2>2, SumNat
  <2> QED BY <2>3 DEF ClassSum, f
<1>4. CountsMatch
    BY <1>1, <1>2, <1>3, CountsMatchIs
<1> QED BY <1>1, <1>4 DEF Settled

LEMMA CountsMatchNext ==
    CountsMatch' <=> \A c \in Kinds : measured'[c] + InInfos(infos', c) = ClassSum(c)'
BY DEF CountsMatch, Kinds, InInfos, ClassSum, SumFunction

\* The supervisor takes a report: the counts move from the message to the measures.
LEMMA CountInfo ==
    ASSUME CountInv, NEW b \in infos, HandleBlockInfo(b) PROVE CountsMatch' /\ Settled'
<1>1. TypeInv /\ CountsMatch /\ Settled
    BY DEF CountInv, OnceInv
<1>2. /\ infos \in SUBSET BlockInfoMsg /\ IsFiniteSet(infos)
      /\ measured \in [Kinds -> Nat]
    BY <1>1 DEF TypeInv, TypeOK, ShardTypeOK, Kinds
<1>3. infos' = infos \ {b} /\ measured' = UpdateMeasureRecord(b) /\ ledger' = ledger
    BY DEF HandleBlockInfo, shardVars
<1>4. /\ Len(b.inner) \in Nat /\ Len(b.relay1) \in Nat /\ Len(b.relay2) \in Nat
    BY <1>2 DEF BlockInfoMsg
<1>5. \A c \in Kinds : measured'[c] = measured[c] + Reported(b)[c]
    BY <1>2, <1>3, <1>4 DEF UpdateMeasureRecord, Reported, Kinds
<1>6. ASSUME NEW CONSTANT c \in Kinds
      PROVE  measured'[c] + InInfos(infos', c) = ClassSum(c)'
  <2> DEFINE I == infos \ {b}
  <2>1. IsFiniteSet(I) /\ b \notin I /\ I \cup {b} = infos /\ I \cup {b} \subseteq BlockInfoMsg
    BY <1>2, FS_RemoveElement
  <2>2. infos' = I
    BY <1>3
  <2> HIDE DEF I
  <2>3. /\ InInfos(I \cup {b}, c) = InInfos(I, c) + Reported(b)[c]
        /\ InInfos(I, c) \in Nat /\ Reported(b)[c] \in Nat
    BY <2>1, InInfosAdd
  <2>4. InInfos(infos, c) = InInfos(I, c) + Reported(b)[c]
    BY <2>1, <2>3, Zenon
  <2>5. measured[c] + InInfos(infos, c) = ClassSum(c) /\ measured[c] \in Nat
    BY <1>1, <1>2, CountsMatchIs
  <2>6. ClassSum(c)' = ClassSum(c)
    BY <1>3 DEF ClassSum, Executed
  <2>7. InInfos(infos', c) = InInfos(I, c)
    BY <2>2, Zenon
  <2>8. measured'[c] = measured[c] + Reported(b)[c]
    BY <1>5
  <2> QED BY <2>3, <2>4, <2>5, <2>6, <2>7, <2>8
<1>7. CountsMatch'
    BY <1>6, CountsMatchNext
<1>8. Settled'
    BY <1>1, <1>3 DEF Settled, Executed
<1> QED BY <1>7, <1>8

\* What is in a block that is being agreed on has not been executed.
LEMMA OpenIsNew ==
    ASSUME OnceInv, NEW s \in Shard, NEW body, Commits(s, body), NEW CONSTANT e \in Entry,
           \E i \in 1 .. Len(body) : body[i] = e
    PROVE  Executed(e) = 0 /\ Executed(e)' > 0 /\ Occurrences(e, body) = 1
<1>1. /\ body \in Seq(Entry) /\ Occurrences(e, body) \in Nat
      /\ Executed(e)' = Executed(e) + Occurrences(e, body) /\ Executed(e) \in Nat
      /\ InOpen(open, e) \in Nat /\ Occurrences(e, body) <= InOpen(open, e)
    BY CommitCounts DEF OnceInv
<1>2. Occurrences(e, body) > 0
    BY <1>1, OccurrencesIn
<1>3. PICK t \in TxID : e = First(t) \/ e = Second(t)
    BY EntryFacts
<1>4. /\ Pending(First(t)) \in Nat /\ Executed(First(t)) \in Nat
      /\ Pending(Second(t)) \in Nat /\ Executed(Second(t)) \in Nat
      /\ InOpen(open, First(t)) <= Pending(First(t)) /\ InOpen(open, First(t)) \in Nat
      /\ InOpen(open, Second(t)) <= Pending(Second(t)) /\ InOpen(open, Second(t)) \in Nat
      /\ Pending(First(t)) + Executed(First(t)) = IF t <= sent THEN 1 ELSE 0
      /\ Pending(Second(t)) + Executed(Second(t)) = IF CrossShard(t) THEN Executed(First(t)) ELSE 0
    BY TotalsOf
<1>5. InOpen(open, e) <= Pending(e) /\ Pending(e) \in Nat /\ Pending(e) + Executed(e) <= 1
    BY <1>3, <1>4
<1> QED BY <1>1, <1>2, <1>5

\* A commit: the report carries what the block adds to the ledger, class by class.
LEMMA CountCommit ==
    ASSUME CountInv, NEW s \in Shard, HandleinCommit(s), UNCHANGED superVars
    PROVE  CountsMatch' /\ Settled'
<1>1. TypeInv /\ OnceInv /\ CountsMatch /\ Settled /\ measured' = measured
    BY DEF CountInv, OnceInv, superVars
<1>2. PICK body : /\ Commits(s, body)
                  /\ infos' = IF body = <<>> THEN infos ELSE infos \cup {BlockInfo(s, body)}
    BY DEF HandleinCommit, Commits
<1>3. body \in Seq(AtHome(s)) /\ body \in Seq(Entry)
    BY <1>1, <1>2 DEF Commits, TypeInv, Located, TypeOK, ShardTypeOK
<1>4. /\ infos \in SUBSET BlockInfoMsg /\ IsFiniteSet(infos) /\ measured \in [Kinds -> Nat]
    BY <1>1 DEF TypeInv, TypeOK, ShardTypeOK, Kinds
<1> DEFINE B == BlockInfo(s, body)
<1>5. B \in BlockInfoMsg
    BY <1>3, InfoType
<1>6. /\ \A e \in InfoEntries(B) : e \in Entry /\ \E i \in 1 .. Len(body) : body[i] = e
      /\ body # <<>> => InfoEntries(B) # {}
    BY <1>3, InfoEntriesFacts
<1>7. infos' = IF body = <<>> THEN infos ELSE infos \cup {B}
    BY <1>2
<1>8. ASSUME NEW CONSTANT e \in Entry
      PROVE  /\ Executed(e)' = Executed(e) + Occurrences(e, body)
             /\ Executed(e) \in Nat /\ Occurrences(e, body) \in Nat
    BY <1>1, <1>2, CommitCounts
<1>9. ASSUME NEW CONSTANT c \in Kinds
      PROVE  /\ ClassSum(c)' = ClassSum(c) + Reported(B)[c]
             /\ Reported(B)[c] \in Nat
             /\ ClassSum(c) \in Int
             /\ body = <<>> => Reported(B)[c] = 0
  <2> DEFINE K == Class[c]
             f == [e \in K |-> Executed(e)]
             g == [e \in K |-> Occurrences(e, body)]
             h == [e \in K |-> Executed(e)']
  <2>1. K \subseteq Entry /\ IsFiniteSet(K)
    BY ClassFacts
  <2>2. \A y \in K : f[y] \in Int /\ g[y] \in Int /\ h[y] = f[y] + g[y]
    BY <1>8, <2>1
  <2>3. ClassSum(c) = SumFunctionOnSet(f, K) /\ ClassSum(c)' = SumFunctionOnSet(h, K)
    BY DEF ClassSum
  <2>4. Reported(B)[c] = SumFunctionOnSet(g, K) /\ Reported(B)[c] \in Nat
    BY <1>3, ReportCounts
  <2>5. body = <<>> => \A y \in K : g[y] = 0
    BY OccurrencesEmpty
  <2> HIDE DEF f, g, h, K, B
  <2>6. SumFunctionOnSet(h, K) = SumFunctionOnSet(f, K) + SumFunctionOnSet(g, K)
    BY <2>1, <2>2, SumPlus
  <2>7. body = <<>> => SumFunctionOnSet(g, K) = 0
    <3> SUFFICES ASSUME body = <<>> PROVE SumFunctionOnSet(g, K) = 0
      OBVIOUS
    <3>1. \A y \in K : g[y] = 0 /\ g[y] \in Nat
      BY <2>5
    <3> QED BY <2>1, <3>1, SumNat
  <2>8. SumFunctionOnSet(f, K) \in Int
    BY <2>1, <2>2, SumRemove
  <2> QED BY <2>3, <2>4, <2>6, <2>7, <2>8
<1> HIDE DEF B
<1>10. body # <<>> => B \notin infos
  <2> SUFFICES ASSUME body # <<>>, B \in infos PROVE FALSE
    OBVIOUS
  <2>1. PICK e \in InfoEntries(B) \cap Entry : Executed(e) > 0
    BY <1>1 DEF Settled
  <2>2. Executed(e) = 0
    BY <1>1, <1>2, <1>6, OpenIsNew
  <2> QED BY <2>1, <2>2
<1>11. ASSUME NEW CONSTANT c \in Kinds
       PROVE  measured'[c] + InInfos(infos', c) = ClassSum(c)'
  <2>1. measured[c] + InInfos(infos, c) = ClassSum(c) /\ measured[c] \in Nat /\ measured'[c] = measured[c]
    BY <1>1, <1>4, CountsMatchIs
  <2>2. /\ ClassSum(c)' = ClassSum(c) + Reported(B)[c] /\ ClassSum(c) \in Int
        /\ body = <<>> => Reported(B)[c] = 0
    BY <1>9
  <2>3. CASE body = <<>>
    <3>1. InInfos(infos', c) = InInfos(infos, c)
      BY <1>7, <2>3, Zenon
    <3> QED BY <2>1, <2>2, <2>3, <3>1
  <2>4. CASE body # <<>>
    <3>1. infos \cup {B} \subseteq BlockInfoMsg /\ B \notin infos
      BY <1>4, <1>5, <1>10, <2>4
    <3>2. /\ InInfos(infos \cup {B}, c) = InInfos(infos, c) + Reported(B)[c]
          /\ InInfos(infos, c) \in Nat /\ Reported(B)[c] \in Nat
      BY <1>4, <3>1, InInfosAdd
    <3>3. InInfos(infos', c) = InInfos(infos \cup {B}, c)
      BY <1>7, <2>4, Zenon
    <3> QED BY <2>1, <2>2, <3>2, <3>3
  <2> QED BY <2>3, <2>4
<1>12. CountsMatch'
    BY <1>11, CountsMatchNext
<1>13. Settled'
  <2>1. ASSUME NEW CONSTANT b, b \in infos'
        PROVE  \E e \in InfoEntries(b) \cap Entry : Executed(e)' > 0
    <3>1. CASE b \in infos
      <4>1. PICK e \in InfoEntries(b) \cap Entry : Executed(e) > 0
        BY <1>1, <3>1 DEF Settled
      <4>2. Executed(e)' > 0
        BY <1>8, <4>1
      <4> QED BY <4>2
    <3>2. CASE b \notin infos
      <4>1. body # <<>> /\ b = B
        BY <1>7, <2>1, <3>2
      <4>2. PICK e \in InfoEntries(B) : e \in Entry /\ \E i \in 1 .. Len(body) : body[i] = e
        BY <1>6, <4>1
      <4>3. Executed(e)' > 0
        BY <1>1, <1>2, <4>2, OpenIsNew
      <4> QED BY <4>1, <4>2, <4>3
    <3> QED BY <3>1, <3>2
  <2> QED BY <2>1 DEF Settled
<1> QED BY <1>12, <1>13

\* The other steps execute and report nothing.
LEMMA CountIdle ==
    ASSUME CountInv, UNCHANGED <<infos, ledger, measured>> PROVE CountsMatch' /\ Settled'
BY DEF CountInv, CountsMatch, Settled, Executed

LEMMA CountNext == ASSUME CountInv, [Next]_vars PROVE CountInv'
<1>1. OnceInv'
    BY OnceNext DEF CountInv
<1>2. CountsMatch' /\ Settled'
  <2>1. CASE UNCHANGED vars
    BY <2>1, CountIdle DEF vars, shardVars, netVars, superVars
  <2>2. CASE ShardNext /\ UNCHANGED superVars
    <3>1. CASE \E m \in injects : HandleInjectTx(m)
      BY <2>2, <3>1, CountIdle DEF HandleInjectTx, superVars
    <3>2. CASE \E m \in relays : HandleRelay(m)
      BY <2>2, <3>2, CountIdle DEF HandleRelay, superVars
    <3>3. CASE \E s \in Shard : Propose(s) \/ WaitToStop(s)
      BY <2>2, <3>3, CountIdle DEF Propose, WaitToStop, netVars, superVars
    <3>4. CASE \E s \in Shard : HandleinCommit(s)
      BY <2>2, <3>4, CountCommit
    <3> QED BY <2>2, <3>1, <3>2, <3>3, <3>4 DEF ShardNext
  <2>3. CASE SupervisorNext
    <3>1. CASE TxSending
      BY <3>1, CountIdle DEF TxSending, shardVars
    <3>2. CASE BatchSent \/ SendStop \/ CloseSupervisor
      BY <3>2, CountIdle DEF BatchSent, SendStop, CloseSupervisor, shardVars, netVars
    <3>3. CASE \E s \in Shard : HandleEmptyBlockInfo(s)
      BY <3>3, CountIdle DEF HandleEmptyBlockInfo, shardVars
    <3>4. CASE \E b \in infos : HandleBlockInfo(b)
      BY <3>4, CountInfo
    <3> QED BY <2>3, <3>1, <3>2, <3>3, <3>4 DEF SupervisorNext
  <2> QED BY <2>1, <2>2, <2>3 DEF Next
<1> QED BY <1>1, <1>2 DEF CountInv

LEMMA CountInvariant == Spec => []CountInv
<1>1. Init => CountInv
    BY TypeInvInit, OnceInit, CountInit DEF CountInv, OnceInv
<1>2. CountInv /\ [Next]_vars => CountInv'
    BY CountNext
<1> QED BY <1>1, <1>2, PTL DEF Spec

\* For any shards, accounts, dataset and pace: what the supervisor has counted and
\* what is reported to it are exactly the transactions the shards executed, class
\* by class.  The reports are a set, so this needs that no two blocks give the same
\* report: a report names a transaction, and no transaction is executed twice.
THEOREM CountsAreTrue == Spec => []CountsMatch
<1>1. CountInv => CountsMatch
    BY DEF CountInv
<1> QED BY <1>1, CountInvariant, PTL
-----------------------------------------------------------------------------
(* Money. *)

\* Transaction after transaction of a block, money is kept.
LEMMA TrieMoney ==
    ASSUME NEW s \in Shard, NEW body \in Seq(Entry), balance \in [Account -> Nat], NEW D1, NEW D2,
           Ready(s, body, D1, D2), Solvent(InitBalance, balance, D1), Kept(InitBalance, balance, D1, D2)
    PROVE  LET new == GetUpdateStatusTrie(s, body)
               E1 == D1 \cup FirstsIn(body, Len(body))
               E2 == D2 \cup SecondsIn(body, Len(body))
           IN  Solvent(InitBalance, new, E1) /\ Kept(InitBalance, new, E1, E2)
<1>1. Len(body) \in Nat /\ InitBalance \in Nat /\ Funds(InitBalance)
    BY TxAssumption, FundsAssumption DEF Funds
<1>2. PICK trie : /\ trie = [i \in 0 .. Len(body) |-> TrieStep(s, balance, body, trie, i)]
                  /\ GetUpdateStatusTrie(s, body) = trie[Len(body)]
    BY <1>1, TrieDefined
<1>3. \A i \in 0 .. Len(body) : trie[i] = TrieStep(s, balance, body, trie, i)
    BY <1>2
<1>4. trie[0] = balance
    BY <1>1, <1>3 DEF TrieStep
<1>5. PaysAll(s, body, trie)
  <2> SUFFICES ASSUME NEW i \in 1 .. Len(body) PROVE trie[i] = Pay(s, trie[i - 1], body[i])
    BY DEF PaysAll
  <2>1. i \in 0 .. Len(body) /\ i # 0
    BY <1>1
  <2>2. trie[i] = Execute(s, trie[i - 1], body[i])
    BY <1>3, <2>1 DEF TrieStep
  <2> QED BY <2>2, Zenon DEF Execute, Pay
<1>6. LET new == trie[Len(body)]
          E1 == D1 \cup FirstsIn(body, Len(body))
          E2 == D2 \cup SecondsIn(body, Len(body))
      IN  Solvent(InitBalance, new, E1) /\ Kept(InitBalance, new, E1, E2)
  <2>1. /\ trie[0] \in [Account -> Nat] /\ Solvent(InitBalance, trie[0], D1)
        /\ Kept(InitBalance, trie[0], D1, D2)
    BY <1>4, Zenon
  <2> QED BY <1>1, <1>5, <2>1, PayAll
<1> QED BY <1>2, <1>6, Zenon

DoneFirst == {t \in TxID : Executed(First(t)) > 0}
DoneSecond == {t \in TxID : Executed(Second(t)) > 0}

MoneyInv == OnceInv /\ Solvent(InitBalance, balance, DoneFirst) /\ Kept(InitBalance, balance, DoneFirst, DoneSecond)

LEMMA MoneyCommit ==
    ASSUME MoneyInv, NEW s \in Shard, HandleinCommit(s)
    PROVE  Solvent(InitBalance, balance', DoneFirst') /\ Kept(InitBalance, balance', DoneFirst', DoneSecond')
<1>1. TypeInv /\ OnceInv /\ Solvent(InitBalance, balance, DoneFirst) /\ Kept(InitBalance, balance, DoneFirst, DoneSecond)
    BY DEF MoneyInv, OnceInv
<1>2. PICK body : Commits(s, body) /\ balance' = GetUpdateStatusTrie(s, body)
    BY DEF HandleinCommit, Commits
<1>3. /\ body \in Seq(AtHome(s)) /\ body \in Seq(Entry) /\ balance \in [Account -> Nat]
    BY <1>1, <1>2 DEF Commits, TypeInv, Located, TypeOK, ShardTypeOK
<1>4. Ready(s, body, DoneFirst, DoneSecond)
  <2> SUFFICES ASSUME NEW i \in 1 .. Len(body)
               PROVE  \E t \in TxID : \/ FirstAt(s, body, DoneFirst, DoneSecond, i, t)
                                      \/ SecondAt(s, body, DoneFirst, DoneSecond, i, t)
    BY DEF Ready
  <2>1. body[i] \in AtHome(s) /\ body[i] \in Entry
    BY <1>3
  <2>2. PICK t \in TxID : body[i] = First(t) \/ body[i] = Second(t)
    BY <2>1, EntryFacts
  <2>3. /\ Pending(First(t)) \in Nat /\ Executed(First(t)) \in Nat
        /\ Pending(Second(t)) \in Nat /\ Executed(Second(t)) \in Nat
        /\ InOpen(open, First(t)) <= Pending(First(t)) /\ InOpen(open, First(t)) \in Nat
        /\ InOpen(open, Second(t)) <= Pending(Second(t)) /\ InOpen(open, Second(t)) \in Nat
        /\ Pending(First(t)) + Executed(First(t)) = IF t <= sent THEN 1 ELSE 0
        /\ Pending(Second(t)) + Executed(Second(t)) = IF CrossShard(t) THEN Executed(First(t)) ELSE 0
    BY <1>1, TotalsOf
  <2>4. First(t) \in Entry /\ Second(t) \in Entry
    BY EntryFacts
  <2>5. ASSUME NEW j \in 1 .. Len(body), body[j] = Second(t)
        PROVE  /\ CrossShard(t) /\ Executed(First(t)) > 0 /\ Executed(Second(t)) = 0
               /\ Occurrences(Second(t), body) = 1
    <3>1. /\ Occurrences(Second(t), body) <= InOpen(open, Second(t)) /\ Occurrences(Second(t), body) \in Nat
      BY <1>1, <1>2, <2>4, CommitCounts
    <3>2. Executed(Second(t)) = 0 /\ Occurrences(Second(t), body) = 1
      BY <1>1, <1>2, <2>4, <2>5, OpenIsNew
    <3> QED BY <2>3, <3>1, <3>2
  <2>6. CASE body[i] = First(t)
    <3>1. Executed(First(t)) = 0 /\ Occurrences(First(t), body) = 1
      BY <1>1, <1>2, <2>4, <2>6, OpenIsNew
    <3>2. Executed(Second(t)) = 0
      BY <2>3, <3>1
    <3>3. \A j \in 1 .. Len(body) : body[j] # Second(t)
      BY <2>5, <3>1
    <3>4. \A j \in 1 .. Len(body) : body[j] = First(t) => j = i
      BY <1>3, <2>6, <3>1, OnlyPlace
    <3>5. PartitionMap[Sender(t)] = s
      BY <2>1, <2>6, HomeFacts
    <3>6. t \notin DoneFirst /\ t \notin DoneSecond
      BY <3>1, <3>2 DEF DoneFirst, DoneSecond
    <3> QED BY <2>6, <3>3, <3>4, <3>5, <3>6 DEF FirstAt
  <2>7. CASE body[i] = Second(t)
    <3>1. /\ CrossShard(t) /\ Executed(First(t)) > 0 /\ Executed(Second(t)) = 0
          /\ Occurrences(Second(t), body) = 1
      BY <2>5, <2>7
    <3>2. \A j \in 1 .. Len(body) : body[j] = Second(t) => j = i
      BY <1>3, <2>7, <3>1, OnlyPlace
    <3>3. PartitionMap[Recipient(t)] = s
      BY <2>1, <2>7, HomeFacts
    <3>4. t \in DoneFirst /\ t \notin DoneSecond
      BY <3>1 DEF DoneFirst, DoneSecond
    <3> QED BY <2>7, <3>1, <3>2, <3>3, <3>4 DEF SecondAt
  <2> QED BY <2>2, <2>6, <2>7
<1> DEFINE E1 == DoneFirst \cup FirstsIn(body, Len(body))
           E2 == DoneSecond \cup SecondsIn(body, Len(body))
           new == GetUpdateStatusTrie(s, body)
<1>5. Solvent(InitBalance, new, E1) /\ Kept(InitBalance, new, E1, E2)
    BY <1>1, <1>3, <1>4, TrieMoney
<1>6. ASSUME NEW CONSTANT e \in Entry
      PROVE  Executed(e)' > 0 <=> Executed(e) > 0 \/ \E j \in 1 .. Len(body) : body[j] = e
  <2>1. /\ Executed(e)' = Executed(e) + Occurrences(e, body)
        /\ Executed(e) \in Nat /\ Occurrences(e, body) \in Nat
    BY <1>1, <1>2, CommitCounts
  <2>2. Occurrences(e, body) > 0 <=> \E j \in 1 .. Len(body) : body[j] = e
    BY <1>3, OccurrencesIn
  <2> QED BY <2>1, <2>2
<1>7. DoneFirst' = E1 /\ DoneSecond' = E2
  <2>1. \A t \in TxID :
           /\ Executed(First(t))' > 0 <=> Executed(First(t)) > 0 \/ \E j \in 1 .. Len(body) : body[j] = First(t)
           /\ Executed(Second(t))' > 0 <=> Executed(Second(t)) > 0 \/ \E j \in 1 .. Len(body) : body[j] = Second(t)
    BY <1>6, EntryFacts
  <2>2. DoneFirst' = {t \in TxID : Executed(First(t))' > 0} /\ DoneSecond' = {t \in TxID : Executed(Second(t))' > 0}
    BY DEF DoneFirst, DoneSecond
  <2> QED BY <2>1, <2>2 DEF DoneFirst, DoneSecond, FirstsIn, SecondsIn
<1> HIDE DEF E1, E2, new
<1>8. balance' = new
    BY <1>2 DEF new
<1> QED BY <1>5, <1>7, <1>8, Zenon

LEMMA MoneyInit == Init => Solvent(InitBalance, balance, DoneFirst) /\ Kept(InitBalance, balance, DoneFirst, DoneSecond)
<1> SUFFICES ASSUME Init PROVE Solvent(InitBalance, balance, DoneFirst) /\ Kept(InitBalance, balance, DoneFirst, DoneSecond)
    OBVIOUS
<1>1. balance = [a \in Account |-> InitBalance] /\ InitBalance \in Nat
    BY TxAssumption DEF Init, ShardInit
<1>2. ASSUME NEW e \in Entry PROVE Executed(e) = 0
  <2> DEFINE g == [d \in Shard |-> ledger[d][e]]
  <2>1. \A d \in Shard : g[d] = 0 /\ g[d] \in Nat
    BY DEF Init, ShardInit
  <2>2. Executed(e) = SumFunctionOnSet(g, Shard)
    BY DEF Executed, SumFunction
  <2> HIDE DEF g
  <2> QED BY <2>1, <2>2, DataAssumption, SumNat
<1>3. DoneFirst = {} /\ DoneSecond = {}
    BY <1>2, EntryFacts DEF DoneFirst, DoneSecond
<1>4. \A a \in Account : balance[a] = InitBalance
    BY <1>1
<1>5. Solvent(InitBalance, balance, {}) /\ Kept(InitBalance, balance, {}, {})
    BY <1>1, <1>4, MoneyStart
<1> QED BY <1>3, <1>5, Zenon

LEMMA MoneyIdle ==
    ASSUME MoneyInv, UNCHANGED <<balance, ledger>>
    PROVE  Solvent(InitBalance, balance', DoneFirst') /\ Kept(InitBalance, balance', DoneFirst', DoneSecond')
<1>1. DoneFirst' = DoneFirst /\ DoneSecond' = DoneSecond /\ balance' = balance
    BY DEF DoneFirst, DoneSecond, Executed
<1>2. Solvent(InitBalance, balance, DoneFirst) /\ Kept(InitBalance, balance, DoneFirst, DoneSecond)
    BY DEF MoneyInv
<1> QED BY <1>1, <1>2, Zenon

LEMMA MoneyNext == ASSUME MoneyInv, [Next]_vars PROVE MoneyInv'
<1>1. OnceInv'
    BY OnceNext DEF MoneyInv
<1>2. Solvent(InitBalance, balance', DoneFirst') /\ Kept(InitBalance, balance', DoneFirst', DoneSecond')
  <2>1. CASE UNCHANGED vars
    BY <2>1, MoneyIdle DEF vars, shardVars
  <2>2. CASE ShardNext /\ UNCHANGED superVars
    <3>1. CASE \E m \in injects : HandleInjectTx(m)
      BY <3>1, MoneyIdle DEF HandleInjectTx
    <3>2. CASE \E m \in relays : HandleRelay(m)
      BY <3>2, MoneyIdle DEF HandleRelay
    <3>3. CASE \E s \in Shard : Propose(s) \/ WaitToStop(s)
      BY <3>3, MoneyIdle DEF Propose, WaitToStop
    <3>4. CASE \E s \in Shard : HandleinCommit(s)
      BY <3>4, MoneyCommit
    <3> QED BY <2>2, <3>1, <3>2, <3>3, <3>4 DEF ShardNext
  <2>3. CASE SupervisorNext
    BY <2>3, MoneyIdle DEF SupervisorNext, TxSending, BatchSent, SendStop, CloseSupervisor,
       HandleEmptyBlockInfo, HandleBlockInfo, shardVars
  <2> QED BY <2>1, <2>2, <2>3 DEF Next
<1> QED BY <1>1, <1>2 DEF MoneyInv

LEMMA MoneyInvariant == Spec => []MoneyInv
<1>1. Init => MoneyInv
    BY TypeInvInit, OnceInit, MoneyInit DEF MoneyInv, OnceInv
<1>2. MoneyInv /\ [Next]_vars => MoneyInv'
    BY MoneyNext
<1> QED BY <1>1, <1>2, PTL DEF Spec

\* For any dataset whose senders across shards can pay (FundsAssumption): all
\* balances and what is between two shards always make up the initial money.
THEOREM MoneyConserved == Spec => []Conservation
<1>1. MoneyInv => Conservation
  <2> SUFFICES ASSUME MoneyInv PROVE Conservation
    OBVIOUS
  <2>1. OnceInv /\ Kept(InitBalance, balance, DoneFirst, DoneSecond) /\ balance \in [Account -> Nat]
    BY DEF MoneyInv, OnceInv, TypeInv, TypeOK, ShardTypeOK
  <2> DEFINE H == {t \in TxID : HalfDone(t)}
  <2>2. \A t \in TxID : t \in H <=> CrossShard(t) /\ t \in DoneFirst /\ t \notin DoneSecond
    <3> SUFFICES ASSUME NEW t \in TxID
                 PROVE  HalfDone(t) <=> CrossShard(t) /\ t \in DoneFirst /\ t \notin DoneSecond
      OBVIOUS
    <3>1. /\ Pending(First(t)) \in Nat /\ Executed(First(t)) \in Nat
          /\ Pending(Second(t)) \in Nat /\ Executed(Second(t)) \in Nat
          /\ Pending(First(t)) + Executed(First(t)) = IF t <= sent THEN 1 ELSE 0
          /\ Pending(Second(t)) + Executed(Second(t)) = IF CrossShard(t) THEN Executed(First(t)) ELSE 0
      BY <2>1, TotalsOf
    <3>2. Executed(First(t)) \in {0, 1} /\ Executed(Second(t)) \in {0, 1}
      BY <3>1
    <3> QED BY <3>2 DEF HalfDone, DoneFirst, DoneSecond
  <2>3. H = {t \in TxID : CrossShard(t) /\ t \in DoneFirst /\ t \notin DoneSecond}
    BY <2>2
  <2> HIDE DEF H
  <2>4. SumFunction(balance) + SumFunction([t \in H |-> Value(t)]) = InitBalance * Cardinality(Account)
    BY <2>1, <2>3, KeptSum
  <2> QED BY <2>4 DEF Conservation, H
<1> QED BY <1>1, MoneyInvariant, PTL
=============================================================================
