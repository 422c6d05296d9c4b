------------------------ MODULE TransactionTheorems ------------------------
(***************************************************************************)
(* Facts about transactions and the messages that carry them: what is      *)
(* marked, sent, pooled and executed.                                      *)
(***************************************************************************)
EXTENDS Transactions, ListTheorems

(* Transactions, entries and messages. *)

LEMMA TxFacts ==
    /\ TxID = 1 .. Len(TxList) /\ Len(TxList) \in Nat
    /\ \A t \in TxID : /\ Sender(t) \in Account /\ Recipient(t) \in Account /\ Value(t) \in Nat
                       /\ PartitionMap[Sender(t)] \in Shard
                       /\ PartitionMap[Recipient(t)] \in Shard
<1>1. TxID = 1 .. Len(TxList) /\ Len(TxList) \in Nat
    BY DataAssumption DEF TxID
<1>2. \A t \in TxID : TxList[t] \in [from : Account, to : Account, value : Nat]
  <2> DEFINE Row == [from : Account, to : Account, value : Nat]
  <2>1. TxList \in Seq(Row)
    BY DataAssumption
  <2> HIDE DEF Row
  <2>2. \A t \in 1 .. Len(TxList) : TxList[t] \in Row
    BY <2>1
  <2> QED BY <1>1, <2>2 DEF Row
<1> QED BY <1>1, <1>2, DataAssumption DEF Sender, Recipient, Value

Firsts == {First(t) : t \in TxID}
Seconds == {Second(t) : t \in TxID}

LEMMA EntryFacts ==
    /\ \A t \in TxID : First(t) \in Entry /\ Second(t) \in Entry
    /\ \A t : First(t).tx = t /\ Second(t).tx = t
    /\ \A t, u : First(t) # Second(u)
    /\ \A e \in Entry : e.tx \in TxID /\ (e = First(e.tx) \/ e = Second(e.tx))
<1>1. \A t, u : First(t) # Second(u)
  <2> SUFFICES ASSUME NEW t, NEW u, First(t) = Second(u) PROVE FALSE
    OBVIOUS
  <2>1. First(t).relayed = Second(u).relayed
    OBVIOUS
  <2> QED BY <2>1 DEF First, Second
<1>2. \A t : First(t).tx = t /\ Second(t).tx = t
    BY DEF First, Second
<1>3. \A t \in TxID : First(t) \in Entry /\ Second(t) \in Entry
    BY DEF First, Second, Entry
<1>4. ASSUME NEW e \in Entry PROVE e.tx \in TxID /\ (e = First(e.tx) \/ e = Second(e.tx))
    BY DEF First, Second, Entry
<1> QED BY <1>1, <1>2, <1>3, <1>4

\* Marking turns first halves into second halves.
LEMMA MarkedFacts ==
    ASSUME NEW q \in Seq(Firsts)
    PROVE  /\ Marked(q) \in Seq(Seconds)
           /\ Len(Marked(q)) = Len(q)
           /\ \A i \in 1 .. Len(q) : Marked(q)[i] = Second(q[i].tx) /\ q[i] = First(q[i].tx)
                                     /\ q[i].tx \in TxID
           /\ \A t : Occurrences(Second(t), Marked(q)) = Occurrences(First(t), q)
           /\ \A t : Occurrences(First(t), Marked(q)) = 0
<1>1. DOMAIN q = 1 .. Len(q) /\ Len(q) \in Nat /\ \A i \in 1 .. Len(q) : q[i] \in Firsts
    OBVIOUS
<1>2. \A i \in 1 .. Len(q) : q[i] = First(q[i].tx) /\ q[i].tx \in TxID
    BY <1>1, EntryFacts DEF Firsts
<1>3. Marked(q) = [i \in 1 .. Len(q) |-> Second(q[i].tx)]
    BY <1>1 DEF Marked, Second
<1>4. \A i \in 1 .. Len(q) : Second(q[i].tx) \in Seconds
    BY <1>2 DEF Seconds
<1>5. /\ Marked(q) \in Seq(Seconds) /\ Len(Marked(q)) = Len(q) /\ DOMAIN Marked(q) = 1 .. Len(q)
      /\ \A i \in 1 .. Len(q) : Marked(q)[i] = Second(q[i].tx)
    BY <1>1, <1>3, <1>4
<1>6. ASSUME NEW t PROVE Occurrences(Second(t), Marked(q)) = Occurrences(First(t), q)
  <2>1. \A i \in 1 .. Len(q) : Second(q[i].tx) = Second(t) <=> q[i] = First(t)
    BY <1>2, EntryFacts
  <2>2. {i \in DOMAIN Marked(q) : Marked(q)[i] = Second(t)} = {i \in DOMAIN q : q[i] = First(t)}
    BY <1>1, <1>5, <2>1
  <2> QED BY <2>2 DEF Occurrences
<1>7. ASSUME NEW t PROVE Occurrences(First(t), Marked(q)) = 0
  <2>1. {i \in DOMAIN Marked(q) : Marked(q)[i] = First(t)} = {}
    BY <1>5, EntryFacts
  <2> QED BY <2>1, FS_EmptySet, Zenon DEF Occurrences
<1> QED BY <1>2, <1>5, <1>6, <1>7

-----------------------------------------------------------------------------
(* A family of lists, one per shard, sent as messages. *)

Sends(q) == {[to |-> d, txs |-> q[d]] : d \in {d \in Shard : q[d] # <<>>}}

InMsgs(M, e) == SumFunction([m \in M |-> Occurrences(e, m.txs)])

LEMMA InMsgsIs ==
    ASSUME NEW M, NEW e
    PROVE  InMsgs(M, e) = SumFunctionOnSet([m \in M |-> Occurrences(e, m.txs)], M)
BY DEF InMsgs, SumFunction

LEMMA InMsgsUnion ==
    ASSUME NEW M, NEW K, NEW e, IsFiniteSet(M), IsFiniteSet(K), M \cap K = {},
           M \cup K \subseteq Message
    PROVE  /\ InMsgs(M \cup K, e) = InMsgs(M, e) + InMsgs(K, e)
           /\ InMsgs(M, e) \in Nat /\ InMsgs(K, e) \in Nat
<1> DEFINE F(T) == [m \in T |-> Occurrences(e, m.txs)]
           f == F(M \cup K)
<1>1. \A m \in M \cup K : f[m] \in Nat
  <2> SUFFICES ASSUME NEW m \in M \cup K PROVE Occurrences(e, m.txs) \in Nat
    OBVIOUS
  <2>1. m.txs \in Seq(Entry)
    BY DEF Message
  <2> QED BY <2>1, OccurrencesUpto
<1>2. /\ \A m \in M : f[m] = F(M)[m]
      /\ \A m \in K : f[m] = F(K)[m]
    OBVIOUS
<1> HIDE DEF f, F
<1>3. \A m \in M \cup K : f[m] \in Int
    BY <1>1
<1>4. SumFunctionOnSet(f, M \cup K) = SumFunctionOnSet(f, M) + SumFunctionOnSet(f, K)
    BY <1>3, SumUnion
<1>5. SumFunctionOnSet(f, M) = SumFunctionOnSet(F(M), M)
    BY <1>2, SumAgree
<1>6. SumFunctionOnSet(f, K) = SumFunctionOnSet(F(K), K)
    BY <1>2, SumAgree
<1>7. SumFunctionOnSet(f, M) \in Nat /\ SumFunctionOnSet(f, K) \in Nat
    BY <1>1, SumNat
<1>8. InMsgs(M \cup K, e) = SumFunctionOnSet(f, M \cup K)
    BY InMsgsIs DEF f, F
<1>9. InMsgs(M, e) = SumFunctionOnSet(F(M), M) /\ InMsgs(K, e) = SumFunctionOnSet(F(K), K)
    BY InMsgsIs DEF F
<1> QED BY <1>4, <1>5, <1>6, <1>7, <1>8, <1>9

LEMMA InMsgsOne ==
    ASSUME NEW m \in Message, NEW e
    PROVE  InMsgs({m}, e) = Occurrences(e, m.txs) /\ Occurrences(e, m.txs) \in Nat
<1> DEFINE f == [n \in {m} |-> Occurrences(e, n.txs)]
<1>1. Occurrences(e, m.txs) \in Nat
  <2>1. m.txs \in Seq(Entry)
    BY DEF Message
  <2> QED BY <2>1, OccurrencesUpto
<1>2. IsFiniteSet({m}) /\ (\A y \in {m} \ {m} : f[y] = 0) /\ f[m] = Occurrences(e, m.txs) /\ m \in {m}
    BY FS_Singleton
<1>3. InMsgs({m}, e) = SumFunctionOnSet(f, {m})
    BY InMsgsIs
<1> HIDE DEF f
<1>4. f[m] \in Int
    BY <1>1, <1>2
<1>5. SumFunctionOnSet(f, {m}) = IF m \in {m} THEN f[m] ELSE 0
    BY <1>2, <1>4, SumSingle
<1> QED BY <1>1, <1>2, <1>3, <1>5

\* A message that is in the set: taking it out takes out its transactions.
LEMMA InMsgsRemove ==
    ASSUME NEW M, IsFiniteSet(M), M \subseteq Message, NEW m \in M, NEW e
    PROVE  /\ InMsgs(M, e) = Occurrences(e, m.txs) + InMsgs(M \ {m}, e)
           /\ InMsgs(M, e) \in Nat /\ InMsgs(M \ {m}, e) \in Nat /\ Occurrences(e, m.txs) \in Nat
<1> DEFINE K == M \ {m}
<1>1. IsFiniteSet(K) /\ IsFiniteSet({m}) /\ {m} \cap K = {} /\ {m} \cup K = M
    BY FS_RemoveElement, FS_Singleton
<1> HIDE DEF K
<1>2. {m} \cup K \subseteq Message
    BY <1>1
<1>3. /\ InMsgs({m} \cup K, e) = InMsgs({m}, e) + InMsgs(K, e)
      /\ InMsgs({m}, e) \in Nat /\ InMsgs(K, e) \in Nat
    BY <1>1, <1>2, InMsgsUnion
<1>4. m \in Message /\ InMsgs({m}, e) = Occurrences(e, m.txs)
    BY InMsgsOne
<1>5. InMsgs({m} \cup K, e) = InMsgs(M, e)
    BY <1>1, Zenon
<1>6. InMsgs(M, e) = Occurrences(e, m.txs) + InMsgs(K, e)
    BY <1>3, <1>4, <1>5
<1> QED BY <1>3, <1>4, <1>5, <1>6 DEF K

\* A message of the set counts.
LEMMA InMsgsAtLeast ==
    ASSUME NEW M, IsFiniteSet(M), M \subseteq Message, NEW m \in M, NEW i \in 1 .. Len(m.txs)
    PROVE  InMsgs(M, m.txs[i]) \in Nat /\ InMsgs(M, m.txs[i]) > 0
<1> DEFINE e == m.txs[i]
<1>1. m.txs \in Seq(Entry)
    BY DEF Message
<1>2. Occurrences(e, m.txs) > 0
    BY <1>1, OccurrencesIn
<1> HIDE DEF e
<1>3. /\ InMsgs(M, e) = Occurrences(e, m.txs) + InMsgs(M \ {m}, e)
      /\ InMsgs(M, e) \in Nat /\ InMsgs(M \ {m}, e) \in Nat /\ Occurrences(e, m.txs) \in Nat
    BY InMsgsRemove
<1>4. InMsgs(M, e) \in Nat /\ InMsgs(M, e) > 0
    BY <1>2, <1>3
<1> QED BY <1>4 DEF e

\* Sent as messages, an entry that only the list for one shard has is there as
\* often as in that list.
LEMMA SendsFacts ==
    ASSUME NEW q \in [Shard -> Seq(Entry)]
    PROVE  /\ IsFiniteSet(Sends(q)) /\ Sends(q) \subseteq Message
           /\ \A m \in Sends(q) : m.txs # <<>> /\ m.to \in Shard /\ m.txs = q[m.to]
           /\ \A e : \A h \in Shard :
                (\A d \in Shard \ {h} : Occurrences(e, q[d]) = 0)
                    => InMsgs(Sends(q), e) = Occurrences(e, q[h])
<1> DEFINE D == {d \in Shard : q[d] # <<>>}
           msg == [d \in D |-> [to |-> d, txs |-> q[d]]]
           M == Sends(q)
<1>1. IsFiniteSet(D)
    BY DataAssumption, FS_Subset
<1>2. M = {msg[d] : d \in D}
    BY DEF Sends
<1>3. IsFiniteSet(M)
  <2>1. msg \in Surjection(D, M)
    <3>1. (\A m \in M : \E d \in D : msg[d] = m) /\ \A d \in D : msg[d] \in M
      BY <1>2
    <3>2. msg \in [D -> M]
      BY <3>1
    <3> QED BY <3>1, <3>2 DEF Surjection
  <2> QED BY <1>1, <2>1, FS_Surjection
<1>4. \A m \in M : /\ m.txs # <<>> /\ m.to \in Shard /\ m.txs = q[m.to]
                   /\ m = [to |-> m.to, txs |-> m.txs] /\ m \in Message
    BY DEF Sends, Message
<1>5. ASSUME NEW e, NEW h \in Shard, \A d \in Shard \ {h} : Occurrences(e, q[d]) = 0
      PROVE  InMsgs(M, e) = Occurrences(e, q[h])
  <2> DEFINE f == [m \in M |-> Occurrences(e, m.txs)]
             a == [to |-> h, txs |-> q[h]]
  <2>1. \A m \in M \ {a} : f[m] = 0
    <3> SUFFICES ASSUME NEW m \in M \ {a} PROVE Occurrences(e, m.txs) = 0
      OBVIOUS
    <3>1. m.to \in Shard /\ m.txs = q[m.to] /\ m = [to |-> m.to, txs |-> m.txs]
      BY <1>4
    <3>2. m.to # h
      BY <3>1
    <3> QED BY <1>5, <3>1, <3>2
  <2>2. Occurrences(e, q[h]) \in Nat
    BY OccurrencesUpto
  <2>3. a \in M => f[a] = Occurrences(e, q[h])
    OBVIOUS
  <2>4. a \notin M => Occurrences(e, q[h]) = 0
    <3>1. a \notin M => q[h] = <<>>
      BY DEF Sends
    <3> QED BY <3>1, OccurrencesEmpty
  <2>5. InMsgs(M, e) = SumFunctionOnSet(f, M)
    BY InMsgsIs
  <2> HIDE DEF f, a, M
  <2>6. SumFunctionOnSet(f, M) = IF a \in M THEN f[a] ELSE 0
    BY <1>3, <2>1, <2>2, <2>3, SumSingle
  <2> QED BY <2>3, <2>4, <2>5, <2>6
<1> QED BY <1>3, <1>4, <1>5
-----------------------------------------------------------------------------
(* What pools, blocks being agreed on and ledgers hold, shard by shard. *)

InPools(Q, e) == SumFunction([s \in Shard |-> Occurrences(e, Q[s])])
InBlock(B, e) == SumFunction([body \in B |-> Occurrences(e, body)])
InOpen(O, e) == SumFunction([s \in Shard |-> InBlock(O[s], e)])
InLedger(L, e) == SumFunction([s \in Shard |-> L[s][e]])

\* Two families, indexed by shards, that differ at s only.
Elsewhere(Q, R, s) == \A d \in Shard : d # s => R[d] = Q[d]
Lists(Q) == \A d \in Shard : Q[d] \in Seq(Entry)
Ledgers(L) == \A d \in Shard : L[d] \in [Entry -> Nat]

LEMMA PoolsChange ==
    ASSUME NEW Q, NEW R, NEW s \in Shard, NEW e, Lists(Q), Lists(R), Elsewhere(Q, R, s)
    PROVE  /\ InPools(R, e) = InPools(Q, e) - Occurrences(e, Q[s]) + Occurrences(e, R[s])
           /\ InPools(Q, e) \in Nat /\ InPools(R, e) \in Nat
           /\ Occurrences(e, Q[s]) \in Nat /\ Occurrences(e, R[s]) \in Nat
           /\ Occurrences(e, Q[s]) <= InPools(Q, e)
<1> DEFINE f == [d \in Shard |-> Occurrences(e, Q[d])]
           g == [d \in Shard |-> Occurrences(e, R[d])]
<1>1. \A d \in Shard : Occurrences(e, Q[d]) \in Nat /\ Occurrences(e, R[d]) \in Nat
    BY OccurrencesUpto DEF Lists
<1>2. \A d \in Shard : f[d] \in Nat /\ g[d] \in Nat
    BY <1>1
<1>3. \A d \in Shard \ {s} : g[d] = f[d]
    BY DEF Elsewhere
<1>4. InPools(Q, e) = SumFunctionOnSet(f, Shard) /\ InPools(R, e) = SumFunctionOnSet(g, Shard)
    BY DEF InPools, SumFunction
<1>5. f[s] = Occurrences(e, Q[s]) /\ g[s] = Occurrences(e, R[s])
    OBVIOUS
<1> HIDE DEF f, g
<1>6. IsFiniteSet(Shard) /\ \A d \in Shard : f[d] \in Int /\ g[d] \in Int
    BY <1>2, DataAssumption
<1>7. SumFunctionOnSet(g, Shard) = SumFunctionOnSet(f, Shard) - f[s] + g[s]
    BY <1>3, <1>6, SumChange
<1>8. SumFunctionOnSet(f, Shard) \in Nat /\ SumFunctionOnSet(g, Shard) \in Nat
      /\ f[s] <= SumFunctionOnSet(f, Shard)
    BY <1>2, <1>6, SumNat
<1> QED BY <1>1, <1>4, <1>5, <1>7, <1>8

LEMMA InBlockIs ==
    ASSUME NEW e
    PROVE  /\ InBlock({}, e) = 0
           /\ \A b \in Seq(Entry) : InBlock({b}, e) = Occurrences(e, b) /\ Occurrences(e, b) \in Nat
<1>1. InBlock({}, e) = 0
  <2> DEFINE f == [body \in {} |-> Occurrences(e, body)]
  <2>1. InBlock({}, e) = SumFunctionOnSet(f, {})
    BY DEF InBlock, SumFunction
  <2> HIDE DEF f
  <2> QED BY <2>1, SumEmpty
<1>2. ASSUME NEW b \in Seq(Entry) PROVE InBlock({b}, e) = Occurrences(e, b) /\ Occurrences(e, b) \in Nat
  <2> DEFINE f == [body \in {b} |-> Occurrences(e, body)]
  <2>1. Occurrences(e, b) \in Nat
    BY OccurrencesUpto
  <2>2. IsFiniteSet({b}) /\ (\A y \in {b} \ {b} : f[y] = 0) /\ f[b] = Occurrences(e, b) /\ b \in {b}
    BY FS_Singleton
  <2>3. InBlock({b}, e) = SumFunctionOnSet(f, {b})
    BY DEF InBlock, SumFunction
  <2> HIDE DEF f
  <2>4. f[b] \in Int
    BY <2>1, <2>2
  <2>5. SumFunctionOnSet(f, {b}) = IF b \in {b} THEN f[b] ELSE 0
    BY <2>2, <2>4, SumSingle
  <2> QED BY <2>1, <2>2, <2>3, <2>5
<1> QED BY <1>1, <1>2

LEMMA InBlockType ==
    ASSUME NEW e, NEW B, B = {} \/ \E body \in Seq(Entry) : B = {body}
    PROVE  InBlock(B, e) \in Nat
<1>1. CASE B = {}
  <2>1. InBlock(B, e) = 0
    BY <1>1, InBlockIs, Zenon
  <2> QED BY <2>1
<1>2. CASE B # {}
  <2>1. PICK b \in Seq(Entry) : B = {b}
    BY <1>2
  <2>2. InBlock(B, e) = Occurrences(e, b) /\ Occurrences(e, b) \in Nat
    BY <2>1, InBlockIs, Zenon
  <2> QED BY <2>2
<1> QED BY <1>1, <1>2

OneOpen(O) == \A s \in Shard : O[s] = {} \/ \E body \in Seq(Entry) : O[s] = {body}

LEMMA OpenChange ==
    ASSUME NEW O, NEW R, NEW s \in Shard, NEW e, OneOpen(O), OneOpen(R), Elsewhere(O, R, s)
    PROVE  /\ InOpen(R, e) = InOpen(O, e) - InBlock(O[s], e) + InBlock(R[s], e)
           /\ InOpen(O, e) \in Nat /\ InOpen(R, e) \in Nat
           /\ InBlock(O[s], e) \in Nat /\ InBlock(R[s], e) \in Nat
           /\ InBlock(O[s], e) <= InOpen(O, e)
<1> DEFINE f == [d \in Shard |-> InBlock(O[d], e)]
           g == [d \in Shard |-> InBlock(R[d], e)]
<1>1. \A d \in Shard : InBlock(O[d], e) \in Nat /\ InBlock(R[d], e) \in Nat
  <2> SUFFICES ASSUME NEW d \in Shard PROVE InBlock(O[d], e) \in Nat /\ InBlock(R[d], e) \in Nat
    OBVIOUS
  <2>1. O[d] = {} \/ \E body \in Seq(Entry) : O[d] = {body}
    BY DEF OneOpen
  <2>2. R[d] = {} \/ \E body \in Seq(Entry) : R[d] = {body}
    BY DEF OneOpen
  <2> QED BY <2>1, <2>2, InBlockType
<1>2. \A d \in Shard : f[d] \in Nat /\ g[d] \in Nat
    BY <1>1
<1>3. \A d \in Shard \ {s} : g[d] = f[d]
    BY DEF Elsewhere
<1>4. InOpen(O, e) = SumFunctionOnSet(f, Shard) /\ InOpen(R, e) = SumFunctionOnSet(g, Shard)
    BY DEF InOpen, SumFunction
<1>5. f[s] = InBlock(O[s], e) /\ g[s] = InBlock(R[s], e)
    OBVIOUS
<1> HIDE DEF f, g
<1>6. IsFiniteSet(Shard) /\ \A d \in Shard : f[d] \in Int /\ g[d] \in Int
    BY <1>2, DataAssumption
<1>7. SumFunctionOnSet(g, Shard) = SumFunctionOnSet(f, Shard) - f[s] + g[s]
    BY <1>3, <1>6, SumChange
<1>8. SumFunctionOnSet(f, Shard) \in Nat /\ SumFunctionOnSet(g, Shard) \in Nat
      /\ f[s] <= SumFunctionOnSet(f, Shard)
    BY <1>2, <1>6, SumNat
<1> QED BY <1>1, <1>4, <1>5, <1>7, <1>8

LEMMA LedgerChange ==
    ASSUME NEW L, NEW R, NEW s \in Shard, NEW e \in Entry, Ledgers(L), Ledgers(R), Elsewhere(L, R, s)
    PROVE  /\ InLedger(R, e) = InLedger(L, e) - L[s][e] + R[s][e]
           /\ InLedger(L, e) \in Nat /\ InLedger(R, e) \in Nat
           /\ L[s][e] \in Nat /\ R[s][e] \in Nat
<1> DEFINE f == [d \in Shard |-> L[d][e]]
           g == [d \in Shard |-> R[d][e]]
<1>1. \A d \in Shard : L[d][e] \in Nat /\ R[d][e] \in Nat
    BY DEF Ledgers
<1>2. \A d \in Shard : f[d] \in Nat /\ g[d] \in Nat
    BY <1>1
<1>3. \A d \in Shard \ {s} : g[d] = f[d]
    BY DEF Elsewhere
<1>4. InLedger(L, e) = SumFunctionOnSet(f, Shard) /\ InLedger(R, e) = SumFunctionOnSet(g, Shard)
    BY DEF InLedger, SumFunction
<1>5. f[s] = L[s][e] /\ g[s] = R[s][e]
    OBVIOUS
<1> HIDE DEF f, g
<1>6. IsFiniteSet(Shard) /\ \A d \in Shard : f[d] \in Int /\ g[d] \in Int
    BY <1>2, DataAssumption
<1>7. SumFunctionOnSet(g, Shard) = SumFunctionOnSet(f, Shard) - f[s] + g[s]
    BY <1>3, <1>6, SumChange
<1>8. SumFunctionOnSet(f, Shard) \in Nat /\ SumFunctionOnSet(g, Shard) \in Nat
    BY <1>2, <1>6, SumNat
<1> QED BY <1>1, <1>4, <1>5, <1>7, <1>8
-----------------------------------------------------------------------------
(* Money.  D1 and D2 are the transactions whose first and second halves have been
   executed, ib what every account starts with; the balances have to make up for
   what is on its way between them, and nobody has spent more than what his
   transactions in D1 are worth. *)

\* One transaction of GetUpdateStatusTrie, on the balances all shards have together.
Pay(s, bal, e) ==
    LET pays == ~e.relayed /\ PartitionMap[Sender(e.tx)] = s
        debited == IF pays THEN [bal EXCEPT ![Sender(e.tx)] = @ - Value(e.tx)] ELSE bal
    IN  IF pays /\ bal[Sender(e.tx)] < Value(e.tx) THEN bal
        ELSE IF PartitionMap[Recipient(e.tx)] = s
        THEN [debited EXCEPT ![Recipient(e.tx)] = @ + Value(e.tx)]
        ELSE debited

\* Nobody's balance becomes negative.
LEMMA PayType ==
    ASSUME NEW s \in Shard, NEW bal \in [Account -> Nat], NEW e \in Entry
    PROVE  Pay(s, bal, e) \in [Account -> Nat]
<1>1. e.tx \in TxID /\ Sender(e.tx) \in Account /\ Recipient(e.tx) \in Account /\ Value(e.tx) \in Nat
    BY TxFacts DEF Entry
<1> DEFINE v == Value(e.tx)
           a == Sender(e.tx)
           b == Recipient(e.tx)
           debited == [bal EXCEPT ![a] = @ - v]
<1> HIDE DEF v, a, b
<1>2. a \in Account /\ b \in Account /\ v \in Nat
    BY <1>1 DEF v, a, b
<1>3. ~(bal[a] < v) => debited \in [Account -> Nat]
  <2> SUFFICES ASSUME ~(bal[a] < v) PROVE \A x \in Account : debited[x] \in Nat
    BY <1>2
  <2>1. bal[a] - v \in Nat
    BY <1>2
  <2> QED BY <1>2, <2>1
<1>4. \A u \in [Account -> Nat] : [u EXCEPT ![b] = @ + v] \in [Account -> Nat]
    BY <1>2
<1> HIDE DEF debited
<1> DEFINE pays == ~e.relayed /\ PartitionMap[a] = s
<1>5. CASE pays
  <2>1. Pay(s, bal, e) = IF bal[a] < v THEN bal
                             ELSE IF PartitionMap[b] = s THEN [debited EXCEPT ![b] = @ + v] ELSE debited
    BY <1>5 DEF Pay, v, a, b, debited
  <2> QED BY <1>3, <1>4, <2>1
<1>6. CASE ~pays
  <2>1. Pay(s, bal, e) = IF PartitionMap[b] = s THEN [bal EXCEPT ![b] = @ + v] ELSE bal
    BY <1>6 DEF Pay, v, a, b
  <2> QED BY <1>4, <2>1
<1> QED BY <1>5, <1>6

Total(bal) == SumFunctionOnSet(bal, Account)
Owed(t, D1, D2) == IF CrossShard(t) /\ t \in D1 /\ t \notin D2 THEN Value(t) ELSE 0
Transit(D1, D2) == SumFunctionOnSet([t \in TxID |-> Owed(t, D1, D2)], TxID)
Paid(u, D1, a) == IF Sender(u) = a /\ u \in D1 THEN Value(u) ELSE 0
Spent(D1, a) == SumFunctionOnSet([u \in TxID |-> Paid(u, D1, a)], TxID)

\* Whoever sends across shards can pay for all he sends.
Funds(ib) ==
    \A t \in TxID : CrossShard(t) =>
        ib >= SumFunction([u \in {u \in TxID : Sender(u) = Sender(t)} |-> Value(u)])

Kept(ib, bal, D1, D2) == Total(bal) + Transit(D1, D2) = ib * Cardinality(Account)
Solvent(ib, bal, D1) == \A a \in Account : bal[a] + Spent(D1, a) >= ib

Put(bal, a, w) == [bal EXCEPT ![a] = w]

LEMMA TotalChange ==
    ASSUME NEW bal \in [Account -> Int], NEW a \in Account, NEW w \in Int
    PROVE  /\ Total(Put(bal, a, w)) = Total(bal) - bal[a] + w
           /\ Total(bal) \in Int
           /\ Put(bal, a, w) \in [Account -> Int]
<1> DEFINE new == [bal EXCEPT ![a] = w]
<1>1. /\ new \in [Account -> Int] /\ new[a] = w
      /\ \A y \in Account \ {a} : new[y] = bal[y]
      /\ \A y \in Account : bal[y] \in Int /\ new[y] \in Int
      /\ IsFiniteSet(Account)
    BY DataAssumption
<1> HIDE DEF new
<1>2. SumFunctionOnSet(new, Account) = SumFunctionOnSet(bal, Account) - bal[a] + new[a]
  <2>1. /\ \A y \in Account \ {a} : new[y] = bal[y]
        /\ \A y \in Account : bal[y] \in Int /\ new[y] \in Int
        /\ IsFiniteSet(Account) /\ a \in Account
    BY <1>1
  <2> QED BY ONLY <2>1, SumChange
<1>3. SumFunctionOnSet(bal, Account) \in Int
    BY <1>1, SumRemove
<1>4. Total(new) = Total(bal) - bal[a] + w /\ Total(bal) \in Int
    BY <1>1, <1>2, <1>3 DEF Total
<1> QED BY <1>1, <1>4 DEF new, Put

Credit(bal, b, v) == [bal EXCEPT ![b] = @ + v]

LEMMA CreditTotal ==
    ASSUME NEW bal \in [Account -> Int], NEW b \in Account, NEW v \in Int
    PROVE  Total(Credit(bal, b, v)) = Total(bal) + v /\ Total(bal) \in Int
<1> DEFINE w == bal[b] + v
<1>1. w \in Int /\ bal \in [Account -> Int] /\ b \in Account
    OBVIOUS
<1>2. Credit(bal, b, v) = Put(bal, b, w) /\ bal[b] \in Int
    BY DEF Credit, Put
<1> HIDE DEF w
<1>3. Total(Put(bal, b, w)) = Total(bal) - bal[b] + w /\ Total(bal) \in Int
    BY ONLY <1>1, TotalChange
<1>4. Total(Put(bal, b, w)) = Total(bal) + v
    BY <1>2, <1>3 DEF w
<1> QED BY <1>2, <1>3, <1>4, Zenon

\* Two sets of transactions that differ in t at most.
SameBut(t, C, D) == \A u \in TxID \ {t} : u \in D <=> u \in C

LEMMA TransitChange ==
    ASSUME NEW t \in TxID, NEW C1, NEW C2, NEW D1, NEW D2,
           SameBut(t, C1, D1), SameBut(t, C2, D2)
    PROVE  /\ Transit(D1, D2) = Transit(C1, C2) - Owed(t, C1, C2) + Owed(t, D1, D2)
           /\ Transit(C1, C2) \in Int /\ Owed(t, C1, C2) \in Nat /\ Owed(t, D1, D2) \in Nat
<1> DEFINE f == [u \in TxID |-> Owed(u, C1, C2)]
           g == [u \in TxID |-> Owed(u, D1, D2)]
<1>1. \A u \in TxID : f[u] \in Nat /\ g[u] \in Nat
    BY TxFacts DEF Owed
<1>2. \A u \in TxID \ {t} : g[u] = f[u]
    BY DEF Owed, SameBut
<1>3. IsFiniteSet(TxID)
    BY TxFacts, FS_Interval
<1>4. f[t] = Owed(t, C1, C2) /\ g[t] = Owed(t, D1, D2)
    OBVIOUS
<1>5. Transit(C1, C2) = SumFunctionOnSet(f, TxID) /\ Transit(D1, D2) = SumFunctionOnSet(g, TxID)
    BY DEF Transit
<1> HIDE DEF f, g
<1>6. \A u \in TxID : f[u] \in Int /\ g[u] \in Int
    BY <1>1
<1>7. SumFunctionOnSet(g, TxID) = SumFunctionOnSet(f, TxID) - f[t] + g[t]
    BY <1>2, <1>3, <1>6, SumChange
<1>8. SumFunctionOnSet(f, TxID) \in Int
    BY <1>3, <1>6, SumRemove
<1> QED BY <1>1, <1>4, <1>5, <1>7, <1>8

\* A transaction more is charged to its sender.
LEMMA SpentChange ==
    ASSUME NEW t \in TxID, NEW D, t \notin D, NEW a
    PROVE  /\ Spent(D \cup {t}, a) = IF Sender(t) = a THEN Spent(D, a) + Value(t) ELSE Spent(D, a)
           /\ Spent(D, a) \in Nat
<1> DEFINE f == [u \in TxID |-> Paid(u, D, a)]
           g == [u \in TxID |-> Paid(u, D \cup {t}, a)]
<1>1. \A u \in TxID : f[u] \in Nat /\ g[u] \in Nat
    BY TxFacts DEF Paid
<1>2. \A u \in TxID \ {t} : g[u] = f[u]
    BY DEF Paid
<1>3. IsFiniteSet(TxID)
    BY TxFacts, FS_Interval
<1>4. f[t] = 0 /\ g[t] = (IF Sender(t) = a THEN Value(t) ELSE 0)
    BY DEF Paid
<1>5. Spent(D, a) = SumFunctionOnSet(f, TxID) /\ Spent(D \cup {t}, a) = SumFunctionOnSet(g, TxID)
    BY DEF Spent
<1> HIDE DEF f, g
<1>6. \A u \in TxID : f[u] \in Int /\ g[u] \in Int
    BY <1>1
<1>7. SumFunctionOnSet(g, TxID) = SumFunctionOnSet(f, TxID) - f[t] + g[t]
    BY <1>2, <1>3, <1>6, SumChange
<1>8. SumFunctionOnSet(f, TxID) \in Nat
    BY <1>1, <1>3, SumNat
<1>9. Value(t) \in Nat
    BY TxFacts
<1> QED BY <1>4, <1>5, <1>7, <1>8, <1>9

LEMMA CanPay ==
    ASSUME NEW ib \in Nat, Funds(ib), NEW t \in TxID, CrossShard(t), NEW D
    PROVE  ib >= Spent(D, Sender(t))
<1> DEFINE a == Sender(t)
           Own == {u \in TxID : Sender(u) = Sender(t)}
           w == [u \in Own |-> Value(u)]
           f == [u \in TxID |-> Paid(u, D, a)]
           g == [u \in TxID |-> IF u \in Own THEN Value(u) ELSE 0]
<1>1. IsFiniteSet(TxID) /\ Own \in SUBSET TxID
    BY TxFacts, FS_Interval
<1>2. /\ \A u \in TxID : f[u] \in Nat /\ g[u] \in Nat /\ f[u] <= g[u]
      /\ \A u \in Own : w[u] \in Int
      /\ \A u \in TxID : g[u] = IF u \in Own THEN w[u] ELSE 0
    BY TxFacts DEF Paid
<1>3. ib >= SumFunctionOnSet(w, Own)
    BY DEF Funds, SumFunction
<1>4. Spent(D, a) = SumFunctionOnSet(f, TxID)
    BY DEF Spent
<1> HIDE DEF f, g, w, Own, a
<1>5. SumFunctionOnSet(g, TxID) = SumFunctionOnSet(w, Own)
    BY <1>1, <1>2, SumPart
<1>6. \A u \in TxID : f[u] \in Int /\ g[u] \in Int /\ f[u] <= g[u]
    BY <1>2
<1>7. SumFunctionOnSet(f, TxID) <= SumFunctionOnSet(g, TxID)
    BY <1>1, <1>6, SumMono
<1>8. SumFunctionOnSet(f, TxID) \in Int /\ SumFunctionOnSet(g, TxID) \in Int
    BY <1>1, <1>6, SumRemove
<1>9. ib \in Nat
    OBVIOUS
<1>10. ib >= Spent(D, a)
    BY <1>3, <1>4, <1>5, <1>7, <1>8, <1>9
<1> QED BY <1>10 DEF a

\* A first half: the sender is debited if he can pay, and the recipient credited
\* if he is of the shard too; a sender across shards can always pay.
LEMMA PayFirst ==
    ASSUME NEW ib \in Nat, Funds(ib),
           NEW s \in Shard, NEW bal \in [Account -> Nat], NEW t \in TxID,
           PartitionMap[Sender(t)] = s, NEW D1, NEW D2, t \notin D1, t \notin D2,
           Solvent(ib, bal, D1), Kept(ib, bal, D1, D2)
    PROVE  LET new == Pay(s, bal, First(t)) IN Solvent(ib, new, D1 \cup {t}) /\ Kept(ib, new, D1 \cup {t}, D2)
<1> DEFINE v == Value(t)
           a == Sender(t)
           b == Recipient(t)
           debited == [bal EXCEPT ![a] = @ - v]
           new == Pay(s, bal, First(t))
           E1 == D1 \cup {t}
<1>1. a \in Account /\ b \in Account /\ v \in Nat /\ First(t) \in Entry /\ First(t).tx = t /\ ~First(t).relayed
    BY TxFacts, EntryFacts DEF First
<1>2. new = IF bal[a] < v THEN bal
            ELSE IF PartitionMap[b] = s THEN [debited EXCEPT ![b] = @ + v] ELSE debited
    BY <1>1 DEF Pay
<1>3. CrossShard(t) <=> PartitionMap[b] # s
    BY DEF CrossShard
<1>4. /\ Spent(E1, a) = Spent(D1, a) + v
      /\ \A x \in Account : x # a => Spent(E1, x) = Spent(D1, x)
      /\ \A x \in Account : Spent(D1, x) \in Nat
  <2>1. \A x : /\ Spent(E1, x) = IF Sender(t) = x THEN Spent(D1, x) + Value(t) ELSE Spent(D1, x)
               /\ Spent(D1, x) \in Nat
    BY SpentChange
  <2> HIDE DEF E1
  <2> QED BY <2>1
<1>5. /\ Transit(E1, D2) = Transit(D1, D2) + (IF CrossShard(t) THEN v ELSE 0)
      /\ Transit(D1, D2) \in Int
  <2>1. SameBut(t, D1, E1) /\ SameBut(t, D2, D2)
    BY DEF SameBut
  <2>2. Owed(t, D1, D2) = 0 /\ Owed(t, E1, D2) = (IF CrossShard(t) THEN v ELSE 0)
    BY DEF Owed
  <2> HIDE DEF E1, v
  <2>3. /\ Transit(E1, D2) = Transit(D1, D2) - Owed(t, D1, D2) + Owed(t, E1, D2)
        /\ Transit(D1, D2) \in Int /\ Owed(t, D1, D2) \in Nat /\ Owed(t, E1, D2) \in Nat
    BY <2>1, TransitChange
  <2> QED BY <1>1, <2>2, <2>3
<1>6. CrossShard(t) => ~(bal[a] < v)
  <2> SUFFICES ASSUME CrossShard(t) PROVE bal[a] >= v
    BY <1>1
  <2>1. ib >= Spent(E1, a) /\ ib \in Nat
    BY CanPay
  <2>2. bal[a] + Spent(D1, a) >= ib /\ bal[a] \in Nat
    BY <1>1 DEF Solvent
  <2> QED BY <1>1, <1>4, <2>1, <2>2
<1>7. ib \in Nat /\ bal \in [Account -> Int]
    OBVIOUS
<1>8. debited = [bal EXCEPT ![a] = bal[a] - v] /\ bal[a] \in Int /\ bal[a] - v \in Int
    BY <1>1, <1>7
<1>9. Total(debited) = Total(bal) - v /\ Total(bal) \in Int /\ debited \in [Account -> Int]
  <2> DEFINE w == bal[a] - v
  <2> HIDE DEF v, a, debited, w
  <2>1. w \in Int /\ bal \in [Account -> Int] /\ a \in Account
    BY <1>1, <1>7, <1>8 DEF w
  <2>2. /\ Total(Put(bal, a, w)) = Total(bal) - bal[a] + w /\ Total(bal) \in Int
        /\ Put(bal, a, w) \in [Account -> Int]
    BY ONLY <2>1, TotalChange
  <2>3. debited = Put(bal, a, w)
    BY <1>8 DEF w, Put
  <2>4. Total(debited) = Total(bal) - bal[a] + w /\ debited \in [Account -> Int]
    BY <2>2, <2>3, Zenon
  <2> QED BY <1>1, <1>8, <2>2, <2>4 DEF w
<1>10. Total([debited EXCEPT ![b] = @ + v]) = Total(debited) + v
  <2> HIDE DEF debited, b, v
  <2>1. v \in Int /\ debited \in [Account -> Int] /\ b \in Account
    BY <1>1, <1>9
  <2>2. Total(Credit(debited, b, v)) = Total(debited) + v
    BY ONLY <2>1, CreditTotal
  <2> QED BY <2>2, Zenon DEF Credit
<1>11. /\ \A x \in Account : debited[x] \in Int /\ debited[x] >= bal[x] - (IF x = a THEN v ELSE 0)
       /\ \A x \in Account : [debited EXCEPT ![b] = @ + v][x] >= debited[x]
    BY <1>1, <1>7
<1> HIDE DEF debited, v, a, b, E1, new
<1>12. Solvent(ib, new, E1)
  <2> SUFFICES ASSUME NEW x \in Account PROVE new[x] + Spent(E1, x) >= ib
    BY DEF Solvent
  <2>1. new[x] >= bal[x] - (IF x = a THEN v ELSE 0) /\ new[x] \in Int /\ bal[x] \in Nat
    <3>1. bal[x] \in Nat
      OBVIOUS
    <3>2. [debited EXCEPT ![b] = @ + v][x] \in Int
      BY <1>1, <1>9
    <3> QED BY <1>1, <1>2, <1>11, <3>1, <3>2
  <2>2. bal[x] + Spent(D1, x) >= ib
    BY DEF Solvent
  <2>3. CASE x = a
    BY <1>1, <1>4, <1>7, <2>1, <2>2, <2>3
  <2>4. CASE x # a
    BY <1>1, <1>4, <1>7, <2>1, <2>2, <2>4
  <2> QED BY <2>3, <2>4
<1>13. Kept(ib, new, E1, D2)
  <2>1. Total(bal) + Transit(D1, D2) = ib * Cardinality(Account)
    BY DEF Kept
  <2>2. Total(new) + Transit(E1, D2) = Total(bal) + Transit(D1, D2)
    <3>1. CASE CrossShard(t)
      <4>1. new = debited
        BY <1>2, <1>3, <1>6, <3>1
      <4> QED BY <1>1, <1>5, <1>9, <3>1, <4>1
    <3>2. CASE ~CrossShard(t) /\ bal[a] < v
      <4>1. new = bal
        BY <1>2, <3>2
      <4> QED BY <1>5, <1>9, <3>2, <4>1
    <3>3. CASE ~CrossShard(t) /\ ~(bal[a] < v)
      <4>1. new = [debited EXCEPT ![b] = @ + v]
        BY <1>2, <1>3, <3>3
      <4>2. Total(new) = Total(debited) + v
        BY <1>10, <4>1, Zenon
      <4> QED BY <1>1, <1>5, <1>9, <3>3, <4>2
    <3> QED BY <3>1, <3>2, <3>3
  <2> QED BY <2>1, <2>2 DEF Kept
<1> QED BY <1>12, <1>13 DEF new, E1

\* A second half: the recipient is credited with what was on its way.
LEMMA PaySecond ==
    ASSUME NEW ib \in Nat, Funds(ib),
           NEW s \in Shard, NEW bal \in [Account -> Nat], NEW t \in TxID,
           PartitionMap[Recipient(t)] = s, CrossShard(t), NEW D1, NEW D2, t \in D1, t \notin D2,
           Solvent(ib, bal, D1), Kept(ib, bal, D1, D2)
    PROVE  LET new == Pay(s, bal, Second(t)) IN Solvent(ib, new, D1) /\ Kept(ib, new, D1, D2 \cup {t})
<1> DEFINE v == Value(t)
           b == Recipient(t)
           new == Pay(s, bal, Second(t))
           E2 == D2 \cup {t}
<1>1. b \in Account /\ v \in Nat /\ Second(t).tx = t /\ Second(t).relayed
    BY TxFacts, EntryFacts DEF Second
<1>2. new = [bal EXCEPT ![b] = @ + v]
    BY <1>1 DEF Pay
<1>3. bal \in [Account -> Int] /\ ib \in Nat
    OBVIOUS
<1>4. Transit(D1, E2) = Transit(D1, D2) - v /\ Transit(D1, D2) \in Int
  <2>1. SameBut(t, D1, D1) /\ SameBut(t, D2, E2)
    BY DEF SameBut
  <2>2. Owed(t, D1, D2) = v /\ Owed(t, D1, E2) = 0
    BY DEF Owed
  <2> HIDE DEF E2, v
  <2>3. /\ Transit(D1, E2) = Transit(D1, D2) - Owed(t, D1, D2) + Owed(t, D1, E2)
        /\ Transit(D1, D2) \in Int /\ Owed(t, D1, D2) \in Nat /\ Owed(t, D1, E2) \in Nat
    BY <2>1, TransitChange
  <2> QED BY <1>1, <2>2, <2>3
<1> HIDE DEF v, b, E2
<1>5. Total(Credit(bal, b, v)) = Total(bal) + v /\ Total(bal) \in Int
    BY <1>1, <1>3, CreditTotal
<1>6. Total(new) = Total(bal) + v
    BY <1>2, <1>5, Zenon DEF Credit
<1>7. Kept(ib, new, D1, E2)
    BY <1>1, <1>4, <1>5, <1>6 DEF Kept
<1>8. \A x \in Account : new[x] >= bal[x] /\ new[x] \in Nat /\ bal[x] \in Nat
    BY <1>1, <1>2
<1> HIDE DEF new
<1>9. Solvent(ib, new, D1)
  <2> SUFFICES ASSUME NEW x \in Account PROVE new[x] + Spent(D1, x) >= ib
    BY DEF Solvent
  <2>1. Spent(D1, x) \in Nat
    <3> DEFINE f == [u \in TxID |-> Paid(u, D1, x)]
    <3>1. \A u \in TxID : f[u] \in Nat
      BY TxFacts DEF Paid
    <3>2. IsFiniteSet(TxID) /\ Spent(D1, x) = SumFunctionOnSet(f, TxID)
      BY TxFacts, FS_Interval DEF Spent
    <3> HIDE DEF f
    <3> QED BY <3>1, <3>2, SumNat
  <2> QED BY <1>3, <1>8, <2>1 DEF Solvent
<1> QED BY <1>7, <1>9 DEF new, E2

FirstsIn(body, n) == {t \in TxID : \E j \in 1 .. n : body[j] = First(t)}
SecondsIn(body, n) == {t \in TxID : \E j \in 1 .. n : body[j] = Second(t)}

\* A block that shard s may execute when D1 and D2 have been: each half once, no
\* second half without its first.
FirstAt(s, body, D1, D2, i, t) ==
    /\ body[i] = First(t) /\ PartitionMap[Sender(t)] = s /\ t \notin D1 /\ t \notin D2
    /\ \A j \in 1 .. Len(body) : body[j] # Second(t) /\ (body[j] = First(t) => j = i)
SecondAt(s, body, D1, D2, i, t) ==
    /\ body[i] = Second(t) /\ PartitionMap[Recipient(t)] = s /\ CrossShard(t) /\ t \in D1 /\ t \notin D2
    /\ \A j \in 1 .. Len(body) : body[j] = Second(t) => j = i
Ready(s, body, D1, D2) ==
    \A i \in 1 .. Len(body) :
        \E t \in TxID : FirstAt(s, body, D1, D2, i, t) \/ SecondAt(s, body, D1, D2, i, t)

LEMMA InStep ==
    ASSUME NEW body, NEW n \in Nat, NEW t \in TxID
    PROVE  /\ body[n + 1] = First(t) => /\ FirstsIn(body, n + 1) = FirstsIn(body, n) \cup {t}
                                        /\ SecondsIn(body, n + 1) = SecondsIn(body, n)
           /\ body[n + 1] = Second(t) => /\ SecondsIn(body, n + 1) = SecondsIn(body, n) \cup {t}
                                         /\ FirstsIn(body, n + 1) = FirstsIn(body, n)
<1>1. 1 .. n + 1 = (1 .. n) \cup {n + 1}
    OBVIOUS
<1>2. \A u : /\ u \in FirstsIn(body, n + 1) <=> u \in FirstsIn(body, n) \/ (u \in TxID /\ body[n + 1] = First(u))
             /\ u \in SecondsIn(body, n + 1) <=> u \in SecondsIn(body, n) \/ (u \in TxID /\ body[n + 1] = Second(u))
    BY <1>1, Zenon DEF FirstsIn, SecondsIn
<1>3. \A u : /\ First(t) = First(u) => u = t
             /\ Second(t) = Second(u) => u = t
             /\ First(t) # Second(u) /\ Second(t) # First(u)
    BY EntryFacts
<1>4. ASSUME body[n + 1] = First(t)
      PROVE  FirstsIn(body, n + 1) = FirstsIn(body, n) \cup {t} /\ SecondsIn(body, n + 1) = SecondsIn(body, n)
  <2>1. \A u : u \in FirstsIn(body, n + 1) <=> u \in FirstsIn(body, n) \/ u = t
    BY <1>2, <1>3, <1>4
  <2>2. \A u : u \in SecondsIn(body, n + 1) <=> u \in SecondsIn(body, n)
    BY <1>2, <1>3, <1>4
  <2> QED BY <2>1, <2>2
<1>5. ASSUME body[n + 1] = Second(t)
      PROVE  SecondsIn(body, n + 1) = SecondsIn(body, n) \cup {t} /\ FirstsIn(body, n + 1) = FirstsIn(body, n)
  <2>1. \A u : u \in SecondsIn(body, n + 1) <=> u \in SecondsIn(body, n) \/ u = t
    BY <1>2, <1>3, <1>5
  <2>2. \A u : u \in FirstsIn(body, n + 1) <=> u \in FirstsIn(body, n)
    BY <1>2, <1>3, <1>5
  <2> QED BY <2>1, <2>2
<1> QED BY <1>4, <1>5

\* Transaction after transaction of a block, money is kept.
PaysAll(s, body, trie) == \A i \in 1 .. Len(body) : trie[i] = Pay(s, trie[i - 1], body[i])

LEMMA PayAll ==
    ASSUME NEW ib \in Nat, Funds(ib), NEW s \in Shard, NEW body \in Seq(Entry),
           NEW trie, PaysAll(s, body, trie), trie[0] \in [Account -> Nat],
           NEW D1, NEW D2, Ready(s, body, D1, D2), Solvent(ib, trie[0], D1), Kept(ib, trie[0], D1, D2)
    PROVE  LET new == trie[Len(body)]
               E1 == D1 \cup FirstsIn(body, Len(body))
               E2 == D2 \cup SecondsIn(body, Len(body))
           IN  Solvent(ib, new, E1) /\ Kept(ib, new, E1, E2)
<1>1. Len(body) \in Nat /\ \A i \in 1 .. Len(body) : body[i] \in Entry
    OBVIOUS
<1> DEFINE F(n) == D1 \cup FirstsIn(body, n)
           G(n) == D2 \cup SecondsIn(body, n)
           Fine(n) == trie[n] \in [Account -> Nat] /\ Solvent(ib, trie[n], F(n)) /\ Kept(ib, trie[n], F(n), G(n))
           Good == {n \in Nat : n <= Len(body) => Fine(n)}
<1>4. 0 \in Good
  <2>1. F(0) = D1 /\ G(0) = D2
    BY DEF FirstsIn, SecondsIn
  <2> HIDE DEF F, G
  <2>3. Fine(0)
    BY <2>1, Zenon
  <2> QED BY <2>3
<1>5. ASSUME NEW n \in Nat, n \in Good PROVE n + 1 \in Good
  <2> SUFFICES ASSUME n + 1 <= Len(body) PROVE Fine(n + 1)
    OBVIOUS
  <2>1. /\ n + 1 \in 0 .. Len(body) /\ n + 1 # 0 /\ (n + 1) - 1 = n /\ n <= Len(body)
        /\ n + 1 \in 1 .. Len(body) /\ \A j \in 1 .. n : j \in 1 .. Len(body) /\ j # n + 1
    BY <1>1
  <2>2. Fine(n) /\ body[n + 1] \in Entry
    BY <1>1, <1>5, <2>1
  <2>3. trie[n + 1] = Pay(s, trie[n], body[n + 1])
    BY <2>1 DEF PaysAll
  <2>4. PICK t \in TxID : FirstAt(s, body, D1, D2, n + 1, t) \/ SecondAt(s, body, D1, D2, n + 1, t)
    BY <2>1 DEF Ready
  <2>5. trie[n + 1] \in [Account -> Nat]
    <3>1. trie[n] \in [Account -> Nat]
      BY <2>2
    <3>2. Pay(s, trie[n], body[n + 1]) \in [Account -> Nat]
      BY ONLY <2>2, <3>1, s \in Shard, PayType
    <3> QED BY <2>3, <3>2, Zenon
  <2>6. CASE FirstAt(s, body, D1, D2, n + 1, t)
    <3>1. t \notin F(n) /\ t \notin G(n)
      BY <2>1, <2>6 DEF FirstsIn, SecondsIn, FirstAt
    <3>2. body[n + 1] = First(t) /\ PartitionMap[Sender(t)] = s
      BY <2>6 DEF FirstAt
    <3>3. F(n + 1) = F(n) \cup {t} /\ G(n + 1) = G(n)
      <4>1. FirstsIn(body, n + 1) = FirstsIn(body, n) \cup {t} /\ SecondsIn(body, n + 1) = SecondsIn(body, n)
        BY ONLY <3>2, n \in Nat, t \in TxID, InStep
      <4> QED BY <4>1
    <3> HIDE DEF F, G
    <3>4. trie[n + 1] = Pay(s, trie[n], First(t))
      BY <2>3, <3>2
    <3>5. LET new == Pay(s, trie[n], First(t)) IN Solvent(ib, new, F(n) \cup {t}) /\ Kept(ib, new, F(n) \cup {t}, G(n))
      BY <2>2, <3>1, <3>2, PayFirst
    <3>6. Solvent(ib, trie[n + 1], F(n + 1)) /\ Kept(ib, trie[n + 1], F(n + 1), G(n + 1))
      BY <3>3, <3>4, <3>5, Zenon
    <3> QED BY <2>5, <3>6
  <2>7. CASE SecondAt(s, body, D1, D2, n + 1, t)
    <3>1. t \in F(n) /\ t \notin G(n)
      BY <2>1, <2>7 DEF FirstsIn, SecondsIn, SecondAt
    <3>2. body[n + 1] = Second(t) /\ PartitionMap[Recipient(t)] = s /\ CrossShard(t)
      BY <2>7 DEF SecondAt
    <3>3. F(n + 1) = F(n) /\ G(n + 1) = G(n) \cup {t}
      <4>1. SecondsIn(body, n + 1) = SecondsIn(body, n) \cup {t} /\ FirstsIn(body, n + 1) = FirstsIn(body, n)
        BY ONLY <3>2, n \in Nat, t \in TxID, InStep
      <4> QED BY <4>1
    <3> HIDE DEF F, G
    <3>4. trie[n + 1] = Pay(s, trie[n], Second(t))
      BY <2>3, <3>2
    <3>5. LET new == Pay(s, trie[n], Second(t)) IN Solvent(ib, new, F(n)) /\ Kept(ib, new, F(n), G(n) \cup {t})
      BY <2>2, <3>1, <3>2, PaySecond
    <3>6. Solvent(ib, trie[n + 1], F(n + 1)) /\ Kept(ib, trie[n + 1], F(n + 1), G(n + 1))
      BY <3>3, <3>4, <3>5, Zenon
    <3> QED BY <2>5, <3>6
  <2> QED BY <2>4, <2>6, <2>7
<1>6. Nat \subseteq Good
  <2> HIDE DEF Good
  <2> QED BY <1>4, <1>5, SetInduction
<1>7. Fine(Len(body))
  <2> HIDE DEF Fine
  <2> QED BY <1>1, <1>6
<1> HIDE DEF F, G
<1> QED BY <1>7, Zenon DEF F, G

\* More transactions executed inside shards change nothing: the money on its way is
\* the same, and nobody is charged less.
LEMMA MoneyInside ==
    ASSUME NEW ib \in Nat, NEW bal \in [Account -> Nat], NEW C1, NEW C2, NEW D1, NEW D2, C1 \subseteq D1,
           \A t \in TxID : CrossShard(t) => (t \in C1 <=> t \in D1) /\ (t \in C2 <=> t \in D2),
           Solvent(ib, bal, C1), Kept(ib, bal, C1, C2)
    PROVE  Solvent(ib, bal, D1) /\ Kept(ib, bal, D1, D2)
<1>1. IsFiniteSet(TxID)
    BY TxFacts, FS_Interval
<1>2. Transit(D1, D2) = Transit(C1, C2)
  <2>1. \A t \in TxID : Owed(t, D1, D2) = Owed(t, C1, C2)
    BY DEF Owed
  <2>2. [t \in TxID |-> Owed(t, D1, D2)] = [t \in TxID |-> Owed(t, C1, C2)]
    BY <2>1
  <2> QED BY <2>2, Zenon DEF Transit
<1>3. ASSUME NEW a \in Account PROVE bal[a] + Spent(D1, a) >= ib
  <2> DEFINE f == [u \in TxID |-> Paid(u, C1, a)]
             g == [u \in TxID |-> Paid(u, D1, a)]
  <2>1. \A u \in TxID : f[u] \in Nat /\ g[u] \in Nat /\ f[u] <= g[u]
    BY TxFacts DEF Paid
  <2>2. Spent(C1, a) = SumFunctionOnSet(f, TxID) /\ Spent(D1, a) = SumFunctionOnSet(g, TxID)
    BY DEF Spent
  <2> HIDE DEF f, g
  <2>3. \A u \in TxID : f[u] \in Int /\ g[u] \in Int /\ f[u] <= g[u]
    BY <2>1
  <2>4. SumFunctionOnSet(f, TxID) <= SumFunctionOnSet(g, TxID)
    BY <1>1, <2>3, SumMono
  <2>5. SumFunctionOnSet(f, TxID) \in Nat /\ SumFunctionOnSet(g, TxID) \in Nat
    BY <1>1, <2>1, SumNat
  <2>6. bal[a] + Spent(C1, a) >= ib /\ bal[a] \in Nat
    BY DEF Solvent
  <2> QED BY <2>2, <2>4, <2>5, <2>6
<1> QED BY <1>2, <1>3 DEF Solvent, Kept

\* Before anything is executed.
LEMMA MoneyStart ==
    ASSUME NEW ib \in Nat, NEW bal, \A a \in Account : bal[a] = ib
    PROVE  Solvent(ib, bal, {}) /\ Kept(ib, bal, {}, {})
<1>1. IsFiniteSet(Account) /\ IsFiniteSet(TxID)
    BY DataAssumption, TxFacts, FS_Interval
<1>2. Transit({}, {}) = 0
  <2> DEFINE f == [t \in TxID |-> Owed(t, {}, {})]
  <2>1. \A t \in TxID : f[t] = 0 /\ f[t] \in Nat
    BY DEF Owed
  <2>2. Transit({}, {}) = SumFunctionOnSet(f, TxID)
    BY DEF Transit
  <2> HIDE DEF f
  <2> QED BY <1>1, <2>1, <2>2, SumNat
<1>3. ASSUME NEW a \in Account PROVE Spent({}, a) = 0
  <2> DEFINE f == [u \in TxID |-> Paid(u, {}, a)]
  <2>1. \A t \in TxID : f[t] = 0 /\ f[t] \in Nat
    BY DEF Paid
  <2>2. Spent({}, a) = SumFunctionOnSet(f, TxID)
    BY DEF Spent
  <2> HIDE DEF f
  <2> QED BY <1>1, <2>1, <2>2, SumNat
<1>4. Total(bal) = ib * Cardinality(Account)
    BY <1>1, SumConst DEF Total
<1>5. Solvent(ib, bal, {})
    BY <1>3 DEF Solvent
<1>6. ib * Cardinality(Account) \in Nat
  <2>1. Cardinality(Account) \in Nat
    BY <1>1, FS_CardinalityType
  <2> QED BY <2>1
<1> QED BY <1>2, <1>4, <1>5, <1>6 DEF Kept

\* What is on its way is the value of the transactions that are half done.
LEMMA KeptSum ==
    ASSUME NEW ib, NEW bal \in [Account -> Nat], NEW D1, NEW D2, Kept(ib, bal, D1, D2),
           NEW H, H = {t \in TxID : CrossShard(t) /\ t \in D1 /\ t \notin D2}
    PROVE  SumFunction(bal) + SumFunction([t \in H |-> Value(t)]) = ib * Cardinality(Account)
<1> DEFINE f == [t \in H |-> Value(t)]
           g == [t \in TxID |-> Owed(t, D1, D2)]
<1>1. IsFiniteSet(TxID) /\ H \in SUBSET TxID
    BY TxFacts, FS_Interval
<1>2. \A t \in H : f[t] \in Int
    BY TxFacts
<1>3. \A t \in TxID : g[t] = IF t \in H THEN f[t] ELSE 0
    BY DEF Owed
<1>4. Transit(D1, D2) = SumFunctionOnSet(g, TxID)
    BY DEF Transit
<1>5. SumFunction(f) = SumFunctionOnSet(f, H) /\ SumFunction(bal) = Total(bal)
    BY DEF SumFunction, Total
<1> HIDE DEF f, g
<1>6. SumFunctionOnSet(g, TxID) = SumFunctionOnSet(f, H)
    BY <1>1, <1>2, <1>3, SumPart
<1>7. SumFunction(bal) + SumFunction(f) = ib * Cardinality(Account)
    BY <1>4, <1>5, <1>6, Zenon DEF Kept
<1> QED BY <1>7 DEF f
=============================================================================
