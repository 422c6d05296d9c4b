---------------------------- MODULE BrokerProof ----------------------------
(***************************************************************************)
(* Theorems about BrokerTx, for any shards, accounts, brokers and dataset: *)
(* each half of a split transaction comes once and in its order, and what  *)
(* users lose and gain is what they gave to brokers and got from them.     *)
(***************************************************************************)
EXTENDS BrokerTx, ListTheorems

(* Transactions and their parts. *)

Kinds == {"whole", "tx1", "tx2"}

LEMMA RowFacts ==
    /\ TxID = 1 .. Len(TxList) /\ Len(TxList) \in Nat /\ IsFiniteSet(TxID)
    /\ \A t \in TxID : /\ TxList[t].from \in Account /\ TxList[t].to \in Account
                       /\ Value(t) \in Nat /\ t \in Nat
    /\ BrokerAddress[1] \in Account /\ IsBroker(BrokerAddress[1])
<1>1. TxID = 1 .. Len(TxList) /\ Len(TxList) \in Nat
    BY BrokerAssumption DEF TxID
<1>2. IsFiniteSet(TxID)
    BY <1>1, FS_Interval
<1>3. \A t \in TxID : TxList[t] \in [from : Account, to : Account, value : Nat]
  <2> DEFINE Row == [from : Account, to : Account, value : Nat]
  <2>1. TxList \in Seq(Row)
    BY BrokerAssumption
  <2> HIDE DEF Row
  <2>2. \A t \in 1 .. Len(TxList) : TxList[t] \in Row
    BY <2>1
  <2> QED BY <1>1, <2>2 DEF Row
<1>4. \A t \in TxID : /\ TxList[t].from \in Account /\ TxList[t].to \in Account
                      /\ Value(t) \in Nat /\ t \in Nat
    BY <1>1, <1>3 DEF Value
<1>5. BrokerAddress[1] \in Account /\ IsBroker(BrokerAddress[1])
  <2>1. BrokerAddress \in Seq(Account) /\ BrokerAddress # <<>>
    BY BrokerAssumption
  <2>2. 1 \in DOMAIN BrokerAddress
    BY <2>1
  <2> QED BY <2>1, <2>2 DEF IsBroker, Range
<1> QED BY <1>1, <1>2, <1>4, <1>5

LEMMA PartFacts ==
    /\ \A t \in TxID : \A p \in Kinds : Part(t, p) \in Entry
    /\ \A t, p : Part(t, p).raw = t /\ Part(t, p).part = p
    /\ \A e \in Entry : e.raw \in TxID /\ e.part \in Kinds /\ e = Part(e.raw, e.part)
    /\ \A t, u, p, k : Part(t, p) = Part(u, k) => t = u /\ p = k
    /\ "whole" \in Kinds /\ "tx1" \in Kinds /\ "tx2" \in Kinds
    /\ "whole" # "tx1" /\ "whole" # "tx2" /\ "tx1" # "tx2"
BY DEF Part, Entry, Kinds

LEMMA EntryFacts ==
    ASSUME NEW e \in Entry
    PROVE  /\ Sender(e) \in Account /\ Recipient(e) \in Account /\ Value(e.raw) \in Nat
           /\ Destination(e) \in Shard
<1>1. e.raw \in TxID
    BY PartFacts
<1>2. Sender(e) \in Account /\ Recipient(e) \in Account /\ Value(e.raw) \in Nat
    BY <1>1, RowFacts DEF Sender, Recipient
<1>3. Addr2Shard \in [Account -> Shard]
    BY BrokerAssumption
<1> QED BY <1>2, <1>3 DEF Destination

\* What there is of a transaction: its halves if it is split, itself if not.
Legit == {e \in Entry : (e.part = "whole") <=> ~Split(e.raw)}

\* The entries that are sent to shard s, and those of a kind.
AtHome(s) == {e \in Legit : Destination(e) = s}
Halves(p) == {e \in Legit : e.part = p}

LEMMA LegitFacts ==
    /\ Legit \subseteq Entry
    /\ \A s : AtHome(s) \subseteq Legit /\ AtHome(s) \subseteq Entry
    /\ \A p : Halves(p) \subseteq Legit /\ Halves(p) \subseteq Entry
    /\ \A e \in Legit : \/ e = Part(e.raw, "whole") /\ ~Split(e.raw)
                        \/ e = Part(e.raw, "tx1") /\ Split(e.raw)
                        \/ e = Part(e.raw, "tx2") /\ Split(e.raw)
    /\ \A t \in TxID : IF Split(t) THEN Part(t, "tx1") \in Legit /\ Part(t, "tx2") \in Legit
                                        /\ Part(t, "whole") \notin Legit
                       ELSE Part(t, "whole") \in Legit /\ Part(t, "tx1") \notin Legit
                            /\ Part(t, "tx2") \notin Legit
<1>1. /\ Legit \subseteq Entry
      /\ \A s : AtHome(s) \subseteq Legit /\ AtHome(s) \subseteq Entry
      /\ \A p : Halves(p) \subseteq Legit /\ Halves(p) \subseteq Entry
    BY DEF Legit, AtHome, Halves
<1>2. ASSUME NEW e \in Legit
      PROVE  \/ e = Part(e.raw, "whole") /\ ~Split(e.raw)
             \/ e = Part(e.raw, "tx1") /\ Split(e.raw)
             \/ e = Part(e.raw, "tx2") /\ Split(e.raw)
  <2>1. e \in Entry /\ ((e.part = "whole") <=> ~Split(e.raw))
    BY DEF Legit
  <2>2. e.part \in Kinds /\ e = Part(e.raw, e.part)
    BY <2>1, PartFacts
  <2> QED BY <2>1, <2>2, Zenon DEF Kinds
<1>3. ASSUME NEW t \in TxID
      PROVE  IF Split(t) THEN Part(t, "tx1") \in Legit /\ Part(t, "tx2") \in Legit
                              /\ Part(t, "whole") \notin Legit
             ELSE Part(t, "whole") \in Legit /\ Part(t, "tx1") \notin Legit
                  /\ Part(t, "tx2") \notin Legit
  <2>1. \A p \in Kinds : Part(t, p) \in Entry /\ Part(t, p).raw = t /\ Part(t, p).part = p
    BY PartFacts
  <2>2. \A p \in Kinds : Part(t, p) \in Legit <=> ((p = "whole") <=> ~Split(t))
    BY <2>1 DEF Legit
  <2> QED BY <2>2, PartFacts
<1> QED BY <1>1, <1>2, <1>3

LEMMA EntryFinite == IsFiniteSet(Entry)
<1>1. ASSUME NEW p PROVE IsFiniteSet({Part(t, p) : t \in TxID})
  <2> DEFINE f == [t \in TxID |-> Part(t, p)]
             P == {Part(t, p) : t \in TxID}
  <2>1. f \in Surjection(TxID, P)
    BY DEF Surjection
  <2> HIDE DEF f, P
  <2>2. IsFiniteSet(P)
    BY <2>1, RowFacts, FS_Surjection
  <2> QED BY <2>2 DEF P
<1> DEFINE W == {Part(t, "whole") : t \in TxID}
           A == {Part(t, "tx1") : t \in TxID}
           B == {Part(t, "tx2") : t \in TxID}
<1>2. IsFiniteSet(W) /\ IsFiniteSet(A) /\ IsFiniteSet(B)
    BY <1>1
<1>3. Entry \subseteq (W \cup A) \cup B
    BY PartFacts DEF Kinds
<1> HIDE DEF W, A, B
<1>4. IsFiniteSet((W \cup A) \cup B)
    BY <1>2, FS_Union
<1> QED BY <1>3, <1>4, FS_Subset

LEMMA PartsFacts ==
    ASSUME NEW q \in Seq(TxID), NEW p \in Kinds
    PROVE  /\ Len(Parts(q, p)) = Len(q) /\ DOMAIN Parts(q, p) = 1 .. Len(q)
           /\ \A i \in 1 .. Len(q) : Parts(q, p)[i] = Part(q[i], p)
           /\ Parts(q, p) \in Seq(Entry)
           /\ \A t : Occurrences(Part(t, p), Parts(q, p)) = Occurrences(t, q)
           /\ \A t, k : k # p => Occurrences(Part(t, k), Parts(q, p)) = 0
<1> DEFINE r == Parts(q, p)
<1>1. Len(q) \in Nat /\ DOMAIN q = 1 .. Len(q) /\ \A i \in 1 .. Len(q) : q[i] \in TxID
    OBVIOUS
<1>2. r = [i \in 1 .. Len(q) |-> Part(q[i], p)]
    BY <1>1 DEF Parts
<1>3. \A i \in 1 .. Len(q) : Part(q[i], p) \in Entry
    BY <1>1, PartFacts
<1> HIDE DEF r
<1>4. r \in Seq(Entry) /\ Len(r) = Len(q) /\ DOMAIN r = 1 .. Len(q)
      /\ \A i \in 1 .. Len(q) : r[i] = Part(q[i], p)
  <2>1. r \in [1 .. Len(q) -> Entry]
    BY <1>2, <1>3
  <2> QED BY <1>1, <1>2, <2>1
<1>5. ASSUME NEW t PROVE Occurrences(Part(t, p), r) = Occurrences(t, q)
  <2>1. \A i \in DOMAIN q : r[i] = Part(t, p) <=> q[i] = t
    BY <1>1, <1>4, PartFacts
  <2> QED BY <1>1, <1>4, <2>1, SameCount
<1>6. ASSUME NEW t, NEW k, k # p PROVE Occurrences(Part(t, k), r) = 0
  <2>1. \A i \in 1 .. Len(r) : r[i] # Part(t, k)
    BY <1>4, <1>6, PartFacts
  <2>2. Occurrences(Part(t, k), r) \in Nat /\ ~(Occurrences(Part(t, k), r) > 0)
    BY <1>4, <2>1, OccurrencesUpto, OccurrencesIn
  <2> QED BY <2>2
<1> QED BY <1>4, <1>5, <1>6 DEF r

\* The rows of a batch, in two lists, and what is sent of them.
Rows(n, k) == [i \in 1 .. k |-> n + i]
SplitRows(n, k) == Keep(Rows(n, k), {t \in TxID : Split(t)})
WholeRows(n, k) == Keep(Rows(n, k), {t \in TxID : ~Split(t)})
NewTxs(n, k) == Parts(SplitRows(n, k), "tx1") \o Parts(WholeRows(n, k), "whole")

\* Whether row t is one of them.
InBatch(t, n, k) == IF n < t /\ t <= n + k THEN 1 ELSE 0

LEMMA RowsFacts ==
    ASSUME NEW n \in Nat, NEW k \in Nat, n + k <= Len(TxList)
    PROVE  /\ Rows(n, k) \in Seq(TxID)
           /\ \A t \in TxID : Occurrences(t, Rows(n, k)) = InBatch(t, n, k)
<1> DEFINE rows == Rows(n, k)
<1>1. rows = [i \in 1 .. k |-> n + i]
    BY DEF Rows
<1>2. \A i \in 1 .. k : n + i \in TxID
    BY RowFacts
<1> HIDE DEF rows
<1>3. rows \in Seq(TxID) /\ DOMAIN rows = 1 .. k
  <2>1. rows \in [1 .. k -> TxID]
    BY <1>1, <1>2
  <2> QED BY <2>1
<1>4. ASSUME NEW t \in TxID PROVE Occurrences(t, rows) = InBatch(t, n, k)
  <2> DEFINE At == {i \in DOMAIN rows : rows[i] = t}
  <2>0. t \in Nat
    BY RowFacts
  <2>1. At = {i \in 1 .. k : n + i = t}
    BY <1>1, <1>3
  <2>2. CASE n < t /\ t <= n + k
    <3>1. At = {t - n}
      BY <2>0, <2>1, <2>2
    <3>2. Cardinality(At) = 1
      BY <3>1, FS_Singleton
    <3> QED BY <2>2, <3>2 DEF Occurrences, InBatch
  <2>3. CASE ~(n < t /\ t <= n + k)
    <3>1. At = {}
      BY <2>0, <2>1, <2>3
    <3> HIDE DEF At
    <3>2. Cardinality(At) = 0
      BY <3>1, FS_EmptySet, Zenon
    <3> QED BY <2>3, <3>2 DEF Occurrences, InBatch, At
  <2> QED BY <2>2, <2>3
<1> QED BY <1>3, <1>4 DEF rows

LEMMA BatchFacts ==
    ASSUME NEW n \in Nat, NEW k \in Nat, n + k <= Len(TxList)
    PROVE  /\ SplitRows(n, k) \in Seq(TxID) /\ WholeRows(n, k) \in Seq(TxID)
           /\ Parts(SplitRows(n, k), "tx1") \in Seq(Halves("tx1"))
           /\ NewTxs(n, k) \in Seq(Legit)
           /\ \A t \in TxID :
                /\ Occurrences(t, SplitRows(n, k)) = IF Split(t) THEN InBatch(t, n, k) ELSE 0
                /\ Occurrences(Part(t, "tx1"), Parts(SplitRows(n, k), "tx1"))
                        = IF Split(t) THEN InBatch(t, n, k) ELSE 0
                /\ Occurrences(Part(t, "tx1"), NewTxs(n, k)) = IF Split(t) THEN InBatch(t, n, k) ELSE 0
                /\ Occurrences(Part(t, "whole"), NewTxs(n, k)) = IF Split(t) THEN 0 ELSE InBatch(t, n, k)
                /\ Occurrences(Part(t, "tx2"), NewTxs(n, k)) = 0
<1> DEFINE a == SplitRows(n, k)
           b == WholeRows(n, k)
           SP == {t \in TxID : Split(t)}
           WH == {t \in TxID : ~Split(t)}
<1>1. /\ a \in Seq(TxID \cap SP) /\ \A t : Occurrences(t, a) = IF t \in SP THEN Occurrences(t, Rows(n, k)) ELSE 0
      /\ b \in Seq(TxID \cap WH) /\ \A t : Occurrences(t, b) = IF t \in WH THEN Occurrences(t, Rows(n, k)) ELSE 0
    BY RowsFacts, KeepFacts DEF SplitRows, WholeRows
<1>2. \A t \in TxID : Occurrences(t, Rows(n, k)) = InBatch(t, n, k)
    BY RowsFacts
<1> DEFINE x == Parts(a, "tx1")
           y == Parts(b, "whole")
<1>3. a \in Seq(TxID) /\ b \in Seq(TxID)
  <2>1. TxID \cap SP \subseteq TxID /\ TxID \cap WH \subseteq TxID
    OBVIOUS
  <2> HIDE DEF a, b, SP, WH
  <2> QED BY <1>1, <2>1, SeqMonotonic
<1>4. /\ Len(x) = Len(a) /\ \A i \in 1 .. Len(a) : x[i] = Part(a[i], "tx1")
      /\ x \in Seq(Entry)
      /\ \A t : Occurrences(Part(t, "tx1"), x) = Occurrences(t, a)
      /\ \A t, p : p # "tx1" => Occurrences(Part(t, p), x) = 0
  <2> HIDE DEF a
  <2> QED BY <1>3, PartFacts, PartsFacts
<1>5. /\ Len(y) = Len(b) /\ \A i \in 1 .. Len(b) : y[i] = Part(b[i], "whole")
      /\ y \in Seq(Entry)
      /\ \A t : Occurrences(Part(t, "whole"), y) = Occurrences(t, b)
      /\ \A t, p : p # "whole" => Occurrences(Part(t, p), y) = 0
  <2> HIDE DEF b
  <2> QED BY <1>3, PartFacts, PartsFacts
<1>6. NewTxs(n, k) = x \o y
    BY DEF NewTxs
<1>7. /\ \A i \in 1 .. Len(a) : a[i] \in TxID /\ Split(a[i])
      /\ \A i \in 1 .. Len(b) : b[i] \in TxID /\ ~Split(b[i])
  <2> HIDE DEF a, b
  <2>1. /\ \A i \in 1 .. Len(a) : a[i] \in TxID \cap SP
        /\ \A i \in 1 .. Len(b) : b[i] \in TxID \cap WH
    <3> HIDE DEF SP, WH
    <3> QED BY <1>1
  <2> QED BY <2>1
<1> HIDE DEF x, y, a, b
<1>8. x \in Seq(Halves("tx1"))
  <2>1. \A i \in 1 .. Len(x) : x[i] \in Halves("tx1")
    BY <1>4, <1>7, LegitFacts, PartFacts DEF Halves
  <2> QED BY <1>4, <2>1
<1>9. y \in Seq(Legit)
  <2>1. \A i \in 1 .. Len(y) : y[i] \in Legit
    BY <1>5, <1>7, LegitFacts
  <2> QED BY <1>5, <2>1
<1>10. x \in Seq(Legit) /\ x \o y \in Seq(Legit)
  <2>1. x \in Seq(Legit)
    BY <1>8, LegitFacts, SeqMonotonic
  <2> QED BY <1>9, <2>1, ConcatProperties
<1>11. \A e : Occurrences(e, x \o y) = Occurrences(e, x) + Occurrences(e, y)
    BY <1>9, <1>10, OccurrencesConcat
<1>12. ASSUME NEW t \in TxID
       PROVE  /\ Occurrences(t, a) = IF Split(t) THEN InBatch(t, n, k) ELSE 0
              /\ Occurrences(t, b) = IF Split(t) THEN 0 ELSE InBatch(t, n, k)
              /\ InBatch(t, n, k) \in Nat
    BY <1>1, <1>2 DEF InBatch
<1>13. ASSUME NEW t \in TxID
       PROVE  /\ Occurrences(Part(t, "tx1"), x \o y) = IF Split(t) THEN InBatch(t, n, k) ELSE 0
              /\ Occurrences(Part(t, "whole"), x \o y) = IF Split(t) THEN 0 ELSE InBatch(t, n, k)
              /\ Occurrences(Part(t, "tx2"), x \o y) = 0
  <2>1. /\ Occurrences(Part(t, "tx1"), x) = Occurrences(t, a) /\ Occurrences(Part(t, "tx1"), y) = 0
        /\ Occurrences(Part(t, "whole"), y) = Occurrences(t, b) /\ Occurrences(Part(t, "whole"), x) = 0
        /\ Occurrences(Part(t, "tx2"), x) = 0 /\ Occurrences(Part(t, "tx2"), y) = 0
    BY <1>4, <1>5
  <2> QED BY <1>11, <1>12, <2>1
<1>14. \A t \in TxID : Occurrences(Part(t, "tx1"), x) = IF Split(t) THEN InBatch(t, n, k) ELSE 0
    BY <1>4, <1>12
<1> QED BY <1>3, <1>6, <1>8, <1>10, <1>12, <1>13, <1>14 DEF a, b, x

-----------------------------------------------------------------------------
(* The state trie. *)

TrieStep(s, st, body, trie, i) == IF i = 0 THEN st ELSE Execute(s, trie[i - 1], body[i])

\* The recursion that defines GetUpdateStatusTrie has a solution.
LEMMA TrieDefined ==
    ASSUME NEW s, NEW body, Len(body) \in Nat
    PROVE  \E trie : /\ trie = [i \in 0 .. Len(body) |-> TrieStep(s, state[s], body, trie, i)]
                     /\ GetUpdateStatusTrie(s, body) = trie[Len(body)]
<1> DEFINE st == state[s]
           Good == {n \in Nat : \E k : k = [i \in 0 .. n |-> TrieStep(s, st, body, k, i)]}
<1> HIDE DEF st
<1>1. 0 \in Good
  <2> DEFINE k == [i \in 0 .. 0 |-> st]
  <2>1. \A i \in 0 .. 0 : TrieStep(s, st, body, k, i) = st
    BY DEF TrieStep
  <2>2. k = [i \in 0 .. 0 |-> TrieStep(s, st, body, k, i)]
    BY <2>1
  <2> HIDE DEF k
  <2>3. \E u : u = [i \in 0 .. 0 |-> TrieStep(s, st, body, u, i)]
    BY <2>2, Zenon
  <2> QED BY <2>3
<1>2. ASSUME NEW n \in Nat, n \in Good PROVE n + 1 \in Good
  <2>1. PICK k : k = [i \in 0 .. n |-> TrieStep(s, st, body, k, i)]
    BY <1>2
  <2> DEFINE more == [i \in 0 .. n + 1 |-> TrieStep(s, st, body, k, i)]
  <2>2. \A i \in 0 .. n : more[i] = k[i]
    BY <2>1
  <2>3. \A i \in 0 .. n + 1 : i = 0 \/ i - 1 \in 0 .. n
    OBVIOUS
  <2> HIDE DEF more
  <2>4. \A i \in 0 .. n + 1 : TrieStep(s, st, body, k, i) = TrieStep(s, st, body, more, i)
    BY <2>2, <2>3 DEF TrieStep
  <2>5. more = [i \in 0 .. n + 1 |-> TrieStep(s, st, body, more, i)]
    BY <2>4, Zenon DEF more
  <2>6. \E u : u = [i \in 0 .. n + 1 |-> TrieStep(s, st, body, u, i)]
    BY <2>5, Zenon
  <2> QED BY <2>6
<1>3. Nat \subseteq Good
  <2> HIDE DEF Good
  <2> QED BY <1>1, <1>2, SetInduction
<1>4. \E k : k = [i \in 0 .. Len(body) |-> TrieStep(s, st, body, k, i)]
    BY <1>3
<1> DEFINE trie == CHOOSE k : k = [i \in 0 .. Len(body) |-> TrieStep(s, st, body, k, i)]
<1>5. trie = [i \in 0 .. Len(body) |-> TrieStep(s, st, body, trie, i)]
    BY <1>4, Zenon
<1>6. GetUpdateStatusTrie(s, body) = trie[Len(body)]
    BY Zenon DEF GetUpdateStatusTrie, TrieStep, st
<1> QED BY <1>5, <1>6 DEF st

Credit(st, a, v) == [st EXCEPT ![a] = @ + v]
Debit(st, a, v) == [st EXCEPT ![a] = @ - v]

\* An account whose balance the shard keeps for this transaction.
LocalTo(s, e, a) == Addr2Shard[a] = s \/ HasBroker(e)

LEMMA ExecuteIs ==
    ASSUME NEW s, NEW st, NEW e
    PROVE  LET v == Value(e.raw)
               paid == IF LocalTo(s, e, Sender(e)) THEN Debit(st, Sender(e), v) ELSE st
           IN  Execute(s, st, e) =
                 IF LocalTo(s, e, Sender(e)) /\ st[Sender(e)] < v THEN st
                 ELSE IF LocalTo(s, e, Recipient(e)) THEN Credit(paid, Recipient(e), v)
                 ELSE paid
BY DEF Execute, LocalTo, Credit, Debit

LEMMA DebitCredit ==
    ASSUME NEW st \in [Account -> Nat], NEW a \in Account, NEW v \in Nat
    PROVE  /\ Credit(st, a, v) \in [Account -> Nat]
           /\ \A x \in Account : Credit(st, a, v)[x] = IF x = a THEN st[a] + v ELSE st[x]
           /\ st[a] >= v => Debit(st, a, v) \in [Account -> Nat]
           /\ \A x \in Account : Debit(st, a, v)[x] = IF x = a THEN st[a] - v ELSE st[x]
<1>1. \A x \in Account : st[x] \in Nat
    OBVIOUS
<1>2. \A x \in Account : Debit(st, a, v)[x] = IF x = a THEN st[a] - v ELSE st[x]
    BY DEF Debit
<1>3. ASSUME st[a] >= v PROVE Debit(st, a, v) \in [Account -> Nat]
  <2>1. st[a] - v \in Nat
    BY <1>1, <1>3
  <2> QED BY <2>1 DEF Debit
<1>4. Credit(st, a, v) \in [Account -> Nat]
  <2>1. st[a] + v \in Nat
    BY <1>1
  <2> QED BY <2>1 DEF Credit
<1>5. \A x \in Account : Credit(st, a, v)[x] = IF x = a THEN st[a] + v ELSE st[x]
    BY DEF Credit
<1> QED BY <1>2, <1>3, <1>4, <1>5

\* No transaction takes a balance below zero.
LEMMA ExecuteType ==
    ASSUME NEW s, NEW st \in [Account -> Nat], NEW e \in Entry
    PROVE  Execute(s, st, e) \in [Account -> Nat]
<1> DEFINE v == Value(e.raw)
           a == Sender(e)
           b == Recipient(e)
           la == LocalTo(s, e, a)
           lb == LocalTo(s, e, b)
<1>1. a \in Account /\ b \in Account /\ v \in Nat
    BY EntryFacts
<1>2. Execute(s, st, e) =
        IF la /\ st[a] < v THEN st
        ELSE IF lb THEN Credit(IF la THEN Debit(st, a, v) ELSE st, b, v)
        ELSE IF la THEN Debit(st, a, v) ELSE st
    BY ExecuteIs
<1> HIDE DEF v, a, b, la, lb
<1>3. ~(st[a] < v) => Debit(st, a, v) \in [Account -> Nat]
    BY <1>1, DebitCredit
<1>4. \A u \in [Account -> Nat] : Credit(u, b, v) \in [Account -> Nat]
    BY <1>1, DebitCredit
<1>5. CASE la /\ st[a] < v
    BY <1>2, <1>5
<1>6. CASE la /\ ~(st[a] < v)
  <2>1. Execute(s, st, e) = IF lb THEN Credit(Debit(st, a, v), b, v) ELSE Debit(st, a, v)
    BY <1>2, <1>6
  <2> QED BY <1>3, <1>4, <1>6, <2>1
<1>7. CASE ~la
  <2>1. Execute(s, st, e) = IF lb THEN Credit(st, b, v) ELSE st
    BY <1>2, <1>7
  <2> QED BY <1>4, <2>1
<1> QED BY <1>5, <1>6, <1>7

LEMMA TrieType ==
    ASSUME NEW s, NEW body \in Seq(Entry), state[s] \in [Account -> Nat]
    PROVE  GetUpdateStatusTrie(s, body) \in [Account -> Nat]
<1>1. Len(body) \in Nat /\ \A i \in 1 .. Len(body) : body[i] \in Entry
    OBVIOUS
<1>2. PICK trie : /\ trie = [i \in 0 .. Len(body) |-> TrieStep(s, state[s], body, trie, i)]
                  /\ GetUpdateStatusTrie(s, body) = trie[Len(body)]
    BY <1>1, TrieDefined
<1>3. \A i \in 0 .. Len(body) : trie[i] = TrieStep(s, state[s], body, trie, i)
    BY <1>2
<1> DEFINE Good == {n \in Nat : n <= Len(body) => trie[n] \in [Account -> Nat]}
<1>4. 0 \in Good
    BY <1>1, <1>3 DEF TrieStep
<1>5. ASSUME NEW n \in Nat, n \in Good PROVE n + 1 \in Good
  <2> SUFFICES ASSUME n + 1 <= Len(body) PROVE trie[n + 1] \in [Account -> Nat]
    OBVIOUS
  <2>1. n + 1 \in 0 .. Len(body) /\ n + 1 # 0 /\ (n + 1) - 1 = n /\ n <= Len(body) /\ n + 1 \in 1 .. Len(body)
    BY <1>1
  <2>2. trie[n] \in [Account -> Nat] /\ body[n + 1] \in Entry
    BY <1>1, <1>5, <2>1
  <2>3. trie[n + 1] = Execute(s, trie[n], body[n + 1])
    BY <1>3, <2>1 DEF TrieStep
  <2>4. Execute(s, trie[n], body[n + 1]) \in [Account -> Nat]
    BY <2>2, ExecuteType
  <2> QED BY <2>3, <2>4
<1>6. Nat \subseteq Good
  <2> HIDE DEF Good
  <2> QED BY <1>4, <1>5, SetInduction
<1> QED BY <1>1, <1>2, <1>6

-----------------------------------------------------------------------------
(* Reports. *)

FineInfo(b) ==
    /\ b \in BlockInfoMsg
    /\ b.inner \in Seq(Halves("whole"))
    /\ b.broker1 \in Seq(Halves("tx1")) /\ b.broker2 \in Seq(Halves("tx2"))

Work == [info : BlockInfoMsg, tx2s : Seq(Entry), confirm2s : Seq(Entry)]
FineWork(h) ==
    /\ h \in Work /\ FineInfo(h.info)
    /\ h.tx2s \in Seq(Halves("tx2")) /\ h.confirm2s \in Seq(Halves("tx2"))

LEMMA BlockInfoFacts ==
    ASSUME NEW body \in Seq(Legit)
    PROVE  /\ FineInfo(BlockInfo(body))
           /\ \A t \in TxID :
                /\ Occurrences(Part(t, "tx1"), BlockInfo(body).broker1) = Occurrences(Part(t, "tx1"), body)
                /\ Occurrences(Part(t, "tx2"), BlockInfo(body).broker2) = Occurrences(Part(t, "tx2"), body)
<1>1. ASSUME NEW p
      PROVE  /\ Keep(body, EntriesOf(p)) \in Seq(Halves(p))
             /\ \A e : Occurrences(e, Keep(body, EntriesOf(p))) = IF e \in EntriesOf(p) THEN Occurrences(e, body) ELSE 0
  <2>1. /\ Keep(body, EntriesOf(p)) \in Seq(Legit \cap EntriesOf(p))
        /\ \A e : Occurrences(e, Keep(body, EntriesOf(p))) = IF e \in EntriesOf(p) THEN Occurrences(e, body) ELSE 0
    BY KeepFacts
  <2>2. Legit \cap EntriesOf(p) = Halves(p)
    BY DEF Legit, EntriesOf, Halves
  <2> QED BY <2>1, <2>2, Zenon
<1>2. \A p : Keep(body, EntriesOf(p)) \in Seq(Entry)
    BY <1>1, LegitFacts, SeqMonotonic
<1> DEFINE w == Keep(body, EntriesOf("whole"))
           x == Keep(body, EntriesOf("tx1"))
           y == Keep(body, EntriesOf("tx2"))
<1>3. w \in Seq(Halves("whole")) /\ x \in Seq(Halves("tx1")) /\ y \in Seq(Halves("tx2"))
    BY <1>1
<1>4. BlockInfo(body) = [inner |-> w, broker1 |-> x, broker2 |-> y]
    BY DEF BlockInfo
<1>5. ASSUME NEW t \in TxID
      PROVE  Part(t, "tx1") \in EntriesOf("tx1") /\ Part(t, "tx2") \in EntriesOf("tx2")
    BY PartFacts DEF EntriesOf
<1>6. ASSUME NEW t \in TxID
      PROVE  /\ Occurrences(Part(t, "tx1"), x) = Occurrences(Part(t, "tx1"), body)
             /\ Occurrences(Part(t, "tx2"), y) = Occurrences(Part(t, "tx2"), body)
    BY <1>1, <1>5
<1>7. w \in Seq(Entry) /\ x \in Seq(Entry) /\ y \in Seq(Entry)
    BY <1>2
<1> HIDE DEF w, x, y
<1> QED BY <1>3, <1>4, <1>6, <1>7 DEF FineInfo, BlockInfoMsg

\* What a report confirms: first halves for which there is a raw message, and
\* second halves; and the second halves made for some first ones.
Txs(b) == b.broker1 \o b.broker2
Confirm1s(b, pool, raws) == Keep(Confirmed(pool, Txs(b)), {e \in Entry : e.raw \in raws})
Confirm2s(b, pool) == Confirmed(pool, Txs(b))
Seconds(q) == [i \in DOMAIN q |-> Part(q[i].raw, "tx2")]

LEMMA TxsFacts ==
    ASSUME NEW b, FineInfo(b)
    PROVE  /\ Txs(b) \in Seq(Legit)
           /\ \A t : /\ Occurrences(Part(t, "tx1"), Txs(b)) = Occurrences(Part(t, "tx1"), b.broker1)
                     /\ Occurrences(Part(t, "tx2"), Txs(b)) = Occurrences(Part(t, "tx2"), b.broker2)
                     /\ Occurrences(Part(t, "tx1"), b.broker1) \in Nat
                     /\ Occurrences(Part(t, "tx2"), b.broker2) \in Nat
<1> DEFINE x == b.broker1
           y == b.broker2
<1>1. x \in Seq(Halves("tx1")) /\ y \in Seq(Halves("tx2"))
    BY DEF FineInfo
<1>2. Txs(b) = x \o y
    BY DEF Txs
<1> HIDE DEF x, y
<1>3. x \in Seq(Legit) /\ y \in Seq(Legit)
    BY <1>1, LegitFacts, SeqMonotonic
<1>4. x \o y \in Seq(Legit) /\ \A e : Occurrences(e, x \o y) = Occurrences(e, x) + Occurrences(e, y)
    BY <1>3, ConcatProperties, OccurrencesConcat
<1>5. \A e : Occurrences(e, x) \in Nat /\ Occurrences(e, y) \in Nat
    BY <1>1, OccurrencesUpto
<1>6. \A t : Part(t, "tx1") \notin Halves("tx2") /\ Part(t, "tx2") \notin Halves("tx1")
    BY PartFacts DEF Halves
<1>7. \A t : Occurrences(Part(t, "tx1"), y) = 0 /\ Occurrences(Part(t, "tx2"), x) = 0
    BY <1>1, <1>6, OccurrencesNone
<1> QED BY <1>2, <1>4, <1>5, <1>7 DEF x, y

LEMMA SecondsFacts ==
    ASSUME NEW q \in Seq(Halves("tx1"))
    PROVE  /\ Seconds(q) \in Seq(Halves("tx2"))
           /\ \A t : Occurrences(Part(t, "tx2"), Seconds(q)) = Occurrences(Part(t, "tx1"), q)
<1>1. Len(q) \in Nat /\ DOMAIN q = 1 .. Len(q) /\ \A i \in 1 .. Len(q) : q[i] \in Halves("tx1")
    OBVIOUS
<1>2. ASSUME NEW e \in Halves("tx1") PROVE e = Part(e.raw, "tx1") /\ Part(e.raw, "tx2") \in Halves("tx2")
  <2>1. e \in Legit /\ e.part = "tx1" /\ e.raw \in TxID
    BY PartFacts DEF Halves, Legit
  <2>2. e = Part(e.raw, "tx1") /\ Split(e.raw)
    BY <2>1, LegitFacts, PartFacts
  <2> QED BY <2>1, <2>2, LegitFacts, PartFacts DEF Halves
<1> DEFINE r == Seconds(q)
<1>3. r = [i \in 1 .. Len(q) |-> Part(q[i].raw, "tx2")]
    BY <1>1 DEF Seconds
<1> HIDE DEF r
<1>4. r \in Seq(Halves("tx2")) /\ DOMAIN r = DOMAIN q
  <2>1. r \in [1 .. Len(q) -> Halves("tx2")]
    BY <1>1, <1>2, <1>3
  <2> QED BY <1>1, <2>1
<1>5. ASSUME NEW t PROVE Occurrences(Part(t, "tx2"), r) = Occurrences(Part(t, "tx1"), q)
  <2>1. \A i \in DOMAIN q : r[i] = Part(t, "tx2") <=> q[i] = Part(t, "tx1")
    BY <1>1, <1>2, <1>3, PartFacts
  <2> QED BY <1>4, <2>1, SameCount
<1> QED BY <1>4, <1>5 DEF r

LEMMA ReportFacts ==
    ASSUME NEW b, FineInfo(b), NEW raws \in SUBSET TxID,
           NEW p1 \in SUBSET [raw : TxID, part : {"tx1"}], NEW p2 \in SUBSET [raw : TxID, part : {"tx2"}]
    PROVE  /\ Confirm1s(b, p1, raws) \in Seq(Halves("tx1"))
           /\ Confirm2s(b, p2) \in Seq(Halves("tx2"))
           /\ \A t \in TxID :
                /\ Occurrences(Part(t, "tx1"), Confirm1s(b, p1, raws))
                     = IF Part(t, "tx1") \in p1 /\ t \in raws THEN Occurrences(Part(t, "tx1"), b.broker1) ELSE 0
                /\ Occurrences(Part(t, "tx2"), Confirm2s(b, p2))
                     = IF Part(t, "tx2") \in p2 THEN Occurrences(Part(t, "tx2"), b.broker2) ELSE 0
<1> DEFINE txs == Txs(b)
           R == {e \in Entry : e.raw \in raws}
           c == Keep(txs, p1)
<1>1. /\ txs \in Seq(Legit)
      /\ \A t : /\ Occurrences(Part(t, "tx1"), txs) = Occurrences(Part(t, "tx1"), b.broker1)
                /\ Occurrences(Part(t, "tx2"), txs) = Occurrences(Part(t, "tx2"), b.broker2)
    BY TxsFacts
<1>2. Confirm1s(b, p1, raws) = Keep(c, R) /\ Confirm2s(b, p2) = Keep(txs, p2)
    BY DEF Confirm1s, Confirm2s, Confirmed
<1>3. \A t \in TxID : Part(t, "tx1") \in R <=> t \in raws
    BY PartFacts
<1> HIDE DEF txs, R
<1>4. /\ c \in Seq(Legit \cap p1) /\ \A e : Occurrences(e, c) = IF e \in p1 THEN Occurrences(e, txs) ELSE 0
    BY <1>1, KeepFacts
<1>5. Legit \cap p1 \subseteq Halves("tx1") /\ Legit \cap p2 \subseteq Halves("tx2")
    BY DEF Halves
<1> HIDE DEF c
<1>6. /\ Keep(c, R) \in Seq((Legit \cap p1) \cap R)
      /\ \A e : Occurrences(e, Keep(c, R)) = IF e \in R THEN Occurrences(e, c) ELSE 0
    BY <1>4, KeepFacts
<1>7. /\ Keep(txs, p2) \in Seq(Legit \cap p2)
      /\ \A e : Occurrences(e, Keep(txs, p2)) = IF e \in p2 THEN Occurrences(e, txs) ELSE 0
    BY <1>1, KeepFacts
<1>8. (Legit \cap p1) \cap R \subseteq Halves("tx1")
    BY <1>5
<1>9. Keep(c, R) \in Seq(Halves("tx1")) /\ Keep(txs, p2) \in Seq(Halves("tx2"))
    BY <1>5, <1>6, <1>7, <1>8, SeqMonotonic
<1>10. ASSUME NEW t \in TxID
       PROVE /\ Occurrences(Part(t, "tx1"), Keep(c, R))
                     = IF Part(t, "tx1") \in p1 /\ t \in raws THEN Occurrences(Part(t, "tx1"), b.broker1) ELSE 0
             /\ Occurrences(Part(t, "tx2"), Keep(txs, p2))
                     = IF Part(t, "tx2") \in p2 THEN Occurrences(Part(t, "tx2"), b.broker2) ELSE 0
    BY <1>1, <1>3, <1>4, <1>6, <1>7
<1> QED BY <1>2, <1>9, <1>10

-----------------------------------------------------------------------------
(* Types, and where transactions may be. *)

Located ==
    /\ \A m \in injects : m.tx \in AtHome(m.to)
    /\ \A s \in Shard : txQueue[s] \in Seq(AtHome(s)) /\ open[s] \subseteq Seq(AtHome(s))
    /\ \A b \in infos : FineInfo(b)
    /\ \A h \in handling : FineWork(h)
    /\ sending \in Seq(Legit)

TypeInv ==
    /\ TypeOK /\ Located
    /\ IsFiniteSet(injects) /\ IsFiniteSet(infos)
    /\ \A s \in Shard : open[s] = {} \/ \E body \in open[s] : open[s] = {body}
    /\ handling = {} \/ \E h \in handling : handling = {h}

LEMMA TypeInvInit == Init => TypeInv
<1> SUFFICES ASSUME Init PROVE TypeInv
    OBVIOUS
<1>1. /\ txQueue = [s \in Shard |-> <<>>] /\ open = [s \in Shard |-> {}]
      /\ state = [s \in Shard |-> [a \in Account |-> InitBalance]] /\ executed = [e \in Entry |-> 0]
      /\ injects = {} /\ infos = {} /\ nowDataNum = 0 /\ sending = <<>> /\ handling = {}
      /\ BrokerRawMegs = {} /\ brokerConfirm1Pool = {} /\ brokerConfirm2Pool = {}
      /\ RawTx2BrokerTx = [t \in TxID |-> <<>>] /\ brokerTxMap = {}
      /\ txNum = [c \in {"normal", "broker1", "broker2"} |-> 0]
    BY DEF Init
<1>2. \A X : <<>> \in Seq(X)
    OBVIOUS
<1>3. Cardinality({}) = 0 /\ IsFiniteSet({})
    BY FS_EmptySet
<1>4. txQueue \in [Shard -> Seq(Entry)] /\ open \in [Shard -> SUBSET Seq(Entry)]
      /\ \A s \in Shard : txQueue[s] = <<>> /\ open[s] = {}
    BY <1>1, <1>2
<1>5. state \in [Shard -> [Account -> Nat]] /\ executed \in [Entry -> Nat]
      /\ RawTx2BrokerTx \in [TxID -> Seq(Entry)] /\ txNum \in [{"normal", "broker1", "broker2"} -> Nat]
    BY <1>1, <1>2, BrokerAssumption
<1>6. nowDataNum \in 0 .. Len(TxList)
    BY <1>1, RowFacts
<1>7. \A s \in Shard : Cardinality(open[s]) <= 1
  <2>1. \A s \in Shard : Cardinality(open[s]) = 0
    BY <1>3, <1>4, Zenon
  <2> QED BY <2>1
<1>8. TypeOK
    BY <1>1, <1>2, <1>3, <1>4, <1>5, <1>6, <1>7 DEF TypeOK
<1>9. Located
    BY <1>1, <1>2, <1>4 DEF Located
<1> QED BY <1>1, <1>3, <1>4, <1>8, <1>9 DEF TypeInv

LEMMA NextBatchFacts ==
    ASSUME NEW n \in 0 .. Len(TxList)
    PROVE  NextBatch(n) \in 0 .. Len(TxList) /\ NextBatch(n) >= n
<1> DEFINE e == Min({n + BatchSize, TotalDataSize})
<1>1. BatchSize \in Nat /\ TotalDataSize \in Nat /\ Len(TxList) \in Nat /\ n \in Nat
    BY BrokerAssumption, RowFacts
<1>2. e \in Nat
  <2>1. n + BatchSize \in Int /\ TotalDataSize \in Int
    BY <1>1
  <2>2. e = IF n + BatchSize <= TotalDataSize THEN n + BatchSize ELSE TotalDataSize
    BY <2>1, MinPair
  <2> QED BY <1>1, <2>2
<1>3. NextBatch(n) = IF e > Len(TxList) \/ e < n THEN n ELSE e
    BY DEF NextBatch
<1> HIDE DEF e
<1> QED BY <1>1, <1>2, <1>3

\* What reading a batch does.
LEMMA Dealt ==
    ASSUME TypeInv, DealTxByBroker
    PROVE  \E k \in Nat :
             /\ nowDataNum \in Nat /\ k > 0 /\ nowDataNum + k <= Len(TxList)
             /\ sending = <<>> /\ nowDataNum' = nowDataNum + k
             /\ BrokerRawMegs' = BrokerRawMegs \cup Range(SplitRows(nowDataNum, k))
             /\ brokerConfirm1Pool' = brokerConfirm1Pool \cup Range(Parts(SplitRows(nowDataNum, k), "tx1"))
             /\ sending' = NewTxs(nowDataNum, k)
<1> DEFINE n == nowDataNum
           end == NextBatch(nowDataNum)
           k == end - n
<1>1. n \in 0 .. Len(TxList) /\ Len(TxList) \in Nat
    BY RowFacts DEF TypeInv, TypeOK
<1>2. end \in 0 .. Len(TxList) /\ end >= n
    BY <1>1, NextBatchFacts
<1>3. end > n /\ sending = <<>> /\ nowDataNum' = end
    BY DEF DealTxByBroker
<1>4. /\ BrokerRawMegs' = BrokerRawMegs \cup Range(SplitRows(n, k))
      /\ brokerConfirm1Pool' = brokerConfirm1Pool \cup Range(Parts(SplitRows(n, k), "tx1"))
      /\ sending' = NewTxs(n, k)
    BY Zenon DEF DealTxByBroker, Register, NewTxs, SplitRows, WholeRows, Rows
<1> HIDE DEF end
<1>5. k \in Nat /\ k > 0 /\ n \in Nat /\ n + k = end /\ n + k <= Len(TxList)
    BY <1>1, <1>2, <1>3
<1>6. /\ k \in Nat /\ n \in Nat /\ k > 0 /\ n + k <= Len(TxList)
      /\ sending = <<>> /\ nowDataNum' = n + k
      /\ BrokerRawMegs' = BrokerRawMegs \cup Range(SplitRows(n, k))
      /\ brokerConfirm1Pool' = brokerConfirm1Pool \cup Range(Parts(SplitRows(n, k), "tx1"))
      /\ sending' = NewTxs(n, k)
    BY <1>3, <1>4, <1>5
<1> HIDE DEF k
<1> QED BY <1>6, Zenon

LEMMA TypeInvDeal == ASSUME TypeInv, DealTxByBroker PROVE TypeInv'
<1>1. PICK k \in Nat :
             /\ nowDataNum \in Nat /\ k > 0 /\ nowDataNum + k <= Len(TxList)
             /\ sending = <<>> /\ nowDataNum' = nowDataNum + k
             /\ BrokerRawMegs' = BrokerRawMegs \cup Range(SplitRows(nowDataNum, k))
             /\ brokerConfirm1Pool' = brokerConfirm1Pool \cup Range(Parts(SplitRows(nowDataNum, k), "tx1"))
             /\ sending' = NewTxs(nowDataNum, k)
    BY Dealt
<1> DEFINE a == SplitRows(nowDataNum, k)
           x == Parts(SplitRows(nowDataNum, k), "tx1")
<1>2. a \in Seq(TxID) /\ x \in Seq(Halves("tx1")) /\ NewTxs(nowDataNum, k) \in Seq(Legit)
    BY <1>1, BatchFacts
<1>3. NewTxs(nowDataNum, k) \in Seq(Entry)
    BY <1>2, LegitFacts, SeqMonotonic
<1> HIDE DEF a, x
<1>4. Range(a) \subseteq TxID
    BY <1>2 DEF Range
<1>5. Range(x) \subseteq [raw : TxID, part : {"tx1"}]
  <2>1. Range(x) \subseteq Halves("tx1")
    BY <1>2 DEF Range
  <2>2. Halves("tx1") \subseteq [raw : TxID, part : {"tx1"}]
    BY DEF Halves, Legit, Entry
  <2> QED BY <2>1, <2>2
<1>6. nowDataNum' \in 0 .. Len(TxList)
    BY <1>1, RowFacts
<1>7. UNCHANGED <<shardVars, injects, infos, handling, brokerConfirm2Pool, RawTx2BrokerTx, measureVars>>
    BY DEF DealTxByBroker
<1>8. TypeOK'
    BY <1>1, <1>3, <1>4, <1>5, <1>6, <1>7 DEF TypeInv, TypeOK, shardVars, measureVars, a, x
<1>9. Located'
    BY <1>1, <1>2, <1>7 DEF TypeInv, Located, shardVars
<1> QED BY <1>7, <1>8, <1>9 DEF TypeInv, shardVars

LEMMA Injected ==
    ASSUME TypeInv, NEW e \in Legit, Inject(e)
    PROVE  /\ injects' \subseteq [to : Shard, tx : Entry] /\ IsFiniteSet(injects')
           /\ \A m \in injects' : m.tx \in AtHome(m.to)
<1> DEFINE new == [to |-> Destination(e), tx |-> e]
<1>1. injects' = injects \cup {new}
    BY DEF Inject
<1>2. new \in [to : Shard, tx : Entry] /\ new.tx \in AtHome(new.to)
    BY LegitFacts, EntryFacts DEF AtHome
<1> HIDE DEF new
<1>3. IsFiniteSet(injects') 
    BY <1>1, FS_AddElement DEF TypeInv
<1> QED BY <1>1, <1>2, <1>3 DEF TypeInv, TypeOK, Located

LEMMA TypeInvSending == ASSUME TypeInv, TxSending PROVE TypeInv'
<1>1. sending # <<>> /\ sending' = Tail(sending) /\ Inject(Head(sending)) /\ sending \in Seq(Legit)
    BY DEF TxSending, TypeInv, Located
<1>2. Head(sending) \in Legit /\ Tail(sending) \in Seq(Legit)
    BY <1>1, OccurrencesTail
<1>3. Tail(sending) \in Seq(Entry)
    BY <1>2, LegitFacts, SeqMonotonic
<1>4. /\ injects' \subseteq [to : Shard, tx : Entry] /\ IsFiniteSet(injects')
      /\ \A m \in injects' : m.tx \in AtHome(m.to)
    BY <1>1, <1>2, Injected
<1>5. UNCHANGED <<shardVars, infos, nowDataNum, handling, brokerVars, measureVars>>
    BY DEF TxSending
<1>6. TypeOK'
    BY <1>1, <1>3, <1>4, <1>5 DEF TypeInv, TypeOK, shardVars, brokerVars, measureVars
<1>7. Located'
    BY <1>1, <1>2, <1>4, <1>5 DEF TypeInv, Located, shardVars
<1> QED BY <1>4, <1>5, <1>6, <1>7 DEF TypeInv, shardVars

LEMMA TypeInvInject ==
    ASSUME TypeInv, NEW m \in injects, HandleInjectTx(m) PROVE TypeInv'
<1>1. /\ m.to \in Shard /\ m.tx \in AtHome(m.to) /\ AtHome(m.to) \subseteq Entry
      /\ txQueue \in [Shard -> Seq(Entry)] /\ \A s \in Shard : txQueue[s] \in Seq(AtHome(s))
    BY LegitFacts DEF TypeInv, TypeOK, Located
<1>2. txQueue' = [txQueue EXCEPT ![m.to] = Append(@, m.tx)] /\ injects' = injects \ {m}
    BY DEF HandleInjectTx
<1> DEFINE q == Append(txQueue[m.to], m.tx)
<1>3. q \in Seq(AtHome(m.to))
  <2>1. txQueue[m.to] \in Seq(AtHome(m.to))
    BY <1>1
  <2> QED BY <1>1, <2>1
<1>4. q \in Seq(Entry)
    BY <1>1, <1>3, SeqMonotonic
<1>5. txQueue' = [txQueue EXCEPT ![m.to] = q]
    BY <1>2
<1> HIDE DEF q
<1>6. /\ txQueue' \in [Shard -> Seq(Entry)]
      /\ \A s \in Shard : txQueue'[s] = IF s = m.to THEN q ELSE txQueue[s]
    BY <1>1, <1>4, <1>5
<1>7. \A s \in Shard : txQueue'[s] \in Seq(AtHome(s))
    BY <1>1, <1>3, <1>6
<1>8. IsFiniteSet(injects')
    BY <1>2, FS_RemoveElement DEF TypeInv
<1>9. UNCHANGED <<open, state, executed, infos, nowDataNum, sending, handling, brokerVars, measureVars>>
    BY DEF HandleInjectTx
<1>10. TypeOK'
    BY <1>2, <1>6, <1>9 DEF TypeInv, TypeOK, brokerVars, measureVars
<1>11. Located'
    BY <1>2, <1>7, <1>9 DEF TypeInv, Located
<1> QED BY <1>8, <1>9, <1>10, <1>11 DEF TypeInv

\* What proposing a block does.
LEMMA Proposed ==
    ASSUME TypeInv, NEW s \in Shard, Propose(s)
    PROVE  LET a == Packed(txQueue[s], BlockSize)
               b == Unpacked(txQueue[s], BlockSize)
           IN  /\ a \in Seq(AtHome(s)) /\ b \in Seq(AtHome(s)) /\ open[s] = {}
               /\ \A e : Occurrences(e, txQueue[s]) = Occurrences(e, a) + Occurrences(e, b)
               /\ txQueue' \in [Shard -> Seq(Entry)] /\ open' \in [Shard -> SUBSET Seq(Entry)]
               /\ \A d \in Shard : open'[d] = IF d = s THEN {a} ELSE open[d]
               /\ \A d \in Shard : txQueue'[d] = IF d = s THEN b ELSE txQueue[d]
<1> DEFINE q == txQueue[s]
           a == Packed(q, BlockSize)
           b == Unpacked(q, BlockSize)
<1>1. q \in Seq(AtHome(s)) /\ AtHome(s) \subseteq Entry /\ BlockSize \in Nat
      /\ txQueue \in [Shard -> Seq(Entry)] /\ open \in [Shard -> SUBSET Seq(Entry)]
    BY BrokerAssumption, LegitFacts DEF TypeInv, TypeOK, Located
<1>2. /\ a \in Seq(AtHome(s)) /\ b \in Seq(AtHome(s))
      /\ \A e : Occurrences(e, q) = Occurrences(e, a) + Occurrences(e, b)
    BY <1>1, CutFacts
<1>3. open[s] = {} /\ open' = [open EXCEPT ![s] = {a}] /\ txQueue' = [txQueue EXCEPT ![s] = b]
    BY DEF Propose, Packed, Unpacked
<1> HIDE DEF a, b
<1>4. a \in Seq(Entry) /\ b \in Seq(Entry)
    BY <1>1, <1>2, SeqMonotonic
<1>5. txQueue' \in [Shard -> Seq(Entry)] /\ open' \in [Shard -> SUBSET Seq(Entry)]
    BY <1>1, <1>3, <1>4
<1>6. \A d \in Shard : open'[d] = IF d = s THEN {a} ELSE open[d]
    BY <1>1, <1>3
<1>7. \A d \in Shard : txQueue'[d] = IF d = s THEN b ELSE txQueue[d]
    BY <1>1, <1>3
<1> QED BY <1>2, <1>3, <1>5, <1>6, <1>7 DEF a, b

LEMMA TypeInvPropose == ASSUME TypeInv, NEW s \in Shard, Propose(s) PROVE TypeInv'
<1> DEFINE a == Packed(txQueue[s], BlockSize)
           b == Unpacked(txQueue[s], BlockSize)
<1>1. /\ a \in Seq(AtHome(s)) /\ b \in Seq(AtHome(s))
      /\ txQueue' \in [Shard -> Seq(Entry)] /\ open' \in [Shard -> SUBSET Seq(Entry)]
      /\ \A d \in Shard : open'[d] = IF d = s THEN {a} ELSE open[d]
      /\ \A d \in Shard : txQueue'[d] = IF d = s THEN b ELSE txQueue[d]
    BY Proposed
<1> HIDE DEF a, b
<1>2. UNCHANGED <<state, executed, injects, infos, nowDataNum, sending, handling, brokerVars, measureVars>>
    BY DEF Propose
<1>3. \A d \in Shard : Cardinality(open'[d]) <= 1
  <2>1. Cardinality({a}) = 1
    BY FS_Singleton
  <2>2. \A d \in Shard : Cardinality(open[d]) <= 1
    BY DEF TypeInv, TypeOK
  <2>3. \A d \in Shard : open'[d] = {a} \/ open'[d] = open[d]
    BY <1>1
  <2>4. \A d \in Shard : Cardinality(open'[d]) = 1 \/ Cardinality(open'[d]) = Cardinality(open[d])
    BY <2>1, <2>3, Zenon
  <2> QED BY <2>2, <2>4
<1>4. TypeOK'
    BY <1>1, <1>2, <1>3 DEF TypeInv, TypeOK, brokerVars, measureVars
<1>5. Located'
  <2>1. \A d \in Shard : txQueue'[d] \in Seq(AtHome(d)) /\ open'[d] \subseteq Seq(AtHome(d))
    BY <1>1 DEF TypeInv, Located
  <2> QED BY <1>2, <2>1 DEF TypeInv, Located
<1>6. \A d \in Shard : open'[d] = {} \/ \E body \in open'[d] : open'[d] = {body}
    BY <1>1 DEF TypeInv
<1> QED BY <1>2, <1>4, <1>5, <1>6 DEF TypeInv

\* What committing a block does.
LEMMA Committed ==
    ASSUME TypeInv, NEW s \in Shard, HandleinCommit(s)
    PROVE  \E body \in Seq(AtHome(s)) :
             /\ open[s] = {body} /\ body \in Seq(Legit) /\ body \in Seq(Entry)
             /\ open' \in [Shard -> SUBSET Seq(Entry)]
             /\ \A d \in Shard : open'[d] = IF d = s THEN {} ELSE open[d]
             /\ state' \in [Shard -> [Account -> Nat]]
             /\ \A d \in Shard : state'[d] = IF d = s THEN GetUpdateStatusTrie(s, body) ELSE state[d]
             /\ executed' \in [Entry -> Nat]
             /\ \A e \in Entry : executed'[e] = executed[e] + Occurrences(e, body)
             /\ infos' = infos \cup {BlockInfo(body)}
<1>1. PICK body \in open[s] :
        /\ state' = [state EXCEPT ![s] = GetUpdateStatusTrie(s, body)]
        /\ executed' = [e \in Entry |-> executed[e] + Occurrences(e, body)]
        /\ infos' = infos \cup {BlockInfo(body)}
    BY DEF HandleinCommit
<1>2. open' = [open EXCEPT ![s] = {}]
    BY DEF HandleinCommit
<1>3. /\ open \in [Shard -> SUBSET Seq(Entry)] /\ state \in [Shard -> [Account -> Nat]]
      /\ executed \in [Entry -> Nat] /\ open[s] \subseteq Seq(AtHome(s)) /\ state[s] \in [Account -> Nat]
    BY DEF TypeInv, TypeOK, Located
<1>4. open[s] = {body}
    BY <1>1 DEF TypeInv
<1>5. body \in Seq(AtHome(s))
    BY <1>1, <1>3
<1>6. body \in Seq(Legit) /\ body \in Seq(Entry)
    BY <1>5, LegitFacts, SeqMonotonic
<1>7. GetUpdateStatusTrie(s, body) \in [Account -> Nat]
    BY <1>3, <1>6, TrieType
<1>8. \A e : Occurrences(e, body) \in Nat
    BY <1>6, OccurrencesUpto
<1>9. open' \in [Shard -> SUBSET Seq(Entry)] /\ \A d \in Shard : open'[d] = IF d = s THEN {} ELSE open[d]
    BY <1>2, <1>3
<1>10. /\ state' \in [Shard -> [Account -> Nat]]
       /\ \A d \in Shard : state'[d] = IF d = s THEN GetUpdateStatusTrie(s, body) ELSE state[d]
    BY <1>1, <1>3, <1>7
<1>11. executed' \in [Entry -> Nat] /\ \A e \in Entry : executed'[e] = executed[e] + Occurrences(e, body)
    BY <1>1, <1>3, <1>8
<1> QED BY <1>1, <1>4, <1>5, <1>6, <1>9, <1>10, <1>11

LEMMA TypeInvCommit == ASSUME TypeInv, NEW s \in Shard, HandleinCommit(s) PROVE TypeInv'
<1>1. PICK body \in Seq(AtHome(s)) :
             /\ open[s] = {body} /\ body \in Seq(Legit) /\ body \in Seq(Entry)
             /\ open' \in [Shard -> SUBSET Seq(Entry)]
             /\ \A d \in Shard : open'[d] = IF d = s THEN {} ELSE open[d]
             /\ state' \in [Shard -> [Account -> Nat]]
             /\ \A d \in Shard : state'[d] = IF d = s THEN GetUpdateStatusTrie(s, body) ELSE state[d]
             /\ executed' \in [Entry -> Nat]
             /\ \A e \in Entry : executed'[e] = executed[e] + Occurrences(e, body)
             /\ infos' = infos \cup {BlockInfo(body)}
    BY Committed
<1>2. FineInfo(BlockInfo(body))
    BY <1>1, BlockInfoFacts
<1>3. BlockInfo(body) \in BlockInfoMsg
    BY <1>2 DEF FineInfo
<1>4. UNCHANGED <<txQueue, injects, nowDataNum, sending, handling, brokerVars, measureVars>>
    BY DEF HandleinCommit
<1>5. \A d \in Shard : Cardinality(open'[d]) <= 1
  <2>1. Cardinality({}) = 0
    BY FS_EmptySet
  <2>2. \A d \in Shard : Cardinality(open[d]) <= 1
    BY DEF TypeInv, TypeOK
  <2>3. \A d \in Shard : open'[d] = {} \/ open'[d] = open[d]
    BY <1>1
  <2>4. \A d \in Shard : Cardinality(open'[d]) = 0 \/ Cardinality(open'[d]) = Cardinality(open[d])
    BY <2>1, <2>3, Zenon
  <2> QED BY <2>2, <2>4
<1>6. TypeOK'
    BY <1>1, <1>3, <1>4, <1>5 DEF TypeInv, TypeOK, brokerVars, measureVars
<1>7. Located'
  <2>1. \A d \in Shard : open'[d] \subseteq Seq(AtHome(d))
    BY <1>1 DEF TypeInv, Located
  <2> QED BY <1>1, <1>2, <1>4, <2>1 DEF TypeInv, Located
<1>8. \A d \in Shard : open'[d] = {} \/ \E x \in open'[d] : open'[d] = {x}
    BY <1>1 DEF TypeInv
<1>9. IsFiniteSet(infos')
    BY <1>1, FS_AddElement DEF TypeInv
<1> QED BY <1>4, <1>6, <1>7, <1>8, <1>9 DEF TypeInv

Worked(h, es) == [h EXCEPT !.tx2s = es]

LEMMA WorkFacts ==
    /\ \A b, x, y : /\ [info |-> b, tx2s |-> x, confirm2s |-> y].info = b
                    /\ [info |-> b, tx2s |-> x, confirm2s |-> y].tx2s = x
                    /\ [info |-> b, tx2s |-> x, confirm2s |-> y].confirm2s = y
    /\ \A b, x, y : /\ FineInfo(b) /\ x \in Seq(Halves("tx2")) /\ y \in Seq(Halves("tx2"))
                    => FineWork([info |-> b, tx2s |-> x, confirm2s |-> y])
    /\ \A h, es : h \in Work => /\ Worked(h, es).info = h.info /\ Worked(h, es).tx2s = es
                                /\ Worked(h, es).confirm2s = h.confirm2s
                                /\ es \in Seq(Entry) => Worked(h, es) \in Work
<1>1. \A x : x \in Seq(Halves("tx2")) => x \in Seq(Entry)
    BY LegitFacts, SeqMonotonic
<1>2. \A b, x, y : /\ [info |-> b, tx2s |-> x, confirm2s |-> y].info = b
                   /\ [info |-> b, tx2s |-> x, confirm2s |-> y].tx2s = x
                   /\ [info |-> b, tx2s |-> x, confirm2s |-> y].confirm2s = y
    OBVIOUS
<1>3. ASSUME NEW b, NEW x, NEW y, FineInfo(b), x \in Seq(Halves("tx2")), y \in Seq(Halves("tx2"))
      PROVE  FineWork([info |-> b, tx2s |-> x, confirm2s |-> y])
  <2>1. b \in BlockInfoMsg /\ x \in Seq(Entry) /\ y \in Seq(Entry)
    BY <1>1, <1>3 DEF FineInfo
  <2> QED BY <1>3, <2>1 DEF FineWork, Work
<1>4. ASSUME NEW h \in Work, NEW es
      PROVE  /\ Worked(h, es).info = h.info /\ Worked(h, es).tx2s = es
             /\ Worked(h, es).confirm2s = h.confirm2s
             /\ es \in Seq(Entry) => Worked(h, es) \in Work
    BY DEF Worked, Work
<1> QED BY <1>2, <1>3, <1>4

\* What looking at a report does.
LEMMA Looked ==
    ASSUME TypeInv, NEW b \in infos, HandleBlockInfo(b)
    PROVE  LET x == Confirm1s(b, brokerConfirm1Pool, BrokerRawMegs)
               y == Confirm2s(b, brokerConfirm2Pool)
           IN  /\ handling = {} /\ FineInfo(b)
               /\ x \in Seq(Halves("tx1")) /\ y \in Seq(Halves("tx2")) /\ Seconds(x) \in Seq(Halves("tx2"))
               /\ handling' = {[info |-> b, tx2s |-> Seconds(x), confirm2s |-> y]}
               /\ infos' = infos \ {b}
               /\ RawTx2BrokerTx' = Record(RawTx2BrokerTx, x)
               /\ brokerConfirm2Pool' = brokerConfirm2Pool \cup Range(Seconds(x))
<1> DEFINE x == Confirm1s(b, brokerConfirm1Pool, BrokerRawMegs)
           y == Confirm2s(b, brokerConfirm2Pool)
<1>1. FineInfo(b)
    BY DEF TypeInv, Located
<1>2. BrokerRawMegs \in SUBSET TxID /\ brokerConfirm1Pool \in SUBSET [raw : TxID, part : {"tx1"}]
      /\ brokerConfirm2Pool \in SUBSET [raw : TxID, part : {"tx2"}]
    BY DEF TypeInv, TypeOK
<1>3. x \in Seq(Halves("tx1")) /\ y \in Seq(Halves("tx2"))
    BY <1>1, <1>2, ReportFacts
<1>4. /\ handling = {} /\ infos' = infos \ {b}
      /\ handling' = handling \cup {[info |-> b, tx2s |-> Seconds(x), confirm2s |-> y]}
      /\ RawTx2BrokerTx' = Record(RawTx2BrokerTx, x)
      /\ brokerConfirm2Pool' = brokerConfirm2Pool \cup Range(Seconds(x))
    BY Zenon DEF HandleBlockInfo, TcpLockFree, Confirm1s, Confirm2s, Seconds, Txs, Register
<1> HIDE DEF x, y
<1>5. Seconds(x) \in Seq(Halves("tx2"))
    BY <1>3, SecondsFacts
<1>6. handling' = {[info |-> b, tx2s |-> Seconds(x), confirm2s |-> y]}
    BY <1>4
<1> QED BY <1>1, <1>3, <1>4, <1>5, <1>6 DEF x, y

LEMMA RecordType ==
    ASSUME NEW r \in [TxID -> Seq(Entry)], NEW es \in Seq(Entry)
    PROVE  Record(r, es) \in [TxID -> Seq(Entry)]
<1>1. ASSUME NEW t \in TxID PROVE r[t] \o Keep(es, HalvesOf(t)) \in Seq(Entry)
  <2>1. Keep(es, HalvesOf(t)) \in Seq(Entry \cap HalvesOf(t)) /\ Entry \cap HalvesOf(t) \subseteq Entry
    BY KeepFacts
  <2>2. Keep(es, HalvesOf(t)) \in Seq(Entry)
    BY <2>1, SeqMonotonic
  <2>3. r[t] \in Seq(Entry)
    OBVIOUS
  <2> QED BY <2>2, <2>3, ConcatProperties
<1> QED BY <1>1 DEF Record

LEMMA OneWork ==
    ASSUME NEW h, FineWork(h), handling' = {h}
    PROVE  /\ handling' \subseteq Work /\ Cardinality(handling') <= 1
           /\ \A g \in handling' : FineWork(g)
           /\ \E g \in handling' : handling' = {g}
<1>1. Cardinality({h}) = 1
    BY FS_Singleton
<1>2. Cardinality(handling') = 1
    BY <1>1, Zenon
<1> QED BY <1>2 DEF FineWork

LEMMA TypeInvInfo == ASSUME TypeInv, NEW b \in infos, HandleBlockInfo(b) PROVE TypeInv'
<1> DEFINE x == Confirm1s(b, brokerConfirm1Pool, BrokerRawMegs)
           y == Confirm2s(b, brokerConfirm2Pool)
           h == [info |-> b, tx2s |-> Seconds(x), confirm2s |-> y]
<1>1. /\ handling = {} /\ FineInfo(b)
      /\ x \in Seq(Halves("tx1")) /\ y \in Seq(Halves("tx2")) /\ Seconds(x) \in Seq(Halves("tx2"))
      /\ handling' = {h}
      /\ infos' = infos \ {b}
      /\ RawTx2BrokerTx' = Record(RawTx2BrokerTx, x)
      /\ brokerConfirm2Pool' = brokerConfirm2Pool \cup Range(Seconds(x))
    BY Looked
<1> HIDE DEF x, y
<1>2. FineWork(h)
    BY <1>1, WorkFacts
<1> HIDE DEF h
<1>3. /\ handling' \subseteq Work /\ Cardinality(handling') <= 1
      /\ \A g \in handling' : FineWork(g)
      /\ \E g \in handling' : handling' = {g}
    BY <1>1, <1>2, OneWork
<1>4. x \in Seq(Entry)
    BY <1>1, LegitFacts, SeqMonotonic
<1>5. RawTx2BrokerTx' \in [TxID -> Seq(Entry)]
    BY <1>1, <1>4, RecordType DEF TypeInv, TypeOK
<1>6. brokerConfirm2Pool' \subseteq [raw : TxID, part : {"tx2"}]
  <2>1. Range(Seconds(x)) \subseteq Halves("tx2")
    BY <1>1 DEF Range
  <2>2. Halves("tx2") \subseteq [raw : TxID, part : {"tx2"}]
    BY DEF Halves, Legit, Entry
  <2> QED BY <1>1, <2>1, <2>2 DEF TypeInv, TypeOK
<1>7. UNCHANGED <<shardVars, injects, nowDataNum, sending, BrokerRawMegs, brokerConfirm1Pool, measureVars>>
    BY DEF HandleBlockInfo
<1>8. IsFiniteSet(infos')
    BY <1>1, FS_RemoveElement DEF TypeInv
<1>9. TypeOK'
    BY <1>1, <1>3, <1>5, <1>6, <1>7 DEF TypeInv, TypeOK, Work, shardVars, measureVars
<1>10. Located'
    BY <1>1, <1>3, <1>7 DEF TypeInv, Located, shardVars
<1> QED BY <1>3, <1>7, <1>8, <1>9, <1>10 DEF TypeInv, shardVars

LEMMA HandlingIs ==
    ASSUME TypeInv, NEW h \in handling
    PROVE  handling = {h} /\ h \in Work /\ FineWork(h)
BY DEF TypeInv, Located, FineWork

LEMMA TypeInvSending2 == ASSUME TypeInv, NEW h \in handling, TxSending2(h) PROVE TypeInv'
<1> DEFINE q == Tail(h.tx2s)
           g == Worked(h, q)
<1>1. handling = {h} /\ h \in Work /\ FineWork(h)
    BY HandlingIs
<1>2. h.tx2s # <<>> /\ Inject(Head(h.tx2s)) /\ handling' = (handling \ {h}) \cup {g}
    BY DEF TxSending2, Worked
<1>3. h.tx2s \in Seq(Halves("tx2")) /\ h.confirm2s \in Seq(Halves("tx2")) /\ FineInfo(h.info)
    BY <1>1 DEF FineWork
<1>4. Head(h.tx2s) \in Legit /\ q \in Seq(Halves("tx2"))
    BY <1>2, <1>3, OccurrencesTail, LegitFacts
<1> HIDE DEF q
<1>5. q \in Seq(Entry)
    BY <1>4, LegitFacts, SeqMonotonic
<1>6. FineWork(g)
  <2>1. g.info = h.info /\ g.tx2s = q /\ g.confirm2s = h.confirm2s /\ g \in Work
    BY <1>1, <1>5, WorkFacts
  <2> QED BY <1>3, <1>4, <2>1 DEF FineWork
<1> HIDE DEF g
<1>7. handling' = {g}
    BY <1>1, <1>2
<1>8. /\ handling' \subseteq Work /\ Cardinality(handling') <= 1
      /\ \A k \in handling' : FineWork(k)
      /\ \E k \in handling' : handling' = {k}
    BY <1>6, <1>7, OneWork
<1>9. /\ injects' \subseteq [to : Shard, tx : Entry] /\ IsFiniteSet(injects')
      /\ \A m \in injects' : m.tx \in AtHome(m.to)
    BY <1>2, <1>4, Injected
<1>10. UNCHANGED <<shardVars, infos, nowDataNum, sending, brokerVars, measureVars>>
    BY DEF TxSending2
<1>11. TypeOK'
    BY <1>8, <1>9, <1>10 DEF TypeInv, TypeOK, Work, shardVars, brokerVars, measureVars
<1>12. Located'
    BY <1>8, <1>9, <1>10 DEF TypeInv, Located, shardVars
<1> QED BY <1>8, <1>9, <1>10, <1>11, <1>12 DEF TypeInv, shardVars

LEMMA TypeInvConfirm2 == ASSUME TypeInv, NEW h \in handling, HandleTx2ConfirmMag(h) PROVE TypeInv'
<1>1. handling = {h} /\ h \in Work /\ FineWork(h)
    BY HandlingIs
<1>2. h.confirm2s \in Seq(Halves("tx2")) /\ FineInfo(h.info)
    BY <1>1 DEF FineWork
<1>3. h.confirm2s \in Seq(Entry)
    BY <1>2, LegitFacts, SeqMonotonic
<1>4. /\ h.info.inner \in Seq(Entry) /\ h.info.broker1 \in Seq(Entry) /\ h.info.broker2 \in Seq(Entry)
      /\ h.info.broker1 \in Seq(Halves("tx1"))
    BY <1>2 DEF FineInfo, BlockInfoMsg
<1>5. RawTx2BrokerTx' = Record(RawTx2BrokerTx, h.confirm2s) /\ handling' = handling \ {h}
      /\ UpdateMeasureRecord(h.info)
    BY DEF HandleTx2ConfirmMag
<1>6. RawTx2BrokerTx' \in [TxID -> Seq(Entry)]
    BY <1>3, <1>5, RecordType DEF TypeInv, TypeOK
<1>7. txNum' \in [{"normal", "broker1", "broker2"} -> Nat]
  <2>1. txNum.normal \in Nat /\ txNum.broker1 \in Nat /\ txNum.broker2 \in Nat
    BY DEF TypeInv, TypeOK
  <2>2. Len(h.info.inner) \in Nat /\ Len(h.info.broker1) \in Nat /\ Len(h.info.broker2) \in Nat
    BY <1>4
  <2>3. txNum' = [normal |-> txNum.normal + Len(h.info.inner), broker1 |-> txNum.broker1 + Len(h.info.broker1),
                  broker2 |-> txNum.broker2 + Len(h.info.broker2)]
    BY <1>5 DEF UpdateMeasureRecord
  <2> QED BY <2>1, <2>2, <2>3
<1>8. brokerTxMap' \subseteq TxID
  <2>1. RawOf(h.info.broker1) \subseteq TxID
    BY <1>4, PartFacts DEF RawOf
  <2> QED BY <1>5, <2>1 DEF UpdateMeasureRecord, TypeInv, TypeOK
<1>9. handling' = {} /\ Cardinality(handling') <= 1
  <2>1. handling' = {}
    BY <1>1, <1>5
  <2>2. Cardinality(handling') = 0
    BY <2>1, FS_EmptySet, Zenon
  <2> QED BY <2>1, <2>2
<1>10. UNCHANGED <<shardVars, injects, infos, nowDataNum, sending, BrokerRawMegs, brokerConfirm1Pool, brokerConfirm2Pool>>
    BY DEF HandleTx2ConfirmMag
<1>11. TypeOK'
    BY <1>6, <1>7, <1>8, <1>9, <1>10 DEF TypeInv, TypeOK, shardVars
<1>12. Located'
    BY <1>9, <1>10 DEF TypeInv, Located, shardVars
<1> QED BY <1>9, <1>10, <1>11, <1>12 DEF TypeInv, shardVars

LEMMA TypeInvNext == ASSUME TypeInv, [Next]_vars PROVE TypeInv'
<1>1. CASE UNCHANGED vars
  <2>1. TypeOK'
    BY <1>1 DEF TypeInv, TypeOK, vars, shardVars, brokerVars, measureVars
  <2>2. Located'
    BY <1>1 DEF TypeInv, Located, vars, shardVars
  <2> QED BY <1>1, <2>1, <2>2 DEF TypeInv, vars, shardVars
<1>2. CASE Next
    BY <1>2, TypeInvDeal, TypeInvSending, TypeInvInject, TypeInvPropose, TypeInvCommit, TypeInvInfo,
       TypeInvSending2, TypeInvConfirm2 DEF Next
<1> QED BY <1>1, <1>2

LEMMA TypeInvariant == Spec => []TypeInv
<1>1. Init => TypeInv
    BY TypeInvInit
<1>2. TypeInv /\ [Next]_vars => TypeInv'
    BY TypeInvNext
<1> QED BY <1>1, <1>2, PTL DEF Spec

\* The variables keep their types; no transaction takes a balance below zero
\* (GetUpdateStatusTrie), and one report is handled at a time (tcpLock).
THEOREM TypeCorrect == Spec => []TypeOK
<1>1. TypeInv => TypeOK
    BY DEF TypeInv
<1> QED BY <1>1, TypeInvariant, PTL

-----------------------------------------------------------------------------
(* Counting. *)

InInjects(I, e) == Cardinality({m \in I : m.tx = e})
InHands(H, e) == SumFunction([h \in H |-> Occurrences(e, h.tx2s)])
InPools(Q, e) == SumFunction([s \in Shard |-> Occurrences(e, Q[s])])
InBlock(B, e) == SumFunction([body \in B |-> Occurrences(e, body)])
InOpen(O, e) == SumFunction([s \in Shard |-> InBlock(O[s], e)])
InReports(R, e) == Cardinality({b \in R : e \in Range(b.broker1)})

LEMMA PendingIs ==
    ASSUME NEW e
    PROVE  Pending(e) = InInjects(injects, e) + Occurrences(e, sending) + InHands(handling, e)
                        + InPools(txQueue, e) + InOpen(open, e)
BY DEF Pending, InInjects, InHands, InPools, InOpen, InBlock

\* The same of the next state, for an entry that does not depend on the state.
LEMMA PendingNext ==
    ASSUME NEW CONSTANT e
    PROVE  Pending(e)' = InInjects(injects', e) + Occurrences(e, sending') + InHands(handling', e)
                         + InPools(txQueue', e) + InOpen(open', e)
BY DEF Pending, InInjects, InHands, InPools, InOpen, InBlock

LEMMA InjectsAdd ==
    ASSUME NEW I, IsFiniteSet(I), NEW m, NEW e
    PROVE  /\ InInjects(I, e) \in Nat
           /\ m \notin I => InInjects(I \cup {m}, e) = InInjects(I, e) + One(m.tx, e)
           /\ InInjects(I, e) = 0 <=> \A k \in I : k.tx # e
<1> DEFINE C == {k \in I : k.tx = e}
<1>1. IsFiniteSet(C)
    BY FS_Subset
<1>2. Cardinality(C) \in Nat /\ (Cardinality(C) = 0 <=> C = {})
    BY <1>1, FS_CardinalityType, FS_EmptySet
<1>3. InInjects(I, e) = Cardinality(C)
    BY DEF InInjects
<1>4. C = {} <=> \A k \in I : k.tx # e
    OBVIOUS
<1>5. ASSUME m \notin I PROVE InInjects(I \cup {m}, e) = InInjects(I, e) + One(m.tx, e)
  <2> DEFINE D == {k \in I \cup {m} : k.tx = e}
  <2>1. CASE m.tx = e
    <3>1. D = C \cup {m} /\ m \notin C
      BY <1>5, <2>1
    <3> HIDE DEF C, D
    <3>2. Cardinality(C \cup {m}) = Cardinality(C) + 1
      BY <1>1, <3>1, FS_AddElement
    <3> QED BY <1>3, <2>1, <3>1, <3>2 DEF InInjects, One, D
  <2>2. CASE m.tx # e
    <3>1. D = C
      BY <2>2
    <3> HIDE DEF C, D
    <3>2. Cardinality(D) = Cardinality(C)
      BY <3>1, Zenon
    <3> QED BY <1>2, <1>3, <2>2, <3>2 DEF InInjects, One, D
  <2> QED BY <2>1, <2>2
<1> HIDE DEF C
<1> QED BY <1>2, <1>3, <1>4, <1>5

LEMMA HandsAre ==
    ASSUME NEW e
    PROVE  /\ InHands({}, e) = 0
           /\ \A h : Occurrences(e, h.tx2s) \in Nat => InHands({h}, e) = Occurrences(e, h.tx2s)
<1>1. InHands({}, e) = 0
  <2>1. InHands({}, e) = SumFunctionOnSet([h \in {} |-> Occurrences(e, h.tx2s)], {})
    BY DEF InHands, SumFunction
  <2> QED BY <2>1, SumEmpty
<1>2. ASSUME NEW h, Occurrences(e, h.tx2s) \in Nat PROVE InHands({h}, e) = Occurrences(e, h.tx2s)
  <2> DEFINE f == [g \in {h} |-> Occurrences(e, g.tx2s)]
  <2>1. InHands({h}, e) = SumFunctionOnSet(f, {h})
    BY DEF InHands, SumFunction
  <2>2. f[h] = Occurrences(e, h.tx2s) /\ h \in {h} /\ \A y \in {h} \ {h} : f[y] = 0
    OBVIOUS
  <2>3. IsFiniteSet({h})
    BY FS_Singleton
  <2> HIDE DEF f
  <2> QED BY <1>2, <2>1, <2>2, <2>3, SumSingle
<1> QED BY <1>1, <1>2

Lists(Q) == \A s \in Shard : Q[s] \in Seq(Entry)
Elsewhere(Q, R, s) == \A d \in Shard \ {s} : R[d] = Q[d]
OneOpen(O) == \A s \in Shard : O[s] = {} \/ \E body \in Seq(Entry) : O[s] = {body}

LEMMA PoolsChange ==
    ASSUME NEW Q, NEW R, Lists(Q), Lists(R), NEW s \in Shard, Elsewhere(Q, R, s), NEW e
    PROVE  /\ InPools(R, e) = InPools(Q, e) - Occurrences(e, Q[s]) + Occurrences(e, R[s])
           /\ InPools(Q, e) \in Nat /\ Occurrences(e, Q[s]) \in Nat /\ Occurrences(e, R[s]) \in Nat
<1> DEFINE f == [d \in Shard |-> Occurrences(e, Q[d])]
           g == [d \in Shard |-> Occurrences(e, R[d])]
<1>1. \A d \in Shard : f[d] \in Nat /\ g[d] \in Nat
    BY OccurrencesUpto DEF Lists
<1>2. \A d \in Shard \ {s} : g[d] = f[d]
    BY DEF Elsewhere
<1>3. InPools(Q, e) = SumFunctionOnSet(f, Shard) /\ InPools(R, e) = SumFunctionOnSet(g, Shard)
    BY DEF InPools, SumFunction
<1>4. f[s] = Occurrences(e, Q[s]) /\ g[s] = Occurrences(e, R[s])
    OBVIOUS
<1>5. IsFiniteSet(Shard)
    BY BrokerAssumption
<1> HIDE DEF f, g
<1>6. SumFunctionOnSet(g, Shard) = SumFunctionOnSet(f, Shard) - f[s] + g[s]
  <2>1. \A d \in Shard : f[d] \in Int /\ g[d] \in Int
    BY <1>1
  <2> QED BY <1>2, <1>5, <2>1, SumChange
<1>7. SumFunctionOnSet(f, Shard) \in Nat
    BY <1>1, <1>5, SumNat
<1> QED BY <1>1, <1>3, <1>4, <1>6, <1>7

LEMMA InBlockIs ==
    ASSUME NEW e
    PROVE  /\ InBlock({}, e) = 0
           /\ \A body \in Seq(Entry) : InBlock({body}, e) = Occurrences(e, body) /\ Occurrences(e, body) \in Nat
<1>1. InBlock({}, e) = 0
  <2>1. InBlock({}, e) = SumFunctionOnSet([body \in {} |-> Occurrences(e, body)], {})
    BY DEF InBlock, SumFunction
  <2> QED BY <2>1, SumEmpty
<1>2. ASSUME NEW body \in Seq(Entry)
      PROVE  InBlock({body}, e) = Occurrences(e, body) /\ Occurrences(e, body) \in Nat
  <2> DEFINE f == [x \in {body} |-> Occurrences(e, x)]
  <2>1. InBlock({body}, e) = SumFunctionOnSet(f, {body})
    BY DEF InBlock, SumFunction
  <2>2. f[body] = Occurrences(e, body) /\ body \in {body} /\ \A y \in {body} \ {body} : f[y] = 0
    OBVIOUS
  <2>3. IsFiniteSet({body})
    BY FS_Singleton
  <2>4. Occurrences(e, body) \in Nat
    BY OccurrencesUpto
  <2> HIDE DEF f
  <2> QED BY <2>1, <2>2, <2>3, <2>4, SumSingle
<1> QED BY <1>1, <1>2

LEMMA OpenChange ==
    ASSUME NEW O, NEW P, OneOpen(O), OneOpen(P), NEW s \in Shard, Elsewhere(O, P, s), NEW e
    PROVE  /\ InOpen(P, e) = InOpen(O, e) - InBlock(O[s], e) + InBlock(P[s], e)
           /\ InOpen(O, e) \in Nat /\ InBlock(O[s], e) \in Nat /\ InBlock(P[s], e) \in Nat
           /\ InBlock(O[s], e) <= InOpen(O, e)
<1> DEFINE f == [d \in Shard |-> InBlock(O[d], e)]
           g == [d \in Shard |-> InBlock(P[d], e)]
<1>1. \A d \in Shard : InBlock(O[d], e) \in Nat /\ InBlock(P[d], e) \in Nat
  <2>1. ASSUME NEW B, B = {} \/ \E body \in Seq(Entry) : B = {body} PROVE InBlock(B, e) \in Nat
    <3>1. InBlock({}, e) = 0 /\ 0 \in Nat
      BY InBlockIs
    <3>2. \A body \in Seq(Entry) : InBlock({body}, e) \in Nat
      BY InBlockIs
    <3> QED BY <2>1, <3>1, <3>2, Zenon
  <2> QED BY <2>1 DEF OneOpen
<1>2. \A d \in Shard \ {s} : g[d] = f[d]
    BY DEF Elsewhere
<1>3. InOpen(O, e) = SumFunctionOnSet(f, Shard) /\ InOpen(P, e) = SumFunctionOnSet(g, Shard)
    BY DEF InOpen, SumFunction
<1>4. f[s] = InBlock(O[s], e) /\ g[s] = InBlock(P[s], e)
    OBVIOUS
<1>5. IsFiniteSet(Shard) /\ \A d \in Shard : f[d] \in Nat /\ g[d] \in Nat
    BY <1>1, BrokerAssumption
<1> HIDE DEF f, g
<1>6. SumFunctionOnSet(g, Shard) = SumFunctionOnSet(f, Shard) - f[s] + g[s]
  <2>1. \A d \in Shard : f[d] \in Int /\ g[d] \in Int
    BY <1>5
  <2> QED BY <1>2, <1>5, <2>1, SumChange
<1>7. SumFunctionOnSet(f, Shard) \in Nat /\ f[s] <= SumFunctionOnSet(f, Shard)
    BY <1>5, SumNat
<1> QED BY <1>1, <1>3, <1>4, <1>6, <1>7

\* The counts are numbers.
LEMMA CountsAreNat ==
    ASSUME TypeInv, NEW e \in Entry
    PROVE  /\ InInjects(injects, e) \in Nat /\ Occurrences(e, sending) \in Nat
           /\ InHands(handling, e) \in Nat /\ InPools(txQueue, e) \in Nat /\ InOpen(open, e) \in Nat
           /\ executed[e] \in Nat /\ Pending(e) \in Nat
           /\ Lists(txQueue) /\ OneOpen(open)
<1>1. InInjects(injects, e) \in Nat
    BY InjectsAdd DEF TypeInv
<1>2. Occurrences(e, sending) \in Nat
    BY OccurrencesUpto DEF TypeInv, TypeOK
<1>3. InHands(handling, e) \in Nat
  <2>1. CASE handling = {}
    BY <2>1, HandsAre
  <2>2. ASSUME NEW h \in handling PROVE InHands(handling, e) \in Nat
    <3>1. handling = {h} /\ h.tx2s \in Seq(Halves("tx2"))
      BY HandlingIs DEF FineWork
    <3>2. Occurrences(e, h.tx2s) \in Nat
      BY <3>1, OccurrencesUpto
    <3>3. InHands({h}, e) = Occurrences(e, h.tx2s)
      BY <3>2, HandsAre
    <3> QED BY <3>1, <3>2, <3>3, Zenon
  <2> QED BY <2>1, <2>2
<1>4. Destination(e) \in Shard
    BY EntryFacts
<1>5. Lists(txQueue) /\ Elsewhere(txQueue, txQueue, Destination(e)) /\ Elsewhere(open, open, Destination(e))
    BY DEF TypeInv, TypeOK, Lists, Elsewhere
<1>6. OneOpen(open)
    BY DEF TypeInv, TypeOK, OneOpen
<1>7. InPools(txQueue, e) \in Nat
    BY <1>4, <1>5, PoolsChange
<1>8. InOpen(open, e) \in Nat
    BY <1>4, <1>5, <1>6, OpenChange
<1>9. executed[e] \in Nat
    BY DEF TypeInv, TypeOK
<1> QED BY <1>1, <1>2, <1>3, <1>5, <1>6, <1>7, <1>8, <1>9, PendingIs

\* A report more, or less.
LEMMA ReportsAdd ==
    ASSUME NEW R, IsFiniteSet(R), NEW b, NEW e
    PROVE  /\ InReports(R, e) \in Nat
           /\ b \notin R => InReports(R \cup {b}, e) = InReports(R, e) + (IF e \in Range(b.broker1) THEN 1 ELSE 0)
           /\ InReports(R, e) = 0 <=> \A c \in R : e \notin Range(c.broker1)
           /\ e \notin Range(b.broker1) => InReports(R \cup {b}, e) = InReports(R, e)
<1> DEFINE C == {c \in R : e \in Range(c.broker1)}
           D == {c \in R \cup {b} : e \in Range(c.broker1)}
<1>1. IsFiniteSet(C)
    BY FS_Subset
<1>2. Cardinality(C) \in Nat /\ (Cardinality(C) = 0 <=> C = {})
    BY <1>1, FS_CardinalityType, FS_EmptySet
<1>3. InReports(R, e) = Cardinality(C) /\ InReports(R \cup {b}, e) = Cardinality(D)
    BY DEF InReports
<1>4. C = {} <=> \A c \in R : e \notin Range(c.broker1)
    OBVIOUS
<1>5. CASE e \in Range(b.broker1)
  <2>1. ASSUME b \notin R PROVE D = C \cup {b} /\ b \notin C
    BY <1>5, <2>1
  <2> HIDE DEF C, D
  <2>2. ASSUME b \notin R PROVE Cardinality(D) = Cardinality(C) + 1
    <3>1. Cardinality(C \cup {b}) = Cardinality(C) + 1
      BY <1>1, <2>1, <2>2, FS_AddElement
    <3> QED BY <2>1, <2>2, <3>1
  <2> QED BY <1>2, <1>3, <1>4, <1>5, <2>2
<1>6. CASE e \notin Range(b.broker1)
  <2>1. D = C
    BY <1>6
  <2> HIDE DEF C, D
  <2>2. Cardinality(D) = Cardinality(C)
    BY <2>1, Zenon
  <2> QED BY <1>2, <1>3, <1>4, <1>6, <2>2
<1> QED BY <1>5, <1>6

-----------------------------------------------------------------------------
(* Each part once. *)

Known(t, n) == IF t <= n THEN 1 ELSE 0

\* What the counts of a transaction must be: of its parts pending and executed, and
\* of the reports of its first half.
Balanced(t, n, pend1, done1, reports, pend2, done2, pendw, donew) ==
    IF Split(t) THEN /\ pend1 + done1 = Known(t, n)
                     /\ reports + pend2 + done2 = done1
    ELSE pendw + donew = Known(t, n)

Once ==
    \A t \in TxID : Balanced(t, nowDataNum,
                             Pending(Part(t, "tx1")), executed[Part(t, "tx1")], Unconfirmed(t),
                             Pending(Part(t, "tx2")), executed[Part(t, "tx2")],
                             Pending(Part(t, "whole")), executed[Part(t, "whole")])

\* A report names a half once, and what has been read is registered.
InfoOnce ==
    \A b \in infos : \A t \in TxID : /\ Occurrences(Part(t, "tx1"), b.broker1) <= 1
                                     /\ Occurrences(Part(t, "tx2"), b.broker2) <= 1
Registered ==
    \A t \in TxID : Split(t) /\ t <= nowDataNum
                        => t \in BrokerRawMegs /\ Part(t, "tx1") \in brokerConfirm1Pool

OnceInv == TypeInv /\ Once /\ InfoOnce /\ Registered

LEMMA UnconfirmedIs == ASSUME NEW t PROVE Unconfirmed(t) = InReports(infos, Part(t, "tx1"))
BY DEF Unconfirmed, InReports

LEMMA UnconfirmedNext == ASSUME NEW CONSTANT t PROVE Unconfirmed(t)' = InReports(infos', Part(t, "tx1"))
BY DEF Unconfirmed, InReports

\* The counts of one transaction, all numbers.
LEMMA TotalsOf ==
    ASSUME OnceInv, NEW CONSTANT t \in TxID
    PROVE  /\ \A p \in Kinds : /\ Part(t, p) \in Entry
                               /\ Pending(Part(t, p)) \in Nat /\ executed[Part(t, p)] \in Nat
           /\ Unconfirmed(t) \in Nat
           /\ Balanced(t, nowDataNum,
                             Pending(Part(t, "tx1")), executed[Part(t, "tx1")], Unconfirmed(t),
                             Pending(Part(t, "tx2")), executed[Part(t, "tx2")],
                             Pending(Part(t, "whole")), executed[Part(t, "whole")])
           /\ t \in Nat /\ nowDataNum \in Nat
<1>1. ASSUME NEW p \in Kinds PROVE Part(t, p) \in Entry /\ Pending(Part(t, p)) \in Nat /\ executed[Part(t, p)] \in Nat
    BY PartFacts, CountsAreNat DEF OnceInv
<1>2. Unconfirmed(t) \in Nat
    BY UnconfirmedIs, ReportsAdd DEF OnceInv, TypeInv
<1>3. nowDataNum \in Nat /\ t \in Nat
    BY RowFacts DEF OnceInv, TypeInv, TypeOK
<1> QED BY <1>1, <1>2, <1>3 DEF OnceInv, Once

\* A part there is is never pending twice.
LEMMA PendingOne ==
    ASSUME OnceInv, NEW CONSTANT e \in Legit
    PROVE  /\ Pending(e) \in Nat /\ executed[e] \in Nat /\ e \in Entry /\ e.raw \in TxID
           /\ Pending(e) + executed[e] <= 1
           /\ Pending(e) + executed[e] > 0 => e.raw <= nowDataNum
<1> DEFINE t == e.raw
<1>1. e \in Entry /\ t \in TxID
    BY LegitFacts, PartFacts
<1>2. Pending(e) \in Nat /\ executed[e] \in Nat
    BY <1>1, CountsAreNat DEF OnceInv
<1>3. \/ e = Part(t, "whole") /\ ~Split(t)
      \/ e = Part(t, "tx1") /\ Split(t)
      \/ e = Part(t, "tx2") /\ Split(t)
    BY LegitFacts
<1>4. /\ \A p \in Kinds : Pending(Part(t, p)) \in Nat /\ executed[Part(t, p)] \in Nat
      /\ Unconfirmed(t) \in Nat /\ t \in Nat /\ nowDataNum \in Nat
      /\ Balanced(t, nowDataNum,
                             Pending(Part(t, "tx1")), executed[Part(t, "tx1")], Unconfirmed(t),
                             Pending(Part(t, "tx2")), executed[Part(t, "tx2")],
                             Pending(Part(t, "whole")), executed[Part(t, "whole")])
    BY <1>1, TotalsOf
<1> HIDE DEF t
<1>5. /\ Pending(Part(t, "tx1")) \in Nat /\ executed[Part(t, "tx1")] \in Nat
      /\ Pending(Part(t, "tx2")) \in Nat /\ executed[Part(t, "tx2")] \in Nat
      /\ Pending(Part(t, "whole")) \in Nat /\ executed[Part(t, "whole")] \in Nat
    BY <1>4, PartFacts
<1>6. Known(t, nowDataNum) \in {0, 1} /\ (Known(t, nowDataNum) = 1 <=> t <= nowDataNum)
    BY <1>4 DEF Known
<1>7. CASE e = Part(t, "whole") /\ ~Split(t)
    BY <1>1, <1>4, <1>5, <1>6, <1>7 DEF Balanced, t
<1>8. CASE e = Part(t, "tx1") /\ Split(t)
  <2>1. Pending(Part(t, "tx1")) + executed[Part(t, "tx1")] = Known(t, nowDataNum)
    BY <1>4, <1>8 DEF Balanced
  <2>2. /\ Pending(Part(t, "tx1")) + executed[Part(t, "tx1")] <= 1
        /\ Pending(Part(t, "tx1")) + executed[Part(t, "tx1")] > 0 => t <= nowDataNum
    BY <1>4, <1>5, <1>6, <2>1
  <2> QED BY <1>1, <1>2, <1>8, <2>2 DEF t
<1>9. CASE e = Part(t, "tx2") /\ Split(t)
  <2>1. /\ Pending(Part(t, "tx1")) + executed[Part(t, "tx1")] = Known(t, nowDataNum)
        /\ Unconfirmed(t) + Pending(Part(t, "tx2")) + executed[Part(t, "tx2")] = executed[Part(t, "tx1")]
    BY <1>4, <1>9 DEF Balanced
  <2>2. /\ Pending(Part(t, "tx2")) + executed[Part(t, "tx2")] <= 1
        /\ Pending(Part(t, "tx2")) + executed[Part(t, "tx2")] > 0 => t <= nowDataNum
    BY <1>4, <1>5, <1>6, <2>1
  <2> QED BY <1>1, <1>2, <1>9, <2>2 DEF t
<1> QED BY <1>3, <1>7, <1>8, <1>9

LEMMA OnceInit == Init => Once /\ InfoOnce /\ Registered
<1> SUFFICES ASSUME Init PROVE Once /\ InfoOnce /\ Registered
    OBVIOUS
<1>1. /\ txQueue = [s \in Shard |-> <<>>] /\ open = [s \in Shard |-> {}] /\ executed = [e \in Entry |-> 0]
      /\ injects = {} /\ infos = {} /\ nowDataNum = 0 /\ sending = <<>> /\ handling = {}
    BY DEF Init
<1>2. ASSUME NEW e \in Entry PROVE Pending(e) = 0 /\ executed[e] = 0
  <2>1. InInjects(injects, e) = 0
    BY <1>1, FS_EmptySet, InjectsAdd
  <2>2. Occurrences(e, sending) = 0
    BY <1>1, OccurrencesEmpty
  <2>3. InHands(handling, e) = 0
    BY <1>1, HandsAre
  <2>4. InPools(txQueue, e) = 0
    <3> DEFINE f == [d \in Shard |-> Occurrences(e, txQueue[d])]
    <3>1. \A d \in Shard : f[d] = 0
      BY <1>1, OccurrencesEmpty
    <3>2. InPools(txQueue, e) = SumFunctionOnSet(f, Shard)
      BY DEF InPools, SumFunction
    <3> HIDE DEF f
    <3> QED BY <3>1, <3>2, BrokerAssumption, SumNat
  <2>5. InOpen(open, e) = 0
    <3> DEFINE f == [d \in Shard |-> InBlock(open[d], e)]
    <3>1. \A d \in Shard : f[d] = 0
      BY <1>1, InBlockIs
    <3>2. InOpen(open, e) = SumFunctionOnSet(f, Shard)
      BY DEF InOpen, SumFunction
    <3> HIDE DEF f
    <3> QED BY <3>1, <3>2, BrokerAssumption, SumNat
  <2>6. Pending(e) = InInjects(injects, e) + Occurrences(e, sending) + InHands(handling, e)
                     + InPools(txQueue, e) + InOpen(open, e)
    BY PendingIs
  <2>7. Pending(e) = 0
    BY <2>1, <2>2, <2>3, <2>4, <2>5, <2>6
  <2> QED BY <1>1, <2>7
<1>3. ASSUME NEW t \in TxID PROVE Unconfirmed(t) = 0
    BY <1>1, FS_EmptySet, UnconfirmedIs, ReportsAdd
<1>4. ASSUME NEW t \in TxID PROVE Known(t, nowDataNum) = 0 /\ ~(t <= nowDataNum)
    BY <1>1, RowFacts DEF Known
<1>5. \A t \in TxID : Part(t, "tx1") \in Entry /\ Part(t, "tx2") \in Entry /\ Part(t, "whole") \in Entry
    BY PartFacts
<1>6. Once
    BY <1>2, <1>3, <1>4, <1>5 DEF Once, Balanced
<1> QED BY <1>1, <1>4, <1>6 DEF InfoOnce, Registered

\* A step that leaves every count as it was.
LEMMA OnceUnmoved ==
    ASSUME OnceInv, TypeInv', UNCHANGED <<executed, infos, nowDataNum, BrokerRawMegs, brokerConfirm1Pool>>,
           \A e \in Entry : Pending(e)' = Pending(e)
    PROVE  OnceInv'
<1>1. \A t \in TxID : Part(t, "tx1") \in Entry /\ Part(t, "tx2") \in Entry /\ Part(t, "whole") \in Entry
    BY PartFacts
<1>2. Once'
    BY <1>1 DEF OnceInv, Once, Unconfirmed
<1> QED BY <1>2 DEF OnceInv, InfoOnce, Registered

\* What is injected was not on its way.
LEMMA InjectCounts ==
    ASSUME OnceInv, NEW x \in Legit, Inject(x), NEW CONSTANT e \in Entry,
           x = e => InInjects(injects, e) = 0
    PROVE  InInjects(injects', e) = InInjects(injects, e) + One(x, e)
<1> DEFINE m == [to |-> Destination(x), tx |-> x]
<1>1. injects' = injects \cup {m} /\ m.tx = x /\ IsFiniteSet(injects)
    BY DEF Inject, OnceInv, TypeInv
<1> HIDE DEF m
<1>2. CASE x = e
  <2>1. m \notin injects
    BY <1>1, <1>2, InjectsAdd
  <2> QED BY <1>1, <2>1, InjectsAdd
<1>3. CASE x # e
  <2>1. InInjects(injects \cup {m}, e) = InInjects(injects, e)
    <3>1. {k \in injects \cup {m} : k.tx = e} = {k \in injects : k.tx = e}
      BY <1>1, <1>3
    <3> QED BY <3>1, Zenon DEF InInjects
  <2>2. InInjects(injects, e) \in Nat
    BY <1>1, InjectsAdd
  <2> QED BY <1>1, <1>3, <2>1, <2>2 DEF One
<1> QED BY <1>2, <1>3

LEMMA SendingPending ==
    ASSUME OnceInv, TxSending
    PROVE  \A e \in Entry : Pending(e)' = Pending(e)
<1>1. TypeInv /\ TypeInv'
    BY TypeInvSending DEF OnceInv
<1>2. sending # <<>> /\ sending' = Tail(sending) /\ Inject(Head(sending)) /\ sending \in Seq(Legit)
    BY <1>1 DEF TxSending, TypeInv, Located
<1>3. UNCHANGED <<shardVars, infos, nowDataNum, handling, brokerVars, measureVars>>
    BY DEF TxSending
<1> DEFINE x == Head(sending)
<1>4. ASSUME NEW CONSTANT e \in Entry PROVE Pending(e)' = Pending(e)
  <2>1. /\ x \in Legit /\ Occurrences(e, sending) = One(x, e) + Occurrences(e, sending')
        /\ Occurrences(e, sending') \in Nat
    BY <1>2, OccurrencesTail
  <2>2. /\ InInjects(injects, e) \in Nat /\ Occurrences(e, sending) \in Nat
        /\ InHands(handling, e) \in Nat /\ InPools(txQueue, e) \in Nat /\ InOpen(open, e) \in Nat
    BY <1>1, CountsAreNat
  <2>3. Pending(e) = InInjects(injects, e) + Occurrences(e, sending) + InHands(handling, e)
                     + InPools(txQueue, e) + InOpen(open, e)
    BY PendingIs
  <2>4. ASSUME x = e PROVE InInjects(injects, e) = 0
    <3>1. e \in Legit /\ Occurrences(e, sending) > 0
      BY <2>1, <2>4 DEF One
    <3>2. Pending(e) \in Nat /\ executed[e] \in Nat /\ Pending(e) + executed[e] <= 1
      BY <3>1, PendingOne
    <3> QED BY <2>2, <2>3, <3>1, <3>2
  <2> HIDE DEF x
  <2>5. InInjects(injects', e) = InInjects(injects, e) + One(x, e)
    BY <1>2, <2>1, <2>4, InjectCounts DEF x
  <2>6. /\ InHands(handling', e) = InHands(handling, e) /\ InPools(txQueue', e) = InPools(txQueue, e)
        /\ InOpen(open', e) = InOpen(open, e)
    BY <1>3, Zenon DEF shardVars
  <2>7. Pending(e)' = InInjects(injects', e) + Occurrences(e, sending') + InHands(handling', e)
                      + InPools(txQueue', e) + InOpen(open', e)
    BY PendingNext
  <2>8. One(x, e) \in Nat
    BY DEF One
  <2> QED BY <2>1, <2>2, <2>3, <2>5, <2>6, <2>7, <2>8
<1> QED BY <1>4

LEMMA OnceSending == ASSUME OnceInv, TxSending PROVE OnceInv'
<1>1. TypeInv'
    BY TypeInvSending DEF OnceInv
<1> QED BY <1>1, SendingPending, OnceUnmoved DEF TxSending, shardVars, brokerVars

LEMMA InjectPending ==
    ASSUME OnceInv, NEW m \in injects, HandleInjectTx(m)
    PROVE  \A e \in Entry : Pending(e)' = Pending(e)
<1>1. TypeInv /\ TypeInv'
    BY TypeInvInject DEF OnceInv
<1>2. /\ m.to \in Shard /\ m.tx \in Entry /\ txQueue \in [Shard -> Seq(Entry)] /\ IsFiniteSet(injects)
      /\ txQueue' \in [Shard -> Seq(Entry)]
    BY <1>1 DEF TypeInv, TypeOK
<1>3. txQueue' = [txQueue EXCEPT ![m.to] = Append(@, m.tx)] /\ injects' = injects \ {m}
    BY DEF HandleInjectTx
<1>4. UNCHANGED <<open, state, executed, infos, nowDataNum, sending, handling, brokerVars, measureVars>>
    BY DEF HandleInjectTx
<1>5. ASSUME NEW CONSTANT e \in Entry PROVE Pending(e)' = Pending(e)
  <2>1. InInjects(injects, e) = InInjects(injects', e) + One(m.tx, e) /\ InInjects(injects', e) \in Nat
    <3>1. IsFiniteSet(injects') /\ m \notin injects' /\ injects = injects' \cup {m}
      BY <1>2, <1>3, FS_RemoveElement
    <3>2. ASSUME NEW I, IsFiniteSet(I), m \notin I
          PROVE  InInjects(I \cup {m}, e) = InInjects(I, e) + One(m.tx, e) /\ InInjects(I, e) \in Nat
      <4>1. /\ InInjects(I, e) \in Nat
            /\ m \notin I => InInjects(I \cup {m}, e) = InInjects(I, e) + One(m.tx, e)
            /\ InInjects(I, e) = 0 <=> \A k \in I : k.tx # e
        BY ONLY IsFiniteSet(I), InjectsAdd
      <4> QED BY <3>2, <4>1
    <3>3. InInjects(injects' \cup {m}, e) = InInjects(injects', e) + One(m.tx, e) /\ InInjects(injects', e) \in Nat
      BY ONLY <3>1, <3>2
    <3> QED BY <3>1, <3>3, Zenon
  <2>2. Lists(txQueue) /\ Lists(txQueue') /\ Elsewhere(txQueue, txQueue', m.to)
    BY <1>2, <1>3 DEF Lists, Elsewhere
  <2>3. /\ InPools(txQueue', e) = InPools(txQueue, e) - Occurrences(e, txQueue[m.to]) + Occurrences(e, txQueue'[m.to])
        /\ InPools(txQueue, e) \in Nat /\ Occurrences(e, txQueue[m.to]) \in Nat
    BY <1>2, <2>2, PoolsChange
  <2>4. txQueue'[m.to] = Append(txQueue[m.to], m.tx) /\ txQueue[m.to] \in Seq(Entry)
    BY <1>2, <1>3
  <2>5. Occurrences(e, Append(txQueue[m.to], m.tx)) = Occurrences(e, txQueue[m.to]) + One(m.tx, e)
    BY <1>2, <2>4, OccurrencesAppend
  <2>6. /\ InHands(handling', e) = InHands(handling, e) /\ Occurrences(e, sending') = Occurrences(e, sending)
        /\ InOpen(open', e) = InOpen(open, e)
    BY <1>4, Zenon
  <2>7. /\ Occurrences(e, sending) \in Nat /\ InHands(handling, e) \in Nat /\ InOpen(open, e) \in Nat
    BY <1>1, CountsAreNat
  <2>8. Pending(e) = InInjects(injects, e) + Occurrences(e, sending) + InHands(handling, e)
                     + InPools(txQueue, e) + InOpen(open, e)
    BY PendingIs
  <2>9. Pending(e)' = InInjects(injects', e) + Occurrences(e, sending') + InHands(handling', e)
                      + InPools(txQueue', e) + InOpen(open', e)
    BY PendingNext
  <2>10. One(m.tx, e) \in Nat
    BY DEF One
  <2>11. InPools(txQueue', e) = InPools(txQueue, e) + One(m.tx, e)
    BY <2>3, <2>4, <2>5, <2>10
  <2> QED BY <2>1, <2>3, <2>6, <2>7, <2>8, <2>9, <2>10, <2>11
<1> QED BY <1>5

LEMMA OnceInject == ASSUME OnceInv, NEW m \in injects, HandleInjectTx(m) PROVE OnceInv'
<1>1. TypeInv'
    BY TypeInvInject DEF OnceInv
<1> QED BY <1>1, InjectPending, OnceUnmoved DEF HandleInjectTx, brokerVars

LEMMA ProposePending ==
    ASSUME OnceInv, NEW s \in Shard, Propose(s)
    PROVE  \A e \in Entry : Pending(e)' = Pending(e)
<1> DEFINE a == Packed(txQueue[s], BlockSize)
           b == Unpacked(txQueue[s], BlockSize)
<1>1. TypeInv /\ TypeInv'
    BY TypeInvPropose DEF OnceInv
<1>2. /\ a \in Seq(AtHome(s)) /\ open[s] = {}
      /\ \A e : Occurrences(e, txQueue[s]) = Occurrences(e, a) + Occurrences(e, b)
      /\ \A d \in Shard : open'[d] = IF d = s THEN {a} ELSE open[d]
      /\ \A d \in Shard : txQueue'[d] = IF d = s THEN b ELSE txQueue[d]
    BY <1>1, Proposed
<1> HIDE DEF a, b
<1>3. UNCHANGED <<state, executed, injects, infos, nowDataNum, sending, handling, brokerVars, measureVars>>
    BY DEF Propose
<1>4. /\ Lists(txQueue) /\ Lists(txQueue') /\ Elsewhere(txQueue, txQueue', s) /\ txQueue'[s] = b
    BY <1>1, <1>2 DEF TypeInv, TypeOK, Lists, Elsewhere
<1>5. /\ OneOpen(open) /\ OneOpen(open') /\ Elsewhere(open, open', s) /\ open'[s] = {a}
  <2>1. OneOpen(open)
    BY <1>1 DEF TypeInv, TypeOK, OneOpen
  <2>2. OneOpen(open')
    BY <1>1 DEF TypeInv, TypeOK, OneOpen
  <2> QED BY <1>2, <2>1, <2>2 DEF Elsewhere
<1>6. a \in Seq(Entry)
    BY <1>2, LegitFacts, SeqMonotonic
<1>7. ASSUME NEW CONSTANT e \in Entry PROVE Pending(e)' = Pending(e)
  <2>1. /\ InPools(txQueue', e) = InPools(txQueue, e) - Occurrences(e, txQueue[s]) + Occurrences(e, txQueue'[s])
        /\ InPools(txQueue, e) \in Nat /\ Occurrences(e, txQueue[s]) \in Nat /\ Occurrences(e, txQueue'[s]) \in Nat
    BY <1>4, PoolsChange
  <2>2. /\ InOpen(open', e) = InOpen(open, e) - InBlock(open[s], e) + InBlock(open'[s], e)
        /\ InOpen(open, e) \in Nat
    BY <1>5, OpenChange
  <2>3. InBlock(open[s], e) = 0
    BY <1>2, InBlockIs, Zenon
  <2>4. InBlock(open'[s], e) = Occurrences(e, a) /\ Occurrences(e, a) \in Nat
    BY <1>5, <1>6, InBlockIs, Zenon
  <2>5. Occurrences(e, txQueue[s]) = Occurrences(e, a) + Occurrences(e, txQueue'[s])
    BY <1>2, <1>4
  <2>6. /\ InHands(handling', e) = InHands(handling, e) /\ Occurrences(e, sending') = Occurrences(e, sending)
        /\ InInjects(injects', e) = InInjects(injects, e)
    BY <1>3, Zenon
  <2>7. /\ Occurrences(e, sending) \in Nat /\ InHands(handling, e) \in Nat /\ InInjects(injects, e) \in Nat
    BY <1>1, CountsAreNat
  <2>8. Pending(e) = InInjects(injects, e) + Occurrences(e, sending) + InHands(handling, e)
                     + InPools(txQueue, e) + InOpen(open, e)
    BY PendingIs
  <2>9. Pending(e)' = InInjects(injects', e) + Occurrences(e, sending') + InHands(handling', e)
                      + InPools(txQueue', e) + InOpen(open', e)
    BY PendingNext
  <2> QED BY <2>1, <2>2, <2>3, <2>4, <2>5, <2>6, <2>7, <2>8, <2>9
<1> QED BY <1>7

LEMMA OncePropose == ASSUME OnceInv, NEW s \in Shard, Propose(s) PROVE OnceInv'
<1>1. TypeInv'
    BY TypeInvPropose DEF OnceInv
<1> QED BY <1>1, ProposePending, OnceUnmoved DEF Propose, brokerVars

LEMMA Sending2Pending ==
    ASSUME OnceInv, NEW h \in handling, TxSending2(h)
    PROVE  \A e \in Entry : Pending(e)' = Pending(e)
<1> DEFINE x == Head(h.tx2s)
           g == Worked(h, Tail(h.tx2s))
<1>1. TypeInv /\ TypeInv'
    BY TypeInvSending2 DEF OnceInv
<1>2. handling = {h} /\ h \in Work /\ FineWork(h)
    BY <1>1, HandlingIs
<1>3. h.tx2s # <<>> /\ Inject(x) /\ handling' = (handling \ {h}) \cup {g} /\ h.tx2s \in Seq(Halves("tx2"))
    BY <1>2 DEF TxSending2, Worked, FineWork
<1>4. g.tx2s = Tail(h.tx2s) /\ handling' = {g}
  <2>1. g.tx2s = Tail(h.tx2s)
    BY <1>2, WorkFacts
  <2> HIDE DEF g
  <2> QED BY <1>2, <1>3, <2>1
<1>5. UNCHANGED <<shardVars, infos, nowDataNum, sending, brokerVars, measureVars>>
    BY DEF TxSending2
<1> HIDE DEF g
<1>6. ASSUME NEW CONSTANT e \in Entry PROVE Pending(e)' = Pending(e)
  <2>1. /\ x \in Halves("tx2") /\ Occurrences(e, h.tx2s) = One(x, e) + Occurrences(e, g.tx2s)
        /\ Occurrences(e, g.tx2s) \in Nat /\ Occurrences(e, h.tx2s) \in Nat
    BY <1>3, <1>4, OccurrencesTail, OccurrencesUpto
  <2>2. InHands({h}, e) = Occurrences(e, h.tx2s) /\ InHands({g}, e) = Occurrences(e, g.tx2s)
    BY <2>1, HandsAre
  <2>3. InHands(handling, e) = Occurrences(e, h.tx2s) /\ InHands(handling', e) = Occurrences(e, g.tx2s)
    BY <1>2, <1>4, <2>2, Zenon
  <2>4. /\ InInjects(injects, e) \in Nat /\ Occurrences(e, sending) \in Nat
        /\ InPools(txQueue, e) \in Nat /\ InOpen(open, e) \in Nat
    BY <1>1, CountsAreNat
  <2>5. Pending(e) = InInjects(injects, e) + Occurrences(e, sending) + InHands(handling, e)
                     + InPools(txQueue, e) + InOpen(open, e)
    BY PendingIs
  <2>6. x \in Legit
    BY <2>1, LegitFacts
  <2>7. ASSUME x = e PROVE InInjects(injects, e) = 0
    <3>1. e \in Legit /\ One(x, e) = 1
      BY <2>6, <2>7 DEF One
    <3>2. Pending(e) \in Nat /\ executed[e] \in Nat /\ Pending(e) + executed[e] <= 1
      BY <3>1, PendingOne
    <3> QED BY <2>1, <2>3, <2>4, <2>5, <3>1, <3>2
  <2> HIDE DEF x
  <2>8. InInjects(injects', e) = InInjects(injects, e) + One(x, e)
    BY <1>3, <2>6, <2>7, InjectCounts
  <2>9. /\ Occurrences(e, sending') = Occurrences(e, sending) /\ InPools(txQueue', e) = InPools(txQueue, e)
        /\ InOpen(open', e) = InOpen(open, e)
    BY <1>5, Zenon DEF shardVars
  <2>10. Pending(e)' = InInjects(injects', e) + Occurrences(e, sending') + InHands(handling', e)
                      + InPools(txQueue', e) + InOpen(open', e)
    BY PendingNext
  <2>11. One(x, e) \in Nat
    BY DEF One
  <2> QED BY <2>1, <2>3, <2>4, <2>5, <2>8, <2>9, <2>10, <2>11
<1> QED BY <1>6

LEMMA OnceSending2 == ASSUME OnceInv, NEW h \in handling, TxSending2(h) PROVE OnceInv'
<1>1. TypeInv'
    BY TypeInvSending2 DEF OnceInv
<1> QED BY <1>1, Sending2Pending, OnceUnmoved DEF TxSending2, shardVars, brokerVars

LEMMA Confirm2Pending ==
    ASSUME OnceInv, NEW h \in handling, HandleTx2ConfirmMag(h)
    PROVE  \A e \in Entry : Pending(e)' = Pending(e)
<1>1. TypeInv /\ TypeInv'
    BY TypeInvConfirm2 DEF OnceInv
<1>2. handling = {h}
    BY <1>1, HandlingIs
<1>3. handling' = {} /\ h.tx2s = <<>>
    BY <1>2 DEF HandleTx2ConfirmMag
<1>4. UNCHANGED <<shardVars, injects, infos, nowDataNum, sending, BrokerRawMegs, brokerConfirm1Pool, brokerConfirm2Pool>>
    BY DEF HandleTx2ConfirmMag
<1>5. ASSUME NEW CONSTANT e \in Entry PROVE Pending(e)' = Pending(e)
  <2>1. InHands({h}, e) = 0 /\ InHands({}, e) = 0
    <3>1. Occurrences(e, h.tx2s) = 0
      BY <1>3, OccurrencesEmpty
    <3> QED BY <3>1, HandsAre
  <2>2. InHands(handling, e) = InHands(handling', e)
    BY <1>2, <1>3, <2>1, Zenon
  <2>3. /\ Occurrences(e, sending') = Occurrences(e, sending) /\ InPools(txQueue', e) = InPools(txQueue, e)
        /\ InOpen(open', e) = InOpen(open, e) /\ InInjects(injects', e) = InInjects(injects, e)
    BY <1>4, Zenon DEF shardVars
  <2>4. Pending(e)' = InInjects(injects', e) + Occurrences(e, sending') + InHands(handling', e)
                      + InPools(txQueue', e) + InOpen(open', e)
    BY PendingNext
  <2> QED BY <2>2, <2>3, <2>4, PendingIs
<1> QED BY <1>5

LEMMA OnceConfirm2 == ASSUME OnceInv, NEW h \in handling, HandleTx2ConfirmMag(h) PROVE OnceInv'
<1>1. TypeInv'
    BY TypeInvConfirm2 DEF OnceInv
<1> QED BY <1>1, Confirm2Pending, OnceUnmoved DEF HandleTx2ConfirmMag, shardVars

\* The next state's counts, one transaction at a time.
LEMMA OnceFrom ==
    ASSUME \A t \in TxID : Balanced(t, nowDataNum',
                             Pending(Part(t, "tx1"))', executed'[Part(t, "tx1")], Unconfirmed(t)',
                             Pending(Part(t, "tx2"))', executed'[Part(t, "tx2")],
                             Pending(Part(t, "whole"))', executed'[Part(t, "whole")])
    PROVE  Once'
BY DEF Once, Balanced, Known

LEMMA DealPending ==
    ASSUME TypeInv, DealTxByBroker
    PROVE  \A e \in Entry : Pending(e)' = Pending(e) + Occurrences(e, sending')
<1>1. UNCHANGED <<shardVars, injects, infos, handling, brokerConfirm2Pool, RawTx2BrokerTx, measureVars>>
      /\ sending = <<>>
    BY DEF DealTxByBroker
<1>2. TypeInv'
    BY TypeInvDeal
<1>3. ASSUME NEW CONSTANT e \in Entry PROVE Pending(e)' = Pending(e) + Occurrences(e, sending')
  <2>1. Occurrences(e, sending) = 0
    BY <1>1, OccurrencesEmpty
  <2>2. /\ InInjects(injects, e) \in Nat
        /\ InHands(handling, e) \in Nat /\ InPools(txQueue, e) \in Nat /\ InOpen(open, e) \in Nat
    BY CountsAreNat
  <2>3. Pending(e) = InInjects(injects, e) + Occurrences(e, sending) + InHands(handling, e)
                     + InPools(txQueue, e) + InOpen(open, e)
    BY PendingIs
  <2>4. /\ InHands(handling', e) = InHands(handling, e) /\ InPools(txQueue', e) = InPools(txQueue, e)
        /\ InOpen(open', e) = InOpen(open, e) /\ InInjects(injects', e) = InInjects(injects, e)
    BY <1>1, Zenon DEF shardVars
  <2>5. Pending(e)' = InInjects(injects', e) + Occurrences(e, sending') + InHands(handling', e)
                      + InPools(txQueue', e) + InOpen(open', e)
    BY PendingNext
  <2>6. Occurrences(e, sending') \in Nat
    <3>1. sending' \in Seq(Legit)
      BY <1>2 DEF TypeInv, Located
    <3> QED BY <3>1, OccurrencesUpto
  <2> QED BY <2>1, <2>2, <2>3, <2>4, <2>5, <2>6
<1> QED BY <1>3

LEMMA OnceDeal == ASSUME OnceInv, DealTxByBroker PROVE OnceInv'
<1>1. TypeInv /\ TypeInv'
    BY TypeInvDeal DEF OnceInv
<1>2. PICK k \in Nat :
             /\ nowDataNum \in Nat /\ k > 0 /\ nowDataNum + k <= Len(TxList)
             /\ sending = <<>> /\ nowDataNum' = nowDataNum + k
             /\ BrokerRawMegs' = BrokerRawMegs \cup Range(SplitRows(nowDataNum, k))
             /\ brokerConfirm1Pool' = brokerConfirm1Pool \cup Range(Parts(SplitRows(nowDataNum, k), "tx1"))
             /\ sending' = NewTxs(nowDataNum, k)
    BY <1>1, Dealt
<1> DEFINE n == nowDataNum
           q == SplitRows(n, k)
           new == NewTxs(n, k)
           tx1s == Parts(q, "tx1")
<1>3. /\ q \in Seq(TxID) /\ tx1s \in Seq(Halves("tx1")) /\ new \in Seq(Legit)
      /\ \A t \in TxID :
                /\ Occurrences(t, q) = IF Split(t) THEN InBatch(t, n, k) ELSE 0
                /\ Occurrences(Part(t, "tx1"), tx1s) = IF Split(t) THEN InBatch(t, n, k) ELSE 0
                /\ Occurrences(Part(t, "tx1"), new) = IF Split(t) THEN InBatch(t, n, k) ELSE 0
                /\ Occurrences(Part(t, "whole"), new) = IF Split(t) THEN 0 ELSE InBatch(t, n, k)
                /\ Occurrences(Part(t, "tx2"), new) = 0
    BY <1>2, BatchFacts
<1>4. UNCHANGED <<shardVars, injects, infos, handling, brokerConfirm2Pool, RawTx2BrokerTx, measureVars>>
    BY DEF DealTxByBroker
<1>5. sending' = new /\ nowDataNum' = n + k /\ n \in Nat
      /\ BrokerRawMegs' = BrokerRawMegs \cup Range(q) /\ brokerConfirm1Pool' = brokerConfirm1Pool \cup Range(tx1s)
    BY <1>2
<1> HIDE DEF n, q, new, tx1s
<1>6. ASSUME NEW CONSTANT e \in Entry PROVE Pending(e)' = Pending(e) + Occurrences(e, new)
    BY <1>1, <1>5, DealPending
<1>7. ASSUME NEW CONSTANT t \in TxID
      PROVE  Balanced(t, nowDataNum',
                             Pending(Part(t, "tx1"))', executed'[Part(t, "tx1")], Unconfirmed(t)',
                             Pending(Part(t, "tx2"))', executed'[Part(t, "tx2")],
                             Pending(Part(t, "whole"))', executed'[Part(t, "whole")])
  <2> DEFINE a == Part(t, "tx1")
             b == Part(t, "tx2")
             c == Part(t, "whole")
  <2>1. /\ a \in Entry /\ b \in Entry /\ c \in Entry
        /\ Pending(a) \in Nat /\ Pending(b) \in Nat /\ Pending(c) \in Nat
        /\ executed[a] \in Nat /\ executed[b] \in Nat /\ executed[c] \in Nat /\ Unconfirmed(t) \in Nat /\ t \in Nat
        /\ Balanced(t, nowDataNum, Pending(a), executed[a], Unconfirmed(t), Pending(b), executed[b], Pending(c), executed[c])
    BY PartFacts, TotalsOf
  <2>2. executed' = executed /\ Unconfirmed(t)' = Unconfirmed(t)
    BY <1>4 DEF shardVars, Unconfirmed
  <2>3. /\ Pending(a)' = Pending(a) + Occurrences(a, new)
        /\ Pending(b)' = Pending(b) + Occurrences(b, new)
        /\ Pending(c)' = Pending(c) + Occurrences(c, new)
    BY <1>6, <2>1
  <2>4. /\ Occurrences(a, new) = IF Split(t) THEN InBatch(t, n, k) ELSE 0
        /\ Occurrences(c, new) = IF Split(t) THEN 0 ELSE InBatch(t, n, k)
        /\ Occurrences(b, new) = 0
    BY <1>3
  <2>5. Known(t, nowDataNum') = Known(t, nowDataNum) + InBatch(t, n, k) /\ InBatch(t, n, k) \in Nat
    BY <1>5, <2>1 DEF Known, InBatch, n
  <2> HIDE DEF a, b, c
  <2>6. Balanced(t, nowDataNum', Pending(a)', executed'[a], Unconfirmed(t)', Pending(b)', executed'[b], Pending(c)', executed'[c])
    <3>1. CASE Split(t)
      <4>1. /\ Pending(a) + executed[a] = Known(t, nowDataNum)
            /\ Unconfirmed(t) + Pending(b) + executed[b] = executed[a]
        BY <2>1, <3>1 DEF Balanced
      <4>2. Pending(a)' = Pending(a) + InBatch(t, n, k) /\ Pending(b)' = Pending(b)
        BY <2>1, <2>3, <2>4, <3>1
      <4>3. /\ Pending(a)' + executed[a] = Known(t, nowDataNum')
            /\ Unconfirmed(t) + Pending(b)' + executed[b] = executed[a]
        BY <2>1, <2>5, <4>1, <4>2
      <4> QED BY <2>2, <3>1, <4>3 DEF Balanced
    <3>2. CASE ~Split(t)
      <4>1. Pending(c) + executed[c] = Known(t, nowDataNum)
        BY <2>1, <3>2 DEF Balanced
      <4>2. Pending(c)' = Pending(c) + InBatch(t, n, k)
        BY <2>1, <2>3, <2>4, <3>2
      <4>3. Pending(c)' + executed[c] = Known(t, nowDataNum')
        BY <2>1, <2>5, <4>1, <4>2
      <4> QED BY <2>2, <3>2, <4>3 DEF Balanced
    <3> QED BY <3>1, <3>2
  <2> QED BY <2>6 DEF a, b, c
<1>8. Once'
    BY <1>7, OnceFrom
<1>9. InfoOnce'
    BY <1>4 DEF OnceInv, InfoOnce
<1>10. Registered'
  <2> SUFFICES ASSUME NEW CONSTANT t \in TxID, Split(t), t <= nowDataNum'
               PROVE  t \in BrokerRawMegs' /\ Part(t, "tx1") \in brokerConfirm1Pool'
    BY DEF Registered
  <2>1. t \in Nat
    BY RowFacts
  <2>2. CASE t <= nowDataNum
    BY <1>5, <2>2 DEF OnceInv, Registered
  <2>3. CASE ~(t <= nowDataNum)
    <3>1. InBatch(t, n, k) = 1
      BY <1>5, <2>1, <2>3 DEF InBatch, n
    <3>2. Occurrences(t, q) > 0 /\ Occurrences(Part(t, "tx1"), tx1s) > 0
      BY <1>3, <3>1
    <3>3. t \in Range(q) /\ Part(t, "tx1") \in Range(tx1s)
      BY <1>3, <3>2, OccurrencesRange
    <3> QED BY <1>5, <3>3
  <2> QED BY <2>2, <2>3
<1> QED BY <1>1, <1>8, <1>9, <1>10 DEF OnceInv

\* A commit moves what is in the block from pending to executed.
LEMMA CommitCounts ==
    ASSUME TypeInv, NEW s \in Shard, HandleinCommit(s), NEW body \in Seq(Entry), open[s] = {body},
           NEW CONSTANT e \in Entry
    PROVE  /\ executed'[e] = executed[e] + Occurrences(e, body)
           /\ Pending(e) = Pending(e)' + Occurrences(e, body)
           /\ Pending(e)' \in Nat /\ Occurrences(e, body) \in Nat
<1>1. PICK block \in Seq(AtHome(s)) :
             /\ open[s] = {block}
             /\ \A d \in Shard : open'[d] = IF d = s THEN {} ELSE open[d]
             /\ \A x \in Entry : executed'[x] = executed[x] + Occurrences(x, block)
    BY Committed
<1>2. block = body
    BY <1>1
<1>3. UNCHANGED <<txQueue, injects, nowDataNum, sending, handling, brokerVars, measureVars>>
    BY DEF HandleinCommit
<1>4. Elsewhere(open, open', s) /\ open'[s] = {} /\ OneOpen(open)
    BY <1>1, CountsAreNat DEF Elsewhere
<1>5. OneOpen(open')
    BY <1>4 DEF OneOpen, Elsewhere
<1>6. /\ InOpen(open', e) = InOpen(open, e) - InBlock(open[s], e) + InBlock(open'[s], e)
      /\ InOpen(open, e) \in Nat /\ InBlock(open[s], e) \in Nat
      /\ InBlock(open[s], e) <= InOpen(open, e)
  <2>1. OneOpen(open) /\ OneOpen(open') /\ Elsewhere(open, open', s)
    BY <1>4, <1>5
  <2> QED BY ONLY <2>1, s \in Shard, OpenChange
<1>7. InBlock(open[s], e) = Occurrences(e, body)
    BY InBlockIs, Zenon
<1>8. InBlock(open'[s], e) = 0
    BY <1>4, InBlockIs, Zenon
<1>9. /\ InInjects(injects, e) \in Nat /\ Occurrences(e, sending) \in Nat
      /\ InHands(handling, e) \in Nat /\ InPools(txQueue, e) \in Nat
    BY CountsAreNat
<1>10. Pending(e) = InInjects(injects, e) + Occurrences(e, sending) + InHands(handling, e)
                     + InPools(txQueue, e) + InOpen(open, e)
    BY PendingIs
<1>11. /\ InHands(handling', e) = InHands(handling, e) /\ InPools(txQueue', e) = InPools(txQueue, e)
       /\ Occurrences(e, sending') = Occurrences(e, sending) /\ InInjects(injects', e) = InInjects(injects, e)
    BY <1>3, Zenon
<1>12. Pending(e)' = InInjects(injects', e) + Occurrences(e, sending') + InHands(handling', e)
                      + InPools(txQueue', e) + InOpen(open', e)
    BY PendingNext
<1>13. /\ Pending(e) = Pending(e)' + Occurrences(e, body) /\ Pending(e)' \in Nat /\ Occurrences(e, body) \in Nat
    BY <1>6, <1>7, <1>8, <1>9, <1>10, <1>11, <1>12
<1> QED BY <1>1, <1>2, <1>13

LEMMA OnceCommit == ASSUME OnceInv, NEW s \in Shard, HandleinCommit(s) PROVE OnceInv'
<1>1. TypeInv /\ TypeInv'
    BY TypeInvCommit DEF OnceInv
<1>2. PICK body \in Seq(AtHome(s)) :
             /\ open[s] = {body} /\ body \in Seq(Legit) /\ body \in Seq(Entry)
             /\ infos' = infos \cup {BlockInfo(body)}
    BY <1>1, Committed
<1> DEFINE r == BlockInfo(body)
<1>3. /\ FineInfo(r)
      /\ \A t \in TxID : /\ Occurrences(Part(t, "tx1"), r.broker1) = Occurrences(Part(t, "tx1"), body)
                         /\ Occurrences(Part(t, "tx2"), r.broker2) = Occurrences(Part(t, "tx2"), body)
    BY <1>2, BlockInfoFacts
<1>4. infos' = infos \cup {r}
    BY <1>2
<1> HIDE DEF r
<1>5. UNCHANGED <<txQueue, injects, nowDataNum, sending, handling, brokerVars, measureVars>>
    BY DEF HandleinCommit
<1>6. ASSUME NEW CONSTANT e \in Entry
      PROVE  /\ executed'[e] = executed[e] + Occurrences(e, body)
             /\ Pending(e) = Pending(e)' + Occurrences(e, body)
             /\ Pending(e)' \in Nat /\ Occurrences(e, body) \in Nat
    BY <1>1, <1>2, CommitCounts
<1>7. ASSUME NEW CONSTANT t \in TxID
      PROVE  /\ Unconfirmed(t)' = Unconfirmed(t) + Occurrences(Part(t, "tx1"), body)
             /\ Occurrences(Part(t, "tx1"), body) <= 1
             /\ Occurrences(Part(t, "tx2"), body) <= 1
  <2> DEFINE a == Part(t, "tx1")
             b == Part(t, "tx2")
  <2>1. a \in Entry /\ b \in Entry
    BY PartFacts
  <2>2. /\ Unconfirmed(t) = InReports(infos, a) /\ Unconfirmed(t)' = InReports(infos', a)
    BY UnconfirmedIs, UnconfirmedNext
  <2>3. a \in Range(r.broker1) <=> Occurrences(a, body) > 0
    <3>1. r.broker1 \in Seq(Halves("tx1"))
      BY <1>3 DEF FineInfo
    <3>2. a \in Range(r.broker1) <=> Occurrences(a, r.broker1) > 0
      BY <3>1, OccurrencesRange
    <3>3. Occurrences(a, r.broker1) = Occurrences(a, body)
      BY <1>3
    <3> QED BY <3>2, <3>3
  <2>4. IsFiniteSet(infos)
    BY <1>1 DEF TypeInv
  <2>5. /\ InReports(infos, a) \in Nat
        /\ r \notin infos => InReports(infos \cup {r}, a) = InReports(infos, a) + (IF a \in Range(r.broker1) THEN 1 ELSE 0)
        /\ InReports(infos, a) = 0 <=> \A c \in infos : a \notin Range(c.broker1)
        /\ a \notin Range(r.broker1) => InReports(infos \cup {r}, a) = InReports(infos, a)
    <3> HIDE DEF a
    <3> QED BY <2>4, ReportsAdd
  <2>6. Occurrences(a, body) \in Nat /\ Occurrences(b, body) \in Nat
    BY <1>6, <2>1
  <2>7. CASE Split(t)
    <3>1. a \in Legit /\ b \in Legit
      BY <2>7, LegitFacts
    <3>2. Pending(a) + executed[a] <= 1 /\ Pending(b) + executed[b] <= 1 /\ executed[a] \in Nat /\ executed[b] \in Nat
      BY <3>1, PendingOne
    <3>3. /\ Pending(a) = Pending(a)' + Occurrences(a, body) /\ Pending(a)' \in Nat
          /\ Pending(b) = Pending(b)' + Occurrences(b, body) /\ Pending(b)' \in Nat
      BY <1>6, <2>1
    <3>4. /\ Pending(b) \in Nat /\ Unconfirmed(t) \in Nat
          /\ Unconfirmed(t) + Pending(b) + executed[b] = executed[a]
      <4>1. /\ Unconfirmed(t) \in Nat /\ Pending(b) \in Nat
            /\ Balanced(t, nowDataNum, Pending(a), executed[a], Unconfirmed(t), Pending(b), executed[b],
                        Pending(Part(t, "whole")), executed[Part(t, "whole")])
        BY PartFacts, TotalsOf
      <4> HIDE DEF a, b
      <4> QED BY <2>7, <4>1 DEF Balanced
    <3>5. CASE Occurrences(a, body) = 0
      <4>1. InReports(infos', a) = InReports(infos, a)
        BY <1>4, <2>3, <2>5, <3>5
      <4> QED BY <2>2, <2>5, <2>6, <3>2, <3>3, <3>5, <4>1
    <3>6. CASE Occurrences(a, body) # 0
      <4>1. Occurrences(a, body) = 1 /\ executed[a] = 0 /\ Unconfirmed(t) = 0
        <5> HIDE DEF a, b
        <5>1. Pending(a) >= Occurrences(a, body) /\ Pending(a) \in Nat /\ Occurrences(a, body) >= 1
          BY <2>6, <3>3, <3>6
        <5>2. Occurrences(a, body) = 1 /\ executed[a] = 0
          BY <2>6, <3>2, <5>1
        <5> QED BY <3>2, <3>4, <5>2
      <4>2. r \notin infos
        BY <2>2, <2>3, <2>5, <4>1
      <4>3. InReports(infos', a) = InReports(infos, a) + 1
        BY <1>4, <2>3, <2>5, <4>1, <4>2
      <4> QED BY <2>2, <2>6, <3>2, <3>3, <4>1, <4>3
    <3> QED BY <3>5, <3>6
  <2>8. CASE ~Split(t)
    <3>1. a \notin Legit /\ b \notin Legit
      BY <2>8, LegitFacts
    <3>2. Occurrences(a, body) = 0 /\ Occurrences(b, body) = 0
      BY <1>2, <3>1, OccurrencesNone
    <3>3. InReports(infos', a) = InReports(infos, a)
      BY <1>4, <2>3, <2>5, <3>2
    <3> QED BY <2>2, <2>5, <3>2, <3>3
  <2> QED BY <2>7, <2>8
<1>8. ASSUME NEW CONSTANT t \in TxID
      PROVE  Balanced(t, nowDataNum',
                             Pending(Part(t, "tx1"))', executed'[Part(t, "tx1")], Unconfirmed(t)',
                             Pending(Part(t, "tx2"))', executed'[Part(t, "tx2")],
                             Pending(Part(t, "whole"))', executed'[Part(t, "whole")])
  <2> DEFINE a == Part(t, "tx1")
             b == Part(t, "tx2")
             c == Part(t, "whole")
  <2>1. /\ a \in Entry /\ b \in Entry /\ c \in Entry
        /\ Pending(a) \in Nat /\ Pending(b) \in Nat /\ Pending(c) \in Nat
        /\ executed[a] \in Nat /\ executed[b] \in Nat /\ executed[c] \in Nat /\ Unconfirmed(t) \in Nat /\ t \in Nat
        /\ Balanced(t, nowDataNum, Pending(a), executed[a], Unconfirmed(t), Pending(b), executed[b], Pending(c), executed[c])
    BY PartFacts, TotalsOf
  <2>2. Unconfirmed(t)' = Unconfirmed(t) + Occurrences(a, body) /\ nowDataNum' = nowDataNum
    BY <1>5, <1>7
  <2>3. ASSUME NEW CONSTANT e \in Entry
        PROVE  /\ Pending(e)' + executed'[e] = Pending(e) + executed[e]
               /\ Pending(e)' \in Nat /\ executed'[e] \in Nat
    <3>1. /\ executed'[e] = executed[e] + Occurrences(e, body)
          /\ Pending(e) = Pending(e)' + Occurrences(e, body)
          /\ Pending(e)' \in Nat /\ Occurrences(e, body) \in Nat /\ executed[e] \in Nat
      BY <1>1, <1>6, CountsAreNat
    <3> QED BY <3>1
  <2>4. executed'[a] = executed[a] + Occurrences(a, body) /\ Occurrences(a, body) \in Nat
    BY <1>6, <2>1
  <2> HIDE DEF a, b, c
  <2>5. /\ Pending(a)' + executed'[a] = Pending(a) + executed[a] 
         /\ Pending(b)' + executed'[b] = Pending(b) + executed[b] /\ Pending(b)' \in Nat /\ executed'[b] \in Nat
         /\ Pending(c)' + executed'[c] = Pending(c) + executed[c]
    BY <2>1, <2>3
  <2>6. Known(t, nowDataNum) \in Nat
    BY DEF Known
  <2>7. Balanced(t, nowDataNum', Pending(a)', executed'[a], Unconfirmed(t)', Pending(b)', executed'[b], Pending(c)', executed'[c])
    <3>1. CASE Split(t)
      <4>1. /\ Pending(a) + executed[a] = Known(t, nowDataNum)
            /\ Unconfirmed(t) + Pending(b) + executed[b] = executed[a]
        BY <2>1, <3>1 DEF Balanced
      <4>2. /\ Pending(a)' + executed'[a] = Known(t, nowDataNum)
            /\ Unconfirmed(t)' + Pending(b)' + executed'[b] = executed'[a]
        <5>1. /\ Unconfirmed(t) \in Nat /\ Pending(b) \in Nat /\ executed[b] \in Nat
          BY <2>1
        <5>2. Unconfirmed(t) + (Pending(b) + executed[b]) = executed[a]
          BY <4>1, <5>1
        <5>3. Unconfirmed(t)' + (Pending(b)' + executed'[b]) = executed'[a]
          BY <2>2, <2>4, <2>5, <5>1, <5>2
        <5>4. Unconfirmed(t)' \in Nat /\ Pending(b)' \in Nat /\ executed'[b] \in Nat
          BY <2>2, <2>4, <2>5, <5>1
        <5> QED BY <2>5, <4>1, <5>3, <5>4
      <4> QED BY <2>2, <3>1, <4>2 DEF Balanced
    <3>2. CASE ~Split(t)
      <4>1. Pending(c) + executed[c] = Known(t, nowDataNum)
        BY <2>1, <3>2 DEF Balanced
      <4>2. Pending(c)' + executed'[c] = Known(t, nowDataNum)
        BY <2>5, <4>1
      <4> QED BY <2>2, <3>2, <4>2 DEF Balanced
    <3> QED BY <3>1, <3>2
  <2> QED BY <2>7 DEF a, b, c
<1>9. Once'
    BY <1>8, OnceFrom
<1>10. InfoOnce'
  <2>1. \A t \in TxID : /\ Occurrences(Part(t, "tx1"), r.broker1) <= 1
                        /\ Occurrences(Part(t, "tx2"), r.broker2) <= 1
    BY <1>3, <1>7
  <2> QED BY <1>4, <2>1 DEF OnceInv, InfoOnce
<1>11. Registered'
    BY <1>5 DEF OnceInv, Registered, brokerVars
<1> QED BY <1>1, <1>9, <1>10, <1>11 DEF OnceInv

\* What looking at a report does to the counts.
LEMMA LookCounts ==
    ASSUME OnceInv, NEW r \in infos, HandleBlockInfo(r), NEW CONSTANT t \in TxID
    PROVE  /\ Pending(Part(t, "tx1"))' = Pending(Part(t, "tx1"))
           /\ Pending(Part(t, "whole"))' = Pending(Part(t, "whole"))
           /\ Split(t) =>
                /\ Unconfirmed(t) = Unconfirmed(t)' + Occurrences(Part(t, "tx1"), r.broker1)
                /\ Pending(Part(t, "tx2"))' = Pending(Part(t, "tx2")) + Occurrences(Part(t, "tx1"), r.broker1)
                /\ Occurrences(Part(t, "tx1"), Confirm1s(r, brokerConfirm1Pool, BrokerRawMegs))
                     = Occurrences(Part(t, "tx1"), r.broker1)
           /\ Occurrences(Part(t, "tx1"), r.broker1) \in {0, 1}
           /\ Unconfirmed(t)' \in Nat
<1> DEFINE x == Confirm1s(r, brokerConfirm1Pool, BrokerRawMegs)
           y == Confirm2s(r, brokerConfirm2Pool)
           h == [info |-> r, tx2s |-> Seconds(x), confirm2s |-> y]
           a == Part(t, "tx1")
           b == Part(t, "tx2")
           c == Part(t, "whole")
           o == Occurrences(a, r.broker1)
<1>1. TypeInv /\ IsFiniteSet(infos)
    BY DEF OnceInv, TypeInv
<1>2. /\ handling = {} /\ FineInfo(r)
      /\ x \in Seq(Halves("tx1")) /\ Seconds(x) \in Seq(Halves("tx2"))
      /\ handling' = {h} /\ infos' = infos \ {r}
    BY <1>1, Looked
<1>3. UNCHANGED <<shardVars, injects, nowDataNum, sending, BrokerRawMegs, brokerConfirm1Pool, measureVars>>
    BY DEF HandleBlockInfo
<1>4. h.tx2s = Seconds(x)
    OBVIOUS
<1>5. a \in Entry /\ b \in Entry /\ c \in Entry
    BY PartFacts
<1>6. o \in {0, 1}
  <2>1. o \in Nat
    BY <1>2, TxsFacts
  <2>2. o <= 1
    BY DEF OnceInv, InfoOnce
  <2> QED BY <2>1, <2>2
<1>7. Occurrences(a, x) = IF a \in brokerConfirm1Pool /\ t \in BrokerRawMegs THEN o ELSE 0
  <2>1. BrokerRawMegs \in SUBSET TxID /\ brokerConfirm1Pool \in SUBSET [raw : TxID, part : {"tx1"}]
        /\ brokerConfirm2Pool \in SUBSET [raw : TxID, part : {"tx2"}]
    BY <1>1 DEF TypeInv, TypeOK
  <2> QED BY <1>2, <2>1, ReportFacts
<1> HIDE DEF h, x, y, o
<1>8. ASSUME NEW CONSTANT e \in Entry PROVE Pending(e)' = Pending(e) + Occurrences(e, Seconds(x))
  <2>1. Occurrences(e, Seconds(x)) \in Nat
    BY <1>2, OccurrencesUpto
  <2>2. InHands({}, e) = 0 /\ InHands({h}, e) = Occurrences(e, Seconds(x))
    BY <1>4, <2>1, HandsAre
  <2>3. InHands(handling, e) = 0 /\ InHands(handling', e) = Occurrences(e, Seconds(x))
    BY <1>2, <2>2, Zenon
  <2>4. /\ InInjects(injects, e) \in Nat /\ Occurrences(e, sending) \in Nat
        /\ InPools(txQueue, e) \in Nat /\ InOpen(open, e) \in Nat
    BY <1>1, CountsAreNat
  <2>5. Pending(e) = InInjects(injects, e) + Occurrences(e, sending) + InHands(handling, e)
                     + InPools(txQueue, e) + InOpen(open, e)
    BY PendingIs
  <2>6. /\ Occurrences(e, sending') = Occurrences(e, sending) /\ InPools(txQueue', e) = InPools(txQueue, e)
        /\ InOpen(open', e) = InOpen(open, e) /\ InInjects(injects', e) = InInjects(injects, e)
    BY <1>3, Zenon DEF shardVars
  <2>7. Pending(e)' = InInjects(injects', e) + Occurrences(e, sending') + InHands(handling', e)
                      + InPools(txQueue', e) + InOpen(open', e)
    BY PendingNext
  <2> QED BY <2>1, <2>3, <2>4, <2>5, <2>6, <2>7
<1>9. /\ Occurrences(a, Seconds(x)) = 0 /\ Occurrences(c, Seconds(x)) = 0
      /\ Occurrences(b, Seconds(x)) = Occurrences(a, x)
  <2>1. a \notin Halves("tx2") /\ c \notin Halves("tx2")
    BY PartFacts DEF Halves
  <2> QED BY <1>2, <2>1, OccurrencesNone, SecondsFacts
<1>10. /\ Pending(a) \in Nat /\ Pending(b) \in Nat /\ Pending(c) \in Nat /\ executed[a] \in Nat /\ executed[b] \in Nat
       /\ Unconfirmed(t) \in Nat /\ t \in Nat /\ nowDataNum \in Nat
       /\ Balanced(t, nowDataNum, Pending(a), executed[a], Unconfirmed(t), Pending(b), executed[b], Pending(c), executed[c])
    BY PartFacts, TotalsOf
<1>11. Pending(a)' = Pending(a) /\ Pending(c)' = Pending(c) /\ Pending(b)' = Pending(b) + Occurrences(a, x)
  <2> HIDE DEF a, b, c
  <2>1. /\ Pending(a)' = Pending(a) + Occurrences(a, Seconds(x))
        /\ Pending(b)' = Pending(b) + Occurrences(b, Seconds(x))
        /\ Pending(c)' = Pending(c) + Occurrences(c, Seconds(x))
    BY <1>5, <1>8
  <2> QED BY <1>9, <1>10, <2>1
<1>12. Unconfirmed(t) = Unconfirmed(t)' + o /\ Unconfirmed(t)' \in Nat
  <2>1. Unconfirmed(t) = InReports(infos, a) /\ Unconfirmed(t)' = InReports(infos', a)
    BY UnconfirmedIs, UnconfirmedNext
  <2>2. a \in Range(r.broker1) <=> o > 0
    <3>1. r.broker1 \in Seq(Halves("tx1"))
      BY <1>2 DEF FineInfo
    <3> QED BY <3>1, OccurrencesRange DEF o
  <2>3. IsFiniteSet(infos \ {r}) /\ r \notin infos \ {r} /\ infos = (infos \ {r}) \cup {r}
    BY <1>1, FS_RemoveElement
  <2> DEFINE R == infos \ {r}
  <2> HIDE DEF a, R
  <2>4. /\ InReports(R, a) \in Nat
        /\ r \notin R => InReports(R \cup {r}, a) = InReports(R, a) + (IF a \in Range(r.broker1) THEN 1 ELSE 0)
        /\ InReports(R, a) = 0 <=> \A k \in R : a \notin Range(k.broker1)
        /\ a \notin Range(r.broker1) => InReports(R \cup {r}, a) = InReports(R, a)
    <3>1. IsFiniteSet(R)
      BY <2>3 DEF R
    <3> QED BY <3>1, ReportsAdd
  <2>5. InReports(infos, a) = InReports(R \cup {r}, a) /\ InReports(infos', a) = InReports(R, a)
    BY <1>2, <2>3, Zenon DEF R
  <2>6. r \notin R
    BY DEF R
  <2> QED BY <1>6, <2>1, <2>2, <2>4, <2>5, <2>6
<1>13. ASSUME Split(t) PROVE Occurrences(a, x) = o
  <2>1. CASE o = 0
    BY <1>7, <2>1
  <2>2. CASE o = 1
    <3>1. /\ Pending(a) + executed[a] = Known(t, nowDataNum)
          /\ Unconfirmed(t) + Pending(b) + executed[b] = executed[a]
      BY <1>10, <1>13 DEF Balanced
    <3>2. Unconfirmed(t) >= 1
      BY <1>12, <2>2
    <3> HIDE DEF a, b, c
    <3>3. executed[a] >= 1
      BY <1>10, <3>1, <3>2
    <3>4. t <= nowDataNum
      BY <1>10, <3>1, <3>3 DEF Known
    <3>5. a \in brokerConfirm1Pool /\ t \in BrokerRawMegs
      BY <1>13, <3>4 DEF OnceInv, Registered, a
    <3> QED BY <1>7, <3>5
  <2> QED BY <1>6, <2>1, <2>2
<1> QED BY <1>6, <1>11, <1>12, <1>13 DEF a, b, c, o, x

LEMMA OnceInfo == ASSUME OnceInv, NEW r \in infos, HandleBlockInfo(r) PROVE OnceInv'
<1>1. TypeInv /\ TypeInv'
    BY TypeInvInfo DEF OnceInv
<1>2. UNCHANGED <<shardVars, injects, nowDataNum, sending, BrokerRawMegs, brokerConfirm1Pool, measureVars>>
      /\ infos' = infos \ {r}
    BY DEF HandleBlockInfo
<1>3. ASSUME NEW CONSTANT t \in TxID
      PROVE  Balanced(t, nowDataNum',
                             Pending(Part(t, "tx1"))', executed'[Part(t, "tx1")], Unconfirmed(t)',
                             Pending(Part(t, "tx2"))', executed'[Part(t, "tx2")],
                             Pending(Part(t, "whole"))', executed'[Part(t, "whole")])
  <2> DEFINE a == Part(t, "tx1")
             b == Part(t, "tx2")
             c == Part(t, "whole")
             o == Occurrences(a, r.broker1)
  <2>1. /\ Pending(a) \in Nat /\ Pending(b) \in Nat /\ Pending(c) \in Nat /\ executed[a] \in Nat /\ executed[b] \in Nat
        /\ Unconfirmed(t) \in Nat /\ t \in Nat /\ nowDataNum \in Nat
        /\ Balanced(t, nowDataNum, Pending(a), executed[a], Unconfirmed(t), Pending(b), executed[b], Pending(c), executed[c])
    BY PartFacts, TotalsOf
  <2>2. /\ Pending(a)' = Pending(a) /\ Pending(c)' = Pending(c)
        /\ Split(t) => /\ Unconfirmed(t) = Unconfirmed(t)' + o
                       /\ Pending(b)' = Pending(b) + o
        /\ o \in {0, 1} /\ Unconfirmed(t)' \in Nat
    BY LookCounts
  <2>3. nowDataNum' = nowDataNum /\ executed' = executed
    BY <1>2 DEF shardVars
  <2> HIDE DEF a, b, c, o
  <2>4. Balanced(t, nowDataNum', Pending(a)', executed'[a], Unconfirmed(t)', Pending(b)', executed'[b], Pending(c)', executed'[c])
    <3>1. CASE Split(t)
      <4>1. /\ Pending(a) + executed[a] = Known(t, nowDataNum)
            /\ Unconfirmed(t) + Pending(b) + executed[b] = executed[a]
        BY <2>1, <3>1 DEF Balanced
      <4>2. Unconfirmed(t) = Unconfirmed(t)' + o /\ Pending(b)' = Pending(b) + o
        BY <2>2, <3>1
      <4>3. Unconfirmed(t)' + Pending(b)' + executed[b] = executed[a]
        BY <2>1, <2>2, <4>1, <4>2
      <4> QED BY <2>2, <2>3, <3>1, <4>1, <4>3 DEF Balanced
    <3>2. CASE ~Split(t)
        BY <2>1, <2>2, <2>3, <3>2 DEF Balanced
    <3> QED BY <3>1, <3>2
  <2> QED BY <2>4 DEF a, b, c
<1>4. Once'
    BY <1>3, OnceFrom
<1>5. InfoOnce' /\ Registered'
    BY <1>2 DEF OnceInv, InfoOnce, Registered
<1> QED BY <1>1, <1>4, <1>5 DEF OnceInv

LEMMA OnceIdle == ASSUME OnceInv, UNCHANGED vars PROVE OnceInv'
<1>1. TypeInv'
    BY TypeInvNext DEF OnceInv
<1>2. \A e \in Entry : Pending(e)' = Pending(e)
    BY DEF vars, shardVars, Pending
<1> QED BY <1>1, <1>2, OnceUnmoved DEF vars, shardVars, brokerVars

LEMMA OnceNext == ASSUME OnceInv, [Next]_vars PROVE OnceInv'
<1>1. CASE UNCHANGED vars
    BY <1>1, OnceIdle
<1>2. CASE Next
    BY <1>2, OnceDeal, OnceSending, OnceInject, OncePropose, OnceCommit, OnceInfo,
       OnceSending2, OnceConfirm2 DEF Next
<1> QED BY <1>1, <1>2

LEMMA OnceInvariant == Spec => []OnceInv
<1>1. Init => OnceInv
    BY TypeInvInit, OnceInit DEF OnceInv
<1>2. OnceInv /\ [Next]_vars => OnceInv'
    BY OnceNext
<1> QED BY <1>1, <1>2, PTL DEF Spec

\* A split transaction is in one place at a time: its second half comes once, and
\* never before a report of the first (createConfirm, handleTx1ConfirmMag).
THEOREM EachPartOnce == Spec => []ExactlyOnce
<1>1. ASSUME OnceInv PROVE ExactlyOnce
  <2> SUFFICES ASSUME NEW t \in 1 .. nowDataNum
               PROVE  IF Split(t)
                      THEN Pending(Part(t, "tx1")) + Unconfirmed(t)
                              + Pending(Part(t, "tx2")) + executed[Part(t, "tx2")] = 1
                      ELSE Pending(Part(t, "whole")) + executed[Part(t, "whole")] = 1
    BY DEF ExactlyOnce
  <2> DEFINE a == Part(t, "tx1")
             b == Part(t, "tx2")
             c == Part(t, "whole")
  <2>1. nowDataNum \in Nat /\ t \in TxID /\ t <= nowDataNum /\ t \in Nat
    BY <1>1, RowFacts DEF OnceInv, TypeInv, TypeOK
  <2>2. /\ Pending(a) \in Nat /\ Pending(b) \in Nat /\ Pending(c) \in Nat
        /\ executed[a] \in Nat /\ executed[b] \in Nat /\ executed[c] \in Nat
    BY <1>1, <2>1, PartFacts, CountsAreNat DEF OnceInv
  <2>3. Unconfirmed(t) \in Nat
    BY <1>1, UnconfirmedIs, ReportsAdd DEF OnceInv, TypeInv
  <2>4. Balanced(t, nowDataNum, Pending(a), executed[a], Unconfirmed(t), Pending(b), executed[b], Pending(c), executed[c])
    BY <1>1, <2>1 DEF OnceInv, Once
  <2>5. Known(t, nowDataNum) = 1
    BY <2>1 DEF Known
  <2> HIDE DEF a, b, c
  <2>6. IF Split(t) THEN Pending(a) + Unconfirmed(t) + Pending(b) + executed[b] = 1
        ELSE Pending(c) + executed[c] = 1
    BY <2>2, <2>3, <2>4, <2>5 DEF Balanced
  <2> QED BY <2>6 DEF a, b, c
<1>2. OnceInv => ExactlyOnce
    BY <1>1
<1> QED BY <1>2, OnceInvariant, PTL

-----------------------------------------------------------------------------
(* Confirmations and measures. *)

InReports2(R, e) == Cardinality({b \in R : e \in Range(b.broker2)})
Working(H, e) == IF \E h \in H : e \in Range(h.info.broker2) THEN 1 ELSE 0

\* What is noted of a transaction: nothing before its second half is made, and both
\* halves no sooner than the second is executed and its report looked at.
Noted(t, record, pend2, done2, waiting) ==
    /\ record \in {<<>>, <<Part(t, "tx1")>>, <<Part(t, "tx1"), Part(t, "tx2")>>}
    /\ IF Split(t) THEN /\ record # <<>> <=> pend2 + done2 > 0
                        /\ waiting + (IF Len(record) = 2 THEN 1 ELSE 0) <= done2
       ELSE record = <<>>

Confirms ==
    \A t \in TxID : Noted(t, RawTx2BrokerTx[t], Pending(Part(t, "tx2")), executed[Part(t, "tx2")],
                          InReports2(infos, Part(t, "tx2")) + Working(handling, Part(t, "tx2")))

\* What is confirmed was reported, once.
Handled ==
    \A h \in handling : \A t \in TxID :
        /\ Occurrences(Part(t, "tx2"), h.confirm2s) <= Occurrences(Part(t, "tx2"), h.info.broker2)
        /\ Occurrences(Part(t, "tx2"), h.info.broker2) <= 1

\* Where there is a second half, the first has been measured, or is being.
First(H, map, t) == t \in map \/ \E h \in H : t \in RawOf(h.info.broker1)
Measured ==
    \A t \in TxID : Split(t) /\ Pending(Part(t, "tx2")) + executed[Part(t, "tx2")] > 0
                        => First(handling, brokerTxMap, t)

ConfirmInv == OnceInv /\ Confirms /\ Handled /\ Measured

\* A report more, or less, of second halves.
LEMMA Reports2Add ==
    ASSUME NEW R, IsFiniteSet(R), NEW b, NEW e
    PROVE  /\ InReports2(R, e) \in Nat /\ InReports2(R \cup {b}, e) \in Nat
           /\ b \notin R => InReports2(R \cup {b}, e) = InReports2(R, e) + (IF e \in Range(b.broker2) THEN 1 ELSE 0)
           /\ InReports2(R \cup {b}, e) <= InReports2(R, e) + 1
           /\ e \notin Range(b.broker2) => InReports2(R \cup {b}, e) = InReports2(R, e)
<1> DEFINE C == {c \in R : e \in Range(c.broker2)}
           D == {c \in R \cup {b} : e \in Range(c.broker2)}
<1>1. IsFiniteSet(C)
    BY FS_Subset
<1>2. Cardinality(C) \in Nat
    BY <1>1, FS_CardinalityType
<1>3. InReports2(R, e) = Cardinality(C) /\ InReports2(R \cup {b}, e) = Cardinality(D)
    BY DEF InReports2
<1>4. CASE e \in Range(b.broker2) /\ b \notin R
  <2>1. D = C \cup {b} /\ b \notin C
    BY <1>4
  <2> HIDE DEF C, D
  <2>2. Cardinality(C \cup {b}) = Cardinality(C) + 1
    BY <1>1, <2>1, FS_AddElement
  <2> QED BY <1>2, <1>3, <1>4, <2>1, <2>2
<1>5. CASE e \notin Range(b.broker2) \/ b \in R
  <2>1. D = C
    BY <1>5
  <2> HIDE DEF C, D
  <2>2. Cardinality(D) = Cardinality(C)
    BY <2>1, Zenon
  <2> QED BY <1>2, <1>3, <1>5, <2>2
<1> QED BY <1>4, <1>5

\* A list of one thing.
LEMMA Single ==
    ASSUME NEW e, NEW q \in Seq({e})
    PROVE  /\ Occurrences(e, q) = 0 => q = <<>>
           /\ Occurrences(e, q) = 1 => q = <<e>>
<1> DEFINE f == [x \in {e} |-> Occurrences(x, q)]
<1>1. IsFiniteSet({e}) /\ Occurrences(e, q) \in Nat
    BY FS_Singleton, OccurrencesUpto
<1>2. Len(q) = SumFunctionOnSet(f, {e})
    BY <1>1, LengthIsSum
<1>3. f[e] = Occurrences(e, q) /\ e \in {e} /\ \A y \in {e} \ {e} : f[y] = 0
    OBVIOUS
<1> HIDE DEF f
<1>4. Len(q) = Occurrences(e, q)
    BY <1>1, <1>2, <1>3, SumSingle
<1>5. \A i \in 1 .. Len(q) : q[i] = e
    OBVIOUS
<1> QED BY <1>4, <1>5

\* What noting some halves adds to the record of a transaction.
LEMMA RecordIs ==
    ASSUME NEW r \in [TxID -> Seq(Entry)], NEW p \in {"tx1", "tx2"}, NEW es \in Seq(Halves(p)), NEW t \in TxID
    PROVE  /\ Occurrences(Part(t, p), es) = 0 => Record(r, es)[t] = r[t]
           /\ Occurrences(Part(t, p), es) = 1 => Record(r, es)[t] = Append(r[t], Part(t, p))
           /\ ~Split(t) => Occurrences(Part(t, p), es) = 0
<1> DEFINE e == Part(t, p)
           q == Keep(es, HalvesOf(t))
<1>1. Record(r, es)[t] = r[t] \o q /\ r[t] \in Seq(Entry)
    BY DEF Record
<1>2. /\ q \in Seq(Halves(p) \cap HalvesOf(t))
      /\ \A x : Occurrences(x, q) = IF x \in HalvesOf(t) THEN Occurrences(x, es) ELSE 0
    BY KeepFacts
<1>3. e \in HalvesOf(t)
    BY PartFacts DEF HalvesOf, Kinds
<1>4. Halves(p) \cap HalvesOf(t) \subseteq {e}
  <2> SUFFICES ASSUME NEW x \in Halves(p) \cap HalvesOf(t) PROVE x = e
    OBVIOUS
  <2>1. x \in Entry /\ x.raw = t /\ x.part = p
    BY LegitFacts DEF Halves, HalvesOf
  <2>2. x = Part(x.raw, x.part)
    BY <2>1, PartFacts
  <2> QED BY <2>1, <2>2
<1> HIDE DEF e, q
<1>5. q \in Seq({e}) /\ Occurrences(e, q) = Occurrences(e, es)
    BY <1>2, <1>3, <1>4, SeqMonotonic
<1>6. /\ Occurrences(e, q) = 0 => q = <<>>
      /\ Occurrences(e, q) = 1 => q = <<e>>
    BY <1>5, Single
<1>7. ASSUME Occurrences(e, es) = 0 PROVE Record(r, es)[t] = r[t]
  <2>1. q = <<>>
    BY <1>5, <1>6, <1>7
  <2> QED BY <1>1, <2>1
<1>8. ASSUME Occurrences(e, es) = 1 PROVE Record(r, es)[t] = Append(r[t], e)
  <2>1. q = <<e>>
    BY <1>5, <1>6, <1>8
  <2>2. e \in Entry
    BY PartFacts DEF e, Kinds
  <2>3. r[t] \o <<e>> = Append(r[t], e)
    BY <1>1, <2>2
  <2> QED BY <1>1, <2>1, <2>3
<1>9. ASSUME ~Split(t) PROVE Occurrences(e, es) = 0
  <2>1. e \notin Halves(p)
    <3>1. e \notin Legit
      BY <1>9, LegitFacts DEF e
    <3> QED BY <3>1, LegitFacts
  <2> QED BY <2>1, OccurrencesNone
<1> QED BY <1>7, <1>8, <1>9 DEF e

LEMMA NotedFrom ==
    ASSUME \A t \in TxID : Noted(t, RawTx2BrokerTx'[t], Pending(Part(t, "tx2"))', executed'[Part(t, "tx2")],
                          InReports2(infos', Part(t, "tx2")) + Working(handling', Part(t, "tx2")))
    PROVE  Confirms'
BY DEF Confirms, Noted, InReports2, Working

LEMMA ConfirmInit == Init => Confirms /\ Handled /\ Measured
<1> SUFFICES ASSUME Init PROVE Confirms /\ Handled /\ Measured
    OBVIOUS
<1>1. infos = {} /\ handling = {} /\ RawTx2BrokerTx = [t \in TxID |-> <<>>] /\ nowDataNum = 0
    BY DEF Init
<1>2. OnceInv
    BY TypeInvInit, OnceInit DEF OnceInv
<1>3. ASSUME NEW CONSTANT t \in TxID, Split(t)
      PROVE  Pending(Part(t, "tx2")) = 0 /\ executed[Part(t, "tx2")] = 0
  <2>1. Part(t, "tx2") \in Legit
    BY <1>3, LegitFacts
  <2>2. Part(t, "tx2").raw = t /\ t \in Nat /\ t > 0
    BY PartFacts, RowFacts
  <2> DEFINE e == Part(t, "tx2")
  <2>3. /\ Pending(e) \in Nat /\ executed[e] \in Nat
        /\ Pending(e) + executed[e] > 0 => e.raw <= nowDataNum
    BY <1>2, <2>1, PendingOne
  <2> HIDE DEF e
  <2>4. Pending(e) = 0 /\ executed[e] = 0
    BY <1>1, <2>2, <2>3 DEF e
  <2> QED BY <2>4 DEF e
<1>4. ASSUME NEW CONSTANT t \in TxID
      PROVE  InReports2(infos, Part(t, "tx2")) = 0 /\ Working(handling, Part(t, "tx2")) = 0
  <2>1. {b \in infos : Part(t, "tx2") \in Range(b.broker2)} = {}
    BY <1>1
  <2>2. InReports2(infos, Part(t, "tx2")) = 0
    BY <2>1, FS_EmptySet, Zenon DEF InReports2
  <2> QED BY <1>1, <2>2 DEF Working
<1>5. ASSUME NEW CONSTANT t \in TxID
      PROVE  Noted(t, RawTx2BrokerTx[t], Pending(Part(t, "tx2")), executed[Part(t, "tx2")],
                          InReports2(infos, Part(t, "tx2")) + Working(handling, Part(t, "tx2")))
  <2>1. RawTx2BrokerTx[t] = <<>> /\ Len(<<>>) = 0
    BY <1>1
  <2> QED BY <1>3, <1>4, <2>1 DEF Noted
<1>6. Confirms
    BY <1>5 DEF Confirms
<1>7. Measured
    BY <1>3 DEF Measured
<1> QED BY <1>1, <1>6, <1>7 DEF Handled

\* A step that changes nothing these see.
LEMMA ConfirmUnmoved ==
    ASSUME ConfirmInv, OnceInv', UNCHANGED <<executed, infos, handling, RawTx2BrokerTx, brokerTxMap>>,
           \A t \in TxID : Pending(Part(t, "tx2"))' = Pending(Part(t, "tx2"))
    PROVE  ConfirmInv'
<1>1. Confirms'
    BY DEF ConfirmInv, Confirms, InReports2, Working
<1> QED BY <1>1 DEF ConfirmInv, Handled, Measured, First

LEMMA ConfirmDeal == ASSUME ConfirmInv, DealTxByBroker PROVE ConfirmInv'
<1>1. OnceInv /\ OnceInv' /\ TypeInv
    BY OnceDeal DEF ConfirmInv, OnceInv
<1>2. PICK k \in Nat : nowDataNum \in Nat /\ nowDataNum + k <= Len(TxList) /\ sending' = NewTxs(nowDataNum, k)
    BY <1>1, Dealt
<1>3. ASSUME NEW CONSTANT t \in TxID PROVE Pending(Part(t, "tx2"))' = Pending(Part(t, "tx2"))
  <2>1. Occurrences(Part(t, "tx2"), NewTxs(nowDataNum, k)) = 0
    BY <1>2, BatchFacts
  <2>2. Part(t, "tx2") \in Entry
    BY PartFacts
  <2>3. Pending(Part(t, "tx2"))' = Pending(Part(t, "tx2")) + Occurrences(Part(t, "tx2"), sending')
    BY <1>1, <2>2, DealPending
  <2>4. Pending(Part(t, "tx2")) \in Nat
    BY <1>1, <2>2, CountsAreNat
  <2> QED BY <1>2, <2>1, <2>3, <2>4
<1>4. UNCHANGED <<executed, infos, handling, RawTx2BrokerTx, brokerTxMap>>
    BY DEF DealTxByBroker, shardVars, measureVars
<1> QED BY <1>1, <1>3, <1>4, ConfirmUnmoved

LEMMA ConfirmShards ==
    ASSUME ConfirmInv, TxSending \/ (\E m \in injects : HandleInjectTx(m)) \/ (\E s \in Shard : Propose(s))
    PROVE  ConfirmInv'
<1>1. OnceInv
    BY DEF ConfirmInv
<1>2. \A t \in TxID : Part(t, "tx2") \in Entry
    BY PartFacts
<1>3. CASE TxSending
  <2>1. OnceInv' /\ \A e \in Entry : Pending(e)' = Pending(e)
    BY <1>1, <1>3, OnceSending, SendingPending
  <2> QED BY <1>2, <1>3, <2>1, ConfirmUnmoved DEF TxSending, shardVars, brokerVars, measureVars
<1>4. ASSUME NEW m \in injects, HandleInjectTx(m) PROVE ConfirmInv'
  <2>1. OnceInv' /\ \A e \in Entry : Pending(e)' = Pending(e)
    BY <1>1, <1>4, OnceInject, InjectPending
  <2> QED BY <1>2, <1>4, <2>1, ConfirmUnmoved DEF HandleInjectTx, brokerVars, measureVars
<1>5. ASSUME NEW s \in Shard, Propose(s) PROVE ConfirmInv'
  <2>1. OnceInv' /\ \A e \in Entry : Pending(e)' = Pending(e)
    BY <1>1, <1>5, OncePropose, ProposePending
  <2> QED BY <1>2, <1>5, <2>1, ConfirmUnmoved DEF Propose, brokerVars, measureVars
<1> QED BY <1>3, <1>4, <1>5

\* The numbers of a split transaction's second half.
LEMMA NotedFacts ==
    ASSUME ConfirmInv, NEW CONSTANT t \in TxID
    PROVE  LET e == Part(t, "tx2")
           IN  /\ e \in Entry /\ Pending(e) \in Nat /\ executed[e] \in Nat
               /\ InReports2(infos, e) \in Nat /\ Working(handling, e) \in {0, 1}
               /\ Split(t) => Pending(e) + executed[e] <= 1
               /\ Noted(t, RawTx2BrokerTx[t], Pending(e), executed[e], InReports2(infos, e) + Working(handling, e))
<1> DEFINE e == Part(t, "tx2")
<1>1. OnceInv /\ TypeInv
    BY DEF ConfirmInv, OnceInv
<1>2. e \in Entry
    BY PartFacts
<1>3. Pending(e) \in Nat /\ executed[e] \in Nat
    BY <1>1, <1>2, CountsAreNat
<1>4. InReports2(infos, e) \in Nat
    BY <1>1, Reports2Add DEF TypeInv
<1>5. Working(handling, e) \in {0, 1}
    BY DEF Working
<1>6. Split(t) => Pending(e) + executed[e] <= 1
    BY <1>1, LegitFacts, PendingOne
<1>7. Noted(t, RawTx2BrokerTx[t], Pending(e), executed[e], InReports2(infos, e) + Working(handling, e))
    BY DEF ConfirmInv, Confirms
<1> QED BY <1>2, <1>3, <1>4, <1>5, <1>6, <1>7

LEMMA ConfirmCommit == ASSUME ConfirmInv, NEW s \in Shard, HandleinCommit(s) PROVE ConfirmInv'
<1>1. OnceInv /\ OnceInv' /\ TypeInv /\ IsFiniteSet(infos)
    BY OnceCommit DEF ConfirmInv, OnceInv, TypeInv
<1>2. PICK body \in Seq(AtHome(s)) :
             /\ open[s] = {body} /\ body \in Seq(Legit) /\ body \in Seq(Entry)
             /\ infos' = infos \cup {BlockInfo(body)}
    BY <1>1, Committed
<1> DEFINE r == BlockInfo(body)
<1>3. /\ FineInfo(r)
      /\ \A t \in TxID : Occurrences(Part(t, "tx2"), r.broker2) = Occurrences(Part(t, "tx2"), body)
    BY <1>2, BlockInfoFacts
<1>4. infos' = infos \cup {r}
    BY <1>2
<1> HIDE DEF r
<1>5. UNCHANGED <<handling, RawTx2BrokerTx, brokerTxMap>>
    BY DEF HandleinCommit, brokerVars, measureVars
<1>6. ASSUME NEW CONSTANT t \in TxID
      PROVE  /\ Pending(Part(t, "tx2"))' + executed'[Part(t, "tx2")] = Pending(Part(t, "tx2")) + executed[Part(t, "tx2")]
             /\ Noted(t, RawTx2BrokerTx'[t], Pending(Part(t, "tx2"))', executed'[Part(t, "tx2")],
                      InReports2(infos', Part(t, "tx2")) + Working(handling', Part(t, "tx2")))
  <2> DEFINE e == Part(t, "tx2")
             o == Occurrences(e, body)
             w == Working(handling, e)
  <2>1. /\ e \in Entry /\ Pending(e) \in Nat /\ executed[e] \in Nat
        /\ InReports2(infos, e) \in Nat /\ w \in {0, 1}
        /\ Noted(t, RawTx2BrokerTx[t], Pending(e), executed[e], InReports2(infos, e) + w)
    BY NotedFacts
  <2>2. /\ executed'[e] = executed[e] + o /\ Pending(e) = Pending(e)' + o
        /\ Pending(e)' \in Nat /\ o \in Nat
    BY <1>1, <1>2, <2>1, CommitCounts
  <2>3. InReports2(infos', e) <= InReports2(infos, e) + o /\ InReports2(infos', e) \in Nat
    <3>1. r.broker2 \in Seq(Halves("tx2"))
      BY <1>3 DEF FineInfo
    <3>2. e \in Range(r.broker2) <=> Occurrences(e, r.broker2) > 0
      BY <3>1, OccurrencesRange
    <3>3. Occurrences(e, r.broker2) = o
      BY <1>3
    <3> HIDE DEF e, o
    <3>4. /\ InReports2(infos \cup {r}, e) <= InReports2(infos, e) + 1
          /\ e \notin Range(r.broker2) => InReports2(infos \cup {r}, e) = InReports2(infos, e)
          /\ InReports2(infos \cup {r}, e) \in Nat
      BY <1>1, Reports2Add
    <3> QED BY <1>4, <2>1, <2>2, <3>2, <3>3, <3>4
  <2>4. w = Working(handling', e) /\ RawTx2BrokerTx'[t] = RawTx2BrokerTx[t]
    BY <1>5, Zenon
  <2> HIDE DEF e, o, w
  <2>5. Pending(e)' + executed'[e] = Pending(e) + executed[e] /\ executed'[e] \in Nat
    BY <2>1, <2>2
  <2>6. Noted(t, RawTx2BrokerTx[t], Pending(e)', executed'[e], InReports2(infos', e) + w)
    <3> DEFINE rec == RawTx2BrokerTx[t]
               two == IF Len(rec) = 2 THEN 1 ELSE 0
    <3>1. CASE Split(t)
      <4>1. /\ rec \in {<<>>, <<Part(t, "tx1")>>, <<Part(t, "tx1"), Part(t, "tx2")>>}
            /\ rec # <<>> <=> Pending(e) + executed[e] > 0
            /\ (InReports2(infos, e) + w) + two <= executed[e]
        BY <2>1, <3>1 DEF Noted
      <4>2. two \in {0, 1}
        OBVIOUS
      <4> HIDE DEF two, rec
      <4>3. (InReports2(infos', e) + w) + two <= executed'[e]
        <5>1. (InReports2(infos, e) + o) + w + two <= executed[e] + o
          BY <2>1, <2>2, <4>1, <4>2
        <5> QED BY <2>1, <2>2, <2>3, <4>2, <5>1
      <4> QED BY <2>5, <3>1, <4>1, <4>3 DEF Noted, two, rec
    <3>2. CASE ~Split(t)
      BY <2>1, <3>2 DEF Noted
    <3> QED BY <3>1, <3>2
  <2> QED BY <2>4, <2>5, <2>6 DEF e
<1>7. Confirms'
    BY <1>6, NotedFrom
<1>8. Handled'
    BY <1>5 DEF ConfirmInv, Handled
<1>9. Measured'
    BY <1>5, <1>6 DEF ConfirmInv, Measured, First
<1> QED BY <1>1, <1>7, <1>8, <1>9 DEF ConfirmInv

LEMMA ConfirmInfo == ASSUME ConfirmInv, NEW r \in infos, HandleBlockInfo(r) PROVE ConfirmInv'
<1> DEFINE x == Confirm1s(r, brokerConfirm1Pool, BrokerRawMegs)
           y == Confirm2s(r, brokerConfirm2Pool)
           h == [info |-> r, tx2s |-> Seconds(x), confirm2s |-> y]
<1>1. OnceInv /\ OnceInv' /\ TypeInv /\ IsFiniteSet(infos)
    BY OnceInfo DEF ConfirmInv, OnceInv, TypeInv
<1>2. /\ handling = {} /\ FineInfo(r) /\ x \in Seq(Halves("tx1")) /\ y \in Seq(Halves("tx2"))
      /\ handling' = {h} /\ infos' = infos \ {r}
      /\ RawTx2BrokerTx' = Record(RawTx2BrokerTx, x)
    BY <1>1, Looked
<1>3. h.info = r /\ h.confirm2s = y
    OBVIOUS
<1>4. executed' = executed /\ brokerTxMap' = brokerTxMap
    BY DEF HandleBlockInfo, shardVars, measureVars
<1>5. /\ BrokerRawMegs \in SUBSET TxID /\ brokerConfirm1Pool \in SUBSET [raw : TxID, part : {"tx1"}]
      /\ brokerConfirm2Pool \in SUBSET [raw : TxID, part : {"tx2"}] /\ RawTx2BrokerTx \in [TxID -> Seq(Entry)]
    BY <1>1 DEF TypeInv, TypeOK
<1>6. ASSUME NEW CONSTANT t \in TxID
      PROVE  /\ Occurrences(Part(t, "tx2"), y) <= Occurrences(Part(t, "tx2"), r.broker2)
             /\ Occurrences(Part(t, "tx2"), r.broker2) <= 1
  <2>1. Occurrences(Part(t, "tx2"), y) = IF Part(t, "tx2") \in brokerConfirm2Pool
                                         THEN Occurrences(Part(t, "tx2"), r.broker2) ELSE 0
    BY <1>2, <1>5, ReportFacts
  <2>2. Occurrences(Part(t, "tx2"), r.broker2) <= 1 
    BY <1>1 DEF OnceInv, InfoOnce
  <2>3. Occurrences(Part(t, "tx2"), r.broker2) \in Nat
    BY <1>2, TxsFacts
  <2> QED BY <2>1, <2>2, <2>3
<1> HIDE DEF h, x, y
<1>7. ASSUME NEW CONSTANT t \in TxID
      PROVE  InReports2(infos', Part(t, "tx2")) + Working(handling', Part(t, "tx2"))
               = InReports2(infos, Part(t, "tx2")) + Working(handling, Part(t, "tx2"))
  <2> DEFINE e == Part(t, "tx2")
             R == infos \ {r}
  <2>1. IsFiniteSet(R) /\ r \notin R /\ infos = R \cup {r} /\ infos' = R
    BY <1>1, <1>2, FS_RemoveElement
  <2> HIDE DEF e, R
  <2>2. /\ InReports2(R, e) \in Nat
        /\ r \notin R => InReports2(R \cup {r}, e) = InReports2(R, e) + (IF e \in Range(r.broker2) THEN 1 ELSE 0)
    BY <2>1, Reports2Add
  <2>3. InReports2(infos, e) = InReports2(R \cup {r}, e) /\ InReports2(infos', e) = InReports2(R, e)
    BY <2>1, Zenon
  <2>4. Working(handling, e) = 0 /\ Working(handling', e) = IF e \in Range(r.broker2) THEN 1 ELSE 0
    BY <1>2, <1>3 DEF Working
  <2>5. InReports2(infos', e) + Working(handling', e) = InReports2(infos, e) + Working(handling, e)
    BY <2>1, <2>2, <2>3, <2>4
  <2> QED BY <2>5 DEF e
<1>8. ASSUME NEW CONSTANT t \in TxID, Split(t)
      PROVE  LET a == Part(t, "tx1")
                 e == Part(t, "tx2")
                 o == Occurrences(a, r.broker1)
             IN  /\ o \in {0, 1} /\ Pending(e)' = Pending(e) + o
                 /\ Occurrences(a, x) = o
                 /\ o = 1 => Pending(e) = 0 /\ executed[e] = 0
  <2> DEFINE a == Part(t, "tx1")
             e == Part(t, "tx2")
             c == Part(t, "whole")
             o == Occurrences(a, r.broker1)
  <2>1. /\ Unconfirmed(t) = Unconfirmed(t)' + o /\ Pending(e)' = Pending(e) + o
        /\ Occurrences(a, x) = o
        /\ o \in {0, 1} /\ Unconfirmed(t)' \in Nat
    BY <1>1, <1>8, LookCounts DEF x
  <2>2. /\ Pending(a) \in Nat /\ Pending(e) \in Nat /\ executed[a] \in Nat /\ executed[e] \in Nat
        /\ Unconfirmed(t) \in Nat
        /\ Balanced(t, nowDataNum, Pending(a), executed[a], Unconfirmed(t), Pending(e), executed[e], Pending(c), executed[c])
    BY <1>1, PartFacts, TotalsOf
  <2>3. ASSUME o = 1 PROVE Pending(e) = 0 /\ executed[e] = 0
    <3> HIDE DEF a, e, c, o
    <3>1. /\ Pending(a) + executed[a] = Known(t, nowDataNum)
          /\ Unconfirmed(t) + Pending(e) + executed[e] = executed[a]
      BY <1>8, <2>2 DEF Balanced
    <3>2. executed[a] <= 1 /\ Unconfirmed(t) >= 1
      BY <2>1, <2>2, <2>3, <3>1 DEF Known
    <3> QED BY <2>2, <3>1, <3>2
  <2> QED BY <2>1, <2>3
<1>9. ASSUME NEW CONSTANT t \in TxID
      PROVE  Noted(t, RawTx2BrokerTx'[t], Pending(Part(t, "tx2"))', executed'[Part(t, "tx2")],
                   InReports2(infos', Part(t, "tx2")) + Working(handling', Part(t, "tx2")))
  <2> DEFINE a == Part(t, "tx1")
             e == Part(t, "tx2")
             rec == RawTx2BrokerTx[t]
             w == InReports2(infos, e) + Working(handling, e)
  <2>1. /\ Pending(e) \in Nat /\ executed[e] \in Nat /\ InReports2(infos, e) \in Nat /\ Working(handling, e) \in {0, 1}
        /\ Noted(t, rec, Pending(e), executed[e], w)
    BY NotedFacts
  <2>2. /\ Occurrences(a, x) = 0 => RawTx2BrokerTx'[t] = rec
        /\ Occurrences(a, x) = 1 => RawTx2BrokerTx'[t] = Append(rec, a)
        /\ ~Split(t) => Occurrences(a, x) = 0
    BY <1>2, <1>5, RecordIs
  <2>3. w = InReports2(infos', e) + Working(handling', e)
    BY <1>7
  <2>4. CASE ~Split(t)
    BY <1>4, <2>1, <2>2, <2>4 DEF Noted
  <2>5. CASE Split(t) /\ Occurrences(a, x) = 0
    <3>1. Pending(e)' = Pending(e)
      BY <1>8, <2>1, <2>5
    <3>2. RawTx2BrokerTx'[t] = rec
      BY <2>2, <2>5
    <3> QED BY <1>4, <2>1, <2>3, <3>1, <3>2
  <2>6. CASE Split(t) /\ Occurrences(a, x) # 0
    <3>1. Occurrences(a, x) = 1 /\ Pending(e)' = 1 /\ Pending(e) = 0 /\ executed[e] = 0
      BY <1>8, <2>1, <2>6
    <3>2. rec = <<>> /\ w <= 0
      <4> HIDE DEF e, w, rec
      <4> QED BY <2>1, <2>6, <3>1 DEF Noted, w
    <3>3. RawTx2BrokerTx'[t] = <<a>>
      BY <2>2, <3>1, <3>2
    <3> HIDE DEF w
    <3>4. Noted(t, <<a>>, 1, 0, w)
      <4>1. Len(<<a>>) = 1 /\ <<a>> # <<>>
        OBVIOUS
      <4>2. w \in Int
        BY <2>1 DEF w
      <4> QED BY <2>6, <3>2, <4>1, <4>2 DEF Noted
    <3> QED BY <1>4, <2>3, <3>1, <3>3, <3>4
  <2> QED BY <2>4, <2>5, <2>6
<1>10. Confirms'
    BY <1>9, NotedFrom
<1>11. Handled'
    BY <1>2, <1>3, <1>6 DEF Handled
<1>12. Measured'
  <2> SUFFICES ASSUME NEW CONSTANT t \in TxID, Split(t),
                      Pending(Part(t, "tx2"))' + executed'[Part(t, "tx2")] > 0
               PROVE  First(handling', brokerTxMap', t)
    BY DEF Measured
  <2> DEFINE a == Part(t, "tx1")
             e == Part(t, "tx2")
             o == Occurrences(a, r.broker1)
  <2>1. o \in {0, 1} /\ Pending(e)' = Pending(e) + o /\ Pending(e) \in Nat /\ executed[e] \in Nat
    BY <1>8, NotedFacts
  <2>2. CASE o = 0
    <3>1. Pending(e) + executed[e] > 0
      BY <1>4, <2>1, <2>2
    <3>2. First(handling, brokerTxMap, t)
      BY <3>1 DEF ConfirmInv, Measured
    <3> QED BY <1>2, <1>4, <3>2 DEF First
  <2>3. CASE o = 1
    <3>1. r.broker1 \in Seq(Halves("tx1"))
      BY <1>2 DEF FineInfo
    <3>2. \E i \in 1 .. Len(r.broker1) : r.broker1[i] = a
      BY <2>3, <3>1, OccurrencesIn
    <3>3. t \in RawOf(r.broker1)
      BY <3>1, <3>2, PartFacts DEF RawOf
    <3> QED BY <1>2, <1>3, <3>3 DEF First
  <2> QED BY <2>1, <2>2, <2>3
<1> QED BY <1>1, <1>10, <1>11, <1>12 DEF ConfirmInv

LEMMA ConfirmSending2 == ASSUME ConfirmInv, NEW h \in handling, TxSending2(h) PROVE ConfirmInv'
<1> DEFINE g == Worked(h, Tail(h.tx2s))
<1>1. OnceInv /\ OnceInv' /\ TypeInv /\ \A e \in Entry : Pending(e)' = Pending(e)
    BY OnceSending2, Sending2Pending DEF ConfirmInv, OnceInv
<1>2. handling = {h} /\ h \in Work
    BY <1>1, HandlingIs
<1>3. handling' = (handling \ {h}) \cup {g}
    BY DEF TxSending2, Worked
<1>4. g.info = h.info /\ g.confirm2s = h.confirm2s
    BY <1>2, WorkFacts
<1> HIDE DEF g
<1>5. handling' = {g}
    BY <1>2, <1>3
<1>6. UNCHANGED <<executed, infos, RawTx2BrokerTx, brokerTxMap>>
    BY DEF TxSending2, shardVars, brokerVars, measureVars
<1>7. \A t \in TxID : Part(t, "tx2") \in Entry
    BY PartFacts
<1>8. \A e : Working(handling', e) = Working(handling, e)
    BY <1>2, <1>4, <1>5 DEF Working
<1>9. ASSUME NEW CONSTANT t \in TxID
      PROVE  Noted(t, RawTx2BrokerTx'[t], Pending(Part(t, "tx2"))', executed'[Part(t, "tx2")],
                   InReports2(infos', Part(t, "tx2")) + Working(handling', Part(t, "tx2")))
  <2>1. Noted(t, RawTx2BrokerTx[t], Pending(Part(t, "tx2")), executed[Part(t, "tx2")],
                   InReports2(infos, Part(t, "tx2")) + Working(handling, Part(t, "tx2")))
    BY DEF ConfirmInv, Confirms
  <2>2. Pending(Part(t, "tx2"))' = Pending(Part(t, "tx2"))
    BY <1>1, <1>7
  <2> QED BY <1>6, <1>8, <2>1, <2>2
<1>10. Confirms'
    BY <1>9, NotedFrom
<1>11. Handled'
    BY <1>2, <1>4, <1>5 DEF ConfirmInv, Handled
<1>12. \A t : First(handling', brokerTxMap', t) <=> First(handling, brokerTxMap, t)
    BY <1>2, <1>4, <1>5, <1>6 DEF First
<1>13. Measured'
  <2>1. \A t \in TxID : Pending(Part(t, "tx2"))' = Pending(Part(t, "tx2"))
    BY <1>1, <1>7
  <2> QED BY <1>6, <1>12, <2>1 DEF ConfirmInv, Measured
<1> QED BY <1>1, <1>10, <1>11, <1>13 DEF ConfirmInv

LEMMA ConfirmConfirm2 == ASSUME ConfirmInv, NEW h \in handling, HandleTx2ConfirmMag(h) PROVE ConfirmInv'
<1>1. OnceInv /\ OnceInv' /\ TypeInv /\ \A e \in Entry : Pending(e)' = Pending(e)
    BY OnceConfirm2, Confirm2Pending DEF ConfirmInv, OnceInv
<1>2. handling = {h} /\ h \in Work /\ FineWork(h)
    BY <1>1, HandlingIs
<1>3. handling' = {} /\ RawTx2BrokerTx' = Record(RawTx2BrokerTx, h.confirm2s)
      /\ brokerTxMap' = brokerTxMap \cup RawOf(h.info.broker1)
    BY <1>2 DEF HandleTx2ConfirmMag, UpdateMeasureRecord
<1>4. UNCHANGED <<executed, infos>>
    BY DEF HandleTx2ConfirmMag, shardVars
<1>5. h.confirm2s \in Seq(Halves("tx2")) /\ h.info.broker2 \in Seq(Halves("tx2")) /\ RawTx2BrokerTx \in [TxID -> Seq(Entry)]
    BY <1>1, <1>2 DEF FineWork, FineInfo, TypeInv, TypeOK
<1>6. \A t \in TxID : Part(t, "tx2") \in Entry
    BY PartFacts
<1>7. ASSUME NEW CONSTANT t \in TxID
      PROVE  Noted(t, RawTx2BrokerTx'[t], Pending(Part(t, "tx2"))', executed'[Part(t, "tx2")],
                   InReports2(infos', Part(t, "tx2")) + Working(handling', Part(t, "tx2")))
  <2> DEFINE a == Part(t, "tx1")
             e == Part(t, "tx2")
             rec == RawTx2BrokerTx[t]
             k == Occurrences(e, h.confirm2s)
             i == InReports2(infos, e)
             w == Working(handling, e)
  <2>1. /\ Pending(e) \in Nat /\ executed[e] \in Nat /\ i \in Nat /\ w \in {0, 1}
        /\ Split(t) => Pending(e) + executed[e] <= 1
        /\ Noted(t, rec, Pending(e), executed[e], i + w)
    BY NotedFacts
  <2>2. /\ k = 0 => RawTx2BrokerTx'[t] = rec
        /\ k = 1 => RawTx2BrokerTx'[t] = Append(rec, e)
        /\ ~Split(t) => k = 0
    BY <1>3, <1>5, RecordIs
  <2>3. Working(handling', e) = 0 /\ InReports2(infos', e) = i /\ executed' = executed
    BY <1>3, <1>4 DEF Working
  <2>4. Pending(e)' = Pending(e)
    BY <1>1, <1>6
  <2>5. k \in {0, 1} /\ k <= w
    <3>1. /\ k <= Occurrences(e, h.info.broker2) /\ Occurrences(e, h.info.broker2) <= 1
      BY DEF ConfirmInv, Handled
    <3>2. k \in Nat /\ Occurrences(e, h.info.broker2) \in Nat
      BY <1>5, OccurrencesUpto
    <3>3. e \in Range(h.info.broker2) <=> Occurrences(e, h.info.broker2) > 0
      BY <1>5, OccurrencesRange
    <3>4. w = IF e \in Range(h.info.broker2) THEN 1 ELSE 0
      BY <1>2 DEF Working
    <3> QED BY <3>1, <3>2, <3>3, <3>4
  <2> HIDE DEF k, i, w, rec, e
  <2>6. Noted(t, RawTx2BrokerTx'[t], Pending(e), executed[e], i + 0)
    <3>1. CASE ~Split(t)
      BY <2>1, <2>2, <3>1 DEF Noted
    <3>2. CASE Split(t) /\ k = 0
      <4>1. RawTx2BrokerTx'[t] = rec
        BY <2>2, <3>2
      <4> DEFINE two == IF Len(rec) = 2 THEN 1 ELSE 0
      <4>2. /\ rec \in {<<>>, <<Part(t, "tx1")>>, <<Part(t, "tx1"), Part(t, "tx2")>>}
            /\ rec # <<>> <=> Pending(e) + executed[e] > 0
            /\ (i + w) + two <= executed[e]
        BY <2>1, <3>2 DEF Noted
      <4>3. two \in {0, 1}
        OBVIOUS
      <4> HIDE DEF two
      <4>4. (i + 0) + two <= executed[e]
        BY <2>1, <4>2, <4>3
      <4> QED BY <3>2, <4>1, <4>2, <4>4 DEF Noted, two
    <3>3. CASE Split(t) /\ k = 1
      <4> DEFINE two == IF Len(rec) = 2 THEN 1 ELSE 0
      <4>1. /\ rec \in {<<>>, <<Part(t, "tx1")>>, <<Part(t, "tx1"), Part(t, "tx2")>>}
            /\ rec # <<>> <=> Pending(e) + executed[e] > 0
            /\ (i + w) + two <= executed[e]
        BY <2>1, <3>3 DEF Noted
      <4>2. two \in {0, 1} /\ w = 1
        BY <2>1, <2>5, <3>3
      <4>3. two = 0 /\ executed[e] = 1 /\ Pending(e) = 0 /\ i = 0
        <5> HIDE DEF two
        <5> QED BY <2>1, <3>3, <4>1, <4>2
      <4>4. rec # <<>> /\ Len(rec) # 2
        BY <2>1, <4>1, <4>3
      <4>5. Len(<<Part(t, "tx1"), Part(t, "tx2")>>) = 2
        OBVIOUS
      <4>6. rec = <<a>>
        <5> HIDE DEF two
        <5> QED BY <4>1, <4>4, <4>5, Zenon
      <4>7. RawTx2BrokerTx'[t] = <<a, e>>
        BY <2>2, <3>3, <4>6
      <4>8. Len(<<a, e>>) = 2 /\ <<a, e>> # <<>>
        OBVIOUS
      <4>9. Noted(t, <<a, e>>, 0, 1, 0 + 0)
        BY <3>3, <4>8 DEF Noted, e
      <4> QED BY <4>3, <4>7, <4>9
    <3> QED BY <2>5, <3>1, <3>2, <3>3
  <2> QED BY <2>3, <2>4, <2>6 DEF e
<1>8. Confirms'
    BY <1>7, NotedFrom
<1>9. Handled'
    BY <1>3 DEF Handled
<1>10. \A t : First(handling, brokerTxMap, t) => First(handling', brokerTxMap', t)
    BY <1>2, <1>3 DEF First
<1>11. Measured'
  <2>1. \A t \in TxID : Pending(Part(t, "tx2"))' = Pending(Part(t, "tx2"))
    BY <1>1, <1>6
  <2> QED BY <1>4, <1>10, <2>1 DEF ConfirmInv, Measured
<1> QED BY <1>1, <1>8, <1>9, <1>11 DEF ConfirmInv

LEMMA ConfirmIdle == ASSUME ConfirmInv, UNCHANGED vars PROVE ConfirmInv'
<1>1. OnceInv'
    BY OnceIdle DEF ConfirmInv
<1>2. \A t \in TxID : Pending(Part(t, "tx2"))' = Pending(Part(t, "tx2"))
    BY DEF vars, shardVars, Pending
<1> QED BY <1>1, <1>2, ConfirmUnmoved DEF vars, shardVars, brokerVars, measureVars

LEMMA ConfirmNext == ASSUME ConfirmInv, [Next]_vars PROVE ConfirmInv'
<1>1. CASE UNCHANGED vars
    BY <1>1, ConfirmIdle
<1>2. CASE Next
    BY <1>2, ConfirmDeal, ConfirmShards, ConfirmCommit, ConfirmInfo, ConfirmSending2, ConfirmConfirm2 DEF Next
<1> QED BY <1>1, <1>2

LEMMA ConfirmInvariant == Spec => []ConfirmInv
<1>1. Init => ConfirmInv
    BY TypeInvInit, OnceInit, ConfirmInit DEF OnceInv, ConfirmInv
<1>2. ConfirmInv /\ [Next]_vars => ConfirmInv'
    BY ConfirmNext
<1> QED BY <1>1, <1>2, PTL DEF Spec

\* RawTx2BrokerTx lists the first half of a transaction, then the second, each
\* once, as handleTx2ConfirmMag assumes.
THEOREM ConfirmedInOrder == Spec => []ConfirmOrder
<1>1. ConfirmInv => ConfirmOrder
    BY DEF ConfirmInv, Confirms, Noted, ConfirmOrder
<1> QED BY <1>1, ConfirmInvariant, PTL

\* When a second half is measured, the first has been: the measure never finds
\* "Missing a broker1 tx" (UpdateMeasureRecord under tcpLock).
THEOREM NoneMissing == Spec => []NoMissingBroker1
<1>1. ASSUME ConfirmInv PROVE NoMissingBroker1
  <2> SUFFICES ASSUME NEW h \in handling, NEW t \in RawOf(h.info.broker2)
               PROVE  t \in brokerTxMap \cup RawOf(h.info.broker1)
    BY DEF NoMissingBroker1
  <2>1. TypeInv
    BY <1>1 DEF ConfirmInv, OnceInv
  <2>2. handling = {h} /\ FineWork(h)
    BY <2>1, HandlingIs
  <2>3. h.info.broker2 \in Seq(Halves("tx2"))
    BY <2>2 DEF FineWork, FineInfo
  <2> DEFINE q == h.info.broker2
             e == Part(t, "tx2")
  <2>4. PICK i \in DOMAIN q : t = q[i].raw
    BY DEF RawOf
  <2>5. q[i] \in Halves("tx2") /\ i \in 1 .. Len(q)
    BY <2>3, <2>4
  <2>6. q[i] \in Legit /\ q[i].part = "tx2" /\ t \in TxID
    BY <2>4, <2>5, LegitFacts, PartFacts DEF Halves
  <2>7. q[i] = e /\ Split(t)
    BY <2>4, <2>6, LegitFacts, PartFacts
  <2>8. e \in Range(q)
    BY <2>4, <2>7 DEF Range
  <2>9. Working(handling, e) = 1
    BY <2>2, <2>8 DEF Working
  <2>10. executed[e] \in Nat /\ Pending(e) \in Nat /\ InReports2(infos, e) \in Nat
    BY <2>1, <2>6, PartFacts, CountsAreNat, Reports2Add DEF TypeInv
  <2>11. Noted(t, RawTx2BrokerTx[t], Pending(e), executed[e], InReports2(infos, e) + Working(handling, e))
    BY <1>1, <2>6 DEF ConfirmInv, Confirms
  <2>12. Pending(e) + executed[e] > 0
    <3> HIDE DEF e, q
    <3> DEFINE two == IF Len(RawTx2BrokerTx[t]) = 2 THEN 1 ELSE 0
    <3>1. (InReports2(infos, e) + Working(handling, e)) + two <= executed[e]
      BY <2>7, <2>11 DEF Noted
    <3>2. two \in {0, 1}
      OBVIOUS
    <3> HIDE DEF two
    <3> QED BY <2>9, <2>10, <3>1, <3>2
  <2>13. First(handling, brokerTxMap, t)
    BY <1>1, <2>6, <2>7, <2>12 DEF ConfirmInv, Measured
  <2> QED BY <2>2, <2>13 DEF First
<1>2. ConfirmInv => NoMissingBroker1
    BY <1>1
<1> QED BY <1>2, ConfirmInvariant, PTL

-----------------------------------------------------------------------------
(* Money. *)

\* The part of row t that account a would pay for, what a paid of the parts counted
\* by c, and the value of the parts among some.
Of(t, a) == Part(t, IF ~Split(t) THEN "whole" ELSE IF a = BrokerAddress[1] THEN "tx2" ELSE "tx1")
Paid(c, t, a) == IF Sender(Of(t, a)) = a THEN c[Of(t, a)] * Value(t) ELSE 0
Spent(c, a) == SumFunctionOnSet([t \in TxID |-> Paid(c, t, a)], TxID)
Worth(c, e) == c[e] * Value(e.raw)
Given(c, S) == SumFunctionOnSet([e \in S |-> Worth(c, e)], S)

\* The users whose home is shard s.
Home(s) == {a \in User : Addr2Shard[a] = s}

\* d counts entry x once more than c.
OneMore(c, d, x) == \A e \in Entry : d[e] = c[e] + One(x, e)

LEMMA Times ==
    \A c, v \in Nat : /\ c * v \in Nat /\ (c + 1) * v = c * v + v
                      /\ c <= 1 => c * v <= v
<1> SUFFICES ASSUME NEW c \in Nat, NEW v \in Nat
             PROVE  c * v \in Nat /\ (c + 1) * v = c * v + v /\ (c <= 1 => c * v <= v)
    OBVIOUS
<1>1. c * v \in Nat /\ (c + 1) * v = c * v + v
    OBVIOUS
<1>2. CASE c = 0
  <2>1. c * v = 0
    BY <1>2
  <2> QED BY <1>1, <2>1
<1>3. CASE c = 1
  <2>1. c * v = v
    BY <1>3
  <2> QED BY <1>1, <2>1
<1>4. CASE c > 1
    BY <1>1, <1>4
<1> QED BY <1>2, <1>3, <1>4

LEMMA OfFacts ==
    ASSUME NEW a
    PROVE  /\ \A t \in TxID : Of(t, a) \in Legit /\ Of(t, a) \in Entry /\ Of(t, a).raw = t
           /\ \A e \in Legit : Sender(e) = a => Of(e.raw, a) = e
<1>1. ASSUME NEW t \in TxID PROVE Of(t, a) \in Legit /\ Of(t, a) \in Entry /\ Of(t, a).raw = t
  <2>1. Of(t, a) \in Legit
    BY LegitFacts DEF Of
  <2> QED BY <2>1, LegitFacts, PartFacts DEF Of
<1>2. ASSUME NEW e \in Legit, Sender(e) = a PROVE Of(e.raw, a) = e
  <2>1. e.raw \in TxID /\ e \in Entry
    BY LegitFacts, PartFacts
  <2>2. CASE e = Part(e.raw, "whole") /\ ~Split(e.raw)
    BY <2>2 DEF Of
  <2>3. CASE e = Part(e.raw, "tx1") /\ Split(e.raw)
    <3>1. e.part = "tx1" /\ "tx1" # "tx2"
      BY <2>3, PartFacts
    <3>2. Sender(e) = TxList[e.raw].from /\ ~IsBroker(TxList[e.raw].from)
      BY <2>3, <3>1 DEF Sender, Split
    <3>3. a # BrokerAddress[1]
      BY <1>2, <3>2, RowFacts
    <3> QED BY <2>3, <3>3 DEF Of
  <2>4. CASE e = Part(e.raw, "tx2") /\ Split(e.raw)
    <3>1. e.part = "tx2"
      BY <2>4, PartFacts
    <3>2. a = BrokerAddress[1]
      BY <1>2, <3>1 DEF Sender
    <3> QED BY <2>4, <3>2 DEF Of
  <2> QED BY <2>2, <2>3, <2>4, LegitFacts
<1> QED BY <1>1, <1>2

LEMMA PaidType ==
    ASSUME NEW c \in [Entry -> Nat], NEW a
    PROVE  \A t \in TxID : Paid(c, t, a) \in Nat
<1> SUFFICES ASSUME NEW t \in TxID PROVE Paid(c, t, a) \in Nat
    OBVIOUS
<1>1. Of(t, a) \in Entry /\ Value(t) \in Nat
    BY OfFacts, RowFacts
<1>2. c[Of(t, a)] \in Nat
    BY <1>1
<1>3. c[Of(t, a)] * Value(t) \in Nat
    BY <1>1, <1>2, Times
<1> QED BY <1>3 DEF Paid

LEMMA SpentAdd ==
    ASSUME NEW c \in [Entry -> Nat], NEW d \in [Entry -> Nat], NEW x \in Legit, OneMore(c, d, x), NEW a
    PROVE  /\ Spent(c, a) \in Nat /\ Spent(d, a) \in Nat
           /\ Spent(d, a) = Spent(c, a) + (IF Sender(x) = a THEN Value(x.raw) ELSE 0)
<1> DEFINE f == [t \in TxID |-> Paid(c, t, a)]
           g == [t \in TxID |-> Paid(d, t, a)]
           u == x.raw
<1>1. \A t \in TxID : Paid(c, t, a) \in Nat /\ Paid(d, t, a) \in Nat
    BY PaidType
<1>2. \A t \in TxID : f[t] \in Nat /\ g[t] \in Nat
    BY <1>1
<1>3. u \in TxID /\ x \in Entry /\ IsFiniteSet(TxID) /\ Value(u) \in Nat
    BY LegitFacts, PartFacts, RowFacts
<1>4. \A t \in TxID : Of(t, a) \in Entry /\ Of(t, a).raw = t
    BY OfFacts
<1>5. ASSUME NEW t \in TxID, t # u \/ Sender(x) # a PROVE g[t] = f[t]
  <2>1. CASE Sender(Of(t, a)) = a
    <3>1. Of(t, a) # x
      BY <1>4, <1>5, <2>1
    <3>2. d[Of(t, a)] = c[Of(t, a)] + 0 /\ c[Of(t, a)] \in Nat
      BY <1>4, <3>1 DEF OneMore, One
    <3>3. d[Of(t, a)] = c[Of(t, a)]
      BY <3>2
    <3> QED BY <3>3 DEF Paid
  <2>2. CASE Sender(Of(t, a)) # a
    BY <2>2 DEF Paid
  <2> QED BY <2>1, <2>2
<1>6. ASSUME Sender(x) = a PROVE g[u] = f[u] + Value(u)
  <2>1. Of(u, a) = x
    BY <1>6, OfFacts
  <2>2. d[x] = c[x] + 1 /\ c[x] \in Nat
    BY <1>3 DEF OneMore, One
  <2>3. d[x] * Value(u) = c[x] * Value(u) + Value(u)
    BY <1>3, <2>2, Times
  <2>4. Paid(d, u, a) = d[x] * Value(u) /\ Paid(c, u, a) = c[x] * Value(u)
    BY <1>6, <2>1 DEF Paid
  <2> HIDE DEF u
  <2> QED BY <1>3, <2>3, <2>4
<1>7. Spent(c, a) = SumFunctionOnSet(f, TxID) /\ Spent(d, a) = SumFunctionOnSet(g, TxID)
    BY DEF Spent
<1> HIDE DEF f, g, u
<1>8. SumFunctionOnSet(f, TxID) \in Nat /\ SumFunctionOnSet(g, TxID) \in Nat
    BY <1>2, <1>3, SumNat
<1>9. CASE Sender(x) = a
  <2>1. \A t \in TxID \ {u} : g[t] = f[t]
    BY <1>5
  <2>2. \A t \in TxID : f[t] \in Int /\ g[t] \in Int
    BY <1>2
  <2>3. SumFunctionOnSet(g, TxID) = SumFunctionOnSet(f, TxID) - f[u] + g[u]
    BY <1>3, <2>1, <2>2, SumChange
  <2>4. f[u] \in Nat /\ g[u] = f[u] + Value(u)
    BY <1>2, <1>3, <1>6, <1>9
  <2> QED BY <1>3, <1>7, <1>8, <1>9, <2>3, <2>4 DEF u
<1>10. CASE Sender(x) # a
  <2>1. \A t \in TxID : f[t] = g[t]
    BY <1>5, <1>10
  <2>2. SumFunctionOnSet(f, TxID) = SumFunctionOnSet(g, TxID)
    BY <1>3, <2>1, SumAgree
  <2> QED BY <1>7, <1>8, <1>10, <2>2
<1> QED BY <1>9, <1>10

\* What is sent once is paid for.
LEMMA SpentBound ==
    ASSUME NEW c \in [Entry -> Nat], \A e \in Legit : c[e] <= 1, NEW a
    PROVE  Spent(c, a) <= InitBalance
<1> DEFINE f == [t \in TxID |-> Paid(c, t, a)]
           g == [t \in TxID |-> Value(t)]
<1>1. ASSUME NEW t \in TxID PROVE f[t] \in Int /\ g[t] \in Int /\ f[t] <= g[t]
  <2>1. Of(t, a) \in Legit /\ Of(t, a) \in Entry /\ Value(t) \in Nat
    BY OfFacts, RowFacts
  <2>2. c[Of(t, a)] \in Nat /\ c[Of(t, a)] <= 1
    BY <2>1
  <2>3. c[Of(t, a)] * Value(t) \in Nat /\ c[Of(t, a)] * Value(t) <= Value(t)
    BY <2>1, <2>2, Times
  <2> QED BY <2>1, <2>3 DEF Paid
<1>2. InitBalance >= SumFunctionOnSet(g, TxID)
    BY BrokerFunds DEF SumFunction
<1>3. Spent(c, a) = SumFunctionOnSet(f, TxID) /\ IsFiniteSet(TxID) /\ InitBalance \in Nat
    BY RowFacts, BrokerAssumption DEF Spent
<1> HIDE DEF f, g
<1>4. SumFunctionOnSet(f, TxID) <= SumFunctionOnSet(g, TxID)
    BY <1>1, <1>3, SumMono
<1>5. SumFunctionOnSet(f, TxID) \in Int /\ SumFunctionOnSet(g, TxID) \in Int
    BY <1>1, <1>3, SumRemove
<1> QED BY <1>2, <1>3, <1>4, <1>5

LEMMA SpentMono ==
    ASSUME NEW c \in [Entry -> Nat], NEW d \in [Entry -> Nat], \A e \in Entry : c[e] <= d[e], NEW a
    PROVE  Spent(c, a) <= Spent(d, a) /\ Spent(c, a) \in Nat /\ Spent(d, a) \in Nat
<1> DEFINE f == [t \in TxID |-> Paid(c, t, a)]
           g == [t \in TxID |-> Paid(d, t, a)]
<1>1. \A t \in TxID : Paid(c, t, a) \in Nat /\ Paid(d, t, a) \in Nat
    BY PaidType
<1>2. ASSUME NEW t \in TxID PROVE f[t] \in Nat /\ g[t] \in Nat /\ f[t] <= g[t]
  <2>1. Of(t, a) \in Entry /\ Value(t) \in Nat
    BY OfFacts, RowFacts
  <2>2. c[Of(t, a)] \in Nat /\ d[Of(t, a)] \in Nat /\ c[Of(t, a)] <= d[Of(t, a)]
    BY <2>1
  <2>3. \A x, y, v \in Nat : x <= y => x * v <= y * v
    OBVIOUS
  <2>4. c[Of(t, a)] * Value(t) <= d[Of(t, a)] * Value(t)
    BY <2>1, <2>2, <2>3
  <2> QED BY <1>1, <2>4 DEF Paid
<1>3. Spent(c, a) = SumFunctionOnSet(f, TxID) /\ Spent(d, a) = SumFunctionOnSet(g, TxID) /\ IsFiniteSet(TxID)
    BY RowFacts DEF Spent
<1> HIDE DEF f, g
<1>4. SumFunctionOnSet(f, TxID) <= SumFunctionOnSet(g, TxID)
  <2>1. \A t \in TxID : f[t] \in Int /\ g[t] \in Int /\ f[t] <= g[t]
    BY <1>2
  <2> QED BY <1>3, <2>1, SumMono
<1>5. SumFunctionOnSet(f, TxID) \in Nat /\ SumFunctionOnSet(g, TxID) \in Nat
    BY <1>2, <1>3, SumNat
<1> QED BY <1>3, <1>4, <1>5

LEMMA GivenAdd ==
    ASSUME NEW c \in [Entry -> Nat], NEW d \in [Entry -> Nat], NEW x \in Entry, OneMore(c, d, x),
           NEW S \in SUBSET Entry
    PROVE  /\ Given(c, S) \in Nat /\ Given(d, S) \in Nat
           /\ Given(d, S) = Given(c, S) + (IF x \in S THEN Value(x.raw) ELSE 0)
<1> DEFINE f == [e \in S |-> Worth(c, e)]
           g == [e \in S |-> Worth(d, e)]
<1>1. ASSUME NEW e \in S PROVE Worth(c, e) \in Nat /\ Worth(d, e) \in Nat
  <2>1. c[e] \in Nat /\ d[e] \in Nat /\ Value(e.raw) \in Nat
    BY EntryFacts
  <2> QED BY <2>1, Times DEF Worth
<1>2. \A e \in S : f[e] \in Nat /\ g[e] \in Nat
    BY <1>1
<1>3. IsFiniteSet(S) /\ Value(x.raw) \in Nat
    BY EntryFinite, EntryFacts, FS_Subset
<1>4. ASSUME NEW e \in S, e # x PROVE g[e] = f[e]
  <2>1. d[e] = c[e] + 0 /\ c[e] \in Nat
    BY <1>4 DEF OneMore, One
  <2>2. d[e] = c[e]
    BY <2>1
  <2> QED BY <2>2 DEF Worth
<1>5. ASSUME x \in S PROVE g[x] = f[x] + Value(x.raw)
  <2>1. d[x] = c[x] + 1 /\ c[x] \in Nat
    BY DEF OneMore, One
  <2>2. d[x] * Value(x.raw) = c[x] * Value(x.raw) + Value(x.raw)
    BY <1>3, <2>1, Times
  <2> QED BY <1>5, <2>2 DEF Worth
<1>6. Given(c, S) = SumFunctionOnSet(f, S) /\ Given(d, S) = SumFunctionOnSet(g, S)
    BY DEF Given
<1> HIDE DEF f, g
<1>7. SumFunctionOnSet(f, S) \in Nat /\ SumFunctionOnSet(g, S) \in Nat
    BY <1>2, <1>3, SumNat
<1>8. CASE x \in S
  <2>1. \A e \in S \ {x} : g[e] = f[e]
    BY <1>4
  <2>2. \A e \in S : f[e] \in Int /\ g[e] \in Int
    BY <1>2
  <2>3. SumFunctionOnSet(g, S) = SumFunctionOnSet(f, S) - f[x] + g[x]
    BY <1>3, <1>8, <2>1, <2>2, SumChange
  <2>4. f[x] \in Nat /\ g[x] = f[x] + Value(x.raw)
    BY <1>2, <1>5, <1>8
  <2> QED BY <1>3, <1>6, <1>7, <1>8, <2>3, <2>4
<1>9. CASE x \notin S
  <2>1. \A e \in S : f[e] = g[e]
    BY <1>4, <1>9
  <2>2. SumFunctionOnSet(f, S) = SumFunctionOnSet(g, S)
    BY <1>3, <2>1, SumAgree
  <2> QED BY <1>6, <1>7, <1>9, <2>2
<1> QED BY <1>8, <1>9

If(p, v) == IF p THEN v ELSE 0

\* A balance that changes by w.
Shifted(f, g, H, a, w) == \A x \in H : f[x] \in Int /\ g[x] = IF x = a THEN f[x] + w ELSE f[x]

LEMMA SumShift ==
    ASSUME NEW f, NEW g, NEW H, IsFiniteSet(H), NEW a, NEW w \in Int, Shifted(f, g, H, a, w)
    PROVE  /\ SumFunctionOnSet(g, H) = SumFunctionOnSet(f, H) + If(a \in H, w)
           /\ SumFunctionOnSet(f, H) \in Int
<1> USE DEF Shifted, If
<1>1. SumFunctionOnSet(f, H) \in Int
    BY SumRemove
<1>2. CASE a \in H
  <2>1. \A x \in H : f[x] \in Int /\ g[x] \in Int
    OBVIOUS
  <2>2. \A x \in H \ {a} : g[x] = f[x]
    OBVIOUS
  <2>3. SumFunctionOnSet(g, H) = SumFunctionOnSet(f, H) - f[a] + g[a]
    BY <1>2, <2>1, <2>2, SumChange
  <2>4. f[a] \in Int /\ g[a] = f[a] + w
    BY <1>2
  <2> QED BY <1>1, <1>2, <2>3, <2>4
<1>3. CASE a \notin H
  <2>1. \A x \in H : f[x] = g[x]
    BY <1>3
  <2>2. SumFunctionOnSet(f, H) = SumFunctionOnSet(g, H)
    BY <2>1, SumAgree
  <2> QED BY <1>1, <1>3, <2>2
<1> QED BY <1>2, <1>3

\* A user's money is moved by the shard that keeps it (txSending).
LEMMA HomeFacts ==
    ASSUME NEW s \in Shard, NEW e \in AtHome(s)
    PROVE  /\ Sender(e) \in Home(s) <=> ~IsBroker(Sender(e))
           /\ Recipient(e) \in Home(s) <=> ~IsBroker(Recipient(e))
           /\ \A a \in Home(s) : LocalTo(s, e, a)
           /\ Home(s) \subseteq Account /\ IsFiniteSet(Home(s))
<1> DEFINE a == Sender(e)
           b == Recipient(e)
<1>1. e \in Legit /\ e \in Entry /\ Destination(e) = s
    BY LegitFacts DEF AtHome
<1>2. a \in Account /\ b \in Account
    BY <1>1, EntryFacts
<1>3. \A x \in Account : x \in Home(s) <=> ~IsBroker(x) /\ Addr2Shard[x] = s
    BY DEF Home, User
<1>4. IsBroker(BrokerAddress[1])
    BY RowFacts
<1>5. ASSUME ~IsBroker(a) PROVE Addr2Shard[a] = s
    BY <1>1, <1>5 DEF Destination
<1>6. ASSUME ~IsBroker(b), IsBroker(a) PROVE Addr2Shard[b] = s
    BY <1>1, <1>6 DEF Destination
<1>7. ASSUME ~IsBroker(b), ~IsBroker(a) PROVE Addr2Shard[b] = s
  <2>1. e.part # "tx1" /\ e.part # "tx2"
    BY <1>4, <1>7 DEF Sender, Recipient
  <2>2. e.part = "whole" /\ ~Split(e.raw)
    BY <1>1, <2>1, PartFacts DEF Legit, Kinds
  <2>3. a = TxList[e.raw].from /\ b = TxList[e.raw].to
    BY <2>1 DEF Sender, Recipient
  <2>4. Addr2Shard[a] = Addr2Shard[b]
    BY <1>7, <2>2, <2>3 DEF Split
  <2> QED BY <1>5, <1>7, <2>4
<1>8. Home(s) \subseteq Account
    BY DEF Home, User
<1>9. IsFiniteSet(Home(s))
    BY <1>8, BrokerAssumption, FS_Subset
<1>10. \A x \in Home(s) : LocalTo(s, e, x)
    BY DEF Home, LocalTo
<1> QED BY <1>2, <1>3, <1>5, <1>6, <1>7, <1>8, <1>9, <1>10

\* What a transaction its sender can pay does to the money of the users of a shard.
LEMMA ExecuteMoney ==
    ASSUME NEW s \in Shard, NEW st \in [Account -> Nat], NEW e \in AtHome(s),
           st[Sender(e)] >= Value(e.raw)
    PROVE  LET new == Execute(s, st, e)
               v == Value(e.raw)
               H == Home(s)
           IN  /\ SumFunctionOnSet(new, H)
                    = SumFunctionOnSet(st, H) - If(e \in ToBroker, v) + If(e \in FromBroker, v)
               /\ SumFunctionOnSet(st, H) \in Int
               /\ \A x \in Account : new[x] + If(Sender(e) = x, v) >= st[x]
<1> DEFINE v == Value(e.raw)
           a == Sender(e)
           b == Recipient(e)
           la == LocalTo(s, e, a)
           lb == LocalTo(s, e, b)
           H == Home(s)
           paid == IF la THEN Debit(st, a, v) ELSE st
           new == Execute(s, st, e)
<1>1. e \in Entry /\ a \in Account /\ b \in Account /\ v \in Nat
    BY EntryFacts, LegitFacts
<1>2. /\ a \in H <=> ~IsBroker(a)
      /\ b \in H <=> ~IsBroker(b)
      /\ a \in H => la
      /\ b \in H => lb
      /\ H \subseteq Account /\ IsFiniteSet(H)
  <2>1. /\ Sender(e) \in Home(s) <=> ~IsBroker(Sender(e))
        /\ Recipient(e) \in Home(s) <=> ~IsBroker(Recipient(e))
        /\ \A x \in Home(s) : LocalTo(s, e, x)
        /\ Home(s) \subseteq Account /\ IsFiniteSet(Home(s))
    BY HomeFacts
  <2> QED BY <2>1
<1>3. /\ e \in ToBroker <=> ~IsBroker(a) /\ IsBroker(b)
      /\ e \in FromBroker <=> IsBroker(a) /\ ~IsBroker(b)
    BY <1>1 DEF ToBroker, FromBroker
<1>4. ~(st[a] < v) /\ st[a] \in Nat /\ v <= st[a]
    BY <1>1
<1>5. new = IF lb THEN Credit(paid, b, v) ELSE paid
  <2>1. new = IF la /\ st[a] < v THEN st ELSE IF lb THEN Credit(paid, b, v) ELSE paid
    BY ExecuteIs
  <2> QED BY <1>4, <2>1
<1> HIDE DEF v, a, b, la, lb, new, H
<1>6. /\ paid \in [Account -> Nat]
      /\ \A x \in Account : paid[x] = IF x = a /\ la THEN st[a] - v ELSE st[x]
  <2>1. Debit(st, a, v) \in [Account -> Nat]
        /\ \A x \in Account : Debit(st, a, v)[x] = IF x = a THEN st[a] - v ELSE st[x]
    BY <1>1, <1>4, DebitCredit
  <2> QED BY <2>1
<1> HIDE DEF paid
<1>7. \A x \in Account : new[x] = IF x = b /\ lb THEN paid[b] + v ELSE paid[x]
  <2>1. \A x \in Account : Credit(paid, b, v)[x] = IF x = b THEN paid[b] + v ELSE paid[x]
    BY <1>1, <1>6, DebitCredit
  <2> QED BY <1>5, <2>1
<1>8. SumFunctionOnSet(paid, H) = SumFunctionOnSet(st, H) + If(a \in H, 0 - v) /\ SumFunctionOnSet(st, H) \in Int
  <2>1. ASSUME NEW x \in H PROVE st[x] \in Int /\ paid[x] = IF x = a THEN st[x] + (0 - v) ELSE st[x]
    <3>1. x \in Account /\ st[x] \in Nat
      BY <1>2
    <3>2. x = a => la
      BY <1>2
    <3> QED BY <1>1, <1>6, <3>1, <3>2
  <2> DEFINE w == 0 - v
  <2>2. /\ w \in Int /\ IsFiniteSet(H)
        /\ Shifted(st, paid, H, a, w)
    BY <1>1, <1>2, <2>1 DEF Shifted
  <2> HIDE DEF w
  <2>3. /\ SumFunctionOnSet(paid, H) = SumFunctionOnSet(st, H) + If(a \in H, w)
        /\ SumFunctionOnSet(st, H) \in Int
    BY <2>2, SumShift
  <2> QED BY <2>3 DEF w
<1>9. SumFunctionOnSet(new, H) = SumFunctionOnSet(paid, H) + If(b \in H, v) /\ SumFunctionOnSet(paid, H) \in Int
  <2>1. ASSUME NEW x \in H PROVE paid[x] \in Int /\ new[x] = IF x = b THEN paid[x] + v ELSE paid[x]
    BY <1>1, <1>2, <1>6, <1>7, <2>1
  <2>2. /\ v \in Int /\ IsFiniteSet(H)
        /\ Shifted(paid, new, H, b, v)
    BY <1>1, <1>2, <2>1 DEF Shifted
  <2> QED BY <2>2, SumShift
<1>10. SumFunctionOnSet(new, H) = SumFunctionOnSet(st, H) - If(e \in ToBroker, v) + If(e \in FromBroker, v)
    BY <1>1, <1>2, <1>3, <1>8, <1>9 DEF If
<1>11. ASSUME NEW x \in Account PROVE new[x] + If(a = x, v) >= st[x]
  <2>1. st[x] \in Nat /\ paid[x] \in Nat
    BY <1>6
  <2>2. paid[x] + If(a = x, v) >= st[x]
    BY <1>1, <1>4, <1>6, <2>1 DEF If
  <2>3. new[x] >= paid[x] /\ new[x] \in Nat
    BY <1>1, <1>7, <2>1
  <2>4. If(a = x, v) \in Nat
    BY <1>1 DEF If
  <2> QED BY <2>1, <2>2, <2>3, <2>4
<1> QED BY <1>8, <1>10, <1>11 DEF new, v, H, a

\* Nobody is short of more than he has spent, and what the users of a shard have,
\* less what brokers gave to users and more what users gave to brokers.
Solvent(st, c) == \A a \in Account : st[a] + Spent(c, a) >= InitBalance
Money(s, st, c) == SumFunctionOnSet(st, Home(s)) + Given(c, ToBroker) - Given(c, FromBroker)
AtMostOne(c) == \A e \in Legit : c[e] <= 1

\* A transaction executed for the first time is paid for.
Payable(s, st, e, c, d) ==
    /\ st \in [Account -> Nat] /\ e \in AtHome(s)
    /\ c \in [Entry -> Nat] /\ d \in [Entry -> Nat] /\ OneMore(c, d, e) /\ AtMostOne(d)
    /\ Solvent(st, c)

LEMMA PayOne ==
    ASSUME NEW s \in Shard, NEW st, NEW e, NEW c, NEW d, Payable(s, st, e, c, d)
    PROVE  Solvent(Execute(s, st, e), d) /\ Money(s, Execute(s, st, e), d) = Money(s, st, c)
<1> USE DEF Payable
<1> DEFINE v == Value(e.raw)
           a == Sender(e)
           H == Home(s)
           new == Execute(s, st, e)
<1>1. e \in Entry /\ e \in Legit /\ a \in Account /\ v \in Nat
    BY EntryFacts, LegitFacts
<1>2. \A x \in Account : /\ Spent(c, x) \in Nat /\ Spent(d, x) \in Nat
                         /\ Spent(d, x) = Spent(c, x) + If(a = x, v)
  <2> SUFFICES ASSUME NEW x \in Account
               PROVE  /\ Spent(c, x) \in Nat /\ Spent(d, x) \in Nat
                      /\ Spent(d, x) = Spent(c, x) + If(a = x, v)
    OBVIOUS
  <2>1. /\ Spent(c, x) \in Nat /\ Spent(d, x) \in Nat
        /\ Spent(d, x) = Spent(c, x) + (IF Sender(e) = x THEN Value(e.raw) ELSE 0)
    BY <1>1, SpentAdd
  <2> QED BY <2>1 DEF If
<1>3. \A S \in SUBSET Entry : /\ Given(c, S) \in Nat /\ Given(d, S) \in Nat
                              /\ Given(d, S) = Given(c, S) + If(e \in S, v)
  <2> SUFFICES ASSUME NEW S \in SUBSET Entry
               PROVE  /\ Given(c, S) \in Nat /\ Given(d, S) \in Nat
                      /\ Given(d, S) = Given(c, S) + If(e \in S, v)
    OBVIOUS
  <2>1. /\ Given(c, S) \in Nat /\ Given(d, S) \in Nat
        /\ Given(d, S) = Given(c, S) + (IF e \in S THEN Value(e.raw) ELSE 0)
    BY <1>1, GivenAdd
  <2> QED BY <2>1 DEF If
<1>4. InitBalance >= Spent(d, a) /\ InitBalance \in Nat
  <2>1. Spent(d, a) <= InitBalance
    BY SpentBound DEF AtMostOne
  <2> QED BY <1>1, <1>2, <2>1, BrokerAssumption
<1>5. st[a] >= v
  <2>1. st[a] + Spent(c, a) >= InitBalance /\ st[a] \in Nat
    BY <1>1 DEF Solvent
  <2>2. /\ Spent(c, a) \in Nat /\ Spent(d, a) \in Nat /\ Spent(d, a) = Spent(c, a) + v
    BY <1>1, <1>2 DEF If
  <2> HIDE DEF v, a
  <2> QED BY <1>1, <1>4, <2>1, <2>2
<1>6. /\ SumFunctionOnSet(new, H)
           = SumFunctionOnSet(st, H) - If(e \in ToBroker, v) + If(e \in FromBroker, v)
      /\ SumFunctionOnSet(st, H) \in Int
      /\ \A x \in Account : new[x] + If(a = x, v) >= st[x]
    BY <1>5, ExecuteMoney
<1>7. new \in [Account -> Nat]
    BY <1>1, ExecuteType
<1> HIDE DEF v, a, H, new
<1>8. ASSUME NEW x \in Account PROVE new[x] + Spent(d, x) >= InitBalance
  <2>1. new[x] \in Nat /\ st[x] \in Nat /\ If(a = x, v) \in Nat
    BY <1>1, <1>7 DEF If
  <2>2. st[x] + Spent(c, x) >= InitBalance
    BY DEF Solvent
  <2> QED BY <1>2, <1>4, <1>6, <2>1, <2>2
<1>9. Money(s, new, d) = Money(s, st, c)
  <2>1. ToBroker \in SUBSET Entry /\ FromBroker \in SUBSET Entry
    BY DEF ToBroker, FromBroker
  <2>2. If(e \in ToBroker, v) \in Nat /\ If(e \in FromBroker, v) \in Nat
    BY <1>1 DEF If
  <2>3. /\ Given(c, ToBroker) \in Nat /\ Given(d, ToBroker) = Given(c, ToBroker) + If(e \in ToBroker, v)
        /\ Given(c, FromBroker) \in Nat /\ Given(d, FromBroker) = Given(c, FromBroker) + If(e \in FromBroker, v)
    BY <1>3, <2>1
  <2>4. SumFunctionOnSet(new, H) + Given(d, ToBroker) - Given(d, FromBroker)
          = SumFunctionOnSet(st, H) + Given(c, ToBroker) - Given(c, FromBroker)
    BY <1>6, <2>2, <2>3
  <2> QED BY <2>4 DEF Money, H
<1> QED BY <1>8, <1>9 DEF Solvent, new

\* Counts after the first n entries of a block.
Plus(c, body, n) == [e \in Entry |-> c[e] + Upto(e, body, n)]

LEMMA PlusFacts ==
    ASSUME NEW c \in [Entry -> Nat], NEW body, NEW n \in Nat
    PROVE  /\ Plus(c, body, n) \in [Entry -> Nat]
           /\ Plus(c, body, 0) = c
           /\ OneMore(Plus(c, body, n), Plus(c, body, n + 1), body[n + 1])
<1>1. \A e : /\ Upto(e, body, n) \in Nat /\ Upto(e, body, 0) = 0
             /\ Upto(e, body, n + 1) = Upto(e, body, n) + One(body[n + 1], e)
    BY UptoStep
<1>2. \A e : One(body[n + 1], e) \in Nat
    BY DEF One
<1>3. Plus(c, body, n) \in [Entry -> Nat]
    BY <1>1 DEF Plus
<1>4. Plus(c, body, 0) = c
  <2>1. \A e \in Entry : c[e] + Upto(e, body, 0) = c[e]
    BY <1>1
  <2> QED BY <2>1 DEF Plus
<1>5. ASSUME NEW e \in Entry PROVE Plus(c, body, n + 1)[e] = Plus(c, body, n)[e] + One(body[n + 1], e)
  <2>1. Plus(c, body, n + 1)[e] = c[e] + Upto(e, body, n + 1) /\ Plus(c, body, n)[e] = c[e] + Upto(e, body, n)
    BY DEF Plus
  <2>2. c[e] \in Nat
    OBVIOUS
  <2> QED BY <1>1, <1>2, <2>1, <2>2
<1> QED BY <1>3, <1>4, <1>5 DEF OneMore

LEMMA UptoMono ==
    ASSUME NEW e, NEW f, NEW n \in Nat, NEW m \in Nat, n <= m
    PROVE  Upto(e, f, n) <= Upto(e, f, m)
<1> DEFINE A == {j \in 1 .. n : f[j] = e}
           B == {j \in 1 .. m : f[j] = e}
<1>1. A \subseteq B /\ B \subseteq 1 .. m
    OBVIOUS
<1>2. IsFiniteSet(1 .. m)
    BY FS_Interval
<1> HIDE DEF A, B
<1>3. IsFiniteSet(B)
    BY <1>1, <1>2, FS_Subset
<1>4. Cardinality(A) <= Cardinality(B)
    BY <1>1, <1>3, FS_Subset
<1> QED BY <1>4 DEF Upto, A, B

\* Transaction after transaction of a block, the money is kept.
LEMMA TrieMoney ==
    ASSUME NEW s \in Shard, NEW body \in Seq(AtHome(s)), state[s] \in [Account -> Nat],
           NEW c \in [Entry -> Nat], AtMostOne(Plus(c, body, Len(body))), Solvent(state[s], c)
    PROVE  LET new == GetUpdateStatusTrie(s, body)
               d == Plus(c, body, Len(body))
           IN  Solvent(new, d) /\ Money(s, new, d) = Money(s, state[s], c)
<1>1. Len(body) \in Nat /\ \A i \in 1 .. Len(body) : body[i] \in AtHome(s)
    OBVIOUS
<1>2. PICK trie : /\ trie = [i \in 0 .. Len(body) |-> TrieStep(s, state[s], body, trie, i)]
                  /\ GetUpdateStatusTrie(s, body) = trie[Len(body)]
    BY <1>1, TrieDefined
<1>3. \A i \in 0 .. Len(body) : trie[i] = TrieStep(s, state[s], body, trie, i)
    BY <1>2
<1> DEFINE F(n) == Plus(c, body, n)
           Fine(n) == /\ trie[n] \in [Account -> Nat] /\ Solvent(trie[n], F(n))
                      /\ Money(s, trie[n], F(n)) = Money(s, state[s], c)
           Good == {n \in Nat : n <= Len(body) => Fine(n)}
<1>4. 0 \in Good
  <2>1. F(0) = c
    BY PlusFacts
  <2>2. trie[0] = state[s]
    BY <1>1, <1>3 DEF TrieStep
  <2> HIDE DEF F
  <2>3. Fine(0)
    BY <2>1, <2>2, Zenon
  <2> QED BY <2>3
<1>5. ASSUME NEW n \in Nat, n \in Good PROVE n + 1 \in Good
  <2> SUFFICES ASSUME n + 1 <= Len(body) PROVE Fine(n + 1)
    OBVIOUS
  <2>1. /\ n + 1 \in 0 .. Len(body) /\ n + 1 # 0 /\ (n + 1) - 1 = n /\ n <= Len(body)
        /\ n + 1 \in 1 .. Len(body) /\ n + 1 \in Nat
    BY <1>1
  <2>2. Fine(n) /\ body[n + 1] \in AtHome(s) /\ body[n + 1] \in Entry
    BY <1>1, <1>5, <2>1, LegitFacts
  <2>3. trie[n + 1] = Execute(s, trie[n], body[n + 1])
    BY <1>3, <2>1 DEF TrieStep
  <2>4. F(n) \in [Entry -> Nat] /\ F(n + 1) \in [Entry -> Nat] /\ OneMore(F(n), F(n + 1), body[n + 1])
    BY <2>1, PlusFacts
  <2>5. AtMostOne(F(n + 1))
    <3> SUFFICES ASSUME NEW e \in Legit PROVE F(n + 1)[e] <= 1
      BY DEF AtMostOne
    <3>1. e \in Entry /\ c[e] \in Nat
      BY LegitFacts
    <3>2. F(n + 1)[e] = c[e] + Upto(e, body, n + 1) /\ Plus(c, body, Len(body))[e] = c[e] + Upto(e, body, Len(body))
      BY <3>1 DEF Plus
    <3>3. Upto(e, body, n + 1) <= Upto(e, body, Len(body))
      BY <1>1, <2>1, UptoMono
    <3>4. Upto(e, body, n + 1) \in Nat /\ Upto(e, body, Len(body)) \in Nat
      BY <1>1, <2>1, UptoStep
    <3>5. Plus(c, body, Len(body))[e] <= 1
      BY DEF AtMostOne
    <3> QED BY <3>1, <3>2, <3>3, <3>4, <3>5
  <2> DEFINE x == body[n + 1]
             st == trie[n]
             C == F(n)
             D == F(n + 1)
  <2>6. st \in [Account -> Nat] /\ Solvent(st, C) /\ Money(s, st, C) = Money(s, state[s], c)
    BY <2>2
  <2>7. x \in AtHome(s) /\ x \in Entry /\ C \in [Entry -> Nat] /\ D \in [Entry -> Nat] /\ OneMore(C, D, x) /\ AtMostOne(D)
    BY <2>2, <2>4, <2>5
  <2>8. trie[n + 1] = Execute(s, st, x)
    BY <2>3
  <2> HIDE DEF x, st, C, D
  <2>9. Solvent(Execute(s, st, x), D) /\ Money(s, Execute(s, st, x), D) = Money(s, st, C)
    <3>1. Payable(s, st, x, C, D)
      BY <2>6, <2>7 DEF Payable
    <3> QED BY ONLY <3>1, s \in Shard, PayOne
  <2>10. Execute(s, st, x) \in [Account -> Nat]
    BY <2>6, <2>7, ExecuteType
  <2>11. /\ trie[n + 1] \in [Account -> Nat] /\ Solvent(trie[n + 1], D)
         /\ Money(s, trie[n + 1], D) = Money(s, state[s], c)
    BY <2>6, <2>8, <2>9, <2>10, Zenon
  <2> QED BY <2>11 DEF D
<1>6. Nat \subseteq Good
  <2> HIDE DEF Good
  <2> QED BY <1>4, <1>5, SetInduction
<1>7. Fine(Len(body))
  <2> HIDE DEF Fine
  <2> QED BY <1>1, <1>6
<1> HIDE DEF F
<1> QED BY <1>2, <1>7, Zenon DEF F

-----------------------------------------------------------------------------
LEMMA GivenType ==
    ASSUME NEW c \in [Entry -> Nat], NEW S \in SUBSET Entry PROVE Given(c, S) \in Nat
<1> DEFINE f == [e \in S |-> Worth(c, e)]
<1>1. ASSUME NEW e \in S PROVE f[e] \in Nat
  <2>1. c[e] \in Nat /\ Value(e.raw) \in Nat
    BY EntryFacts
  <2> QED BY <2>1, Times DEF Worth
<1>2. IsFiniteSet(S) /\ Given(c, S) = SumFunctionOnSet(f, S)
    BY EntryFinite, FS_Subset DEF Given
<1> HIDE DEF f
<1> QED BY <1>1, <1>2, SumNat

Users(st) == SumFunctionOnSet([a \in User |-> st[Addr2Shard[a]][a]], User)
AllMoney(st, c) == Users(st) + Given(c, ToBroker) - Given(c, FromBroker)

MoneyInv ==
    /\ OnceInv
    /\ \A s \in Shard : Solvent(state[s], executed)
    /\ AllMoney(state, executed) = InitBalance * Cardinality(User)

LEMMA UserFacts ==
    /\ User \subseteq Account /\ IsFiniteSet(User)
    /\ \A a \in User : Addr2Shard[a] \in Shard
    /\ ToBroker \in SUBSET Entry /\ FromBroker \in SUBSET Entry
<1>1. User \subseteq Account /\ ToBroker \in SUBSET Entry /\ FromBroker \in SUBSET Entry
    BY DEF User, ToBroker, FromBroker
<1>2. IsFiniteSet(User)
    BY <1>1, BrokerAssumption, FS_Subset
<1>3. Addr2Shard \in [Account -> Shard]
    BY BrokerAssumption
<1> QED BY <1>1, <1>2, <1>3

\* The users of one shard and the others.
LEMMA UsersSplit ==
    ASSUME NEW st \in [Shard -> [Account -> Nat]], NEW s \in Shard
    PROVE  LET f == [a \in User |-> st[Addr2Shard[a]][a]]
               R == User \ Home(s)
           IN  /\ Users(st) = SumFunctionOnSet(st[s], Home(s)) + SumFunctionOnSet(f, R)
               /\ SumFunctionOnSet(st[s], Home(s)) \in Int /\ SumFunctionOnSet(f, R) \in Int
<1> DEFINE f == [a \in User |-> st[Addr2Shard[a]][a]]
           H == Home(s)
           R == User \ H
<1>1. H \subseteq User /\ \A a \in H : Addr2Shard[a] = s
    BY DEF Home
<1>2. IsFiniteSet(H) /\ IsFiniteSet(R) /\ H \cap R = {} /\ H \cup R = User
    BY <1>1, UserFacts, FS_Subset
<1>3. \A a \in User : f[a] \in Nat
    BY UserFacts
<1>4. \A a \in H : f[a] = st[s][a]
    BY <1>1
<1>5. Users(st) = SumFunctionOnSet(f, User)
    BY DEF Users
<1> HIDE DEF f, H, R
<1>6. SumFunctionOnSet(f, H \cup R) = SumFunctionOnSet(f, H) + SumFunctionOnSet(f, R)
  <2>1. \A y \in H \cup R : f[y] \in Int
    BY <1>2, <1>3
  <2> QED BY <1>2, <2>1, SumUnion
<1>7. SumFunctionOnSet(f, H) \in Int /\ SumFunctionOnSet(f, R) \in Int
  <2>1. (\A y \in H : f[y] \in Int) /\ (\A y \in R : f[y] \in Int)
    BY <1>2, <1>3
  <2> QED BY <1>2, <2>1, SumRemove
<1>8. SumFunctionOnSet(f, H) = SumFunctionOnSet(st[s], H)
  <2> DEFINE g == st[s]
  <2>1. \A a \in H : f[a] = g[a]
    BY <1>4
  <2> HIDE DEF g
  <2>2. SumFunctionOnSet(f, H) = SumFunctionOnSet(g, H)
    BY ONLY <1>2, <2>1, SumAgree
  <2> QED BY <2>2 DEF g
<1>9. SumFunctionOnSet(f, User) = SumFunctionOnSet(f, H) + SumFunctionOnSet(f, R)
    BY <1>2, <1>6, Zenon
<1>10. /\ Users(st) = SumFunctionOnSet(st[s], H) + SumFunctionOnSet(f, R)
       /\ SumFunctionOnSet(st[s], H) \in Int /\ SumFunctionOnSet(f, R) \in Int
    BY <1>5, <1>7, <1>8, <1>9
<1> QED BY <1>10 DEF f, H, R

LEMMA MoneyCommit == ASSUME MoneyInv, NEW s \in Shard, HandleinCommit(s) PROVE MoneyInv'
<1>1. OnceInv /\ TypeInv /\ OnceInv'
    BY OnceCommit DEF MoneyInv, OnceInv
<1>2. PICK body \in Seq(AtHome(s)) :
             /\ open[s] = {body} /\ body \in Seq(Entry)
             /\ state' \in [Shard -> [Account -> Nat]]
             /\ \A d \in Shard : state'[d] = IF d = s THEN GetUpdateStatusTrie(s, body) ELSE state[d]
             /\ executed' \in [Entry -> Nat]
             /\ \A e \in Entry : executed'[e] = executed[e] + Occurrences(e, body)
    BY <1>1, Committed
<1>3. state \in [Shard -> [Account -> Nat]] /\ executed \in [Entry -> Nat] /\ Len(body) \in Nat
    BY <1>1 DEF TypeInv, TypeOK
<1>4. \A e : Occurrences(e, body) = Upto(e, body, Len(body)) /\ Occurrences(e, body) \in Nat
    BY <1>2, OccurrencesUpto
<1>5. executed' = Plus(executed, body, Len(body))
  <2>1. \A e \in Entry : executed'[e] = executed[e] + Upto(e, body, Len(body))
    BY <1>2, <1>4
  <2> QED BY <1>2, <2>1 DEF Plus
<1>6. AtMostOne(executed')
  <2> SUFFICES ASSUME NEW CONSTANT e \in Legit PROVE executed'[e] <= 1
    BY DEF AtMostOne
  <2>1. /\ Pending(e) \in Nat /\ executed[e] \in Nat /\ e \in Entry
        /\ Pending(e) + executed[e] <= 1
    BY <1>1, PendingOne
  <2>2. /\ executed'[e] = executed[e] + Occurrences(e, body)
        /\ Pending(e) = Pending(e)' + Occurrences(e, body)
        /\ Pending(e)' \in Nat /\ Occurrences(e, body) \in Nat
    BY <1>1, <1>2, <2>1, CommitCounts
  <2> QED BY <2>1, <2>2
<1>7. Solvent(state[s], executed) /\ AllMoney(state, executed) = InitBalance * Cardinality(User)
    BY DEF MoneyInv
<1> DEFINE new == GetUpdateStatusTrie(s, body)
           d == Plus(executed, body, Len(body))
<1>8. Solvent(new, d) /\ Money(s, new, d) = Money(s, state[s], executed)
  <2>1. AtMostOne(Plus(executed, body, Len(body))) /\ state[s] \in [Account -> Nat]
    BY <1>3, <1>5, <1>6
  <2> QED BY <1>3, <1>7, <2>1, TrieMoney
<1>9. state'[s] = new /\ executed' = d
    BY <1>2, <1>5
<1> HIDE DEF new, d
<1>10. Solvent(state'[s], executed') /\ Money(s, state'[s], executed') = Money(s, state[s], executed)
    BY <1>8, <1>9, Zenon
<1>11. ASSUME NEW x \in Shard PROVE Solvent(state'[x], executed')
  <2>1. CASE x = s
    BY <1>10, <2>1, Zenon
  <2>2. CASE x # s
    <3>1. state'[x] = state[x] /\ state[x] \in [Account -> Nat] /\ Solvent(state[x], executed)
      BY <1>2, <1>3, <2>2 DEF MoneyInv
    <3>2. ASSUME NEW a \in Account PROVE state'[x][a] + Spent(executed', a) >= InitBalance
      <4>1. \A e \in Entry : executed[e] <= executed'[e]
        BY <1>2, <1>3, <1>4
      <4>2. Spent(executed, a) <= Spent(executed', a) /\ Spent(executed, a) \in Nat /\ Spent(executed', a) \in Nat
        BY <1>2, <1>3, <4>1, SpentMono
      <4>3. state'[x][a] = state[x][a] /\ state[x][a] \in Nat /\ InitBalance \in Nat
        BY <3>1, BrokerAssumption
      <4>4. state[x][a] + Spent(executed, a) >= InitBalance
        BY <3>1 DEF Solvent
      <4> QED BY <4>2, <4>3, <4>4
    <3> QED BY <3>2 DEF Solvent
  <2> QED BY <2>1, <2>2
<1>12. AllMoney(state', executed') = AllMoney(state, executed)
  <2> DEFINE f == [a \in User |-> state[Addr2Shard[a]][a]]
             g == [a \in User |-> state'[Addr2Shard[a]][a]]
             H == Home(s)
             R == User \ H
  <2>1. /\ Users(state) = SumFunctionOnSet(state[s], H) + SumFunctionOnSet(f, R)
        /\ SumFunctionOnSet(state[s], H) \in Int /\ SumFunctionOnSet(f, R) \in Int
    BY <1>3, UsersSplit
  <2>2. /\ Users(state') = SumFunctionOnSet(state'[s], H) + SumFunctionOnSet(g, R)
        /\ SumFunctionOnSet(state'[s], H) \in Int /\ SumFunctionOnSet(g, R) \in Int
    BY <1>2, UsersSplit
  <2>3. \A a \in R : g[a] = f[a]
    BY <1>2, UserFacts DEF Home
  <2>4. IsFiniteSet(R)
    BY UserFacts, FS_Subset
  <2> HIDE DEF f, g, H, R
  <2>5. SumFunctionOnSet(f, R) = SumFunctionOnSet(g, R)
    BY <2>3, <2>4, SumAgree
  <2>6. \A S \in SUBSET Entry : Given(executed, S) \in Nat /\ Given(executed', S) \in Nat
    BY <1>2, <1>3, GivenType
  <2>7. /\ Given(executed, ToBroker) \in Nat /\ Given(executed', ToBroker) \in Nat
        /\ Given(executed, FromBroker) \in Nat /\ Given(executed', FromBroker) \in Nat
    BY <2>6, UserFacts
  <2>8. SumFunctionOnSet(state'[s], H) + Given(executed', ToBroker) - Given(executed', FromBroker)
           = SumFunctionOnSet(state[s], H) + Given(executed, ToBroker) - Given(executed, FromBroker)
    BY <1>10 DEF Money, H
  <2> QED BY <2>1, <2>2, <2>5, <2>7, <2>8 DEF AllMoney
<1>13. AllMoney(state', executed') = InitBalance * Cardinality(User)
    BY <1>7, <1>12
<1> QED BY <1>1, <1>11, <1>13 DEF MoneyInv

LEMMA MoneyInit == Init => MoneyInv
<1> SUFFICES ASSUME Init PROVE MoneyInv
    OBVIOUS
<1>1. OnceInv
    BY TypeInvInit, OnceInit DEF OnceInv
<1>2. /\ state = [s \in Shard |-> [a \in Account |-> InitBalance]] /\ executed = [e \in Entry |-> 0]
      /\ InitBalance \in Nat
    BY BrokerAssumption DEF Init
<1>3. executed \in [Entry -> Nat]
    BY <1>2
<1>4. ASSUME NEW s \in Shard PROVE Solvent(state[s], executed)
  <2>1. ASSUME NEW a \in Account PROVE state[s][a] + Spent(executed, a) >= InitBalance
    <3>1. state[s][a] = InitBalance
      BY <1>2
    <3>2. Spent(executed, a) \in Nat
      BY <1>3, SpentMono
    <3> QED BY <1>2, <3>1, <3>2
  <2> QED BY <2>1 DEF Solvent
<1>5. ASSUME NEW S \in SUBSET Entry PROVE Given(executed, S) = 0
  <2> DEFINE f == [e \in S |-> Worth(executed, e)]
  <2>1. ASSUME NEW e \in S PROVE f[e] = 0
    <3>1. executed[e] = 0 /\ Value(e.raw) \in Nat
      BY <1>2, EntryFacts
    <3> QED BY <3>1 DEF Worth
  <2>2. IsFiniteSet(S)
    BY EntryFinite, FS_Subset
  <2>3. Given(executed, S) = SumFunctionOnSet(f, S)
    BY DEF Given
  <2> HIDE DEF f
  <2>4. \A e \in S : f[e] = 0 /\ f[e] \in Nat
    BY <2>1
  <2> QED BY <2>2, <2>3, <2>4, SumNat
<1>6. Users(state) = InitBalance * Cardinality(User)
  <2> DEFINE f == [a \in User |-> state[Addr2Shard[a]][a]]
  <2>1. \A a \in User : f[a] = InitBalance
    BY <1>2, UserFacts
  <2>2. Users(state) = SumFunctionOnSet(f, User)
    BY DEF Users
  <2> HIDE DEF f
  <2> QED BY <1>2, <2>1, <2>2, UserFacts, SumConst
<1>7. InitBalance * Cardinality(User) \in Nat
  <2>1. Cardinality(User) \in Nat
    BY UserFacts, FS_CardinalityType
  <2> QED BY <1>2, <2>1
<1>8. Given(executed, ToBroker) = 0 /\ Given(executed, FromBroker) = 0
    BY <1>5, UserFacts
<1>9. AllMoney(state, executed) = InitBalance * Cardinality(User)
    BY <1>6, <1>7, <1>8 DEF AllMoney
<1> QED BY <1>1, <1>4, <1>9 DEF MoneyInv

LEMMA MoneyIdle == ASSUME MoneyInv, OnceInv', UNCHANGED <<state, executed>> PROVE MoneyInv'
BY DEF MoneyInv

LEMMA MoneyNext == ASSUME MoneyInv, [Next]_vars PROVE MoneyInv'
<1>1. OnceInv'
    BY OnceNext DEF MoneyInv
<1>2. CASE UNCHANGED vars
    BY <1>1, <1>2, MoneyIdle DEF vars, shardVars
<1>3. CASE Next
  <2>1. CASE DealTxByBroker \/ TxSending
    BY <1>1, <2>1, MoneyIdle DEF DealTxByBroker, TxSending, shardVars
  <2>2. CASE \E m \in injects : HandleInjectTx(m)
    BY <1>1, <2>2, MoneyIdle DEF HandleInjectTx
  <2>3. CASE \E s \in Shard : Propose(s)
    BY <1>1, <2>3, MoneyIdle DEF Propose
  <2>4. CASE \E s \in Shard : HandleinCommit(s)
    BY <2>4, MoneyCommit
  <2>5. CASE \E b \in infos : HandleBlockInfo(b)
    BY <1>1, <2>5, MoneyIdle DEF HandleBlockInfo, shardVars
  <2>6. CASE \E h \in handling : TxSending2(h) \/ HandleTx2ConfirmMag(h)
    BY <1>1, <2>6, MoneyIdle DEF TxSending2, HandleTx2ConfirmMag, shardVars
  <2> QED BY <1>3, <2>1, <2>2, <2>3, <2>4, <2>5, <2>6 DEF Next
<1> QED BY <1>2, <1>3

LEMMA MoneyInvariant == Spec => []MoneyInv
<1>1. Init => MoneyInv
    BY MoneyInit
<1>2. MoneyInv /\ [Next]_vars => MoneyInv'
    BY MoneyNext
<1> QED BY <1>1, <1>2, PTL DEF Spec

\* When InitBalance covers what is sent (BrokerFunds): users as a whole always have
\* what they started with, less what they gave to brokers, plus what brokers gave
\* them (GetUpdateStatusTrie, txSending).
THEOREM UsersKeepMoney == Spec => []UserMoney
<1>1. ASSUME MoneyInv PROVE UserMoney
  <2> DEFINE f == [a \in User |-> Balance(a)]
             g == [a \in User |-> state[Addr2Shard[a]][a]]
  <2>1. f = g
    BY DEF Balance
  <2>2. SumFunction(f) = SumFunctionOnSet(f, User)
    BY DEF SumFunction
  <2>3. Users(state) = SumFunctionOnSet(g, User)
    BY DEF Users
  <2>4. \A S : Done(S) = Given(executed, S)
    BY DEF Done, Given, Worth, SumFunction
  <2>5. AllMoney(state, executed) = InitBalance * Cardinality(User)
        /\ state \in [Shard -> [Account -> Nat]] /\ executed \in [Entry -> Nat]
    BY <1>1 DEF MoneyInv, OnceInv, TypeInv, TypeOK
  <2>6. UserMoney <=> SumFunction(f) = InitBalance * Cardinality(User) - Done(ToBroker) + Done(FromBroker)
    BY DEF UserMoney
  <2>7. Users(state) \in Int
    <3>1. \A a \in User : g[a] \in Int
      BY <2>5, UserFacts
    <3> HIDE DEF g
    <3> QED BY <2>3, <3>1, UserFacts, SumRemove
  <2> HIDE DEF f, g
  <2>8. SumFunction(f) = Users(state)
    BY <2>1, <2>2, <2>3, Zenon
  <2>9. Given(executed, ToBroker) \in Nat /\ Given(executed, FromBroker) \in Nat
    BY <2>5, UserFacts, GivenType
  <2> QED BY <2>4, <2>5, <2>6, <2>7, <2>8, <2>9 DEF AllMoney
<1>2. MoneyInv => UserMoney
    BY <1>1
<1> QED BY <1>2, MoneyInvariant, PTL
=============================================================================
