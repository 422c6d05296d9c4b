------------------------- MODULE ClpaPartitionProof -------------------------
(***************************************************************************)
(* Proofs about ClpaPartition for every graph, every number of shards and  *)
(* every order in which the vertices are visited.                          *)
(***************************************************************************)
EXTENDS ClpaPartition, ListTheorems

\* TypeOK without the counters, which are numbers because they are exact.
Shape ==
    /\ VertexSet \subseteq Vertex
    /\ EdgeSet \in [Vertex -> [Vertex -> Nat]]
    /\ PartitionMap \in Placement /\ VertexSet \subseteq DOMAIN PartitionMap
    /\ todo \subseteq VertexSet
    /\ iter \in 0 .. MaxIterations
    /\ updateTreshold \in [Vertex -> 0 .. UpdateLimit]
    /\ res \in Placement /\ DOMAIN res \subseteq VertexSet
    /\ modifiedMap \in Placement
    /\ epoch \in 0 .. MaxEpochs

\* AddEdge appends each end to the list of the other, and refuses loops.
Undirected ==
    \A u, v \in Vertex : EdgeSet[u][v] = EdgeSet[v][u] /\ EdgeSet[v][v] = 0

\* Between runs nothing is left over from the last one.
Quiet ==
    /\ iter = 0 => /\ todo = {} /\ res = Nowhere
                   /\ Edges2Shard = Zero /\ MinEdges2Shard = 0 /\ CrossShardEdgeNum = 0
    /\ iter > 0 => epoch < MaxEpochs

\* The number of vertices kept for each shard.
Counted == VertexsNumInShard = [s \in Shard |-> Cardinality(Members(s))]

\* MapsAgree also for the accounts the new graph has no vertex of yet.
Agrees(P, r, m) ==
    /\ DOMAIN m \subseteq DOMAIN P
    /\ \A v \in DOMAIN P : P[v] = Over(r, Over(m, Addr2Shard))[v]
Placed == Agrees(PartitionMap, res, modifiedMap)

ClpaInv ==
    /\ Shape
    /\ Undirected
    /\ Quiet
    /\ Counted
    /\ Placed
    /\ CountersExact
-----------------------------------------------------------------------------
(* Maps. *)

\* What a placement is.
LEMMA PlacementIs ==
    ASSUME NEW f PROVE f \in Placement <=> /\ f = [v \in DOMAIN f |-> f[v]]
                                           /\ DOMAIN f \subseteq Vertex
                                           /\ \A v \in DOMAIN f : f[v] \in Shard
<1>1. ASSUME f \in Placement
      PROVE  /\ f = [v \in DOMAIN f |-> f[v]] /\ DOMAIN f \subseteq Vertex
             /\ \A v \in DOMAIN f : f[v] \in Shard
  <2>1. PICK V \in SUBSET Vertex : f \in [V -> Shard]
    BY <1>1 DEF Placement
  <2> QED BY <2>1
<1>2. ASSUME f = [v \in DOMAIN f |-> f[v]], DOMAIN f \subseteq Vertex,
             \A v \in DOMAIN f : f[v] \in Shard
      PROVE  f \in Placement
  <2>1. f \in [DOMAIN f -> Shard]
    BY <1>2
  <2> QED BY <1>2, <2>1 DEF Placement
<1> QED BY <1>1, <1>2

\* One placement over another is a placement of both domains.
LEMMA OverPlacement ==
    ASSUME NEW f \in Placement, NEW g \in Placement
    PROVE  /\ Over(f, g) \in Placement
           /\ DOMAIN Over(f, g) = DOMAIN f \cup DOMAIN g
<1>1. DOMAIN Over(f, g) = DOMAIN f \cup DOMAIN g
    BY DEF Over
<1>2. \A v \in DOMAIN f \cup DOMAIN g : Over(f, g)[v] = IF v \in DOMAIN f THEN f[v] ELSE g[v]
    BY DEF Over
<1>3. /\ DOMAIN f \subseteq Vertex /\ \A v \in DOMAIN f : f[v] \in Shard
      /\ DOMAIN g \subseteq Vertex /\ \A v \in DOMAIN g : g[v] \in Shard
    BY PlacementIs
<1>4. Over(f, g) = [v \in DOMAIN Over(f, g) |-> Over(f, g)[v]]
    BY DEF Over
<1>5. \A v \in DOMAIN Over(f, g) : Over(f, g)[v] \in Shard
    BY <1>1, <1>2, <1>3
<1> QED BY <1>1, <1>3, <1>4, <1>5, PlacementIs

\* Nothing placed.
LEMMA NowherePlaced == Nowhere \in Placement /\ DOMAIN Nowhere = {}
<1>1. Nowhere \in [{} -> Shard] /\ DOMAIN Nowhere = {}
    BY DEF Nowhere
<1> QED BY <1>1 DEF Placement

\* The shard of a member of the graph is a shard.
LEMMA PlacedShard ==
    ASSUME Shape, NEW v \in VertexSet
    PROVE  v \in Vertex /\ v \in DOMAIN PartitionMap /\ PartitionMap[v] \in Shard
BY PlacementIs DEF Shape

\* The shards are finitely many, and there is one.
LEMMA ShardsFinite == IsFiniteSet(Shard) /\ Shard # {} /\ 0 \in Shard
<1>1. ShardNum - 1 \in Int /\ ShardNum - 1 >= 0
    BY PartitionAssumption
<1>2. IsFiniteSet(0 .. ShardNum - 1)
    BY <1>1, FS_Interval
<1>3. 0 \in 0 .. ShardNum - 1
    BY <1>1
<1> QED BY <1>2, <1>3 DEF Shard

\* Members of shards are finitely many.
LEMMA MembersFinite ==
    ASSUME Shape, NEW T \in SUBSET VertexSet PROVE IsFiniteSet(T) /\ Cardinality(T) \in Nat
<1>1. T \in SUBSET Vertex
    BY DEF Shape
<1> QED BY <1>1, PartitionAssumption, FS_Subset, FS_CardinalityType
-----------------------------------------------------------------------------
(* The counters.  RowIn and RowOut are what ComputeEdges2Shard adds for the *)
(* edges of one vertex v into the shard s: v is in s as well, or is not.    *)

InShard(P, s) == {u \in VertexSet : P[u] = s}
Row(P, s, v) == SumFunctionOnSet(EdgeSet[v], InShard(P, s))
RowIn(P, s) == [v \in VertexSet |-> IF P[v] = s THEN Row(P, s, v) ELSE 0]
RowOut(P, s) == [v \in VertexSet |-> IF P[v] = s THEN 0 ELSE Row(P, s, v)]
Inside(P, s) == SumFunctionOnSet(RowIn(P, s), VertexSet)
Crossing(P, s) == SumFunctionOnSet(RowOut(P, s), VertexSet)

\* EndsIn adds up rows.
LEMMA EndsAre ==
    ASSUME NEW P, NEW s, Shape
    PROVE  EndsIn(P, s, TRUE) = Inside(P, s) /\ EndsIn(P, s, FALSE) = Crossing(P, s)
<1> DEFINE T(v, b) == {u \in VertexSet : P[u] = s /\ (P[v] = s) = b}
           F(b) == [v \in VertexSet |-> SumFunctionOnSet(EdgeSet[v], T(v, b))]
           fT == F(TRUE)
           fF == F(FALSE)
<1>1. EndsIn(P, s, TRUE) = SumFunctionOnSet(fT, DOMAIN fT)
    BY Zenon DEF EndsIn, SumFunction
<1>2. EndsIn(P, s, FALSE) = SumFunctionOnSet(fF, DOMAIN fF)
    BY Zenon DEF EndsIn, SumFunction
<1>3. DOMAIN fT = VertexSet /\ DOMAIN fF = VertexSet
    BY Zenon
<1>4. ASSUME NEW v \in VertexSet PROVE fT[v] = RowIn(P, s)[v] /\ fF[v] = RowOut(P, s)[v]
  <2>1. fT[v] = SumFunctionOnSet(EdgeSet[v], T(v, TRUE))
    BY Zenon
  <2>2. fF[v] = SumFunctionOnSet(EdgeSet[v], T(v, FALSE))
    BY Zenon
  <2>3. P[v] = s => T(v, TRUE) = InShard(P, s) /\ T(v, FALSE) = {}
    BY DEF InShard
  <2>4. P[v] # s => T(v, FALSE) = InShard(P, s) /\ T(v, TRUE) = {}
    BY DEF InShard
  <2>5. RowIn(P, s)[v] = IF P[v] = s THEN Row(P, s, v) ELSE 0
    BY DEF RowIn
  <2>6. RowOut(P, s)[v] = IF P[v] = s THEN 0 ELSE Row(P, s, v)
    BY DEF RowOut
  <2>7. SumFunctionOnSet(EdgeSet[v], {}) = 0
    BY SumEmpty
  <2>8. CASE P[v] = s
    <3>1. fT[v] = Row(P, s, v)
      BY <2>1, <2>3, <2>8, Zenon DEF Row
    <3>2. fF[v] = SumFunctionOnSet(EdgeSet[v], {})
      BY <2>2, <2>3, <2>8, Zenon
    <3> HIDE DEF fT, fF
    <3> QED BY <2>5, <2>6, <2>7, <2>8, <3>1, <3>2
  <2>9. CASE P[v] # s
    <3>1. fF[v] = Row(P, s, v)
      BY <2>2, <2>4, <2>9, Zenon DEF Row
    <3>2. fT[v] = SumFunctionOnSet(EdgeSet[v], {})
      BY <2>1, <2>4, <2>9, Zenon
    <3> HIDE DEF fT, fF
    <3> QED BY <2>5, <2>6, <2>7, <2>9, <3>1, <3>2
  <2> QED BY <2>8, <2>9
<1>5. IsFiniteSet(VertexSet)
    BY MembersFinite
<1> HIDE DEF fT, fF
<1>6. SumFunctionOnSet(fT, VertexSet) = Inside(P, s)
    BY <1>4, <1>5, SumAgree DEF Inside
<1>7. SumFunctionOnSet(fF, VertexSet) = Crossing(P, s)
    BY <1>4, <1>5, SumAgree DEF Crossing
<1> QED BY <1>1, <1>2, <1>3, <1>6, <1>7, Zenon

\* Sums of edges are numbers.
LEMMA EdgeSums ==
    ASSUME Shape, NEW v \in VertexSet, NEW T \in SUBSET VertexSet
    PROVE  SumFunctionOnSet(EdgeSet[v], T) \in Nat
<1>1. IsFiniteSet(T)
    BY MembersFinite
<1>2. \A u \in T : EdgeSet[v][u] \in Nat
    BY DEF Shape
<1> QED BY <1>1, <1>2, SumNat

\* Rows are numbers, and so are their sums.
LEMMA EndsNat ==
    ASSUME Shape, NEW P, NEW s
    PROVE  /\ \A v \in VertexSet : RowIn(P, s)[v] \in Nat /\ RowOut(P, s)[v] \in Nat
           /\ Inside(P, s) \in Nat /\ Crossing(P, s) \in Nat
<1>1. ASSUME NEW v \in VertexSet PROVE RowIn(P, s)[v] \in Nat /\ RowOut(P, s)[v] \in Nat
  <2>1. Row(P, s, v) \in Nat
    BY EdgeSums DEF Row, InShard
  <2> QED BY <2>1 DEF RowIn, RowOut
<1>2. IsFiniteSet(VertexSet)
    BY MembersFinite
<1>3. SumFunctionOnSet(RowIn(P, s), VertexSet) \in Nat
    BY <1>1, <1>2, SumNat
<1>4. SumFunctionOnSet(RowOut(P, s), VertexSet) \in Nat
    BY <1>1, <1>2, SumNat
<1> QED BY <1>1, <1>3, <1>4 DEF Inside, Crossing

\* What ComputeEdges2Shard computes, in terms of the rows.
LEMMA EdgesAre ==
    ASSUME Shape, NEW P
    PROVE  /\ Edges(P) = [s \in Shard |-> Crossing(P, s) + Inside(P, s) \div 2]
           /\ CrossEdges(P)
                = SumFunctionOnSet([s \in Shard |-> Crossing(P, s)], Shard) \div 2
<1> DEFINE f == [s \in Shard |-> EndsIn(P, s, FALSE)]
           g == [s \in Shard |-> Crossing(P, s)]
<1>1. ASSUME NEW s \in Shard
      PROVE  EndsIn(P, s, FALSE) + EndsIn(P, s, TRUE) \div 2 = Crossing(P, s) + Inside(P, s) \div 2
    BY EndsAre, Zenon
<1>2. Edges(P) = [s \in Shard |-> Crossing(P, s) + Inside(P, s) \div 2]
    BY <1>1, Zenon DEF Edges
<1>3. f = g
    BY EndsAre, Zenon
<1>4. DOMAIN f = Shard
    BY Zenon
<1>5. CrossEdges(P) = SumFunctionOnSet(f, DOMAIN f) \div 2
    BY Zenon DEF CrossEdges, SumFunction
<1> HIDE DEF f, g
<1>6. CrossEdges(P) = SumFunctionOnSet(g, Shard) \div 2
    BY <1>3, <1>4, <1>5, Zenon
<1> QED BY <1>2, <1>6 DEF g

\* What ComputeEdges2Shard computes are numbers.
LEMMA CountsNat ==
    ASSUME Shape, NEW P
    PROVE  Edges(P) \in [Shard -> Nat] /\ CrossEdges(P) \in Nat /\ MinEdges(Edges(P)) \in Nat
<1>1. Edges(P) \in [Shard -> Nat]
  <2>1. ASSUME NEW s \in Shard PROVE Crossing(P, s) + Inside(P, s) \div 2 \in Nat
    <3>1. Crossing(P, s) \in Nat /\ Inside(P, s) \in Nat
      BY EndsNat
    <3> QED BY <3>1
  <2> QED BY <2>1, EdgesAre
<1>2. CrossEdges(P) \in Nat
  <2> DEFINE g == [s \in Shard |-> Crossing(P, s)]
  <2>1. \A s \in Shard : g[s] \in Nat
    BY EndsNat
  <2>2. CrossEdges(P) = SumFunctionOnSet(g, Shard) \div 2
    BY EdgesAre
  <2> HIDE DEF g
  <2>3. SumFunctionOnSet(g, Shard) \in Nat
    BY <2>1, ShardsFinite, SumNat
  <2> QED BY <2>2, <2>3
<1>3. MinEdges(Edges(P)) \in Nat
  <2> DEFINE T == {Edges(P)[s] : s \in Shard}
  <2>1. T \in SUBSET Nat /\ T # {}
    BY <1>1, ShardsFinite
  <2> HIDE DEF T
  <2>2. \E x \in T : \A y \in T : x <= y
    BY <2>1, LeastNumber
  <2>3. Min(T) \in T
    BY <2>2 DEF Min
  <2>4. MinEdges(Edges(P)) = Min(T)
    BY DEF MinEdges, T
  <2> QED BY <2>1, <2>3, <2>4
<1> QED BY <1>1, <1>2, <1>3
-----------------------------------------------------------------------------
(* A move.  From P to Q the vertex v comes into the shard s. *)

Comes(P, Q, v, s) ==
    /\ P[v] # s /\ Q[v] = s
    /\ \A u \in VertexSet \ {v} : Q[u] = P[u]

Beside(P, v, s) == {u \in VertexSet \ {v} : P[u] = s}
Apart(P, v, s) == {u \in VertexSet \ {v} : P[u] # s}
EdgesBeside(P, v, s) == SumFunctionOnSet(EdgeSet[v], Beside(P, v, s))
EdgesApart(P, v, s) == SumFunctionOnSet(EdgeSet[v], Apart(P, v, s))

\* The edges of v into a shard, without v itself: it has none to itself.
LEMMA WithoutSelf ==
    ASSUME Shape, Undirected, NEW v \in VertexSet, NEW T \in SUBSET VertexSet
    PROVE  SumFunctionOnSet(EdgeSet[v], T) = SumFunctionOnSet(EdgeSet[v], T \ {v})
<1>1. IsFiniteSet(T)
    BY MembersFinite
<1>2. \A u \in T : EdgeSet[v][u] \in Int
    BY DEF Shape
<1>3. EdgeSet[v][v] = 0
    BY DEF Undirected, Shape
<1>4. CASE v \in T
  <2>1. SumFunctionOnSet(EdgeSet[v], T) = EdgeSet[v][v] + SumFunctionOnSet(EdgeSet[v], T \ {v})
    BY <1>1, <1>2, <1>4, SumRemove
  <2>2. SumFunctionOnSet(EdgeSet[v], T \ {v}) \in Nat
    BY EdgeSums
  <2> QED BY <1>3, <2>1, <2>2
<1>5. CASE v \notin T
  <2>1. T \ {v} = T
    BY <1>5
  <2> QED BY <2>1, Zenon
<1> QED BY <1>4, <1>5

\* What changes in the row of any vertex: its edges to v are added.
LEMMA RowOfOther ==
    ASSUME Shape, NEW P, NEW Q, NEW s, NEW v \in VertexSet, Comes(P, Q, v, s),
           NEW w \in VertexSet
    PROVE  Row(Q, s, w) = Row(P, s, w) + EdgeSet[w][v] /\ Row(P, s, w) \in Nat
<1>1. InShard(Q, s) = InShard(P, s) \cup {v} /\ v \notin InShard(P, s)
    BY DEF InShard, Comes
<1>2. InShard(P, s) \in SUBSET VertexSet
    BY DEF InShard
<1>3. IsFiniteSet(InShard(P, s))
    BY <1>2, MembersFinite
<1>4. \A u \in InShard(P, s) \cup {v} : EdgeSet[w][u] \in Int
    BY <1>2 DEF Shape
<1>5. SumFunctionOnSet(EdgeSet[w], InShard(P, s) \cup {v})
          = EdgeSet[w][v] + SumFunctionOnSet(EdgeSet[w], InShard(P, s))
    BY <1>1, <1>3, <1>4, SumAdd
<1>6. Row(P, s, w) \in Nat
    BY <1>2, EdgeSums DEF Row
<1>7. Row(Q, s, w) = EdgeSet[w][v] + Row(P, s, w)
    BY <1>1, <1>5, Zenon DEF Row
<1>8. EdgeSet[w][v] \in Int
    BY <1>4
<1> QED BY <1>6, <1>7, <1>8

\* The row of v itself is the same before and after.
LEMMA RowOfMoved ==
    ASSUME Shape, Undirected, NEW P, NEW Q, NEW s, NEW v \in VertexSet, Comes(P, Q, v, s)
    PROVE  Row(P, s, v) = EdgesBeside(P, v, s) /\ Row(Q, s, v) = EdgesBeside(P, v, s)
<1>1. InShard(P, s) = Beside(P, v, s)
    BY DEF InShard, Beside, Comes
<1>2. InShard(Q, s) \ {v} = Beside(P, v, s)
    BY DEF InShard, Beside, Comes
<1>3. InShard(Q, s) \in SUBSET VertexSet
    BY DEF InShard
<1>4. SumFunctionOnSet(EdgeSet[v], InShard(Q, s)) = SumFunctionOnSet(EdgeSet[v], InShard(Q, s) \ {v})
    BY <1>3, WithoutSelf
<1> QED BY <1>1, <1>2, <1>4, Zenon DEF Row, EdgesBeside

\* Its edges to s no longer cross the border of s, those to elsewhere do.
LEMMA Joins ==
    ASSUME Shape, Undirected, NEW P, NEW Q, NEW s, NEW v \in VertexSet, Comes(P, Q, v, s)
    PROVE  /\ EdgesBeside(P, v, s) \in Nat /\ EdgesApart(P, v, s) \in Nat
           /\ Inside(Q, s) = Inside(P, s) + 2 * EdgesBeside(P, v, s)
           /\ Crossing(Q, s) = Crossing(P, s) + EdgesApart(P, v, s) - EdgesBeside(P, v, s)
<1> DEFINE dA == [w \in VertexSet |-> IF w \in Beside(P, v, s) THEN EdgeSet[v][w] ELSE 0]
           dB == [w \in VertexSet |-> IF w \in Apart(P, v, s) THEN EdgeSet[v][w] ELSE 0]
<1>1. IsFiniteSet(VertexSet)
    BY MembersFinite
<1>2. \A w \in VertexSet : EdgeSet[v][w] \in Nat /\ EdgeSet[w][v] = EdgeSet[v][w]
    BY DEF Shape, Undirected
<1>3. SumFunctionOnSet(dA, VertexSet) = EdgesBeside(P, v, s) /\ EdgesBeside(P, v, s) \in Nat
  <2>1. Beside(P, v, s) \in SUBSET VertexSet
    BY DEF Beside
  <2>2. \A w \in VertexSet : dA[w] = IF w \in Beside(P, v, s) THEN EdgeSet[v][w] ELSE 0
    OBVIOUS
  <2>3. \A w \in Beside(P, v, s) : EdgeSet[v][w] \in Int
    BY <1>2, <2>1
  <2> HIDE DEF dA
  <2> QED BY <1>1, <2>1, <2>2, <2>3, SumPart, EdgeSums DEF EdgesBeside
<1>4. SumFunctionOnSet(dB, VertexSet) = EdgesApart(P, v, s) /\ EdgesApart(P, v, s) \in Nat
  <2>1. Apart(P, v, s) \in SUBSET VertexSet
    BY DEF Apart
  <2>2. \A w \in VertexSet : dB[w] = IF w \in Apart(P, v, s) THEN EdgeSet[v][w] ELSE 0
    OBVIOUS
  <2>3. \A w \in Apart(P, v, s) : EdgeSet[v][w] \in Int
    BY <1>2, <2>1
  <2> HIDE DEF dB
  <2> QED BY <1>1, <2>1, <2>2, <2>3, SumPart, EdgeSums DEF EdgesApart
<1>5. \A w \in VertexSet : /\ RowIn(P, s)[w] = IF P[w] = s THEN Row(P, s, w) ELSE 0
                           /\ RowIn(Q, s)[w] = IF Q[w] = s THEN Row(Q, s, w) ELSE 0
                           /\ RowOut(P, s)[w] = IF P[w] = s THEN 0 ELSE Row(P, s, w)
                           /\ RowOut(Q, s)[w] = IF Q[w] = s THEN 0 ELSE Row(Q, s, w)
    BY DEF RowIn, RowOut
<1>6. ASSUME NEW w \in VertexSet \ {v}
      PROVE  RowIn(Q, s)[w] = RowIn(P, s)[w] + dA[w] /\ RowOut(Q, s)[w] = RowOut(P, s)[w] + dB[w]
  <2>1. w \in VertexSet
    OBVIOUS
  <2>2. Row(Q, s, w) = Row(P, s, w) + EdgeSet[w][v] /\ Row(P, s, w) \in Nat
    BY <2>1, RowOfOther
  <2>3. EdgeSet[w][v] = EdgeSet[v][w] /\ EdgeSet[v][w] \in Nat
    BY <1>2, <2>1
  <2>4. Q[w] = P[w]
    BY DEF Comes
  <2>5. CASE P[w] = s
    <3>1. w \in Beside(P, v, s) /\ w \notin Apart(P, v, s)
      BY <2>5 DEF Beside, Apart
    <3>2. dA[w] = EdgeSet[v][w] /\ dB[w] = 0
      BY <2>1, <3>1
    <3> HIDE DEF dA, dB
    <3> QED BY <1>5, <2>1, <2>2, <2>3, <2>4, <2>5, <3>2
  <2>6. CASE P[w] # s
    <3>1. w \notin Beside(P, v, s) /\ w \in Apart(P, v, s)
      BY <2>6 DEF Beside, Apart
    <3>2. dB[w] = EdgeSet[v][w] /\ dA[w] = 0
      BY <2>1, <3>1
    <3> HIDE DEF dA, dB
    <3> QED BY <1>5, <2>1, <2>2, <2>3, <2>4, <2>6, <3>2
  <2> QED BY <2>5, <2>6
<1>7. /\ RowIn(P, s)[v] = 0 /\ RowIn(Q, s)[v] = EdgesBeside(P, v, s)
      /\ RowOut(P, s)[v] = EdgesBeside(P, v, s) /\ RowOut(Q, s)[v] = 0
    BY <1>5, RowOfMoved DEF Comes
<1>8. dA[v] = 0 /\ dB[v] = 0 /\ \A w \in VertexSet : dA[w] \in Int /\ dB[w] \in Int
    BY <1>2 DEF Beside, Apart
<1>9. \A w \in VertexSet : /\ RowIn(P, s)[w] \in Int /\ RowIn(Q, s)[w] \in Int
                           /\ RowOut(P, s)[w] \in Int /\ RowOut(Q, s)[w] \in Int
    BY EndsNat
<1> HIDE DEF dA, dB
<1>10. Inside(Q, s) = Inside(P, s) + SumFunctionOnSet(dA, VertexSet)
                        - RowIn(P, s)[v] + RowIn(Q, s)[v]
    BY <1>1, <1>6, <1>8, <1>9, SumMove DEF Inside
<1>11. Crossing(Q, s) = Crossing(P, s) + SumFunctionOnSet(dB, VertexSet)
                        - RowOut(P, s)[v] + RowOut(Q, s)[v]
    BY <1>1, <1>6, <1>8, <1>9, SumMove DEF Crossing
<1>12. Inside(P, s) \in Nat /\ Crossing(P, s) \in Nat
    BY EndsNat
<1> QED BY <1>3, <1>4, <1>7, <1>10, <1>11, <1>12

\* Shards that v neither leaves nor enters see nothing of the move.
LEMMA Elsewhere ==
    ASSUME Shape, NEW P, NEW Q, NEW s, NEW v \in VertexSet, P[v] # s, Q[v] # s,
           \A u \in VertexSet \ {v} : Q[u] = P[u]
    PROVE  Inside(Q, s) = Inside(P, s) /\ Crossing(Q, s) = Crossing(P, s)
<1>1. InShard(Q, s) = InShard(P, s)
    BY DEF InShard
<1>2. \A w : Row(Q, s, w) = Row(P, s, w)
    BY <1>1, Zenon DEF Row
<1>3. RowIn(Q, s) = RowIn(P, s) /\ RowOut(Q, s) = RowOut(P, s)
    BY <1>2 DEF RowIn, RowOut
<1> QED BY <1>3, Zenon DEF Inside, Crossing

\* What changeShardRecompute counts are the edges of v beside and apart.
LEMMA EdgesToAre ==
    ASSUME Shape, Undirected, NEW v \in VertexSet, NEW s \in Shard
    PROVE  /\ EdgesTo(v, {s}) = EdgesBeside(PartitionMap, v, s)
           /\ EdgesTo(v, Shard \ {s}) = EdgesApart(PartitionMap, v, s)
<1> DEFINE T(S) == {u \in VertexSet : PartitionMap[u] \in S}
           T1 == T({s})
           T2 == T(Shard \ {s})
<1>1. \A u \in VertexSet : PartitionMap[u] \in Shard
    BY PlacedShard
<1>2. T1 \ {v} = Beside(PartitionMap, v, s) /\ T1 \in SUBSET VertexSet
    BY DEF Beside
<1>3. T2 \ {v} = Apart(PartitionMap, v, s) /\ T2 \in SUBSET VertexSet
    BY <1>1 DEF Apart
<1>4. EdgesTo(v, {s}) = SumFunctionOnSet(EdgeSet[v], T1)
    BY Zenon DEF EdgesTo
<1>5. EdgesTo(v, Shard \ {s}) = SumFunctionOnSet(EdgeSet[v], T2)
    BY Zenon DEF EdgesTo
<1> HIDE DEF T1, T2
<1>6. SumFunctionOnSet(EdgeSet[v], T1) = SumFunctionOnSet(EdgeSet[v], T1 \ {v})
    BY <1>2, WithoutSelf
<1>7. SumFunctionOnSet(EdgeSet[v], T2) = SumFunctionOnSet(EdgeSet[v], T2 \ {v})
    BY <1>3, WithoutSelf
<1> QED BY <1>2, <1>3, <1>4, <1>5, <1>6, <1>7, Zenon DEF EdgesBeside, EdgesApart

\* Beside or apart: all the edges of v.
LEMMA AllEdges ==
    ASSUME Shape, NEW P, NEW v \in VertexSet, NEW s
    PROVE  EdgesBeside(P, v, s) + EdgesApart(P, v, s)
               = SumFunctionOnSet(EdgeSet[v], VertexSet \ {v})
<1> DEFINE A == Beside(P, v, s)
           B == Apart(P, v, s)
<1>1. A \cup B = VertexSet \ {v} /\ A \cap B = {}
    BY DEF Beside, Apart
<1>2. A \in SUBSET VertexSet /\ B \in SUBSET VertexSet
    BY DEF Beside, Apart
<1> HIDE DEF A, B
<1>3. IsFiniteSet(A) /\ IsFiniteSet(B)
    BY <1>2, MembersFinite
<1>4. \A u \in A \cup B : EdgeSet[v][u] \in Int
    BY <1>2 DEF Shape
<1>5. SumFunctionOnSet(EdgeSet[v], A \cup B)
          = SumFunctionOnSet(EdgeSet[v], A) + SumFunctionOnSet(EdgeSet[v], B)
    BY <1>1, <1>3, <1>4, SumUnion
<1> QED BY <1>1, <1>5, Zenon DEF A, B, EdgesBeside, EdgesApart

\* changeShardRecompute corrects the counters to what ComputeEdges2Shard finds.
LEMMA MoveCounts ==
    ASSUME Shape, Undirected, NEW v \in VertexSet, NEW new \in Shard, PartitionMap[v] # new
    PROVE  LET P == PartitionMap
               Q == [PartitionMap EXCEPT ![v] = new]
               old == PartitionMap[v]
           IN  /\ Edges(Q) = [Edges(P) EXCEPT ![new] = @ + EdgesTo(v, Shard \ {new}),
                                              ![old] = @ - EdgesTo(v, Shard \ {old})]
               /\ CrossEdges(Q) = CrossEdges(P) + EdgesTo(v, {old}) - EdgesTo(v, {new})
<1> DEFINE P == PartitionMap
           Q == [PartitionMap EXCEPT ![v] = new]
           old == PartitionMap[v]
           Ao == EdgesBeside(P, v, old)
           Bo == EdgesApart(P, v, old)
           An == EdgesBeside(P, v, new)
           Bn == EdgesApart(P, v, new)
<1>1. /\ old \in Shard /\ old # new /\ v \in DOMAIN PartitionMap
      /\ VertexSet \subseteq DOMAIN PartitionMap
    BY PlacedShard DEF Shape
<1>2. Q[v] = new /\ P[v] = old /\ \A u \in VertexSet \ {v} : Q[u] = P[u]
    BY <1>1
<1>3. /\ EdgesTo(v, {old}) = Ao /\ EdgesTo(v, Shard \ {old}) = Bo
      /\ EdgesTo(v, {new}) = An /\ EdgesTo(v, Shard \ {new}) = Bn
    BY <1>1, EdgesToAre
<1> HIDE DEF P, Q, old
<1>4. Comes(P, Q, v, new) /\ Comes(Q, P, v, old)
    BY <1>1, <1>2 DEF Comes
<1>5. /\ An \in Nat /\ Bn \in Nat
      /\ Inside(Q, new) = Inside(P, new) + 2 * An
      /\ Crossing(Q, new) = Crossing(P, new) + Bn - An
    BY <1>4, Joins
<1>6. EdgesBeside(Q, v, old) = Ao /\ EdgesApart(Q, v, old) = Bo
  <2>1. Beside(Q, v, old) = Beside(P, v, old) /\ Apart(Q, v, old) = Apart(P, v, old)
    BY <1>2 DEF Beside, Apart
  <2> QED BY <2>1, Zenon DEF EdgesBeside, EdgesApart
<1>7. /\ Ao \in Nat /\ Bo \in Nat
      /\ Inside(P, old) = Inside(Q, old) + 2 * Ao
      /\ Crossing(P, old) = Crossing(Q, old) + Bo - Ao
  <2>1. /\ EdgesBeside(Q, v, old) \in Nat /\ EdgesApart(Q, v, old) \in Nat
        /\ Inside(P, old) = Inside(Q, old) + 2 * EdgesBeside(Q, v, old)
        /\ Crossing(P, old) = Crossing(Q, old) + EdgesApart(Q, v, old) - EdgesBeside(Q, v, old)
    BY <1>4, Joins
  <2> QED BY <1>6, <2>1
<1>8. \A s \in Shard \ {old, new} : Inside(Q, s) = Inside(P, s) /\ Crossing(Q, s) = Crossing(P, s)
    BY <1>2, Elsewhere
<1>9. Ao + Bo = An + Bn
    BY AllEdges
<1>10. \A s \in Shard : /\ Inside(P, s) \in Nat /\ Crossing(P, s) \in Nat
                        /\ Inside(Q, s) \in Nat /\ Crossing(Q, s) \in Nat
    BY EndsNat
<1> HIDE DEF Ao, Bo, An, Bn
<1>11. Edges(Q) = [Edges(P) EXCEPT ![new] = @ + Bn, ![old] = @ - Bo]
  <2> DEFINE E(R, s) == Crossing(R, s) + Inside(R, s) \div 2
  <2>1. Edges(P) = [s \in Shard |-> E(P, s)] /\ Edges(Q) = [s \in Shard |-> E(Q, s)]
    BY EdgesAre
  <2>2. E(Q, new) = E(P, new) + Bn
    <3>1. \A a, b, c, d \in Nat : c + b - a + (d + 2 * a) \div 2 = c + d \div 2 + b
      OBVIOUS
    <3>2. Inside(P, new) \in Nat /\ Crossing(P, new) \in Nat
      BY <1>10
    <3> QED BY <1>5, <3>1, <3>2
  <2>3. E(Q, old) = E(P, old) - Bo
    <3>1. \A a, b, c, d \in Nat : c + d \div 2 = (c + b - a) + (d + 2 * a) \div 2 - b
      OBVIOUS
    <3>2. Inside(Q, old) \in Nat /\ Crossing(Q, old) \in Nat
      BY <1>1, <1>10
    <3> QED BY <1>7, <3>1, <3>2
  <2>4. \A s \in Shard \ {old, new} : E(Q, s) = E(P, s)
    BY <1>8
  <2> HIDE DEF E
  <2> QED BY <1>1, <2>1, <2>2, <2>3, <2>4
<1>12. CrossEdges(Q) = CrossEdges(P) + Ao - An
  <2> DEFINE p == [s \in Shard |-> Crossing(P, s)]
             q == [s \in Shard |-> Crossing(Q, s)]
             m == [p EXCEPT ![new] = q[new]]
  <2>1. \A s \in Shard : p[s] = Crossing(P, s) /\ q[s] = Crossing(Q, s)
    OBVIOUS
  <2>2. \A s \in Shard : p[s] \in Nat /\ q[s] \in Nat
    BY <1>10, <2>1
  <2>3. \A s \in Shard : m[s] = IF s = new THEN q[s] ELSE p[s]
    OBVIOUS
  <2>4. CrossEdges(P) = SumFunctionOnSet(p, Shard) \div 2
    BY EdgesAre
  <2>5. CrossEdges(Q) = SumFunctionOnSet(q, Shard) \div 2
    BY EdgesAre
  <2> HIDE DEF p, q, m
  <2>6. SumFunctionOnSet(m, Shard) = SumFunctionOnSet(p, Shard) - p[new] + m[new]
    BY <2>2, <2>3, SumChange, ShardsFinite
  <2>7. \A s \in Shard \ {old} : q[s] = m[s]
    BY <1>8, <2>1, <2>3
  <2>8. SumFunctionOnSet(q, Shard) = SumFunctionOnSet(m, Shard) - m[old] + q[old]
    BY <1>1, <2>2, <2>3, <2>7, SumChange, ShardsFinite
  <2>9. SumFunctionOnSet(p, Shard) \in Nat
    BY <2>2, SumNat, ShardsFinite
  <2>10. m[new] = q[new] /\ m[old] = p[old]
    BY <1>1, <2>3
  <2>11. /\ p[new] = Crossing(P, new) /\ q[new] = Crossing(Q, new) /\ Crossing(P, new) \in Nat
         /\ p[old] = Crossing(P, old) /\ q[old] = Crossing(Q, old) /\ Crossing(Q, old) \in Nat
    BY <1>1, <1>10, <2>1
  <2>12. SumFunctionOnSet(q, Shard) = SumFunctionOnSet(p, Shard) + 2 * (Ao - An)
    BY <1>5, <1>7, <1>9, <2>6, <2>8, <2>9, <2>10, <2>11
  <2>13. \A n \in Nat : \A k \in Int : (n + 2 * k) \div 2 = n \div 2 + k
    OBVIOUS
  <2>14. Ao - An \in Int
    BY <1>5, <1>7
  <2>15. CrossEdges(Q) = SumFunctionOnSet(p, Shard) \div 2 + (Ao - An)
    BY <2>5, <2>9, <2>12, <2>13, <2>14
  <2>16. SumFunctionOnSet(p, Shard) \div 2 \in Int
    BY <2>9
  <2> QED BY <1>5, <1>7, <2>4, <2>15, <2>16
<1> QED BY <1>3, <1>11, <1>12 DEF P, Q, old
-----------------------------------------------------------------------------
(* The invariant, action by action. *)

\* What the counters should be depends on the graph and the placement alone.
LEMMA SameGraph ==
    ASSUME UNCHANGED graphVars
    PROVE  /\ Edges(PartitionMap)' = Edges(PartitionMap')
           /\ CrossEdges(PartitionMap)' = CrossEdges(PartitionMap')
<1>1. VertexSet' = VertexSet /\ EdgeSet' = EdgeSet
    BY DEF graphVars
<1>2. ASSUME NEW s, NEW b PROVE EndsIn(PartitionMap, s, b)' = EndsIn(PartitionMap', s, b)
    BY <1>1, Zenon DEF EndsIn
<1> QED BY <1>2, Zenon DEF Edges, CrossEdges

\* The graph, the map and the counters stay: so does what is said about them.
LEMMA Undisturbed ==
    ASSUME ClpaInv, UNCHANGED <<graphVars, PartitionMap, VertexsNumInShard>>
    PROVE  Undirected' /\ Counted'
<1>1. /\ VertexSet' = VertexSet /\ EdgeSet' = EdgeSet
      /\ PartitionMap' = PartitionMap /\ VertexsNumInShard' = VertexsNumInShard
    BY DEF graphVars
<1>2. \A s : Members(s)' = Members(s)
    BY <1>1 DEF Members
<1>3. Counted'
    BY <1>1, <1>2, Zenon DEF ClpaInv, Counted
<1>4. Undirected'
    BY <1>1 DEF ClpaInv, Undirected
<1> QED BY <1>3, <1>4

\* The first graph has no vertex.
LEMMA InitClpa == ASSUME Init PROVE ClpaInv
<1>1. Nowhere \in Placement /\ DOMAIN Nowhere = {}
    BY NowherePlaced
<1>2. Shape
    BY <1>1, PartitionAssumption DEF Init, Shape, NoEdges
<1>3. Undirected
    BY DEF Init, Undirected, NoEdges
<1>4. Quiet
    BY DEF Init, Quiet
<1>5. Counted
  <2>1. Cardinality({}) = 0
    BY FS_EmptySet
  <2>2. \A s : Members(s) = {}
    BY DEF Init, Members
  <2>3. [s \in Shard |-> Cardinality(Members(s))] = [s \in Shard |-> 0]
    BY <2>1, <2>2, Zenon
  <2> QED BY <2>3 DEF Init, Counted, Zero
<1>6. Placed
    BY <1>1 DEF Init, Placed, Agrees
<1>7. CountersExact
    BY DEF Init, CountersExact
<1> QED BY <1>2, <1>3, <1>4, <1>5, <1>6, <1>7 DEF ClpaInv

\* A transaction is reported.
LEMMA AddEdgeClpa ==
    ASSUME ClpaInv, NEW u \in Vertex, NEW v \in Vertex, AddEdge(u, v)
    PROVE  ClpaInv'
<1> DEFINE V == {u, v} \ VertexSet
           start == [w \in V |-> Addr2Shard[w]]
           placed == Over(PartitionMap, start)
           Ends(a, b) == (a = u /\ b = v) \/ (a = v /\ b = u)
<1>1. Shape /\ Undirected /\ Quiet /\ Counted /\ Placed
    BY DEF ClpaInv
<1>2. /\ iter = 0 /\ iter' = 0 /\ todo' = todo /\ updateTreshold' = updateTreshold
      /\ res' = res /\ modifiedMap' = modifiedMap /\ epoch' = epoch
      /\ Edges2Shard' = Edges2Shard /\ MinEdges2Shard' = MinEdges2Shard
      /\ CrossShardEdgeNum' = CrossShardEdgeNum
      /\ u # v
    BY DEF AddEdge, runVars, countVars
<1>3. /\ VertexSet' = VertexSet \cup V
      /\ PartitionMap' = placed
      /\ VertexsNumInShard'
           = [s \in Shard |-> VertexsNumInShard[s] + Cardinality({w \in V : placed[w] = s})]
    BY Zenon DEF AddEdge, AddVertices
<1>4. EdgeSet' = [EdgeSet EXCEPT ![u][v] = @ + 1, ![v][u] = @ + 1]
    BY DEF AddEdge, GraphAddEdge
<1>5. start \in Placement /\ DOMAIN start = V
  <2>1. start \in [V -> Shard] /\ V \in SUBSET Vertex
    BY PartitionAssumption
  <2> QED BY <2>1 DEF Placement
<1>6. \A w \in V : start[w] = Addr2Shard[w]
    OBVIOUS
<1>7. VertexSet \subseteq DOMAIN PartitionMap /\ PartitionMap \in Placement
    BY <1>1 DEF Shape
<1>8. V \subseteq Vertex /\ V \cap VertexSet = {}
    OBVIOUS
<1> HIDE DEF V, start
<1>9. placed \in Placement /\ DOMAIN placed = DOMAIN PartitionMap \cup V
    BY <1>5, <1>7, OverPlacement
<1>10. \A w \in DOMAIN PartitionMap \cup V :
            placed[w] = IF w \in DOMAIN PartitionMap THEN PartitionMap[w] ELSE Addr2Shard[w]
    BY <1>5, <1>6 DEF Over
<1> HIDE DEF placed
<1>11. /\ EdgeSet' \in [Vertex -> [Vertex -> Nat]]
       /\ \A a, b \in Vertex : EdgeSet'[a][b] = EdgeSet[a][b] + IF Ends(a, b) THEN 1 ELSE 0
  <2>1. EdgeSet \in [Vertex -> [Vertex -> Nat]]
    BY <1>1 DEF Shape
  <2>2. /\ EdgeSet'[u] = [EdgeSet[u] EXCEPT ![v] = @ + 1]
        /\ EdgeSet'[v] = [EdgeSet[v] EXCEPT ![u] = @ + 1]
        /\ \A a \in Vertex \ {u, v} : EdgeSet'[a] = EdgeSet[a]
        /\ EdgeSet' = [a \in Vertex |-> EdgeSet'[a]]
    BY <1>2, <1>4, <2>1
  <2>3. ASSUME NEW a \in Vertex, NEW b \in Vertex
        PROVE  EdgeSet'[a][b] = EdgeSet[a][b] + IF Ends(a, b) THEN 1 ELSE 0
    <3>1. EdgeSet[a][b] \in Nat
      BY <2>1
    <3> QED BY <1>2, <2>1, <2>2, <3>1
  <2>4. ASSUME NEW a \in Vertex PROVE EdgeSet'[a] \in [Vertex -> Nat]
    BY <2>1, <2>2
  <2>5. EdgeSet' \in [Vertex -> [Vertex -> Nat]]
    BY <2>2, <2>4
  <2> QED BY <2>3, <2>5
<1>12. Shape'
    BY <1>1, <1>2, <1>3, <1>8, <1>9, <1>7, <1>11 DEF Shape
<1>13. Undirected'
  <2>1. ASSUME NEW a \in Vertex, NEW b \in Vertex
        PROVE  EdgeSet'[a][b] = EdgeSet'[b][a] /\ EdgeSet'[b][b] = 0
    <3>1. EdgeSet[a][b] = EdgeSet[b][a] /\ EdgeSet[b][b] = 0
      BY <1>1 DEF Undirected
    <3>2. (Ends(a, b) <=> Ends(b, a)) /\ ~Ends(b, b)
      BY <1>2
    <3> HIDE DEF Ends
    <3>3. /\ EdgeSet'[a][b] = EdgeSet[a][b] + IF Ends(a, b) THEN 1 ELSE 0
          /\ EdgeSet'[b][a] = EdgeSet[b][a] + IF Ends(b, a) THEN 1 ELSE 0
          /\ EdgeSet'[b][b] = EdgeSet[b][b] + IF Ends(b, b) THEN 1 ELSE 0
      BY <1>11
    <3> QED BY <3>1, <3>2, <3>3
  <2> QED BY <2>1 DEF Undirected
<1>14. Quiet'
    BY <1>1, <1>2 DEF Quiet
<1>15. Counted'
  <2>1. ASSUME NEW s \in Shard
        PROVE  Cardinality(Members(s)') = Cardinality(Members(s)) + Cardinality({w \in V : placed[w] = s})
    <3> DEFINE M == Members(s)
               N == {w \in V : placed[w] = s}
    <3>1. Members(s)' = M \cup N
      BY <1>3, <1>7, <1>8, <1>10 DEF Members
    <3>2. M \cap N = {} /\ M \in SUBSET VertexSet /\ N \in SUBSET Vertex
      BY <1>8 DEF Members
    <3> HIDE DEF M, N
    <3>3. IsFiniteSet(M)
      BY <1>1, <3>2, MembersFinite
    <3>4. IsFiniteSet(N)
      BY <3>2, PartitionAssumption, FS_Subset
    <3>5. Cardinality(M \cup N) = Cardinality(M) + Cardinality(N) - Cardinality(M \cap N)
      BY <3>3, <3>4, FS_Union
    <3>6. Cardinality(M \cap N) = 0
      BY <3>2, FS_EmptySet, Zenon
    <3>7. Cardinality(M) \in Nat /\ Cardinality(N) \in Nat
      BY <3>3, <3>4, FS_CardinalityType
    <3>8. Cardinality(M \cup N) = Cardinality(M) + Cardinality(N)
      BY <3>5, <3>6, <3>7
    <3> QED BY <3>1, <3>8 DEF M, N
  <2>2. \A s \in Shard : VertexsNumInShard[s] = Cardinality(Members(s))
    BY <1>1 DEF Counted
  <2>3. VertexsNumInShard' = [s \in Shard |-> Cardinality(Members(s)')]
    BY <1>3, <2>1, <2>2
  <2> QED BY <2>3 DEF Counted
<1>16. Placed'
  <2>1. res = Nowhere
    BY <1>1, <1>2 DEF Quiet
  <2>2. DOMAIN res = {}
    BY <2>1, NowherePlaced
  <2>3. DOMAIN Addr2Shard = Vertex /\ DOMAIN modifiedMap \subseteq DOMAIN PartitionMap
    BY <1>1, PartitionAssumption DEF Placed, Agrees
  <2>4. ASSUME NEW w \in DOMAIN placed PROVE placed[w] = Over(res, Over(modifiedMap, Addr2Shard))[w]
    <3>1. CASE w \in DOMAIN PartitionMap
      BY <1>1, <1>9, <1>10, <3>1 DEF Placed, Agrees
    <3>2. CASE w \notin DOMAIN PartitionMap
      <4>1. w \in V /\ w \in Vertex /\ w \notin DOMAIN modifiedMap
        BY <1>8, <1>9, <2>3, <3>2
      <4>2. Over(modifiedMap, Addr2Shard)[w] = Addr2Shard[w] /\ w \in DOMAIN Over(modifiedMap, Addr2Shard)
        BY <2>3, <4>1 DEF Over
      <4>3. Over(res, Over(modifiedMap, Addr2Shard))[w] = Addr2Shard[w]
        BY <2>2, <4>2 DEF Over
      <4> QED BY <1>10, <3>2, <4>1, <4>3
    <3> QED BY <3>1, <3>2
  <2> QED BY <1>2, <1>3, <1>9, <2>3, <2>4 DEF Placed, Agrees
<1>17. CountersExact'
    BY <1>2 DEF CountersExact
<1> QED BY <1>12, <1>13, <1>14, <1>15, <1>16, <1>17 DEF ClpaInv

\* The algorithm starts and computes the counters.
LEMMA StartClpa == ASSUME ClpaInv, StartPartition PROVE ClpaInv'
<1>1. /\ iter' = 1 /\ todo' = VertexSet /\ updateTreshold' = [v \in Vertex |-> 0]
      /\ res' = Nowhere /\ iter = 0 /\ epoch < MaxEpochs
      /\ UNCHANGED <<graphVars, PartitionMap, VertexsNumInShard, modifiedMap, epoch>>
    BY DEF StartPartition
<1>2. UNCHANGED graphVars /\ VertexSet' = VertexSet /\ EdgeSet' = EdgeSet
    BY <1>1 DEF graphVars
<1>3. Shape'
    BY <1>1, <1>2, NowherePlaced, PartitionAssumption DEF ClpaInv, Shape
<1>4. Undirected' /\ Counted'
    BY <1>1, Undisturbed
<1>5. Quiet'
    BY <1>1 DEF Quiet
<1>6. Placed'
    BY <1>1 DEF ClpaInv, Placed, Quiet
<1>7. CountersExact'
  <2>1. /\ Edges2Shard' = Edges(PartitionMap') /\ CrossShardEdgeNum' = CrossEdges(PartitionMap')
        /\ MinEdges2Shard' = MinEdges(Edges2Shard')
    BY <1>1, Zenon DEF StartPartition, ComputeEdges2Shard
  <2>2. /\ Edges2Shard' = Edges(PartitionMap)' /\ CrossShardEdgeNum' = CrossEdges(PartitionMap)'
    BY <1>2, <2>1, SameGraph
  <2>3. MinEdges2Shard' = MinEdges(Edges2Shard)'
    BY <2>1 DEF MinEdges
  <2> QED BY <2>2, <2>3 DEF CountersExact
<1> QED BY <1>3, <1>4, <1>5, <1>6, <1>7 DEF ClpaInv

\* The members of each shard before and after a move.
LEMMA MoveMembers ==
    ASSUME Shape, Counted, NEW v \in VertexSet, NEW new \in Shard, VisitAndMove(v, new),
           NEW old, old = PartitionMap[v]
    PROVE  /\ old \in Shard /\ old # new
           /\ v \in Members(old) /\ Members(old)' = Members(old) \ {v} /\ Members(old)' # {}
           /\ v \notin Members(new) /\ Members(new)' = Members(new) \cup {v}
           /\ \A s \in Shard \ {old, new} : Members(s)' = Members(s)
<1>1. /\ VertexSet' = VertexSet /\ PartitionMap' = [PartitionMap EXCEPT ![v] = new]
      /\ new # old /\ VertexsNumInShard[old] > 1
    BY DEF VisitAndMove, MayMove, graphVars
<1>2. old \in Shard /\ VertexSet \subseteq DOMAIN PartitionMap
    BY PlacedShard DEF Shape
<1>3. \A w \in VertexSet : PartitionMap'[w] = IF w = v THEN new ELSE PartitionMap[w]
    BY <1>1, <1>2
<1>4. v \in Members(old) /\ Members(old)' = Members(old) \ {v}
    BY <1>1, <1>3 DEF Members
<1>5. v \notin Members(new) /\ Members(new)' = Members(new) \cup {v}
    BY <1>1, <1>3 DEF Members
<1>6. ASSUME NEW s \in Shard \ {old, new} PROVE Members(s)' = Members(s)
  <2>1. \A w \in VertexSet : PartitionMap'[w] = s <=> PartitionMap[w] = s
    BY <1>3
  <2> QED BY <1>1, <2>1 DEF Members
<1>7. Members(old)' # {}
  <2>1. Members(old) \in SUBSET VertexSet
    BY DEF Members
  <2>2. IsFiniteSet(Members(old)) /\ Cardinality(Members(old)) \in Nat
    BY <2>1, MembersFinite
  <2>3. Cardinality(Members(old) \ {v}) = Cardinality(Members(old)) - 1
    BY <1>4, <2>2, FS_RemoveElement
  <2>4. VertexsNumInShard[old] = Cardinality(Members(old))
    BY <1>2 DEF Counted
  <2>5. Cardinality({}) = 0
    BY FS_EmptySet
  <2>6. Cardinality(Members(old) \ {v}) # 0
    BY <1>1, <2>2, <2>3, <2>4
  <2>7. Members(old) \ {v} # {}
    BY <2>5, <2>6, Zenon
  <2> QED BY <1>4, <2>7
<1> QED BY <1>1, <1>2, <1>4, <1>5, <1>6, <1>7

\* A vertex moves.
LEMMA MoveClpa ==
    ASSUME ClpaInv, NEW v \in Vertex, NEW new \in Shard, VisitAndMove(v, new)
    PROVE  ClpaInv'
<1>1. Shape /\ Undirected /\ Quiet /\ Counted /\ Placed /\ CountersExact
    BY DEF ClpaInv
<1> PICK old : old = PartitionMap[v]
    OBVIOUS
<1>2. /\ v \in todo /\ todo' = todo \ {v} /\ iter' = iter
      /\ PartitionMap' = [PartitionMap EXCEPT ![v] = new]
      /\ res' = Over([u \in {v} |-> new], res)
      /\ updateTreshold' = [updateTreshold EXCEPT ![v] = @ + 1]
      /\ updateTreshold[v] < UpdateLimit
      /\ VertexsNumInShard' = [VertexsNumInShard EXCEPT ![old] = @ - 1, ![new] = @ + 1]
      /\ UNCHANGED graphVars /\ VertexSet' = VertexSet /\ EdgeSet' = EdgeSet
      /\ modifiedMap' = modifiedMap /\ epoch' = epoch
      /\ new # old
    BY DEF VisitAndMove, MayMove, graphVars
<1>3. /\ Edges2Shard' = [Edges2Shard EXCEPT ![new] = @ + EdgesTo(v, Shard \ {new}),
                                            ![old] = @ - EdgesTo(v, Shard \ {old})]
      /\ CrossShardEdgeNum' = CrossShardEdgeNum + EdgesTo(v, {old}) - EdgesTo(v, {new})
      /\ MinEdges2Shard' = MinEdges(Edges2Shard')
    BY DEF VisitAndMove, ChangeShardRecompute
<1>4. v \in VertexSet /\ iter > 0 /\ old \in Shard /\ v \in DOMAIN PartitionMap
  <2>1. v \in VertexSet /\ iter \in 0 .. MaxIterations
    BY <1>1, <1>2 DEF Shape
  <2>2. iter # 0
    BY <1>1, <1>2 DEF Quiet
  <2> QED BY <1>1, <2>1, <2>2, PlacedShard
<1>5. /\ res' \in Placement /\ DOMAIN res' = {v} \cup DOMAIN res
      /\ res'[v] = new /\ \A w \in DOMAIN res \ {v} : res'[w] = res[w]
  <2> DEFINE one == [u \in {v} |-> new]
  <2>1. one \in [{v} -> Shard] /\ DOMAIN one = {v} /\ one[v] = new
    OBVIOUS
  <2>2. one \in Placement
    BY <2>1 DEF Placement
  <2>3. res' = Over(one, res)
    BY <1>2
  <2> HIDE DEF one
  <2>4. Over(one, res) \in Placement /\ DOMAIN Over(one, res) = DOMAIN one \cup DOMAIN res
    BY <1>1, <2>2, OverPlacement DEF Shape
  <2> QED BY <2>1, <2>3, <2>4 DEF Over
<1>6. PartitionMap' \in Placement /\ DOMAIN PartitionMap' = DOMAIN PartitionMap
  <2>1. PICK V \in SUBSET Vertex : PartitionMap \in [V -> Shard]
    BY <1>1 DEF Shape, Placement
  <2>2. PartitionMap' \in [V -> Shard]
    BY <1>2, <2>1
  <2> QED BY <2>1, <2>2 DEF Placement
<1>7. updateTreshold' \in [Vertex -> 0 .. UpdateLimit]
  <2>1. updateTreshold \in [Vertex -> 0 .. UpdateLimit] /\ UpdateLimit \in Nat
    BY <1>1, PartitionAssumption DEF Shape
  <2>2. updateTreshold[v] + 1 \in 0 .. UpdateLimit
    BY <1>2, <2>1
  <2> QED BY <1>2, <2>1, <2>2
<1>8. Shape'
    BY <1>1, <1>2, <1>4, <1>5, <1>6, <1>7 DEF Shape
<1>9. Undirected'
    BY <1>1, <1>2 DEF Undirected
<1>10. Quiet'
    BY <1>1, <1>2, <1>4 DEF Quiet
<1>11. Counted'
  <2>1. /\ v \in Members(old) /\ Members(old)' = Members(old) \ {v}
        /\ v \notin Members(new) /\ Members(new)' = Members(new) \cup {v}
        /\ \A s \in Shard \ {old, new} : Members(s)' = Members(s)
    BY <1>1, <1>4, MoveMembers
  <2>2. Members(old) \in SUBSET VertexSet /\ Members(new) \in SUBSET VertexSet
    BY DEF Members
  <2>3. /\ IsFiniteSet(Members(old)) /\ Cardinality(Members(old)) \in Nat
        /\ IsFiniteSet(Members(new)) /\ Cardinality(Members(new)) \in Nat
    BY <1>1, <2>2, MembersFinite
  <2>4. Cardinality(Members(old)') = Cardinality(Members(old)) - 1
    <3>1. Cardinality(Members(old) \ {v}) = Cardinality(Members(old)) - 1
      BY <2>1, <2>3, FS_RemoveElement
    <3> QED BY <2>1, <3>1, Zenon
  <2>5. Cardinality(Members(new)') = Cardinality(Members(new)) + 1
    BY <2>1, <2>3, FS_AddElement
  <2>6. \A s \in Shard \ {old, new} : Cardinality(Members(s)') = Cardinality(Members(s))
    BY <2>1, Zenon
  <2>7. VertexsNumInShard = [s \in Shard |-> Cardinality(Members(s))]
    BY <1>1 DEF Counted
  <2>8. VertexsNumInShard' = [s \in Shard |-> Cardinality(Members(s)')]
    <3> DEFINE n == [s \in Shard |-> Cardinality(Members(s))]
               m == [s \in Shard |-> Cardinality(Members(s)')]
    <3>1. m[old] = n[old] - 1 /\ m[new] = n[new] + 1
      BY <1>4, <2>4, <2>5
    <3>2. \A s \in Shard \ {old, new} : m[s] = n[s]
      BY <2>6
    <3>3. DOMAIN m = Shard /\ m = [s \in Shard |-> m[s]] /\ n \in [Shard -> {n[s] : s \in Shard}]
      OBVIOUS
    <3>4. VertexsNumInShard = n
      BY <2>7
    <3> HIDE DEF n, m
    <3>5. /\ VertexsNumInShard' = [s \in Shard |-> VertexsNumInShard'[s]]
          /\ VertexsNumInShard'[old] = n[old] - 1 /\ VertexsNumInShard'[new] = n[new] + 1
          /\ \A s \in Shard \ {old, new} : VertexsNumInShard'[s] = n[s]
      BY <1>2, <1>4, <3>3, <3>4
    <3>6. \A s \in Shard : VertexsNumInShard'[s] = m[s]
      BY <3>1, <3>2, <3>5
    <3>7. VertexsNumInShard' = m
      BY <3>3, <3>5, <3>6
    <3> QED BY <3>7 DEF m
  <2> QED BY <2>8 DEF Counted
<1>12. Placed'
  <2>1. ASSUME NEW w \in DOMAIN PartitionMap
        PROVE  PartitionMap'[w] = Over(res', Over(modifiedMap, Addr2Shard))[w]
    <3> DEFINE base == Over(modifiedMap, Addr2Shard)
    <3>1. PartitionMap[w] = Over(res, base)[w]
      BY <1>1 DEF Placed, Agrees
    <3>2. w \in DOMAIN base
      <4>1. w \in Vertex
        BY <1>1, PlacementIs DEF Shape
      <4>2. DOMAIN Addr2Shard = Vertex
        BY PartitionAssumption
      <4> QED BY <4>1, <4>2 DEF Over
    <3> HIDE DEF base
    <3>3. Over(res, base)[w] = IF w \in DOMAIN res THEN res[w] ELSE base[w]
      BY <3>2 DEF Over
    <3>4. Over(res', base)[w] = IF w \in DOMAIN res' THEN res'[w] ELSE base[w]
      BY <3>2 DEF Over
    <3>5. Over(res', base)[w] = IF w = v THEN new ELSE Over(res, base)[w]
      BY <1>5, <3>3, <3>4
    <3>6. PartitionMap'[w] = IF w = v THEN new ELSE PartitionMap[w]
      BY <1>2
    <3> QED BY <3>1, <3>5, <3>6 DEF base
  <2> QED BY <1>1, <1>2, <1>6, <2>1 DEF Placed, Agrees
<1>13. CountersExact'
  <2>1. Edges2Shard = Edges(PartitionMap) /\ CrossShardEdgeNum = CrossEdges(PartitionMap)
    BY <1>1, <1>4 DEF CountersExact
  <2>2. /\ Edges(PartitionMap') = [Edges(PartitionMap)
               EXCEPT ![new] = @ + EdgesTo(v, Shard \ {new}), ![old] = @ - EdgesTo(v, Shard \ {old})]
        /\ CrossEdges(PartitionMap') = CrossEdges(PartitionMap) + EdgesTo(v, {old}) - EdgesTo(v, {new})
    BY <1>1, <1>2, <1>4, MoveCounts
  <2>3. Edges2Shard' = Edges(PartitionMap)' /\ CrossShardEdgeNum' = CrossEdges(PartitionMap)'
    BY <1>2, <1>3, <2>1, <2>2, SameGraph
  <2>4. MinEdges2Shard' = MinEdges(Edges2Shard)'
    BY <1>3 DEF MinEdges
  <2> QED BY <2>3, <2>4 DEF CountersExact
<1> QED BY <1>8, <1>9, <1>10, <1>11, <1>12, <1>13 DEF ClpaInv

\* Steps that leave the graph, the map and the counters alone.
LEMMA KeptClpa ==
    ASSUME ClpaInv, Shape', Quiet', iter' > 0 <=> iter > 0,
           UNCHANGED <<graphVars, PartitionMap, VertexsNumInShard, countVars, res, modifiedMap>>
    PROVE  ClpaInv'
<1>1. Undirected' /\ Counted'
    BY Undisturbed
<1>2. Placed'
    BY DEF ClpaInv, Placed
<1>3. CountersExact'
  <2>1. Edges(PartitionMap)' = Edges(PartitionMap') /\ CrossEdges(PartitionMap)' = CrossEdges(PartitionMap')
    BY SameGraph
  <2>2. PartitionMap' = PartitionMap /\ Edges2Shard' = Edges2Shard
        /\ CrossShardEdgeNum' = CrossShardEdgeNum /\ MinEdges2Shard' = MinEdges2Shard
    BY DEF countVars
  <2>3. MinEdges(Edges2Shard)' = MinEdges(Edges2Shard)
    BY <2>2 DEF MinEdges
  <2> QED BY <2>1, <2>2, <2>3 DEF ClpaInv, CountersExact
<1> QED BY <1>1, <1>2, <1>3 DEF ClpaInv

\* A vertex stays where it is.
LEMMA StayClpa == ASSUME ClpaInv, NEW v \in Vertex, VisitAndStay(v) PROVE ClpaInv'
<1>1. /\ todo' = todo \ {v} /\ v \in todo
      /\ UNCHANGED <<graphVars, PartitionMap, VertexsNumInShard, countVars, iter, updateTreshold,
                     res, modifiedMap, epoch>>
    BY DEF VisitAndStay
<1>2. Shape'
    BY <1>1 DEF ClpaInv, Shape, graphVars
<1>3. Quiet'
    BY <1>1 DEF ClpaInv, Quiet, countVars
<1> QED BY <1>1, <1>2, <1>3, KeptClpa

\* The next iteration visits all vertices again.
LEMMA NextIterationClpa == ASSUME ClpaInv, NextIteration PROVE ClpaInv'
<1>1. /\ todo' = VertexSet /\ iter' = iter + 1 /\ iter > 0 /\ iter < MaxIterations
      /\ UNCHANGED <<graphVars, PartitionMap, VertexsNumInShard, countVars, updateTreshold, res,
                     modifiedMap, epoch>>
    BY DEF NextIteration
<1>2. iter \in 0 .. MaxIterations /\ MaxIterations \in Nat
    BY PartitionAssumption DEF ClpaInv, Shape
<1>3. iter' \in 0 .. MaxIterations /\ iter' > 0
    BY <1>1, <1>2
<1>4. Shape'
    BY <1>1, <1>3 DEF ClpaInv, Shape, graphVars
<1>5. Quiet'
    BY <1>1, <1>3 DEF ClpaInv, Quiet, countVars
<1> QED BY <1>1, <1>3, <1>4, <1>5, KeptClpa

\* The committee keeps the moves and starts a new graph.
LEMMA EndClpa == ASSUME ClpaInv, EndPartition PROVE ClpaInv'
<1>1. /\ iter = MaxIterations /\ iter' = 0 /\ epoch' = epoch + 1 /\ todo = {} /\ todo' = todo
      /\ modifiedMap' = Over(res, modifiedMap) /\ PartitionMap' = modifiedMap'
      /\ VertexSet' = {} /\ EdgeSet' = NoEdges /\ VertexsNumInShard' = Zero
      /\ Edges2Shard' = Zero /\ MinEdges2Shard' = 0 /\ CrossShardEdgeNum' = 0
      /\ res' = Nowhere /\ updateTreshold' = [v \in Vertex |-> 0]
    BY DEF EndPartition, ClpaReset
<1>2. modifiedMap' \in Placement
    BY <1>1, OverPlacement DEF ClpaInv, Shape
<1>3. epoch' \in 0 .. MaxEpochs
  <2>1. epoch \in 0 .. MaxEpochs /\ MaxEpochs \in Nat /\ MaxIterations \in Nat \ {0}
    BY PartitionAssumption DEF ClpaInv, Shape
  <2>2. epoch < MaxEpochs
    BY <1>1, <2>1 DEF ClpaInv, Quiet
  <2> QED BY <1>1, <2>1, <2>2
<1>4. Shape'
  <2>1. /\ NoEdges \in [Vertex -> [Vertex -> Nat]]
        /\ [v \in Vertex |-> 0] \in [Vertex -> 0 .. UpdateLimit]
        /\ 0 \in 0 .. MaxIterations
    BY PartitionAssumption DEF NoEdges
  <2> QED BY <1>1, <1>2, <1>3, <2>1, NowherePlaced DEF Shape
<1>5. Undirected'
    BY <1>1 DEF Undirected, NoEdges
<1>6. Quiet'
    BY <1>1 DEF Quiet
<1>7. Counted'
  <2>1. Cardinality({}) = 0
    BY FS_EmptySet
  <2>2. \A s : Members(s)' = {}
    BY <1>1 DEF Members
  <2>3. [s \in Shard |-> Cardinality(Members(s)')] = [s \in Shard |-> 0]
    BY <2>1, <2>2, Zenon
  <2> QED BY <1>1, <2>3 DEF Counted, Zero
<1>8. Placed'
  <2> DEFINE m == modifiedMap'
  <2>1. DOMAIN m \subseteq Vertex /\ DOMAIN Addr2Shard = Vertex
    BY <1>2, PlacementIs, PartitionAssumption
  <2>2. ASSUME NEW w \in DOMAIN m PROVE m[w] = Over(Nowhere, Over(m, Addr2Shard))[w]
    <3>1. Over(m, Addr2Shard)[w] = m[w] /\ w \in DOMAIN Over(m, Addr2Shard)
      BY DEF Over
    <3> QED BY <3>1, NowherePlaced DEF Over
  <2> HIDE DEF m
  <2>3. PartitionMap' = m /\ res' = Nowhere
    BY <1>1 DEF m
  <2>4. Agrees(m, Nowhere, m)
    BY <2>2 DEF Agrees
  <2> QED BY <2>3, <2>4 DEF Placed, m, Agrees
<1>9. CountersExact'
    BY <1>1 DEF CountersExact
<1> QED BY <1>4, <1>5, <1>6, <1>7, <1>8, <1>9 DEF ClpaInv
-----------------------------------------------------------------------------
\* Every step keeps the invariant.
LEMMA StepClpa == ASSUME ClpaInv, [Next]_vars PROVE ClpaInv'
<1>1. CASE UNCHANGED vars
  <2>1. /\ UNCHANGED <<graphVars, PartitionMap, VertexsNumInShard, countVars, res, modifiedMap>>
        /\ UNCHANGED <<todo, iter, updateTreshold, epoch>>
    BY <1>1 DEF vars, runVars
  <2>2. Shape' /\ Quiet'
    BY <2>1 DEF ClpaInv, Shape, Quiet, graphVars, countVars
  <2> QED BY <2>1, <2>2, KeptClpa
<1>2. CASE \E u, v \in Vertex : AddEdge(u, v)
    BY <1>2, AddEdgeClpa
<1>3. CASE \E v \in Vertex, s \in Shard : VisitAndMove(v, s)
    BY <1>3, MoveClpa
<1>4. CASE \E v \in Vertex : VisitAndStay(v)
    BY <1>4, StayClpa
<1> QED BY <1>1, <1>2, <1>3, <1>4, StartClpa, NextIterationClpa, EndClpa DEF Next

\* ClpaInv holds in every reachable state.
THEOREM ClpaInvariant == Spec => []ClpaInv
BY InitClpa, StepClpa, PTL DEF Spec

\* The graph, the counters, the map and the committee's map have their types
\* at every point of every run: in particular no counter drops below zero,
\* however often changeShardRecompute corrects it.
THEOREM TypeCorrect == Spec => []TypeOK
<1>1. ASSUME ClpaInv PROVE TypeOK
  <2>1. Shape /\ Counted /\ CountersExact /\ Quiet
    BY <1>1 DEF ClpaInv
  <2>2. VertexsNumInShard \in [Shard -> Nat]
    <3>1. \A s \in Shard : Members(s) \in SUBSET VertexSet
      BY DEF Members
    <3>2. \A s \in Shard : Cardinality(Members(s)) \in Nat
      BY <2>1, <3>1, MembersFinite
    <3> QED BY <2>1, <3>2 DEF Counted
  <2>3. Edges2Shard \in [Shard -> Nat] /\ MinEdges2Shard \in Nat /\ CrossShardEdgeNum \in Nat
    <3>1. CASE iter > 0
      BY <2>1, <3>1, CountsNat DEF CountersExact
    <3>2. CASE iter = 0
      BY <2>1, <3>2 DEF Quiet, Zero
    <3>3. iter = 0 \/ iter > 0
      BY <2>1, PartitionAssumption DEF Shape
    <3> QED BY <3>1, <3>2, <3>3
  <2> QED BY <2>1, <2>2, <2>3 DEF TypeOK, Shape
<1> QED BY <1>1, ClpaInvariant, PTL

\* changeShardRecompute corrects Edges2Shard, CrossShardEdgeNum and the minimum
\* by the edges of the moved vertex alone; after any sequence of moves they are
\* what ComputeEdges2Shard would compute from the whole graph.
THEOREM CountersAreExact == Spec => []CountersExact
<1>1. ClpaInv => CountersExact
    BY DEF ClpaInv
<1> QED BY <1>1, ClpaInvariant, PTL

\* The committee's modifiedMap and the graph's PartitionMap place every account
\* in the same shard, over all epochs and at every point of a run.
THEOREM MapsStayTogether == Spec => []MapsAgree
<1>1. ClpaInv => MapsAgree
    BY DEF ClpaInv, MapsAgree, Placed, Agrees, Shape
<1> QED BY <1>1, ClpaInvariant, PTL

\* A run of the algorithm takes no shard's last vertex, in whatever order the
\* vertices are visited: the count tested by the move is the true one.
THEOREM NeverEmptied == Spec => NoShardEmptied
<1> DEFINE Kept == iter > 0 /\ iter' > 0 => \A s \in Shard : Members(s) # {} => Members(s)' # {}
<1>1. ASSUME ClpaInv, [Next]_vars PROVE [Kept]_vars
  <2> SUFFICES ASSUME Next, iter > 0, iter' > 0
               PROVE  \A s \in Shard : Members(s) # {} => Members(s)' # {}
    BY <1>1
  <2>1. CASE \E v \in Vertex, s \in Shard : VisitAndMove(v, s)
    <3>1. PICK v \in Vertex, new \in Shard : VisitAndMove(v, new)
      BY <2>1
    <3>2. v \in VertexSet /\ Shape /\ Counted
      BY <1>1, <3>1 DEF ClpaInv, Shape, VisitAndMove
    <3> PICK old : old = PartitionMap[v]
      OBVIOUS
    <3>3. /\ Members(old)' # {}
          /\ Members(new)' = Members(new) \cup {v}
          /\ \A s \in Shard \ {old, new} : Members(s)' = Members(s)
      BY <3>1, <3>2, MoveMembers
    <3>4. ASSUME NEW s \in Shard, Members(s) # {} PROVE Members(s)' # {}
      <4>1. CASE s = old
        BY <3>3, <4>1
      <4>2. CASE s = new
        BY <3>3, <4>2
      <4>3. CASE s \in Shard \ {old, new}
        BY <3>3, <3>4, <4>3
      <4> QED BY <4>1, <4>2, <4>3
    <3> QED BY <3>4
  <2>2. CASE UNCHANGED <<VertexSet, PartitionMap>>
    BY <2>2 DEF Members
  <2>3. \/ \E v \in Vertex, s \in Shard : VisitAndMove(v, s)
        \/ UNCHANGED <<VertexSet, PartitionMap>>
    <3>1. ASSUME NEW u, NEW v, AddEdge(u, v) PROVE FALSE
      BY <3>1 DEF AddEdge, ClpaInv, runVars
    <3>2. StartPartition => UNCHANGED <<VertexSet, PartitionMap>>
      BY DEF StartPartition, graphVars
    <3>3. NextIteration => UNCHANGED <<VertexSet, PartitionMap>>
      BY DEF NextIteration, graphVars
    <3>4. EndPartition => FALSE
      BY DEF EndPartition
    <3>5. (\E v \in Vertex : VisitAndStay(v)) => UNCHANGED <<VertexSet, PartitionMap>>
      BY DEF VisitAndStay, graphVars
    <3> QED BY <3>1, <3>2, <3>3, <3>4, <3>5 DEF Next
  <2> QED BY <2>1, <2>2, <2>3
<1>2. Spec => [][Kept]_vars
    BY <1>1, ClpaInvariant, PTL DEF Spec
<1> QED BY <1>2 DEF NoShardEmptied
=============================================================================
