--------------------------- MODULE ClpaPartition ---------------------------
(***************************************************************************)
(* The constrained label propagation algorithm that decides which accounts *)
(* change shard (partition/partition_CLPA.go, partition/graph.go), and the *)
(* committee's use of it (supervisor/committee/committee_clpa.go).         *)
(*                                                                         *)
(* The committee adds an edge for every reported transaction.  When the    *)
(* epoch is over it runs the algorithm, keeps the accounts that moved, and *)
(* starts a new graph.  clpaLock keeps reports out while it runs.          *)
(*                                                                         *)
(* The algorithm keeps, besides the partition, counters that it computes   *)
(* once and then corrects with each move.  It visits the vertices in the   *)
(* order in which Go ranges over a map: any order, another one each time.  *)
(***************************************************************************)
EXTENDS Integers, FiniteSets, FiniteSetsExt, Functions

CONSTANTS
    Vertex,         \* the accounts
    ShardNum,
    Addr2Shard,     \* utils.Addr2Shard: where an account starts
    MaxIterations,  \* 100 in the code
    UpdateLimit,    \* how often one vertex may move: 50 in the code
    MaxEdges,       \* bound: transactions reported in an epoch
    MaxEpochs       \* bound: runs of the algorithm

Shard == 0 .. ShardNum - 1

ASSUME PartitionAssumption ==
    /\ IsFiniteSet(Vertex)
    /\ ShardNum \in Nat \ {0}
    /\ Addr2Shard \in [Vertex -> Shard]
    /\ {MaxIterations, UpdateLimit} \subseteq Nat \ {0}
    /\ {MaxEdges, MaxEpochs} \subseteq Nat

VARIABLES
    VertexSet,
    EdgeSet,            \* how often the list of a vertex holds another
    PartitionMap,       \* of the graph: vertex to shard
    VertexsNumInShard,
    Edges2Shard,        \* edges that touch each shard
    MinEdges2Shard, CrossShardEdgeNum,
    todo,               \* vertices still to visit in this iteration
    iter,               \* current iteration; 0 when the algorithm is not running
    updateTreshold,     \* how often each vertex moved in this run
    res,                \* the vertices that moved in this run, and where to
    modifiedMap,        \* of the committee
    epoch               \* runs done

graphVars == <<VertexSet, EdgeSet>>
countVars == <<Edges2Shard, MinEdges2Shard, CrossShardEdgeNum>>
runVars == <<todo, iter, updateTreshold, res>>
vars == <<graphVars, PartitionMap, VertexsNumInShard, countVars, runVars, modifiedMap, epoch>>

Placement == UNION {[V -> Shard] : V \in SUBSET Vertex}

TypeOK ==
    /\ VertexSet \subseteq Vertex
    /\ EdgeSet \in [Vertex -> [Vertex -> Nat]]
    /\ PartitionMap \in Placement /\ VertexSet \subseteq DOMAIN PartitionMap
    /\ VertexsNumInShard \in [Shard -> Nat]
    /\ Edges2Shard \in [Shard -> Nat]
    /\ MinEdges2Shard \in Nat /\ CrossShardEdgeNum \in Nat
    /\ todo \subseteq VertexSet
    /\ iter \in 0 .. MaxIterations
    /\ updateTreshold \in [Vertex -> 0 .. UpdateLimit]
    /\ res \in Placement /\ DOMAIN res \subseteq VertexSet
    /\ modifiedMap \in Placement
    /\ epoch \in 0 .. MaxEpochs

\* Two Go maps, the entries of the first before those of the second.
Over(f, g) == [v \in DOMAIN f \cup DOMAIN g |-> IF v \in DOMAIN f THEN f[v] ELSE g[v]]

NoEdges == [v \in Vertex |-> [u \in Vertex |-> 0]]
Zero == [s \in Shard |-> 0]
Nowhere == [v \in {} |-> 0]

Init ==
    /\ VertexSet = {} /\ EdgeSet = NoEdges
    /\ PartitionMap = Nowhere
    /\ VertexsNumInShard = Zero
    /\ Edges2Shard = Zero /\ MinEdges2Shard = 0 /\ CrossShardEdgeNum = 0
    /\ todo = {} /\ iter = 0 /\ updateTreshold = [v \in Vertex |-> 0] /\ res = Nowhere
    /\ modifiedMap = Nowhere
    /\ epoch = 0
-----------------------------------------------------------------------------
(* The graph. *)

\* A new vertex is placed where PartitionMap has it already, or by its address.
AddVertices(V) ==
    LET placed == Over(PartitionMap, [v \in V |-> Addr2Shard[v]])
    IN  /\ VertexSet' = VertexSet \cup V
        /\ PartitionMap' = placed
        /\ VertexsNumInShard' =
             [s \in Shard |-> VertexsNumInShard[s] + Cardinality({v \in V : placed[v] = s})]

EdgesOf(v) == SumFunctionOnSet(EdgeSet[v], Vertex)
EdgeNum == SumFunction([v \in Vertex |-> EdgesOf(v)]) \div 2

\* AddEdge of the graph: each end is appended to the list of the other.
GraphAddEdge(u, v) == EdgeSet' = [EdgeSet EXCEPT ![u][v] = @ + 1, ![v][u] = @ + 1]

\* HandleBlockInfo of the committee, for one transaction of the report.
AddEdge(u, v) ==
    /\ iter = 0
    /\ epoch < MaxEpochs
    /\ u # v
    /\ EdgeNum < MaxEdges
    /\ AddVertices({u, v} \ VertexSet)
    /\ GraphAddEdge(u, v)
    /\ UNCHANGED <<countVars, runVars, modifiedMap, epoch>>
-----------------------------------------------------------------------------
(* The counters. *)

\* Ends of edges in shard s whose other end is, or is not, in s as well.
EndsIn(P, s, inside) ==
    SumFunction([v \in VertexSet |->
        SumFunctionOnSet(EdgeSet[v], {u \in VertexSet : P[u] = s /\ (P[v] = s) = inside})])

\* ComputeEdges2Shard: the edges that touch s, and those between two shards.
Edges(P) == [s \in Shard |-> EndsIn(P, s, FALSE) + EndsIn(P, s, TRUE) \div 2]
CrossEdges(P) == SumFunction([s \in Shard |-> EndsIn(P, s, FALSE)]) \div 2
MinEdges(E) == Min({E[s] : s \in Shard})

ComputeEdges2Shard(P) ==
    /\ Edges2Shard' = Edges(P)
    /\ CrossShardEdgeNum' = CrossEdges(P)
    /\ MinEdges2Shard' = MinEdges(Edges2Shard')

\* Edges of v to vertices placed in one of the shards S.
EdgesTo(v, S) == SumFunctionOnSet(EdgeSet[v], {u \in VertexSet : PartitionMap[u] \in S})

\* Mutant: only neighbours in one of the two shards count.
ChangeShardRecomputeTwo(v, old, new) ==
    /\ Edges2Shard' = [Edges2Shard EXCEPT ![new] = @ + EdgesTo(v, {old}),
                                          ![old] = @ - EdgesTo(v, {new})]
    /\ CrossShardEdgeNum' = CrossShardEdgeNum + EdgesTo(v, {old}) - EdgesTo(v, {new})
    /\ MinEdges2Shard' = MinEdges(Edges2Shard')

\* v has moved from old to new: correct the counters by the edges of v alone.
ChangeShardRecompute(v, old, new) ==
    /\ Edges2Shard' = [Edges2Shard EXCEPT ![new] = @ + EdgesTo(v, Shard \ {new}),
                                          ![old] = @ - EdgesTo(v, Shard \ {old})]
    /\ CrossShardEdgeNum' = CrossShardEdgeNum + EdgesTo(v, {old}) - EdgesTo(v, {new})
    /\ MinEdges2Shard' = MinEdges(Edges2Shard')
-----------------------------------------------------------------------------
(* The algorithm, CLPA_Partition. *)

StartPartition ==
    /\ iter = 0
    /\ epoch < MaxEpochs
    /\ ComputeEdges2Shard(PartitionMap)
    /\ iter' = 1
    /\ todo' = VertexSet
    /\ updateTreshold' = [v \in Vertex |-> 0]
    /\ res' = Nowhere
    /\ UNCHANGED <<graphVars, PartitionMap, VertexsNumInShard, modifiedMap, epoch>>

\* getShard_score with WeightPenalty = 1/2,
\*     edges to s / edges * (1 - Edges2Shard[s] / (2 * MinEdges2Shard)),
\* times 2 * edges * MinEdges2Shard to stay within the integers.
Score(v, s) == EdgesTo(v, {s}) * (2 * MinEdges2Shard - Edges2Shard[s])

\* The shards with a neighbour of v whose score exceeds the initial max_score,
\* -9999.  If some shard has no edge the division gives -Inf, and none does.
Candidates(v) ==
    {s \in Shard : /\ EdgesTo(v, {s}) > 0
                   /\ MinEdges2Shard > 0
                   /\ Score(v, s) > -9999 * 2 * EdgesOf(v) * MinEdges2Shard}

\* The shard with the best score, the first in the list of neighbours if there
\* are several (or the one rounding favours): any of them.
MaxScoreShards(v) ==
    IF Candidates(v) = {} THEN {PartitionMap[v]}
    ELSE {s \in Candidates(v) : \A t \in Candidates(v) : Score(v, t) <= Score(v, s)}

\* Mutants: a vertex may move without limit; the last one may leave its shard.
MayMoveUnlimited(v, s) ==
    /\ s # PartitionMap[v]
    /\ VertexsNumInShard[PartitionMap[v]] > 1
MayMoveLast(v, s) ==
    /\ updateTreshold[v] < UpdateLimit
    /\ s # PartitionMap[v]
    /\ VertexsNumInShard[PartitionMap[v]] > 0

MayMove(v, s) ==
    /\ updateTreshold[v] < UpdateLimit
    /\ s # PartitionMap[v]
    /\ VertexsNumInShard[PartitionMap[v]] > 1

VisitAndMove(v, s) ==
    /\ v \in todo
    /\ s \in MaxScoreShards(v)
    /\ MayMove(v, s)
    /\ todo' = todo \ {v}
    /\ PartitionMap' = [PartitionMap EXCEPT ![v] = s]
    /\ res' = Over([u \in {v} |-> s], res)
    /\ updateTreshold' = [updateTreshold EXCEPT ![v] = @ + 1]
    /\ VertexsNumInShard' = [VertexsNumInShard EXCEPT ![PartitionMap[v]] = @ - 1, ![s] = @ + 1]
    /\ ChangeShardRecompute(v, PartitionMap[v], s)
    /\ UNCHANGED <<graphVars, iter, modifiedMap, epoch>>

VisitAndStay(v) ==
    /\ v \in todo
    /\ \E s \in MaxScoreShards(v) : ~MayMove(v, s)
    /\ todo' = todo \ {v}
    /\ UNCHANGED <<graphVars, PartitionMap, VertexsNumInShard, countVars, iter, updateTreshold,
                   res, modifiedMap, epoch>>

NextIteration ==
    /\ iter > 0 /\ todo = {}
    /\ iter < MaxIterations
    /\ iter' = iter + 1
    /\ todo' = VertexSet
    /\ UNCHANGED <<graphVars, PartitionMap, VertexsNumInShard, countVars, updateTreshold, res,
                   modifiedMap, epoch>>

\* Mutant: the new graph places everybody by address.
ClpaResetForgets(map) == Nowhere

\* clpaReset: what the new graph's PartitionMap starts with.
ClpaReset(map) == map

\* The map is sent, the committee keeps it and starts a new graph.
EndPartition ==
    /\ iter = MaxIterations /\ todo = {}
    /\ iter' = 0
    /\ epoch' = epoch + 1
    /\ modifiedMap' = Over(res, modifiedMap)
    /\ PartitionMap' = ClpaReset(modifiedMap')
    /\ VertexSet' = {} /\ EdgeSet' = NoEdges
    /\ VertexsNumInShard' = Zero
    /\ Edges2Shard' = Zero /\ MinEdges2Shard' = 0 /\ CrossShardEdgeNum' = 0
    /\ res' = Nowhere
    /\ updateTreshold' = [v \in Vertex |-> 0]
    /\ UNCHANGED todo
-----------------------------------------------------------------------------
Next ==
    \/ \E u, v \in Vertex : AddEdge(u, v)
    \/ StartPartition
    \/ \E v \in Vertex, s \in Shard : VisitAndMove(v, s)
    \/ \E v \in Vertex : VisitAndStay(v)
    \/ NextIteration
    \/ EndPartition

Spec == Init /\ [][Next]_vars
-----------------------------------------------------------------------------
Members(s) == {v \in VertexSet : PartitionMap[v] = s}

\* What changeShardRecompute corrects move by move is what ComputeEdges2Shard
\* would find: the scores are never computed from stale counters.
CountersExact ==
    iter > 0 => /\ Edges2Shard = Edges(PartitionMap)
                /\ CrossShardEdgeNum = CrossEdges(PartitionMap)
                /\ MinEdges2Shard = MinEdges(Edges2Shard)

\* Where the committee sends the transactions of an account, by its own map,
\* and where the graph places the account, over all epochs (modifiedMap,
\* clpaReset, fetchModifiedMap).  During a run the moves of the run come first.
MapsAgree ==
    \A v \in VertexSet : PartitionMap[v] = Over(res, Over(modifiedMap, Addr2Shard))[v]

\* The algorithm never takes the last of its vertices from a shard, however
\* its moves follow each other (VertexsNumInShard).
NoShardEmptied ==
    [][iter > 0 /\ iter' > 0 => \A s \in Shard : Members(s) # {} => Members(s)' # {}]_vars
=============================================================================
