----------------------------- MODULE Traversal -----------------------------
(***************************************************************************)
(* The graph traversals of caracaldb/api.py over typed adjacency lists:    *)
(* neighbors, k_hop, paths, shortest_path, multi-seed paths and            *)
(* evidence_search.  Each is a loop over a queue; a step of the model is   *)
(* one turn of that loop, and the inner loop over the edges of the node    *)
(* taken from the queue is a fold.                                         *)
(*                                                                         *)
(* A node is its internal id, a number.  An edge is known by its relation  *)
(* and its edge id, its place in the store of the relation.  Weights and   *)
(* scores are integers.                                                    *)
(***************************************************************************)
EXTENDS Integers, Sequences, FiniteSets, SequencesExt

CONSTANTS
    Nodes,    \* internal ids
    NodeType,     \* the node type of each node
    Weight,   \* the weight of an edge, by relation and edge id
    Graphs,   \* the edge stores: for each relation a sequence of <<src, dst>>
    Queries,  \* the calls
    NoLimit   \* an optional limit that is not given

(* op, seeds (a sequence), target (a node), types (of the targets), depth,     *)
(* limit, direction, filter (on the property of edges), top (edges kept per    *)
(* node), order (of edges and of paths),                                       *)
(* score mode, maxNodes, maxEdges, perSeed.                                    *)
Ops == {"neighbors", "k_hop", "paths", "multi_seed", "evidence"}

VARIABLES
    theGraph, query,  \* the graph and the call
    adj,              \* the adjacency lists the call works on
    seedsLeft,        \* seeds whose queue has not been started
    frontier,         \* the queue of the loop
    visited,          \* neighbors: the visited nodes; k_hop: the edges seen
    depths,           \* k_hop: node_depth, as a sequence of <<node, depth>>
    foundRows,        \* the rows of the loop in progress
    result,           \* the rows of the finished loops, or the result
    stage

travVars == <<theGraph, query, adj, seedsLeft, frontier, visited, depths, foundRows, result, stage>>

-----------------------------------------------------------------------------
(* Orders.  The sort keys of the code are tuples; < on tuples is lexicographic.*)
TupleLess(a, b) ==
    \/ \E i \in 1..Len(a) :
          /\ i <= Len(b) /\ a[i] < b[i]
          /\ \A j \in 1..(i - 1) : a[j] = b[j]
    \/ Len(a) < Len(b) /\ \A j \in 1..Len(a) : a[j] = b[j]

(* The members of a set in the order of their keys, which are distinct.        *)
InOrder(S, Key(_)) ==
    LET keyed == {<<Key(x), x>> : x \in S}
        Before(p) == {q \in keyed : TupleLess(q[1], p[1])}
    IN [i \in 1..Cardinality(S) |-> (CHOOSE p \in keyed : Cardinality(Before(p)) = i - 1)[2]]

Upto(s, n) == IF n = NoLimit \/ n >= Len(s) THEN s ELSE SubSeq(s, 1, n)
Smaller(a, b) == IF a < b THEN a ELSE b
Larger(a, b) == IF a > b THEN a ELSE b

(* _typed_adjacency: the edges at a node, in the order the traversal takes     *)
(* them: by descending weight if asked, then relation, edge id and next node.  *)
Step(r, i, from, to, dir) ==
    [type |-> r, eid |-> i, next |-> to, from |-> from, dir |-> dir, w |-> Weight[r, i]]

EdgeIds == UNION {{<<r, i>> : i \in DOMAIN theGraph[r]} : r \in DOMAIN theGraph}

StepsAt(n) ==
    LET src(e) == theGraph[e[1]][e[2]][1]
        dst(e) == theGraph[e[1]][e[2]][2]
        kept == {e \in EdgeIds : query.filter \in {NoLimit, Weight[e]}}
    IN {Step(e[1], e[2], n, dst(e), "out") : e \in {x \in kept : query.dir \in {"out", "both"} /\ src(x) = n}}
       \cup {Step(e[1], e[2], n, src(e), "in") : e \in {x \in kept : query.dir \in {"in", "both"} /\ dst(x) = n}}

StepKey(s) == <<IF query.byWeight THEN -s.w ELSE 0, s.type, s.eid, s.next, IF s.dir = "out" THEN 0 ELSE 1>>
Adjacency(n) == Upto(InOrder(StepsAt(n), StepKey), query.top)

(* A row of a result: the nodes and the edges of the path to its last node.    *)
PathRow(nodes, edges) == [nodes |-> nodes, edges |-> edges]
Extend(p, s) == PathRow(Append(p.nodes, s.next), Append(p.edges, s))
Eids(p) == [i \in DOMAIN p.edges |-> p.edges[i].eid]
Depth(p) == Len(p.edges)

(* _path_score over the weights of the edges of a path.                        *)
PathScore(p, mode) ==
    LET w == [i \in DOMAIN p.edges |-> p.edges[i].w] IN
    CASE mode = "none" -> 0
      [] mode = "sum" -> FoldLeft(LAMBDA a, b : a + b, 0, w)
      [] mode = "min" -> FoldLeft(Smaller, w[1], w)
      [] mode = "max" -> FoldLeft(Larger, w[1], w)
      [] mode = "product" -> FoldLeft(LAMBDA a, b : a * b, 1, w)

Ordered(x) == IF query.score = "none" THEN 0 ELSE IF query.order = "asc" THEN x ELSE -x

(* _path_score_sort_key, _path_result_sort_key, _multi_seed_path_sort_key.     *)
NeighborKey(p) == <<Ordered(PathScore(p, query.score)), Depth(p), Last(p.nodes)>>
PathKey(p) == <<Ordered(PathScore(p, query.score)), Depth(p)>> \o p.nodes \o Eids(p)
SeedPathKey(p) ==
    <<Ordered(PathScore(p, query.score)), Depth(p), p.nodes[1], Last(p.nodes)>> \o p.nodes \o Eids(p)

(* _evidence_result_row: 55% of the product of the weights, 30% of the score   *)
(* of the seed (1 here), less 15% for each edge.                               *)
EvidenceScore(p) == 55 * PathScore(p, "product") + 30 - 15 * Depth(p)
EvidenceKey(p) == <<-EvidenceScore(p), Depth(p), Last(p.nodes), p.nodes[1]>> \o Eids(p)

(* list.sort: rows with the same key (parallel edges of two relations may have *)
(* the same edge id) keep their order.                                         *)
SortedBy(s, Key(_)) ==
    LET at == InOrder(DOMAIN s, LAMBDA i : Append(Key(s[i]), i)) IN [i \in DOMAIN s |-> s[at[i]]]

-----------------------------------------------------------------------------
PathFrom(seed) == PathRow(<<seed>>, <<>>)

TravInit ==
    /\ theGraph \in Graphs /\ query \in Queries
    /\ adj = [n \in Nodes |-> Adjacency(n)]
    /\ foundRows = <<>> /\ result = <<>> /\ stage = "loop"
    /\ depths = IF query.op = "k_hop" THEN InOrder({<<s, 0>> : s \in Range(query.seeds)}, LAMBDA d : d) ELSE <<>>
    /\ visited = IF query.op = "neighbors" THEN Range(query.seeds) ELSE {}
    /\ IF query.op \in {"neighbors", "k_hop"}
       THEN seedsLeft = <<>> /\ frontier = [i \in DOMAIN query.seeds |-> PathFrom(query.seeds[i])]
       ELSE seedsLeft = Tail(query.seeds) /\ frontier = <<PathFrom(Head(query.seeds))>>

Scored == query.score # "none" /\ query.order # "none"

(* neighbors, one edge: a node is reported and expanded when it is first seen. *)
(* Without a score order the call returns as soon as it has limit rows.        *)
Neighbor(acc, s) ==
    IF acc.stop \/ s.next \in acc.seen THEN acc ELSE
    LET p == Extend(acc.at, s)
        wanted == query.types = {} \/ NodeType[s.next] \in query.types
        full == wanted /\ query.limit # NoLimit /\ Len(acc.result) + 1 >= query.limit /\ ~Scored
    IN [acc EXCEPT !.seen = @ \cup {s.next},
                   !.result = IF wanted THEN Append(@, p) ELSE @,
                   !.frontier = IF full THEN @ ELSE Append(@, p),
                   !.stop = full]

NeighborsStep ==
    /\ stage = "loop" /\ query.op = "neighbors" /\ frontier # <<>>
    /\ LET at == Head(frontier)
           acc == [at |-> at, seen |-> visited, result |-> foundRows, frontier |-> Tail(frontier), stop |-> FALSE]
           end == IF Depth(at) >= query.depth THEN acc ELSE FoldLeft(Neighbor, acc, adj[Last(at.nodes)])
       IN /\ visited' = end.seen /\ frontier' = end.frontier
          /\ IF end.stop THEN result' = end.result /\ stage' = "done" /\ UNCHANGED foundRows
                         ELSE foundRows' = end.result /\ UNCHANGED <<result, stage>>
    /\ UNCHANGED <<theGraph, query, adj, seedsLeft, depths>>

NeighborsEnd ==
    /\ stage = "loop" /\ query.op = "neighbors" /\ frontier = <<>>
    /\ result' = Upto(IF Scored THEN SortedBy(foundRows, NeighborKey) ELSE foundRows, query.limit)
    /\ stage' = "done"
    /\ UNCHANGED <<theGraph, query, adj, seedsLeft, frontier, visited, depths, foundRows>>

DepthOf(ds, n) == SelectSeq(ds, LAMBDA d : d[1] = n)

(* k_hop, one edge: reported once; its end joins the ball while there is room. *)
HopEdge(acc, s) ==
    IF Len(acc.edges) >= query.maxEdges THEN acc ELSE
    LET key == <<s.eid, s.type>>
        new == DepthOf(acc.depths, s.next) = <<>> /\ Len(acc.depths) < query.maxNodes
    IN [acc EXCEPT !.seen = @ \cup {key},
                   !.edges = IF key \in acc.seen THEN @ ELSE Append(@, Extend(acc.at, s)),
                   !.depths = IF new THEN Append(@, <<s.next, Depth(acc.at) + 1>>) ELSE @,
                   !.frontier = IF new THEN Append(@, Extend(acc.at, s)) ELSE @]

KHopStep ==
    /\ stage = "loop" /\ query.op = "k_hop" /\ frontier # <<>> /\ Len(depths) < query.maxNodes
    /\ LET at == Head(frontier)
           acc == [at |-> at, seen |-> visited, edges |-> foundRows, depths |-> depths, frontier |-> Tail(frontier)]
           end == IF Depth(at) >= query.depth THEN acc ELSE FoldLeft(HopEdge, acc, adj[Last(at.nodes)])
       IN visited' = end.seen /\ foundRows' = end.edges /\ depths' = end.depths /\ frontier' = end.frontier
    /\ UNCHANGED <<theGraph, query, adj, seedsLeft, result, stage>>

(* The nodes in the order of depth and id; the edges as they were met.         *)
KHopEnd ==
    /\ stage = "loop" /\ query.op = "k_hop" /\ (frontier = <<>> \/ Len(depths) >= query.maxNodes)
    /\ depths' = SortedBy(depths, LAMBDA d : <<d[2], d[1]>>)
    /\ result' = foundRows /\ stage' = "done"
    /\ UNCHANGED <<theGraph, query, adj, seedsLeft, frontier, visited, foundRows>>

(* The simple continuations of a path, in adjacency order.                     *)
Onward(p) ==
    LET go == SelectSeq(adj[Last(p.nodes)], LAMBDA s : s.next \notin Range(p.nodes))
    IN [i \in DOMAIN go |-> Extend(p, go[i])]

AtTarget(p) ==
    CASE query.op = "paths" -> Last(p.nodes) = query.target
      [] OTHER -> NodeType[Last(p.nodes)] \in query.types

(* What the loop does with a path from the queue: one that is long enough is   *)
(* dropped, and evidence_search does not go on past a target.                  *)
MayExpand(p) ==
    IF Depth(p) >= query.depth \/ (query.op = "evidence" /\ Depth(p) > 0 /\ NodeType[Last(p.nodes)] \in query.types)
    THEN <<>> ELSE Onward(p)

Enumerates == query.op \in {"paths", "multi_seed", "evidence"}

PathStep ==
    /\ stage = "loop" /\ Enumerates /\ frontier # <<>>
    /\ LET more == MayExpand(Head(frontier)) IN
       /\ foundRows' = foundRows \o SelectSeq(more, AtTarget)
       /\ frontier' = Tail(frontier) \o SelectSeq(more, LAMBDA p : Depth(p) < query.depth)
    /\ UNCHANGED <<theGraph, query, adj, seedsLeft, visited, depths, result, stage>>

(* paths keeps the first rows in sort order; shortest_path asks for one of     *)
(* them, without score, and with the number of vertices as depth.              *)
PathsEnd ==
    /\ stage = "loop" /\ query.op = "paths" /\ frontier = <<>>
    /\ result' = Upto(SortedBy(foundRows, PathKey), query.limit) /\ stage' = "done"
    /\ UNCHANGED <<theGraph, query, adj, seedsLeft, frontier, visited, depths, foundRows>>

(* The rows of a seed: its first perSeed rows in sort order.                   *)
SeedRows == Upto(SortedBy(foundRows, LAMBDA p : IF query.op = "evidence" THEN EvidenceKey(p) ELSE SeedPathKey(p)), query.perSeed)

(* evidence_search keeps the rows by seed: a seed given twice has them once.   *)
Kept == IF query.op = "evidence" THEN SelectSeq(result, LAMBDA p : p.nodes[1] # query.seeds[Len(query.seeds) - Len(seedsLeft)])
        ELSE result

SeedEnd ==
    /\ stage = "loop" /\ query.op \in {"multi_seed", "evidence"} /\ frontier = <<>>
    /\ result' = Kept \o SeedRows
    /\ foundRows' = <<>>
    /\ IF seedsLeft = <<>> THEN stage' = "merge" /\ UNCHANGED <<seedsLeft, frontier>>
       ELSE frontier' = <<PathFrom(Head(seedsLeft))>> /\ seedsLeft' = Tail(seedsLeft) /\ UNCHANGED stage
    /\ UNCHANGED <<theGraph, query, adj, visited, depths>>

SameTarget(acc, p) == {o \in acc : Last(o.nodes) = Last(p.nodes)}

MutBestOf(acc, p) == IF SameTarget(acc, p) = {} THEN acc \cup {p} ELSE acc

(* _merge_best_evidence_targets: the best row of each target, the first of     *)
(* several; no two targets have the same key.                                  *)
BestOf(acc, p) ==
    IF \A o \in SameTarget(acc, p) : TupleLess(EvidenceKey(p), EvidenceKey(o))
    THEN (acc \ SameTarget(acc, p)) \cup {p} ELSE acc

MultiSeedEnd ==
    /\ stage = "merge" /\ query.op = "multi_seed"
    /\ result' = Upto(SortedBy(result, SeedPathKey), query.limit) /\ stage' = "done"
    /\ UNCHANGED <<theGraph, query, adj, seedsLeft, frontier, visited, depths, foundRows>>

EvidenceEnd ==
    /\ stage = "merge" /\ query.op = "evidence"
    /\ result' = Upto(InOrder(FoldLeft(BestOf, {}, result), EvidenceKey), query.limit) /\ stage' = "done"
    /\ UNCHANGED <<theGraph, query, adj, seedsLeft, frontier, visited, depths, foundRows>>


Turn == NeighborsStep \/ NeighborsEnd \/ KHopStep \/ KHopEnd \/ PathStep \/ PathsEnd
            \/ SeedEnd \/ MultiSeedEnd \/ EvidenceEnd

-----------------------------------------------------------------------------
(* Reference definitions, without queues.                                      *)

Links(n) == Range(adj[n])

(* The nodes at most k edges away from a seed.                                 *)
Ball(k) ==
    LET B[i \in 0..k] == IF i = 0 THEN Range(query.seeds)
                         ELSE B[i - 1] \cup {s.next : s \in UNION {Links(n) : n \in B[i - 1]}}
    IN B[k]

Near(n, k) == n \in Ball(k) /\ (k = 0 \/ n \notin Ball(k - 1))

(* The simple paths of at most query.depth edges from a node; those that           *)
(* evidence_search may go along have no target inside.                         *)
SimplePaths(seed) ==
    LET P[i \in 0..query.depth] ==
            IF i = 0 THEN {PathFrom(seed)}
            ELSE UNION {{Extend(p, s) : s \in {x \in Links(Last(p.nodes)) : x.next \notin Range(p.nodes)}} : p \in P[i - 1]}
        Inside(p) == {NodeType[p.nodes[i]] : i \in 2..Depth(p)}
    IN {p \in UNION {P[i] : i \in 1..query.depth} :
            AtTarget(p) /\ (query.op = "evidence" => Inside(p) \cap query.types = {})}

NotAfter(a, b, Key(_)) == ~TupleLess(Key(b), Key(a))

(* s lists n members of S, or all, and none of the others belongs before them. *)
FirstOf(s, S, n, Key(_)) ==
    /\ Range(s) \subseteq S /\ \A i \in 1..(Len(s) - 1) : NotAfter(s[i], s[i + 1], Key)
    /\ \A p \in S \ Range(s) : s = <<>> \/ NotAfter(Last(s), p, Key)
    /\ Cardinality(Range(s)) = Len(s)
    /\ Len(s) = IF n = NoLimit \/ n >= Cardinality(S) THEN Cardinality(S) ELSE n

-----------------------------------------------------------------------------
(* The result of neighbors: each wanted node within the depth, once, at its    *)
(* distance from the seeds, nearest first or in score order; with a limit,     *)
(* that many (but one row even for limit 0, when there is no score order).     *)
NeighborsExact ==
    stage = "done" /\ query.op = "neighbors" =>
        LET want == {n \in Ball(query.depth) \ Range(query.seeds) : query.types = {} \/ NodeType[n] \in query.types}
            got == {Last(result[i].nodes) : i \in DOMAIN result}
            cap == IF query.limit = NoLimit \/ query.limit >= Cardinality(want) THEN Cardinality(want)
                   ELSE IF query.limit = 0 /\ ~Scored THEN 1 ELSE query.limit
        IN /\ got \subseteq want /\ Cardinality(got) = Len(result) /\ Len(result) = cap
           /\ \A i \in DOMAIN result : Near(Last(result[i].nodes), Depth(result[i]))
           /\ \A i, j \in DOMAIN result : i < j =>
                 IF Scored THEN TupleLess(NeighborKey(result[i]), NeighborKey(result[j]))
                 ELSE Depth(result[i]) <= Depth(result[j])

(* The result of k_hop: nodes at their distance, edges once each, within the   *)
(* limits (more seeds than max_nodes are kept); where no limit was met, the    *)
(* nodes are the whole ball and the edges all those that leave its inside.     *)
KHopExact ==
    stage = "done" /\ query.op = "k_hop" =>
        LET nodes == {depths[i][1] : i \in DOMAIN depths}
            keys == {<<Last(result[i].edges).type, Last(result[i].edges).eid>> : i \in DOMAIN result}
            inner == IF query.depth = 0 THEN {} ELSE Ball(query.depth - 1)
        IN /\ Cardinality(nodes) = Len(depths) /\ Cardinality(keys) = Len(result)
           /\ \A i \in DOMAIN depths : Near(depths[i][1], depths[i][2]) /\ depths[i][2] <= query.depth
           /\ Len(result) <= query.maxEdges /\ Len(depths) <= Larger(query.maxNodes, Cardinality(Range(query.seeds)))
           /\ Len(result) < query.maxEdges /\ Len(depths) < query.maxNodes =>
                 /\ nodes = Ball(query.depth)
                 /\ keys = {<<s.type, s.eid>> : s \in UNION {Links(n) : n \in inner}}

(* paths returns the first simple paths in sort order, and without a score     *)
(* order the first one is a shortest one: shortest_path finds a path to every  *)
(* node it can reach, other than the source itself.                            *)
PathsExact ==
    stage = "done" /\ query.op = "paths" =>
        /\ FirstOf(result, SimplePaths(query.seeds[1]), query.limit, PathKey)
        /\ query.score = "none" /\ query.limit # 0 /\ query.target # query.seeds[1] =>
              IF query.target \in Ball(query.depth) THEN Near(query.target, Depth(result[1])) ELSE result = <<>>

(* The multi-seed search gives every seed its own best rows, and of these the  *)
(* overall best: one seed with many paths cannot crowd out the others.         *)
MultiSeedExact ==
    stage = "done" /\ query.op = "multi_seed" =>
        LET S == UNION {SimplePaths(s) : s \in Range(query.seeds)}
            all(s) == {p \in S : p.nodes[1] = s}
            from(s) == {p \in Range(result) : p.nodes[1] = s}
            short(s) == query.perSeed # NoLimit /\ Cardinality(all(s)) > query.perSeed
        IN /\ Range(result) \subseteq S /\ Cardinality(Range(result)) = Len(result)
           /\ \A s \in Range(query.seeds) :
                 /\ short(s) => Cardinality(from(s)) <= query.perSeed
                 /\ \A p \in from(s), o \in all(s) \ from(s) : NotAfter(p, o, SeedPathKey)
           /\ \A i \in 1..(Len(result) - 1) : NotAfter(result[i], result[i + 1], SeedPathKey)
           /\ IF query.limit # NoLimit THEN Len(result) <= query.limit
              ELSE \A s \in Range(query.seeds) :
                      Cardinality(from(s)) = IF short(s) THEN query.perSeed ELSE Cardinality(all(s))

(* evidence_search lists a target once, with a path that is no worse than any  *)
(* from a seed whose paths all fit its cap (the cap of a seed may drop the     *)
(* best path to a target); without caps it lists every target a seed reaches.  *)
EvidenceExact ==
    stage = "done" /\ query.op = "evidence" =>
        LET S == UNION {SimplePaths(s) : s \in Range(query.seeds)}
            targets == {Last(p.nodes) : p \in S}
            got == {Last(p.nodes) : p \in Range(result)}
        IN /\ Range(result) \subseteq S /\ Cardinality(got) = Len(result)
           /\ \A p \in Range(result), s \in Range(query.seeds) :
                 LET all == {o \in S : o.nodes[1] = s} IN
                 Cardinality(all) <= query.perSeed =>
                     \A o \in SameTarget(all, p) : NotAfter(p, o, EvidenceKey)
           /\ \A i \in 1..(Len(result) - 1) : NotAfter(result[i], result[i + 1], EvidenceKey)
           /\ query.perSeed >= Cardinality(S) =>
                 Len(result) = IF query.limit >= Cardinality(targets) THEN Cardinality(targets) ELSE query.limit

(* Every call answers what its definition without queues gives, in order and   *)
(* within its limits.                                                          *)
TraversalsExact == NeighborsExact /\ KHopExact /\ PathsExact /\ MultiSeedExact /\ EvidenceExact
=============================================================================
