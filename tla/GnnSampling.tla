---------------------------- MODULE GnnSampling ----------------------------
(***************************************************************************)
(* sample_gnn_subgraph and neighbor_loader of caracaldb/api.py: the        *)
(* neighbourhood of a batch of seeds, drawn layer by layer through the     *)
(* adjacency files, within limits on nodes and edges, and renumbered for   *)
(* a graph neural network.  A step reads one adjacency file for one layer. *)
(*                                                                         *)
(* The call is the argument of run.plan: seeds (external keys or internal  *)
(* ids, or Null for all nodes), space, fanouts, rels, dir, replace,        *)
(* strategy, maxNodes, maxEdges (Null: no limit), and for the loader       *)
(* batchSize and shuffle (batchSize is Null for one subgraph).  Seeded     *)
(* random numbers are a free choice.                                       *)
(***************************************************************************)
EXTENDS Operators

CONSTANT ExternalId   \* the internal id of each external key

VARIABLES
    chunksLeft,   \* the batches of seeds to come
    layer,        \* the layers begun
    readersLeft,  \* the adjacency files to read for this layer
    layerNodes,   \* frontier
    nodeIds,      \* ordered_nodes
    edgePairs,    \* edge_src_chunks and edge_dst_chunks, <<src, dst>>
    hopNodes,     \* next_chunks
    subgraphs,    \* what was yielded: [seeds, n_id, edge_index]; seeds is history
    gnnStage

gnnVars == <<chunksLeft, layer, readersLeft, layerNodes, nodeIds, edgePairs, hopNodes, subgraphs, gnnStage>>

Sampling == run.plan.arg
AtMost(s, n) == IF n = Null \/ Len(s) <= n THEN s ELSE SubSeq(s, 1, n)

-----------------------------------------------------------------------------
(* _resolve_loader_input_nodes: the nodes given, or all of them in id order.   *)
InputNodes ==
    IF Sampling.seeds # Null THEN Sampling.seeds
    ELSE [i \in 1..NumVertices |->
            IF Sampling.space = "internal" THEN i - 1 ELSE CHOOSE k \in DOMAIN ExternalId : ExternalId[k] = i - 1]

Unknown(ks) == Sampling.space = "external" /\ \E i \in DOMAIN ks : ks[i] \notin DOMAIN ExternalId
SeedIds(ks) == IF Sampling.space = "internal" THEN ks ELSE [i \in DOMAIN ks |-> ExternalId[ks[i]]]

(* dict.fromkeys: the first occurrences, in order.                             *)
OnceEach(s) == FoldLeft(LAMBDA acc, x : IF x \in Range(acc) THEN acc ELSE Append(acc, x), <<>>, s)

Shuffles(s) ==
    IF Sampling.shuffle = TRUE THEN {[i \in DOMAIN s |-> s[f[i]]] : f \in {h \in [DOMAIN s -> DOMAIN s] : \A i, j \in DOMAIN s : h[i] = h[j] => i = j}}
    ELSE {s}

InChunks(s) ==
    IF Sampling.batchSize = Null THEN <<s>>
    ELSE LET b == Sampling.batchSize IN
         [c \in 1..((Len(s) + b - 1) \div b) |->
            SubSeq(s, (c - 1) * b + 1, IF c * b < Len(s) THEN c * b ELSE Len(s))]

GnnInit ==
    /\ chunksLeft = <<>> /\ layer = 0 /\ readersLeft = <<>> /\ layerNodes = <<>> /\ nodeIds = <<>>
    /\ edgePairs = <<>> /\ hopNodes = <<>> /\ subgraphs = <<>> /\ gnnStage = "call"

LoaderIter ==
    /\ gnnStage = "call"
    /\ \E s \in Shuffles(InputNodes) : chunksLeft' = InChunks(s)
    /\ gnnStage' = "chunk"
    /\ UNCHANGED <<layer, readersLeft, layerNodes, nodeIds, edgePairs, hopNodes, subgraphs>>

BeginChunk ==
    /\ gnnStage = "chunk" /\ chunksLeft # <<>>
    /\ \/ /\ Unknown(Head(chunksLeft))
          /\ gnnStage' = "failed" /\ UNCHANGED <<nodeIds, layerNodes>>
       \/ /\ ~Unknown(Head(chunksLeft))
          /\ nodeIds' = AtMost(OnceEach(SeedIds(Head(chunksLeft))), Sampling.maxNodes)
          /\ layerNodes' = nodeIds' /\ gnnStage' = "layer"
    /\ layer' = 0 /\ edgePairs' = <<>>
    /\ UNCHANGED <<chunksLeft, readersLeft, hopNodes, subgraphs>>

(* _gnn_relation_readers: the files of each relation, forward before reverse.  *)
Readers ==
    LET ways == CASE Sampling.dir = "both" -> <<"out", "in">> [] OTHER -> <<Sampling.dir>>
    IN FlattenSeq([e \in DOMAIN Sampling.rels |-> [w \in DOMAIN ways |-> [rel |-> Sampling.rels[e], way |-> ways[w]]]])

BeginLayer ==
    /\ gnnStage = "layer"
    /\ IF layer = Len(Sampling.fanouts) \/ layerNodes = <<>>
       THEN gnnStage' = "answer" /\ UNCHANGED <<layer, readersLeft, hopNodes>>
       ELSE gnnStage' = "read" /\ layer' = layer + 1 /\ readersLeft' = Readers /\ hopNodes' = <<>>
    /\ UNCHANGED <<chunksLeft, layerNodes, nodeIds, edgePairs, subgraphs>>

(* The edges one file gives, as source and target, cut at max_edges; their     *)
(* ends join the nodes in ascending order, up to max_nodes.                    *)
FullOfEdges(es) == Sampling.maxEdges # Null /\ Len(es) >= Sampling.maxEdges
Room(es) == IF Sampling.maxEdges = Null THEN Null ELSE Sampling.maxEdges - Len(es)
Normal(d, way) == [i \in DOMAIN d |-> IF way = "in" THEN <<d[i][2], d[i][1]>> ELSE d[i]]
FarEnds(es, way) == [i \in DOMAIN es |-> IF way = "in" THEN es[i][1] ELSE es[i][2]]

Joined(es) ==
    LET ends == Unique([i \in DOMAIN es |-> es[i][1]] \o [i \in DOMAIN es |-> es[i][2]])
    IN AtMost(nodeIds \o SelectSeq(ends, LAMBDA v : v \notin Range(nodeIds)), Sampling.maxNodes)

(* With max_edges used up, the files left for the layer are not read.          *)
ReadFile ==
    /\ gnnStage = "read" /\ readersLeft # <<>>
    /\ \E d \in Draws(Head(readersLeft).rel, SelectSeq(layerNodes, LAMBDA v : v < NumVertices),
                      Head(readersLeft).way, Sampling, Sampling.fanouts[layer]) :
          IF d = <<>> THEN readersLeft' = Tail(readersLeft) /\ UNCHANGED <<nodeIds, edgePairs, hopNodes>>
          ELSE IF FullOfEdges(edgePairs) THEN readersLeft' = <<>> /\ UNCHANGED <<nodeIds, edgePairs, hopNodes>>
          ELSE LET es == AtMost(Normal(d, Head(readersLeft).way), Room(edgePairs))
               IN /\ edgePairs' = edgePairs \o es
                  /\ nodeIds' = Joined(es)
                  /\ hopNodes' = hopNodes \o FarEnds(es, Head(readersLeft).way)
                  /\ readersLeft' = IF FullOfEdges(edgePairs') THEN <<>> ELSE Tail(readersLeft)
    /\ UNCHANGED <<chunksLeft, layer, layerNodes, subgraphs, gnnStage>>

NextFrontier == SelectSeq(Unique(hopNodes), LAMBDA v : Sampling.maxNodes = Null \/ v \in Range(nodeIds))

LayerEnd ==
    /\ gnnStage = "read" /\ readersLeft = <<>>
    /\ IF hopNodes = <<>> THEN gnnStage' = "answer" /\ UNCHANGED layerNodes
       ELSE gnnStage' = "layer" /\ layerNodes' = NextFrontier
    /\ UNCHANGED <<chunksLeft, layer, readersLeft, nodeIds, edgePairs, hopNodes, subgraphs>>

(* edge_index: the edges between returned nodes, by their places, from 0.      *)
LocalEdges ==
    LET local_map == [v \in Range(nodeIds) |-> (CHOOSE i \in DOMAIN nodeIds : nodeIds[i] = v) - 1]
        inside == SelectSeq(edgePairs, LAMBDA e : {e[1], e[2]} \subseteq Range(nodeIds))
    IN [i \in DOMAIN inside |-> <<local_map[inside[i][1]], local_map[inside[i][2]]>>]

YieldSubgraph ==
    /\ gnnStage = "answer"
    /\ subgraphs' = Append(subgraphs, [seeds |-> Head(chunksLeft), n_id |-> nodeIds, edge_index |-> LocalEdges])
    /\ chunksLeft' = Tail(chunksLeft) /\ gnnStage' = "chunk"
    /\ UNCHANGED <<layer, readersLeft, layerNodes, nodeIds, edgePairs, hopNodes>>

LoaderEnd ==
    /\ gnnStage = "chunk" /\ chunksLeft = <<>>
    /\ gnnStage' = "done"
    /\ UNCHANGED <<chunksLeft, layer, readersLeft, layerNodes, nodeIds, edgePairs, hopNodes, subgraphs>>

GnnTurn == LoaderIter \/ BeginChunk \/ BeginLayer \/ ReadFile \/ LayerEnd \/ YieldSubgraph \/ LoaderEnd

-----------------------------------------------------------------------------
(* The nodes a set of edges leads to from some nodes in k hops of a direction. *)
Spread(from, E, k) ==
    LET Onto(V) == {e[2] : e \in {x \in E : Sampling.dir # "in" /\ x[1] \in V}}
                   \cup {e[1] : e \in {x \in E : Sampling.dir # "out" /\ x[2] \in V}}
        B[i \in 0..k] == IF i = 0 THEN from ELSE B[i - 1] \cup Onto(B[i - 1])
    IN B[k]

AllEdges == UNION {Range(run.graph[Sampling.rels[e]]) : e \in DOMAIN Sampling.rels}
Touching(V) == {e \in AllEdges : (Sampling.dir # "in" /\ e[1] \in V) \/ (Sampling.dir # "out" /\ e[2] \in V)}
Unlimited == Sampling.maxNodes = Null /\ Sampling.maxEdges = Null

(* A subgraph begins with its seeds, holds no node twice, keeps its limits,    *)
(* and has only stored edges.  Every node in it is reached from a seed along   *)
(* edges that are in it too, within as many hops as there are layers, however  *)
(* the limits cut: a node without its edges would be noise to the network.     *)
(* Without limits and with every neighbour drawn it is the whole surrounding.  *)
SubgraphExact ==
    \A c \in DOMAIN subgraphs :
        LET g == subgraphs[c]
            kept == AtMost(OnceEach(SeedIds(g.seeds)), Sampling.maxNodes)
            edges == {<<g.n_id[e[1] + 1], g.n_id[e[2] + 1]>> : e \in Range(g.edge_index)}
            k == Len(Sampling.fanouts)
        IN /\ AtMost(g.n_id, Len(kept)) = kept
           /\ Cardinality(Range(g.n_id)) = Len(g.n_id)
           /\ Sampling.maxNodes # Null => Len(g.n_id) <= Sampling.maxNodes
           /\ Sampling.maxEdges # Null => Len(g.edge_index) <= Sampling.maxEdges
           /\ edges \subseteq AllEdges
           /\ Range(g.n_id) = Spread(Range(kept), edges, k)
           /\ Unlimited /\ (Sampling.strategy = "all" \/ Range(Sampling.fanouts) = {0}) =>
                 edges = Touching(Spread(Range(kept), AllEdges, k - 1))

(* The loader gives every input node to one batch, full ones but for the last, *)
(* in the order of the input when it does not shuffle; it fails only when a    *)
(* key has no node.                                                            *)
BatchesExact ==
    /\ gnnStage = "failed" => Unknown(InputNodes)
    /\ gnnStage = "done" =>
         LET given == FlattenSeq([c \in DOMAIN subgraphs |-> subgraphs[c].seeds])
         IN /\ ~Unknown(InputNodes)
            /\ SameRows(given, InputNodes) /\ (Sampling.shuffle # TRUE => given = InputNodes)
            /\ Sampling.batchSize # Null =>
                  \A c \in DOMAIN subgraphs :
                      LET n == Len(subgraphs[c].seeds)
                      IN n > 0 /\ n <= Sampling.batchSize /\ (c < Len(subgraphs) => n = Sampling.batchSize)

(* What the random operators, the sampler and the loader draw is what they may *)
(* draw, and a sample is a subgraph grown from its seeds.                      *)
SamplingExact == DrawsExact /\ (run.plan.op = "gnn" => SubgraphExact /\ BatchesExact)
=============================================================================
