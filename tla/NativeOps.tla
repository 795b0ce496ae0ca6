----------------------------- MODULE NativeOps -----------------------------
(***************************************************************************)
(* The Rust core's adjacency files and traversals (crates/caracaldb-core,  *)
(* graph.rs) and its operators (exec.rs), beside the Python ones.  The     *)
(* operators are streams over batches without state of their own, so a run *)
(* of execute_to_batches is a function of its plan.  A traversal is a loop *)
(* over a queue; a step of the model is one turn of it.                    *)
(***************************************************************************)
EXTENDS Operators

CONSTANT NativeCalls  \* [op, edges, size, seeds, target, min, max]

VARIABLES
    call,    \* the traversal that runs
    csr,     \* its CsrFile
    todo,    \* the seeds still to come
    queue,   \* the queue: [node, depth, nodes, eids]
    seen,    \* k_hop: the <<node, depth>> queued; shortest_path: the nodes
    rows,    \* the rows, or the path, found
    npc
nativeVars == <<call, csr, todo, queue, seen, rows, npc>>

-----------------------------------------------------------------------------
(* CSR files.  build_csr_arrays sorts the edges by source, keeping their order *)
(* otherwise, and counts; an edge id is the place of the edge in the input.    *)
Failed_ == [failed |-> TRUE]

build_csr_arrays(edges, size) ==
    IF \E k \in DOMAIN edges : edges[k][1] >= size \/ edges[k][2] >= size THEN Failed_
    ELSE LET places == [k \in DOMAIN edges |-> k]
             bySource == FoldLeft(LAMBDA acc, v : acc \o SelectSeq(places, LAMBDA k : edges[k][1] = v),
                                  <<>>, [i \in 1..size |-> i - 1])
         IN [failed |-> FALSE,
             offsets |-> [v \in 0..size |-> Cardinality({k \in DOMAIN edges : edges[k][1] < v})],
             neighbors |-> [i \in DOMAIN bySource |-> edges[bySource[i]][2]],
             eids |-> bySource]

(* validate_csr, on writing and on reading a file: the lengths fit.            *)
ValidCsr(f, size, count) ==
    /\ DOMAIN f.offsets = 0..size /\ Len(f.neighbors) = count
    /\ f.offsets[size] = count /\ Len(f.eids) = Len(f.neighbors)

Places(f, v) == [i \in 1..(f.offsets[v + 1] - f.offsets[v]) |-> f.offsets[v] + i]
csr_neighbors_of(f, v) == [i \in DOMAIN Places(f, v) |-> f.neighbors[Places(f, v)[i]]]

-----------------------------------------------------------------------------
(* csr_k_hop and csr_shortest_path.                                            *)
StartAt(v) == [node |-> v, depth |-> 0, nodes |-> <<v>>, eids |-> <<>>]

AtDepth(item) == item.depth >= call.max

(* One edge of the node at the head of the queue, in the fold over all.        *)
MutMark(v, depth) == v
Mark(v, depth) == IF call.op = "k_hop" THEN <<v, depth>> ELSE v
Queued(acc, item, place) ==
    LET v == csr.neighbors[place]
        mark == Mark(v, item.depth + 1)
    IN IF mark \in acc.seen THEN acc
       ELSE [seen |-> acc.seen \cup {mark},
             queue |-> Append(acc.queue, [node |-> v, depth |-> item.depth + 1,
                                          nodes |-> Append(item.nodes, v), eids |-> Append(item.eids, csr.eids[place])])]

NativeInit ==
    /\ call \in NativeCalls
    /\ csr = build_csr_arrays(call.edges, call.size)
    /\ todo = call.seeds /\ queue = <<>> /\ seen = {} /\ rows = <<>>
    /\ npc = IF csr.failed THEN "failed" ELSE "seed"

(* The next seed; a vertex outside the file is an error.                       *)
NextSeed ==
    /\ npc = "seed" /\ todo # <<>>
    /\ todo' = Tail(todo)
    /\ \/ /\ Head(todo) >= call.size \/ (call.op = "shortest_path" /\ call.target >= call.size) \/ call.min > call.max
          /\ npc' = "failed" /\ UNCHANGED <<queue, seen>>
       \/ /\ Head(todo) < call.size /\ (call.op = "shortest_path" => call.target < call.size) /\ call.min <= call.max
          /\ queue' = <<StartAt(Head(todo))>> /\ seen' = {Mark(Head(todo), 0)}
          /\ npc' = "loop"
    /\ UNCHANGED <<call, csr, rows>>

SeedsDone == npc = "seed" /\ todo = <<>> /\ npc' = "done" /\ UNCHANGED <<call, csr, todo, queue, seen, rows>>

(* A turn of the loop of csr_k_hop, of csr_shortest_path.                      *)
Fan(item) == FoldLeft(LAMBDA acc, p : Queued(acc, item, p), [seen |-> seen, queue |-> Tail(queue)], Places(csr, item.node))

KHopTurn ==
    /\ npc = "loop" /\ call.op = "k_hop" /\ queue # <<>>
    /\ LET item == Head(queue)
           fan == IF AtDepth(item) THEN [seen |-> seen, queue |-> Tail(queue)] ELSE Fan(item)
       IN /\ rows' = IF item.depth >= call.min /\ item.depth <= call.max
                     THEN Append(rows, [seed |-> item.nodes[1], item |-> item]) ELSE rows
          /\ queue' = fan.queue /\ seen' = fan.seen
    /\ UNCHANGED <<call, csr, todo, npc>>

PathTurn ==
    /\ npc = "loop" /\ call.op = "shortest_path" /\ queue # <<>>
    /\ LET item == Head(queue)
       IN \/ /\ item.node = call.target
             /\ rows' = <<[seed |-> item.nodes[1], item |-> item]>> /\ npc' = "done"
             /\ UNCHANGED <<queue, seen>>
          \/ /\ item.node # call.target
             /\ LET fan == IF AtDepth(item) THEN [seen |-> seen, queue |-> Tail(queue)] ELSE Fan(item)
                IN queue' = fan.queue /\ seen' = fan.seen
             /\ UNCHANGED <<rows, npc>>
    /\ UNCHANGED <<call, csr, todo>>

MutQueueEmpty == npc = "loop" /\ queue = <<>> /\ UNCHANGED nativeVars
QueueEmpty == npc = "loop" /\ queue = <<>> /\ npc' = "seed" /\ UNCHANGED <<call, csr, todo, queue, seen, rows>>

NativeTurn == NextSeed \/ SeedsDone \/ KHopTurn \/ PathTurn \/ QueueEmpty

(* csr_neighbor_sample: the first neighbours of each seed, over again with     *)
(* replacement; no fanout means all, a fanout of 0 none.                       *)
csr_neighbor_sample(f, seeds, fanout, replace) ==
    LET Of(v) == LET ns == csr_neighbors_of(f, v)
                     take == IF fanout = Null THEN Len(ns) ELSE fanout
                     count == IF ns = <<>> THEN 0 ELSE IF replace \/ take < Len(ns) THEN take ELSE Len(ns)
                 IN [i \in 1..count |-> <<v, ns[((i - 1) % Len(ns)) + 1]>>]
    IN FoldLeft(LAMBDA acc, v : acc \o Of(v), <<>>, seeds)

-----------------------------------------------------------------------------
(* The operators of exec.rs.  All but the join and the count work batch by     *)
(* batch and pass empty batches on; nulls are no keys and sort last.           *)
NativeFilter(b, c, v) == [b EXCEPT !.rows = SelectSeq(@, LAMBDA r : r[Col(b, c)] = v)]

NativeTopK(b, a) ==
    LET c == Col(b, a.keys[1][1])
        Rank(r) == IF r[c] = Null THEN 1000 ELSE r[c]
        sorted == FoldLeft(LAMBDA acc, r : SelectSeq(acc, LAMBDA x : Rank(x) <= Rank(r)) \o <<r>>
                                           \o SelectSeq(acc, LAMBDA x : Rank(x) > Rank(r)), <<>>, b.rows)
    IN Batch(b.cols, Slice(sorted, a.offset, a.limit))

NativeExpand(b, a) ==
    LET seeds == SelectSeq(Values(b, a.col), LAMBDA v : v # Null)
        f == build_csr_arrays(run.graph[a.rel], NumVertices)
    IN Batch(<<a.src, a.dst>>, csr_neighbor_sample(f, seeds, Null, FALSE))

(* One layer of one relation; the fanout is given or absent.                   *)
NativeSample(b, a) ==
    Batch(<<"src", "dst">>, csr_neighbor_sample(build_csr_arrays(run.graph[a.rels[1]], NumVertices),
                                                SelectSeq(Values(b, a.col), LAMBDA v : v # Null), a.layers[1], a.replace))

NativeCount(bs) == <<Batch(<<"count">>, <<<<Len(AllRows(bs))>>>>)>>

(* The right side is drained first and indexed; the left rows come first in a  *)
(* joined row.  Without batches on a side the answer has no rows.              *)
MutRightRows(r, key, v) == LET all == SelectSeq(r.rows, LAMBDA y : v # Null /\ y[Col(r, key)] = v) IN SubSeq(all, Len(all), Len(all))
RightRows(r, key, v) == SelectSeq(r.rows, LAMBDA y : v # Null /\ y[Col(r, key)] = v)
NativeJoin(left, right, a) ==
    IF left = <<>> \/ right = <<>> THEN <<Batch(<<"left_row", "right_row">>, <<>>)>>
    ELSE LET l == Whole(left)
             r == Whole(right)
             Partners(x) == RightRows(r, a.build_key, x[Col(l, a.probe_key)])
             Pair(x, ys) == [i \in DOMAIN ys |-> x \o ys[i]]
         IN <<Batch(l.cols \o r.cols, FoldLeft(LAMBDA acc, x : acc \o Pair(x, Partners(x)), <<>>, l.rows))>>

EachBatch(t, b) ==
    CASE t.op = "filter" -> NativeFilter(b, t.arg[2][2], t.arg[3][2])
      [] t.op = "project" -> Select(b, [i \in DOMAIN t.arg |-> t.arg[i][2]])
      [] t.op = "topk" -> NativeTopK(b, t.arg)
      [] t.op = "expand" -> NativeExpand(b, t.arg)
      [] t.op = "sample" -> NativeSample(b, t.arg)

RECURSIVE execute_to_batches(_)
execute_to_batches(t) ==
    CASE t.op = "scan" -> run.batches[t.arg.store]
      [] t.op = "aggregate" -> NativeCount(execute_to_batches(t.kids[1]))
      [] t.op = "join" -> NativeJoin(execute_to_batches(t.kids[2]), execute_to_batches(t.kids[1]), t.arg)
      [] OTHER -> LET bs == execute_to_batches(t.kids[1]) IN [k \in DOMAIN bs |-> EachBatch(t, bs[k])]

-----------------------------------------------------------------------------
(* A plan that both engines run has the same answer in both, when its order    *)
(* and limit, if any, apply to a store of one batch: exec.rs sorts and cuts    *)
(* each batch by itself; and when at most one side of a join has null keys:    *)
(* they match each other in Python only.  (A joined row has its sides the      *)
(* other way round.)                                                           *)
NullKeys(t, key) == Null \in Range(Values(Meaning(t), key))
SameInBoth == {"scan", "filter", "project", "topk", "expand", "aggregate", "join"}
NativePlan(t) ==
    \A n \in PathsOf(t, Root) :
        LET k == FoldLeft(LAMBDA x, i : x.kids[i], t, n)
        IN /\ k.op \in SameInBoth
           /\ k.op = "filter" => k.arg[1] = "eq"
           /\ k.op = "scan" => k.arg.where = Null
           /\ k.op = "project" => \A i \in DOMAIN k.arg : k.arg[i][1] = <<"col", k.arg[i][2]>>
           /\ k.op = "expand" => k.arg.dir = "out" /\ ~OutOfRange(Seeds(run.batches[k.kids[1].arg.store], k.arg.col))
           /\ k.op = "aggregate" => k.arg.group = <<>> /\ k.arg.aggs = <<<<Null, "count_star", "n">>>>
           /\ k.op = "topk" => Len(k.arg.keys) = 1 /\ ~k.arg.keys[1][2]
           /\ k.op = "join" => /\ n = Root \/ (n = Kid(Root, 1) /\ t.op = "aggregate")
                               /\ k.arg.kind = "inner"
                               /\ ~(NullKeys(k.kids[1], k.arg.build_key) /\ NullKeys(k.kids[2], k.arg.probe_key))

PlansAgree ==
    (phase = "start" /\ NativePlan(run.plan)
     /\ ("topk" \in OpsOf(run.plan) => \A s \in DOMAIN run.batches : Len(run.batches[s]) = 1)) =>
        LET mine == AllRows(execute_to_batches(run.plan))
            theirs == Meaning(run.plan)
            built == IF run.plan.op = "join" THEN Len(Meaning(run.plan.kids[1]).cols) ELSE 0
        IN SameRows(mine, [k \in DOMAIN theirs.rows |-> SubSeq(theirs.rows[k], built + 1, Len(theirs.cols)) \o SubSeq(theirs.rows[k], 1, built)])

(* The same of a sample of the first neighbours, when a batch holds each seed  *)
(* once and in order, as np.unique has it.                                     *)
SamplesAgree ==
    (phase = "start" /\ run.plan.op = "sample" /\ run.plan.arg.strategy = "first" /\ Len(run.plan.arg.layers) = 1) =>
        LET b == Whole(run.batches[run.plan.kids[1].arg.store])
            seeds == Values(b, run.plan.arg.col)
            mine == NativeSample(b, run.plan.arg).rows
        IN seeds = Unique(seeds) /\ run.plan.arg.layers[1] # 0 =>
             \A bs \in Samples(seeds, run.plan.arg) :
                 SameRows(mine, [k \in DOMAIN AllRows(bs) |-> SubSeq(AllRows(bs)[k], 1, 2)])

(* Both engines answer a plan they both run alike.                             *)
EnginesAgree == PlansAgree /\ SamplesAgree

(* A CSR file holds the edges of each source, in the order of the store, and   *)
(* passes the check that write_csr and read_csr make.                          *)
CsrExact ==
    ~csr.failed =>
        /\ ValidCsr(csr, call.size, Len(call.edges))
        /\ \A v \in 0..(call.size - 1) :
              LET mine == SelectSeq(call.edges, LAMBDA e : e[1] = v)
                  ps == Places(csr, v)
              IN /\ csr_neighbors_of(csr, v) = [i \in DOMAIN mine |-> mine[i][2]]
                 /\ \A i \in DOMAIN ps : call.edges[csr.eids[ps[i]]] = <<v, csr.neighbors[ps[i]]>>

Ends(v, k) ==
    LET step[j \in 0..k] == IF j = 0 THEN {v} ELSE UNION {Range(csr_neighbors_of(csr, w)) : w \in step[j - 1]}
    IN step[k]

RealPath(item) ==
    /\ Len(item.nodes) = item.depth + 1 /\ Len(item.eids) = item.depth /\ Last(item.nodes) = item.node
    /\ \A i \in DOMAIN item.eids : call.edges[item.eids[i]] = <<item.nodes[i], item.nodes[i + 1]>>

(* k_hop answers each seed with every vertex at the end of a walk of each      *)
(* length asked for, once per length, with a walk that proves it.              *)
NativeKHopExact ==
    (call.op = "k_hop" /\ npc = "done") =>
        /\ \A k \in DOMAIN rows : RealPath(rows[k].item) /\ rows[k].item.nodes[1] = rows[k].seed
        /\ \A v \in 0..(call.size - 1), w \in 0..(call.size - 1), d \in 0..call.max :
              Cardinality({k \in DOMAIN rows : rows[k].seed = v /\ rows[k].item.node = w /\ rows[k].item.depth = d})
                = IF d >= call.min /\ w \in Ends(v, d) THEN Times(v, call.seeds) ELSE 0

(* shortest_path answers a shortest path when there is one within the limit.   *)
NativePathExact ==
    (call.op = "shortest_path" /\ npc = "done") =>
        LET v == call.seeds[1]
            lengths == {d \in 0..call.max : call.target \in Ends(v, d)}
        IN IF lengths = {} THEN rows = <<>>
           ELSE /\ Len(rows) = 1 /\ RealPath(rows[1].item) /\ rows[1].item.node = call.target
                /\ rows[1].item.nodes[1] = v
                /\ \A d \in lengths : rows[1].item.depth <= d

(* The CSR files of the Rust core hold the edges of the store, and its         *)
(* traversals answer what a definition without queues gives.                   *)
NativeExact == CsrExact /\ NativeKHopExact /\ NativePathExact
=============================================================================
