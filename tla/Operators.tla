----------------------------- MODULE Operators -----------------------------
(***************************************************************************)
(* The physical operators of caracaldb/exec and the pipelines that         *)
(* caracaldb/api.py builds from them.  An operator is pulled by its        *)
(* parent: open(), next_batch() until it answers None, close().  The calls *)
(* in progress are a stack, and a step of the model is what one operator   *)
(* does between two calls, so that an operator can fail, and its parents   *)
(* unwind, at every point of a run.                                        *)
(*                                                                         *)
(* A plan is a tree of nodes [op, arg, kids]; an operator is known by its  *)
(* path from the root.  A batch is [cols, rows]; a row is a sequence of    *)
(* values, Null among them.                                                *)
(***************************************************************************)
EXTENDS Integers, Sequences, FiniteSets, SequencesExt

CONSTANTS
    Null,        \* Arrow's null
    Cases,       \* what may run: [plan, graph, batches, flaky]
    NumVertices  \* the vertex space of the CSR files

Leaves == {"scan", "triples", "lookup", "knn"}
Streams == {"filter", "project", "rename", "drop", "expand"}
Drains == {"topk", "aggregate", "sample", "walk"}

VARIABLES
    run,       \* the case that runs
    opened,    \* the operators with _opened
    closed,    \* the operators with _closed
    local,     \* what an operator keeps between calls: [todo, got, cursor, done]
    stack,     \* the calls in progress: [n, call, pc, i]
    ret,       \* the answer of the call that has just returned
    phase,     \* of run_pipeline
    out        \* the batches it has yielded
opVars == <<run, opened, closed, local, stack, ret, phase, out>>

-----------------------------------------------------------------------------
(* Plans.                                                                      *)
Op(op, arg, kids) == [op |-> op, arg |-> arg, kids |-> kids]
Node(n) == FoldLeft(LAMBDA t, i : t.kids[i], run.plan, n)
Kid(n, i) == Append(n, i)

RECURSIVE PathsOf(_, _)
PathsOf(t, n) == {n} \cup UNION {PathsOf(t.kids[i], Append(n, i)) : i \in DOMAIN t.kids}
Root == <<>>
Operators == PathsOf(run.plan, Root)

-----------------------------------------------------------------------------
(* Rows and expressions.                                                       *)
Batch(cols, rows) == [cols |-> cols, rows |-> rows]
HasCol(b, c) == \E i \in DOMAIN b.cols : b.cols[i] = c
Col(b, c) == CHOOSE i \in DOMAIN b.cols : b.cols[i] = c /\ \A j \in 1..(i - 1) : b.cols[j] # c
Values(b, c) == [k \in DOMAIN b.rows |-> b.rows[k][Col(b, c)]]
AllRows(bs) == FlattenSeq([k \in DOMAIN bs |-> bs[k].rows])
Whole(bs) == Batch(bs[1].cols, AllRows(bs))

Compare(op, x, y) ==
    CASE op = "eq" -> x = y
      [] op = "ne" -> x # y
      [] op = "lt" -> x < y
      [] op = "le" -> x <= y
      [] op = "gt" -> x > y
      [] op = "ge" -> x >= y

(* Arrow's kernels: a comparison, and_, or_ and invert of a null are null;     *)
(* is_in of a null is false.                                                   *)
RECURSIVE compile_expr(_, _, _)
compile_expr(e, b, r) ==
    LET Arg(i) == compile_expr(e[i], b, r)
    IN CASE e[1] = "col" -> r[Col(b, e[2])]
         [] e[1] = "lit" -> e[2]
         [] e[1] = "in" -> Arg(2) \in e[3]
         [] e[1] = "not" -> IF Arg(2) = Null THEN Null ELSE ~Arg(2)
         [] OTHER ->
              IF Null \in {Arg(2), Arg(3)} THEN Null
              ELSE CASE e[1] = "and" -> Arg(2) /\ Arg(3)
                     [] e[1] = "or" -> Arg(2) \/ Arg(3)
                     [] OTHER -> Compare(e[1], Arg(2), Arg(3))

-----------------------------------------------------------------------------
(* The graph: for each relation the sequence of its <<src, dst>>, in the order *)
(* of the CSR file for the sources, and of the CSC file for the targets.       *)
Neighbors(rel, v, way) ==
    LET a == IF way = "out" THEN 1 ELSE 2
        mine == SelectSeq(run.graph[rel], LAMBDA e : e[a] = v)
    IN [k \in DOMAIN mine |-> mine[k][3 - a]]

OutOfRange(vs) == \E k \in DOMAIN vs : vs[k] >= NumVertices

(* CsrReader.batch_neighbors without a fanout.                                 *)
FanOut(rel, vs, way) ==
    FlattenSeq([k \in DOMAIN vs |->
        [j \in DOMAIN Neighbors(rel, vs[k], way) |-> <<vs[k], Neighbors(rel, vs[k], way)[j]>>]])

-----------------------------------------------------------------------------
(* What the streaming operators make of a batch.                               *)
Filter(b, e) == [b EXCEPT !.rows = SelectSeq(@, LAMBDA r : compile_expr(e, b, r) = TRUE)]

Project(b, ps) ==
    Batch([i \in DOMAIN ps |-> ps[i][2]],
          [k \in DOMAIN b.rows |-> [i \in DOMAIN ps |-> compile_expr(ps[i][1], b, b.rows[k])]])

Rename(b, m) == [b EXCEPT !.cols = [i \in DOMAIN @ |-> IF @[i] \in DOMAIN m THEN m[@[i]] ELSE @[i]]]

(* One pass over the names: the first occurrence of a name that is to go stays *)
(* for now, as many later ones as asked for go; a name with too few later ones *)
(* loses its first one as well.                                                *)
DropColumns(b, drop) ==
    LET Count(name) == Len(SelectSeq(drop, LAMBDA d : d = name))
        Nth(i) == Len(SelectSeq(SubSeq(b.cols, 1, i), LAMBDA c : c = b.cols[i]))
        Gone(i) == \/ Nth(i) > 1 /\ Nth(i) - 1 <= Count(b.cols[i])
                   \/ Nth(i) = 1 /\ Count(b.cols[i]) >= Len(SelectSeq(b.cols, LAMBDA c : c = b.cols[i]))
        keep == SelectSeq([i \in DOMAIN b.cols |-> i], LAMBDA i : ~Gone(i))
    IN Batch([i \in DOMAIN keep |-> b.cols[keep[i]]],
             [k \in DOMAIN b.rows |-> [i \in DOMAIN keep |-> b.rows[k][keep[i]]]])

Expand(b, a) ==
    LET vs == Values(b, a.col)
    IN Batch(<<a.src, a.dst>>,
             (IF a.dir \in {"out", "both"} THEN FanOut(a.rel, vs, "out") ELSE <<>>)
             \o (IF a.dir \in {"in", "both"} THEN FanOut(a.rel, vs, "in") ELSE <<>>))

Transform(n, b) ==
    LET a == Node(n).arg
    IN CASE Node(n).op = "filter" -> Filter(b, a)
         [] Node(n).op = "project" -> Project(b, a)
         [] Node(n).op = "rename" -> Rename(b, a)
         [] Node(n).op = "drop" -> DropColumns(b, a)
         [] Node(n).op = "expand" -> Expand(b, a)

Raises(n, b) == Node(n).op = "expand" /\ OutOfRange(Values(b, Node(n).arg.col))
SkipsEmpty == {"filter", "expand", "join"}

-----------------------------------------------------------------------------
(* HashJoin.  The rows of the build side under the key of a row of the probe   *)
(* side, in their order; None is a key like any other.  A probe row of a left  *)
(* join without a partner takes row 0 of the build side and blanks it, which   *)
(* fails when the build side has no rows.                                      *)
Pairs(built, a, probe) ==
    LET key == Values(probe, a.probe_key)
        Match(k) == SelectSeq([i \in DOMAIN built.rows |-> i],
                              LAMBDA i : built.rows[i][Col(built, a.build_key)] = key[k])
        Rows(k) == IF Match(k) = <<>> /\ a.kind = "left" THEN <<<<0, k>>>>
                   ELSE [m \in DOMAIN Match(k) |-> <<Match(k)[m], k>>]
    IN FlattenSeq([k \in DOMAIN probe.rows |-> Rows(k)])

Side(built, i) == IF i = 0 THEN [c \in DOMAIN built.cols |-> Null] ELSE built.rows[i]

MutBuilt(a, got) == IF got = <<>> THEN Batch(<<a.build_key>>, <<>>) ELSE Last(got)
Built(a, got) == IF got = <<>> THEN Batch(<<a.build_key>>, <<>>) ELSE Whole(got)

JoinRaises(a, got, probe) ==
    /\ Built(a, got).rows = <<>>
    /\ Pairs(Built(a, got), a, probe) # <<>>

Join(a, got, probe) ==
    LET built == Built(a, got)
        ps == Pairs(built, a, probe)
    IN Batch(built.cols \o probe.cols,
             [k \in DOMAIN ps |-> Side(built, ps[k][1]) \o probe.rows[ps[k][2]]])

-----------------------------------------------------------------------------
(* TopK: Arrow's stable sort_indices, nulls last, then offset and limit.       *)
Before(b, keys, x, y) ==
    \E i \in DOMAIN keys :
        LET c == Col(b, keys[i][1])
            Lt(u, v) == u # Null /\ (v = Null \/ (IF keys[i][2] THEN u > v ELSE u < v))
        IN /\ Lt(x[c], y[c])
           /\ \A j \in 1..(i - 1) : x[Col(b, keys[j][1])] = y[Col(b, keys[j][1])]

Sorted(b, keys) ==
    FoldLeft(LAMBDA acc, r : SelectSeq(acc, LAMBDA x : ~Before(b, keys, r, x)) \o <<r>>
                             \o SelectSeq(acc, LAMBDA x : Before(b, keys, r, x)),
             <<>>, b.rows)

Slice(s, offset, limit) ==
    LET last == IF limit = Null \/ offset + limit > Len(s) THEN Len(s) ELSE offset + limit
    IN SubSeq(s, offset + 1, last)

TopK(b, a) == Batch(b.cols, Slice(Sorted(b, a.keys), a.offset, a.limit))

(* HashAggregate: Arrow's group_by; count leaves out nulls, the others too,    *)
(* and the sum, the least or the greatest of no values is null.                *)
Kernel(k, vs) ==
    LET some == SelectSeq(vs, LAMBDA v : v # Null)
        Best(x, y) == IF (k = "min") = (y < x) THEN y ELSE x
    IN CASE k \in {"count"} -> Len(some)
         [] k = "count_star" -> Len(vs)
         [] some = <<>> -> Null
         [] k = "sum" -> FoldLeft(LAMBDA x, y : x + y, 0, some)
         [] OTHER -> FoldLeft(Best, some[1], some)

Aggregate(b, a) ==
    LET Key(r) == [i \in DOMAIN a.group |-> r[Col(b, a.group[i])]]
        keys == FoldLeft(LAMBDA acc, r : IF Key(r) \in Range(acc) THEN acc ELSE Append(acc, Key(r)),
                         IF a.group = <<>> THEN <<<<>>>> ELSE <<>>, b.rows)
        Cell(key, agg) == LET mine == SelectSeq(b.rows, LAMBDA r : Key(r) = key)
                          IN Kernel(agg[2], [m \in DOMAIN mine |-> IF agg[1] = Null THEN 1 ELSE mine[m][Col(b, agg[1])]])
    IN Batch(a.group \o [i \in DOMAIN a.aggs |-> a.aggs[i][3]],
             [k \in DOMAIN keys |-> keys[k] \o [i \in DOMAIN a.aggs |-> Cell(keys[k], a.aggs[i])]])

-----------------------------------------------------------------------------
(* VarPath: breadth first from all seeds at once; a pair of a seed and a       *)
(* vertex is taken the first time it is reached, even when that is too early   *)
(* to be returned.  A pair is returned once, so the rows are a set here.       *)
Taken(acc, reached, keep) ==
    [seen |-> acc.seen \cup reached, next |-> reached \ acc.seen,
     rows |-> IF keep THEN acc.rows \cup (reached \ acc.seen) ELSE acc.rows]

VarPathHop(acc, hop, a) ==
    LET reached == UNION {{<<p[1], d>> : d \in Range(Neighbors(a.rel, p[2], "out"))} : p \in acc.next}
    IN Taken(acc, reached, hop >= a.min)

VarPath(seeds, a) ==
    LET own == {<<v, v>> : v \in Range(seeds)}
        none == [seen |-> {}, next |-> own, rows |-> {}]
        start == IF a.min = 0 THEN [seen |-> own, next |-> own, rows |-> own] ELSE none
        found == FoldLeft(LAMBDA acc, hop : VarPathHop(acc, hop, a), start, [h \in 1..a.max |-> h]).rows
    IN FoldSet(LAMBDA p, acc : Append(acc, p), <<>>, found)

-----------------------------------------------------------------------------
(* CsrReader.batch_neighbors with a fanout: what may be drawn, as a set.  The  *)
(* segments of _sample_segments are the runs of one source, so that a source   *)
(* that stands twice in a row is sampled once.  A fanout of 0 means no limit.  *)
Segments(flat) ==
    FoldLeft(LAMBDA acc, p : IF acc # <<>> /\ Last(acc)[1][1] = p[1]
                             THEN Append(Front(acc), Append(Last(acc), p))
                             ELSE Append(acc, <<p>>),
             <<>>, flat)

Picks(seg, a, fanout) ==
    CASE Len(seg) <= fanout /\ ~a.replace -> {seg}
      [] a.strategy = "first" -> {[i \in 1..fanout |-> seg[((i - 1) % Len(seg)) + 1]]}
      [] OTHER -> {[i \in 1..fanout |-> seg[f[i]]] :
                      f \in {h \in [1..fanout -> DOMAIN seg] :
                                a.replace \/ \A i, j \in 1..fanout : h[i] = h[j] => i = j}}

Draws(rel, vs, way, a, fanout) ==
    LET flat == FanOut(rel, vs, way)
    IN IF \/ fanout = 0 \/ a.strategy = "all"
          \/ ~a.replace /\ \A v \in Range(vs) : Len(Neighbors(rel, v, way)) <= fanout
       THEN {flat}
       ELSE FoldLeft(LAMBDA S, seg : {s \o t : s \in S, t \in Picks(seg, a, fanout)}, {<<>>}, Segments(flat))

MutUnique(vs) == vs
(* np.unique: the vertices once each, in ascending order.                      *)
Unique(vs) ==
    LET V == Range(vs)
    IN [i \in 1..Cardinality(V) |-> CHOOSE v \in V : Cardinality({w \in V : w < v}) = i - 1]

(* NeighborSample: one batch of <<src, dst, etype, layer>> per layer, until a  *)
(* layer draws nothing.                                                        *)
SampleLayer(S, layer, a) ==
    UNION {IF s.stop \/ s.frontier = <<>> THEN {s}
           ELSE LET drawn == FoldLeft(
                        LAMBDA D, e : {d \o [i \in DOMAIN t |-> <<t[i][1], t[i][2], e, layer>>] :
                                          d \in D, t \in Draws(a.rels[e], s.frontier, "out", a, a.layers[layer])},
                        {<<>>}, [e \in DOMAIN a.rels |-> e])
                IN {IF d = <<>> THEN [s EXCEPT !.stop = TRUE]
                    ELSE [stop |-> FALSE, frontier |-> Unique([i \in DOMAIN d |-> d[i][2]]),
                          out |-> Append(s.out, Batch(<<"src", "dst", "etype", "layer">>, d))] : d \in drawn}
           : s \in S}

Samples(seeds, a) ==
    {s.out : s \in FoldLeft(LAMBDA S, layer : SampleLayer(S, layer, a),
                            {[stop |-> FALSE, frontier |-> Unique(seeds), out |-> <<>>]},
                            [l \in DOMAIN a.layers |-> l])}

(* RandomWalk: the bias of node2vec changes only the odds of a step.           *)
WalkStep(W, rel) ==
    UNION {LET ds == Neighbors(rel, Last(w.path), "out")
           IN IF w.stop \/ ds = <<>> THEN {[w EXCEPT !.stop = TRUE]}
              ELSE {[w EXCEPT !.path = Append(@, d)] : d \in Range(ds)}
           : w \in W}

WalksFrom(v, a) ==
    {w.path : w \in FoldLeft(LAMBDA W, i : WalkStep(W, a.rel), {[stop |-> FALSE, path |-> <<v>>]},
                             [i \in 1..(a.length - 1) |-> i])}

Walks(seeds, a) ==
    LET starts == FlattenSeq([k \in DOMAIN seeds |-> [i \in 1..a.walks |-> seeds[k]]])
        Rows(w, id) == [i \in DOMAIN w |-> <<id, i - 1, w[i]>>]
    IN FoldLeft(LAMBDA S, id : {s \o Rows(w, id - 1) : s \in S, w \in WalksFrom(starts[id], a)},
                {<<>>}, [i \in DOMAIN starts |-> i])

-----------------------------------------------------------------------------
(* What a draining operator may answer once its child has ended.  Arrow may    *)
(* hand a sorted table out in several chunks.                                  *)
Chunks(b) ==
    IF b.rows = <<>> THEN {<<>>}
    ELSE {<<b>>} \cup {<<Batch(b.cols, SubSeq(b.rows, 1, k)), Batch(b.cols, SubSeq(b.rows, k + 1, Len(b.rows)))>> :
                          k \in 1..(Len(b.rows) - 1)}

Seeds(got, col) == FlattenSeq([k \in DOMAIN got |-> Values(got[k], col)])

Produces(n, got) ==
    LET a == Node(n).arg
    IN CASE got = <<>> -> {<<>>}
         [] Node(n).op = "topk" -> Chunks(TopK(Whole(got), a))
         [] Node(n).op = "aggregate" -> Chunks(Aggregate(Whole(got), a))
         [] Node(n).op = "sample" -> Samples(Seeds(got, a.col), a)
         [] Node(n).op = "walk" -> {IF rows = <<>> THEN <<>> ELSE <<Batch(<<"walk_id", "step", "nid">>, rows)>> :
                                       rows \in Walks(Seeds(got, a.col), a)}

(* A missing column, or a vertex outside the file; a walk of one vertex looks  *)
(* no neighbour up.                                                            *)
DrainRaises(n, got) ==
    LET a == Node(n).arg
    IN CASE got = <<>> -> FALSE
         [] Node(n).op = "topk" -> \E i \in DOMAIN a.keys : ~HasCol(got[1], a.keys[i][1])
         [] Node(n).op = "aggregate" -> \E c \in Range(a.group) \cup ({a.aggs[i][1] : i \in DOMAIN a.aggs} \ {Null}) : ~HasCol(got[1], c)
         [] Node(n).op = "join" -> ~HasCol(got[1], a.build_key)
         [] Node(n).op = "walk" -> a.length > 1 /\ OutOfRange(Seeds(got, a.col))
         [] OTHER -> OutOfRange(Seeds(got, a.col))

-----------------------------------------------------------------------------
(* The leaves.  A scan iterates over the batches of its store; an index lookup *)
(* (the rows of the found ids, ordered by id) and a nearest neighbour search   *)
(* (filtered after the k nearest are taken) answer once.                       *)
Select(b, cols) ==
    Batch(cols, [k \in DOMAIN b.rows |-> [i \in DOMAIN cols |-> b.rows[k][Col(b, cols[i])]]])

Lookup(b, a) ==
    LET ids == Unique(a.ids)
        Of(id) == SelectSeq(b.rows, LAMBDA r : r[Col(b, a.id)] = id)
    IN Batch(b.cols, FlattenSeq([k \in DOMAIN ids |-> Of(ids[k])]))

Knn(b, a) ==
    LET near == Slice(Sorted(b, <<<<"distance", FALSE>>>>), 0, a.k)
    IN Batch(b.cols, SelectSeq(near, LAMBDA r : r[Col(b, "nid")] \in a.keep))

LeafBatches(t) ==
    LET store == run.batches[t.arg.store]
    IN CASE t.op \in {"scan", "triples"} -> store
         [] t.op = "lookup" -> <<Lookup(Whole(store), t.arg)>>
         [] t.op = "knn" -> IF Knn(Whole(store), t.arg).rows = <<>> THEN <<>> ELSE <<Knn(Whole(store), t.arg)>>

-----------------------------------------------------------------------------
(* Calls and answers.                                                          *)
Calling == [kind |-> "call"]
Ok == [kind |-> "ok"]
None == [kind |-> "none"]
Raise == [kind |-> "raise"]
Got(b) == [kind |-> "batch", batch |-> b]
Answers == {"ok", "none", "raise", "batch"}

Top == stack[Len(stack)]
At(call, pc) == stack # <<>> /\ Top.call = call /\ Top.pc = pc
Frame(n, call) == [n |-> n, call |-> call, pc |-> "enter", i |-> 1]

(* The running call moves to pc and calls its child i.                         *)
Call(pc, i, call) ==
    /\ stack' = Append(Append(Front(stack), [Top EXCEPT !.pc = pc, !.i = i]), Frame(Kid(Top.n, i), call))
    /\ ret' = Calling

Return(v) ==
    /\ stack' = Front(stack)
    /\ ret' = v

Keep(n, v) == local' = [local EXCEPT ![n] = v]
Mine == local[Top.n]
Kind == Node(Top.n).op
LastKid == Len(Node(Top.n).kids)
Held == <<run, phase, out>>

-----------------------------------------------------------------------------
(* PhysicalOperator.open and the _open of the operators.                       *)
OpenAgain ==
    /\ At("open", "enter") /\ Top.n \in opened
    /\ Return(Raise)
    /\ UNCHANGED <<opened, closed, local, Held>>

MarkOpen == opened' = opened \cup {Top.n} /\ Return(Ok)

OpenLeaf ==
    /\ At("open", "enter") /\ Top.n \notin opened /\ Kind \in Leaves
    /\ \/ MarkOpen /\ Keep(Top.n, [Mine EXCEPT !.todo = LeafBatches(Node(Top.n))])
       \/ run.flaky = "open" /\ Return(Raise) /\ UNCHANGED <<opened, local>>
    /\ UNCHANGED <<closed, Held>>

OpenKids ==
    /\ At("open", "enter") /\ Top.n \notin opened /\ Kind \notin Leaves
    /\ Call("opening", 1, "open")
    /\ UNCHANGED <<opened, closed, local, Held>>

KidOpen ==
    /\ At("open", "opening") /\ ret.kind = "ok"
    /\ \/ /\ Kind \in Streams \cup {"varpath"} \/ (Kind \in {"union", "join"} /\ Top.i = LastKid)
          /\ MarkOpen
       \/ /\ Kind = "union" /\ Top.i < LastKid
          /\ Call("opening", Top.i + 1, "open") /\ UNCHANGED opened
       \/ /\ Kind \in Drains \cup {"join"} /\ Top.i = 1
          /\ Call("draining", 1, "next") /\ UNCHANGED opened
    /\ UNCHANGED <<closed, local, Held>>

(* An exception in the open() of a child leaves the operator unopened, and     *)
(* with it the children that were opened before.                               *)
KidOpenRaised ==
    /\ At("open", "opening") /\ ret = Raise
    /\ Return(Raise)
    /\ UNCHANGED <<opened, closed, local, Held>>

(* The drain in _open: the child is closed in a finally clause.                *)
MutUnwind == Return(Raise)
Unwind == Call("unwinding", 1, "close")
Drain ==
    /\ At("open", "draining") /\ ret.kind \in Answers
    /\ \/ /\ ret.kind = "batch" /\ Call("draining", 1, "next")
          /\ Keep(Top.n, [Mine EXCEPT !.got = Append(@, ret.batch)])
       \/ ret = None /\ Call("drained", 1, "close") /\ UNCHANGED local
       \/ ret = Raise /\ Unwind /\ UNCHANGED local
    /\ UNCHANGED <<opened, closed, Held>>

Drained ==
    /\ At("open", "drained") /\ ret = Ok
    /\ \/ /\ DrainRaises(Top.n, Mine.got)
          /\ Return(Raise) /\ UNCHANGED <<opened, local>>
       \/ /\ ~DrainRaises(Top.n, Mine.got) /\ Kind = "join"
          /\ Call("opening", 2, "open") /\ UNCHANGED <<opened, local>>
       \/ /\ ~DrainRaises(Top.n, Mine.got) /\ Kind # "join"
          /\ \E q \in Produces(Top.n, Mine.got) : Keep(Top.n, [Mine EXCEPT !.todo = q, !.got = <<>>])
          /\ MarkOpen
    /\ UNCHANGED <<closed, Held>>

Unwound ==
    /\ At("open", "unwinding") /\ ret = Ok
    /\ Return(Raise)
    /\ UNCHANGED <<opened, closed, local, Held>>

-----------------------------------------------------------------------------
(* PhysicalOperator.next_batch and the _next_batch of the operators.           *)
NextRefused ==
    /\ At("next", "enter") /\ (Top.n \notin opened \/ Top.n \in closed)
    /\ Return(IF Top.n \notin opened THEN Raise ELSE None)
    /\ UNCHANGED <<opened, closed, local, Held>>

Live == At("next", "enter") /\ Top.n \in opened /\ Top.n \notin closed

(* An iterator over batches: the leaves, and the results a draining operator   *)
(* holds.  A scan filters its batches and passes over the ones left empty;     *)
(* a node scan without a predicate passes an empty batch on.                   *)
LeafBatch(t, b) ==
    Select(IF t.arg.where = Null THEN b ELSE Filter(b, t.arg.where), t.arg.cols)
LeafSkips(t, b) ==
    /\ t.op = "triples" \/ t.arg.where # Null
    /\ LeafBatch(t, b).rows = <<>>

NextOf ==
    /\ Live /\ Kind \in Leaves \cup Drains
    /\ \/ Mine.todo = <<>> /\ Return(None) /\ UNCHANGED local
       \/ /\ Mine.todo # <<>> /\ Kind \in Drains
          /\ Return(Got(Head(Mine.todo))) /\ Keep(Top.n, [Mine EXCEPT !.todo = Tail(@)])
       \/ /\ Mine.todo # <<>> /\ Kind \in Leaves
          /\ Keep(Top.n, [Mine EXCEPT !.todo = Tail(@)])
          /\ IF LeafSkips(Node(Top.n), Head(Mine.todo)) THEN UNCHANGED <<stack, ret>>
             ELSE Return(Got(LeafBatch(Node(Top.n), Head(Mine.todo))))
       \/ /\ Kind \in Leaves /\ run.flaky = "next"
          /\ Return(Raise) /\ UNCHANGED local
    /\ UNCHANGED <<opened, closed, Held>>

(* The child to pull, none when there is none left.                            *)
Source == CASE Kind \in Streams -> 1
            [] Kind = "join" -> 2
            [] Kind = "union" -> Mine.cursor + 1
            [] Kind = "varpath" -> IF Mine.done THEN 2 ELSE 1

Pull ==
    /\ Live /\ Kind \notin Leaves \cup Drains
    /\ \/ Source <= LastKid /\ Call("pulling", Source, "next")
       \/ Source > LastKid /\ Return(None)
    /\ UNCHANGED <<opened, closed, local, Held>>

Result == IF Kind = "join" THEN Join(Node(Top.n).arg, Mine.got, ret.batch)
          ELSE IF Kind = "union" THEN ret.batch
          ELSE Transform(Top.n, ret.batch)
ResultRaises == IF Kind = "join" THEN JoinRaises(Node(Top.n).arg, Mine.got, ret.batch)
                ELSE Kind # "union" /\ Raises(Top.n, ret.batch)

PulledBatch ==
    /\ At("next", "pulling") /\ ret.kind = "batch" /\ Kind # "varpath"
    /\ \/ ResultRaises /\ Return(Raise)
       \/ ~ResultRaises /\ Kind \in SkipsEmpty /\ Result.rows = <<>> /\ Call("pulling", Top.i, "next")
       \/ ~ResultRaises /\ (Kind \notin SkipsEmpty \/ Result.rows # <<>>) /\ Return(Got(Result))
    /\ UNCHANGED <<opened, closed, local, Held>>

(* VarPath drains its seeds on the first call and answers once.                *)
Path ==
    LET a == Node(Top.n).arg
        rows == VarPath(Seeds(Mine.got, a.col), a)
    IN IF rows = <<>> THEN None ELSE Got(Batch(<<a.src, a.dst>>, rows))

Answered(v) == [v EXCEPT !.done = TRUE]
MoveOn(i) == i

PulledNone ==
    /\ At("next", "pulling") /\ ret = None
    /\ \/ Kind \in Streams \cup {"join"} /\ Return(None) /\ UNCHANGED local
       \/ /\ Kind = "union" /\ Keep(Top.n, [Mine EXCEPT !.cursor = MoveOn(Top.i)])
          /\ IF MoveOn(Top.i) < LastKid THEN Call("pulling", MoveOn(Top.i) + 1, "next")
             ELSE Return(None)
       \/ /\ Kind = "varpath" /\ Keep(Top.n, Answered(Mine))
          /\ Return(IF OutOfRange(Seeds(Mine.got, Node(Top.n).arg.col)) THEN Raise ELSE Path)
    /\ UNCHANGED <<opened, closed, Held>>

PathSeeds ==
    /\ At("next", "pulling") /\ ret.kind = "batch" /\ Kind = "varpath"
    /\ Keep(Top.n, [Mine EXCEPT !.got = Append(@, ret.batch)])
    /\ Call("pulling", 1, "next")
    /\ UNCHANGED <<opened, closed, Held>>

PulledRaise ==
    /\ At("next", "pulling") /\ ret = Raise
    /\ Return(Raise)
    /\ UNCHANGED <<opened, closed, local, Held>>

-----------------------------------------------------------------------------
(* PhysicalOperator.close and the _close of the operators.                     *)
MarkClosed == closed' = closed \cup {Top.n} /\ Return(Ok)
FirstToClose == IF Kind = "join" THEN 2 ELSE 1

Close ==
    /\ At("close", "enter")
    /\ \/ Top.n \in closed /\ Return(Ok) /\ UNCHANGED closed
       \/ Top.n \notin closed /\ (Top.n \notin opened \/ Kind \in Leaves \cup Drains) /\ MarkClosed
       \/ /\ Top.n \notin closed /\ Top.n \in opened /\ Kind \notin Leaves \cup Drains
          /\ Call("closing", FirstToClose, "close") /\ UNCHANGED closed
    /\ UNCHANGED <<opened, local, Held>>

KidClosed ==
    /\ At("close", "closing") /\ ret = Ok
    /\ \/ Top.i = LastKid /\ MarkClosed
       \/ Top.i < LastKid /\ Call("closing", Top.i + 1, "close") /\ UNCHANGED closed
    /\ UNCHANGED <<opened, local, Held>>

-----------------------------------------------------------------------------
(* run_pipeline: a generator, which its consumer may leave before the end.     *)
(* A consumer that keeps the operator may call it again after the run.         *)
Idle == stack = <<>>
Ask(call, p) ==
    /\ stack' = <<Frame(Root, call)>> /\ ret' = Calling /\ phase' = p
    /\ UNCHANGED <<run, opened, closed, local>>
Say(p) ==
    /\ phase' = p /\ ret' = Calling
    /\ UNCHANGED <<run, opened, closed, local, stack, out>>

Start == Idle /\ phase = "start" /\ Ask("open", "opening") /\ UNCHANGED out
Started == Idle /\ phase = "opening" /\ Say(IF ret = Raise THEN "raised" ELSE "ready")
AskNext == Idle /\ phase = "ready" /\ Ask("next", "waiting") /\ UNCHANGED out

Yield ==
    /\ Idle /\ phase = "waiting" /\ ret.kind = "batch"
    /\ out' = Append(out, ret.batch) /\ phase' = "ready" /\ ret' = Calling
    /\ UNCHANGED <<run, opened, closed, local, stack>>

(* A consumer that pulls by hand may ask once more at the end of the stream.   *)
Linger == Idle /\ phase = "waiting" /\ ret = None /\ Ask("next", "lingering") /\ UNCHANGED out
Finish == Idle /\ phase \in {"waiting", "lingering"} /\ ret = None /\ Ask("close", "finishing") /\ UNCHANGED out
Fail == Idle /\ phase \in {"waiting", "lingering"} /\ ret = Raise /\ Ask("close", "failing") /\ UNCHANGED out
Leave == Idle /\ phase = "ready" /\ out # <<>> /\ Ask("close", "leaving") /\ UNCHANGED out

Finished == Idle /\ phase = "finishing" /\ Say("done")
Failed == Idle /\ phase = "failing" /\ Say("raised")
Left == Idle /\ phase = "leaving" /\ Say("left")

Over == {"done", "raised", "left"}
Again == Idle /\ phase \in Over /\ \E call \in {"open", "next", "close"} : Ask(call, "again") /\ UNCHANGED out
AgainDone == Idle /\ phase = "again" /\ ret.kind \in Answers /\ phase' = "over" /\ UNCHANGED <<run, opened, closed, local, stack, ret, out>>

OpInit ==
    /\ run \in Cases
    /\ opened = {} /\ closed = {}
    /\ local = [n \in Operators |-> [todo |-> <<>>, got |-> <<>>, cursor |-> 0, done |-> FALSE]]
    /\ stack = <<>> /\ ret = Calling /\ phase = "start" /\ out = <<>>

Operator ==
    \/ OpenAgain \/ OpenLeaf \/ OpenKids \/ KidOpen \/ KidOpenRaised \/ Drain \/ Drained \/ Unwound
    \/ NextRefused \/ NextOf \/ Pull \/ PulledBatch \/ PulledNone \/ PathSeeds \/ PulledRaise
    \/ Close \/ KidClosed
Pipeline ==
    Start \/ Started \/ AskNext \/ Yield \/ Finish \/ Fail \/ Finished \/ Failed \/ Left
OpNext == Operator \/ Pipeline \/ Linger \/ Leave \/ Again \/ AgainDone

-----------------------------------------------------------------------------
(* Database.query cuts the batches of the answer down to its LIMIT.            *)
ApplyLimit(batches, limit) ==
    FoldLeft(LAMBDA acc, b :
                 IF acc.left <= 0 THEN acc
                 ELSE IF Len(b.rows) <= acc.left
                 THEN [rest |-> Append(acc.rest, b), left |-> acc.left - Len(b.rows)]
                 ELSE [rest |-> Append(acc.rest, Batch(b.cols, SubSeq(b.rows, 1, acc.left))), left |-> 0],
             [rest |-> <<>>, left |-> limit], batches).rest

-----------------------------------------------------------------------------
(* The pipeline of a pattern (a)-[:p|q]->(b)...: for each hop the rows so far  *)
(* are joined with the pairs of the hop, and these with the rows of the target *)
(* class.  A pattern is [alias, store, cols, hops, where, return], a hop       *)
(* [alias, store, rels, dir]; cols holds the id column.                        *)
Dotted(alias, field) == alias \o "." \o field

ScanForAlias(pt, alias, store) ==
    Op("rename", [c \in Range(pt.cols) |-> Dotted(alias, c)],
       <<Op("scan", [store |-> store, where |-> Null, cols |-> pt.cols], <<>>)>>)

SeedBranch(pt, acc) == ScanForAlias(pt, acc.alias, acc.store)

Hop(pt, acc, hop) ==
    LET src == Dotted(acc.alias, pt.id)
        dst == Dotted(hop.alias, pt.id)
        Branch(rel) == Op("expand", [rel |-> rel, dir |-> hop.dir, col |-> src, src |-> src, dst |-> dst],
                          <<Op("project", <<<<<<"col", src>>, src>>>>, <<SeedBranch(pt, acc)>>)>>)
        pairs == IF Len(hop.rels) = 1 THEN Branch(hop.rels[1])
                 ELSE Op("union", <<>>, [i \in DOMAIN hop.rels |-> Branch(hop.rels[i])])
        JoinDrop(build, probe, key) ==
            Op("drop", <<key>>, <<Op("join", [build_key |-> key, probe_key |-> key, kind |-> "inner"], <<build, probe>>)>>)
    IN [tree |-> JoinDrop(JoinDrop(acc.tree, pairs, src), ScanForAlias(pt, hop.alias, hop.store), dst),
        alias |-> hop.alias, store |-> hop.store]

PatternPipeline(pt) ==
    LET matched == FoldLeft(LAMBDA acc, hop : Hop(pt, acc, hop),
                            [tree |-> ScanForAlias(pt, pt.alias, pt.store), alias |-> pt.alias, store |-> pt.store],
                            pt.hops).tree
        kept == IF pt.where = Null THEN matched ELSE Op("filter", pt.where, <<matched>>)
    IN IF pt.return = <<>> THEN kept ELSE Op("project", pt.return, <<kept>>)

-----------------------------------------------------------------------------
(* What a plan means, over all rows at once and without operators.             *)
Times(r, s) == Cardinality({k \in DOMAIN s : s[k] = r})
SameRows(s, t) == \A r \in Range(s) \cup Range(t) : Times(r, s) = Times(r, t)
SomeRows(s, t) == \A r \in Range(s) : Times(r, s) <= Times(r, t)

(* The row at a place of the sorted order: as many rows stand before it as are *)
(* smaller, or equal and earlier.                                              *)
InPlace(b, keys) ==
    LET Place(k) == Cardinality({j \in DOMAIN b.rows :
                        \/ Before(b, keys, b.rows[j], b.rows[k])
                        \/ j < k /\ ~Before(b, keys, b.rows[k], b.rows[j])}) + 1
    IN [p \in DOMAIN b.rows |-> b.rows[CHOOSE k \in DOMAIN b.rows : Place(k) = p]]

(* The vertices at the end of a walk of k edges from v.                        *)
RECURSIVE WalkEnds(_, _, _)
WalkEnds(rel, v, k) ==
    IF k = 0 THEN {v} ELSE UNION {Range(Neighbors(rel, w, "out")) : w \in WalkEnds(rel, v, k - 1)}

(* The shortest walk of at least one edge counts, unless the hops begin at 0.  *)
PathPairs(a, seeds) ==
    {<<s, d>> \in Range(seeds) \X (0..(NumVertices - 1)) :
        LET low == IF a.min = 0 THEN 0 ELSE 1
            lengths == {k \in low..a.max : d \in WalkEnds(a.rel, s, k)}
        IN lengths # {} /\ (CHOOSE k \in lengths : \A j \in lengths : k <= j) >= a.min}

LeafMeaning(t, b) ==
    CASE t.op = "lookup" -> Select(Lookup(b, t.arg), t.arg.cols)
      [] t.op = "knn" -> Select(Knn(b, t.arg), t.arg.cols)
      [] OTHER -> Select(Batch(b.cols, SelectSeq(b.rows, LAMBDA r : t.arg.where = Null \/ compile_expr(t.arg.where, b, r) = TRUE)),
                         t.arg.cols)

(* Of a name to drop that occurs again only the later columns go.              *)
DropMeaning(b, drop) ==
    LET Stays(i) == b.cols[i] \in Range(drop) =>
                       /\ \A j \in 1..(i - 1) : b.cols[j] # b.cols[i]
                       /\ \E j \in (i + 1)..Len(b.cols) : b.cols[j] = b.cols[i]
        places == SelectSeq([i \in DOMAIN b.cols |-> i], Stays)
    IN Batch([i \in DOMAIN places |-> b.cols[places[i]]],
             [k \in DOMAIN b.rows |-> [i \in DOMAIN places |-> b.rows[k][places[i]]]])

JoinMeaning(a, build, probe) ==
    LET Partners(r) == SelectSeq(build.rows, LAMBDA x : x[Col(build, a.build_key)] = r[Col(probe, a.probe_key)])
        Rows(r, xs) == IF xs = <<>> /\ a.kind = "left" THEN <<[c \in DOMAIN build.cols |-> Null] \o r>>
                       ELSE [i \in DOMAIN xs |-> xs[i] \o r]
    IN Batch(build.cols \o probe.cols, FoldLeft(LAMBDA acc, r : acc \o Rows(r, Partners(r)), <<>>, probe.rows))

UnaryMeaning(t, b) ==
    CASE t.op = "filter" -> Batch(b.cols, SelectSeq(b.rows, LAMBDA r : compile_expr(t.arg, b, r) = TRUE))
      [] t.op = "project" -> Project(b, t.arg)
      [] t.op = "rename" -> Rename(b, t.arg)
      [] t.op = "drop" -> DropMeaning(b, t.arg)
      [] t.op = "expand" -> Expand(b, t.arg)
      [] t.op = "topk" -> Batch(b.cols, Slice(InPlace(b, t.arg.keys), t.arg.offset, t.arg.limit))
      [] t.op = "aggregate" -> Aggregate(b, t.arg)
      [] t.op = "varpath" -> Batch(<<t.arg.src, t.arg.dst>>,
                                   FoldSet(LAMBDA p, acc : Append(acc, p), <<>>, PathPairs(t.arg, Values(b, t.arg.col))))

RECURSIVE Meaning(_)
Meaning(t) ==
    CASE t.op \in Leaves -> LeafMeaning(t, Whole(run.batches[t.arg.store]))
      [] t.op = "join" -> JoinMeaning(t.arg, Meaning(t.kids[1]), Meaning(t.kids[2]))
      [] t.op = "union" -> FoldLeft(LAMBDA acc, k : LET b == Meaning(k) IN Batch(b.cols, acc.rows \o b.rows),
                                    Batch(<<>>, <<>>), t.kids)
      [] OTHER -> UnaryMeaning(t, Meaning(t.kids[1]))

RECURSIVE OpsOf(_)
OpsOf(t) == {t.op} \cup UNION {OpsOf(t.kids[i]) : i \in DOMAIN t.kids}
Random == OpsOf(run.plan) \cap {"sample", "walk"} # {}

(* What run_pipeline has yielded is part of what the plan means over all rows, *)
(* and all of it, no row twice, when the run ends.                             *)
RowsExact ==
    (~Random /\ (out # <<>> \/ phase = "done")) =>
               LET mine == AllRows(out)
                   all == Meaning(run.plan).rows
               IN IF phase = "done" THEN SameRows(mine, all) ELSE SomeRows(mine, all)

(* A sort decides the order of the answer, ties and all, whatever the chunks.  *)
OrderExact ==
    (run.plan.op = "topk" /\ out # <<>>) => IsPrefix(AllRows(out), Meaning(run.plan).rows)

(* A pattern query answers every way to match the pattern, once for each       *)
(* choice of edges, and nothing else.                                          *)
Ways(hop, x, y) ==
    FoldLeft(LAMBDA n, rel : n + (IF hop.dir \in {"out", "both"} THEN Times(<<x, y>>, run.graph[rel]) ELSE 0)
                               + (IF hop.dir \in {"in", "both"} THEN Times(<<y, x>>, run.graph[rel]) ELSE 0),
             0, hop.rels)

Copies(n, x) == [i \in 1..n |-> x]
Matches(pt) ==
    LET Rows(store) == Select(Whole(run.batches[store]), pt.cols).rows
        id == CHOOSE i \in DOMAIN pt.cols : pt.cols[i] = pt.id
        Further(m, hop, r) == Copies(Ways(hop, m.at, r[id]), [row |-> m.row \o r, at |-> r[id]])
    IN FoldLeft(LAMBDA ms, hop : FoldLeft(LAMBDA acc, m : FoldLeft(LAMBDA x, r : x \o Further(m, hop, r), acc, Rows(hop.store)),
                                          <<>>, ms),
                FoldLeft(LAMBDA x, r : Append(x, [row |-> r, at |-> r[id]]), <<>>, Rows(pt.store)), pt.hops)

PatternExact ==
    (run.pattern # Null /\ phase = "done") =>
        LET ms == Matches(run.pattern)
        IN SameRows(AllRows(out), [k \in DOMAIN ms |-> ms[k].row])

(* LIMIT answers the first rows of the unlimited answer and is never exceeded. *)
LimitExact ==
    \A k \in 0..3 : AllRows(ApplyLimit(out, k)) = Slice(AllRows(out), 0, k)

(* At the end of its stream an operator goes on answering None.                *)
EndIsSticky == Idle /\ phase \in {"lingering", "again", "over"} => ret.kind # "batch"

(* The answer of a plan is what it means over all rows at once, however the    *)
(* stores cut their rows into batches, in the order and within the limit asked *)
(* for; a pattern query answers every match once, and the end of a stream      *)
(* stays its end.                                                              *)
AnswerExact == RowsExact /\ OrderExact /\ PatternExact /\ LimitExact /\ EndIsSticky

(* Sampling: a layer draws from the vertices the layer before has reached and  *)
(* from all of them, only along edges, and for each vertex and edge type as    *)
(* many as the fanout says.                                                    *)
SamplesExact ==
    (run.plan.op = "sample" /\ phase = "done") =>
        LET a == run.plan.arg
            Reached(l) == IF l = 1 THEN Range(Values(Meaning(run.plan.kids[1]), a.col))
                          ELSE {out[l - 1].rows[k][2] : k \in DOMAIN out[l - 1].rows}
            Wanted(l, v, e) == LET deg == Len(Neighbors(a.rels[e], v, "out"))
                               IN IF a.layers[l] = 0 \/ a.strategy = "all" THEN deg
                                  ELSE IF a.replace /\ deg > 0 THEN a.layers[l]
                                  ELSE IF deg < a.layers[l] THEN deg ELSE a.layers[l]
            Drawn(l, v, e) == SelectSeq(out[l].rows, LAMBDA r : r[1] = v /\ r[3] = e)
        IN /\ \A l \in DOMAIN out :
                /\ \A v \in 0..(NumVertices - 1), e \in DOMAIN a.rels :
                      Len(Drawn(l, v, e)) = IF v \in Reached(l) THEN Wanted(l, v, e) ELSE 0
                /\ \A k \in DOMAIN out[l].rows :
                      LET r == out[l].rows[k]
                      IN /\ r[2] \in Range(Neighbors(a.rels[r[3]], r[1], "out"))
                         /\ ~a.replace => Times(r, out[l].rows) <= Times(<<r[1], r[2]>>, run.graph[a.rels[r[3]]])
           /\ Len(out) < Len(a.layers) =>
                \A v \in Reached(Len(out) + 1), e \in DOMAIN a.rels : Wanted(Len(out) + 1, v, e) = 0

(* Every walk follows edges from its seed and stops before its length only at  *)
(* a dead end; each seed has its number of walks.                              *)
WalksExact ==
    (run.plan.op = "walk" /\ phase = "done") =>
        LET a == run.plan.arg
            seeds == Values(Meaning(run.plan.kids[1]), a.col)
            Walk(id) == SelectSeq(AllRows(out), LAMBDA r : r[1] = id)
        IN /\ {AllRows(out)[k][1] : k \in DOMAIN AllRows(out)} = 0..(Len(seeds) * a.walks - 1)
           /\ \A id \in 0..(Len(seeds) * a.walks - 1) :
                LET w == Walk(id)
                IN /\ w[1][3] = seeds[(id \div a.walks) + 1]
                   /\ \A i \in DOMAIN w : w[i][2] = i - 1
                   /\ \A i \in 1..(Len(w) - 1) : w[i + 1][3] \in Range(Neighbors(a.rel, w[i][3], "out"))
                   /\ Len(w) = a.length \/ (Len(w) < a.length /\ Neighbors(a.rel, Last(w)[3], "out") = <<>>)

(* What the random operators draw is what they may draw.                       *)
DrawsExact == SamplesExact /\ WalksExact

(* When a run is over, however it ended, no operator is left open: but for the *)
(* branches of a union one of whose later branches failed to open.             *)
NothingLeftOpen ==
    phase \in Over =>
        \A n \in opened \ closed :
            \E u \in Operators \ opened : IsStrictPrefix(u, n) /\ Node(u).op = "union"
=============================================================================
