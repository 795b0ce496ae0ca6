---------------------------- MODULE MCOperators ----------------------------
(* Model checking of the engines that answer queries: the operators of         *)
(* Python (Operators), over small stores cut into batches in every way, with   *)
(* the plans of their tests and of the query compiler; the Rust core           *)
(* (NativeOps); the traversals of the facade (Traversal) and its variable-     *)
(* length queries (PathQuery), over parts of a graph with a diamond, a cycle,  *)
(* parallel edges and a loop.  A behaviour is one call of one of them.         *)
EXTENDS NativeOps, GnnSampling, PathQuery, TLC

VARIABLE part  \* the engine
vars == <<opVars, nativeVars, travVars, gnnVars, part>>

(* The ways to cut the rows of a store into batches, one of them empty.        *)
Cuts(cols, all) ==
    {<<Batch(cols, all)>>, <<Batch(cols, <<>>), Batch(cols, all)>>}
    \cup {<<Batch(cols, SubSeq(all, 1, k)), Batch(cols, SubSeq(all, k + 1, Len(all)))>> : k \in 1..(Len(all) - 1)}
    \cup {[k \in DOMAIN all |-> Batch(cols, <<all[k]>>)]}

Node3 == <<"nid", "score">>
People == <<<<0, 2>>, <<1, Null>>, <<2, 1>>, <<2, 2>>>>
Genes == <<<<0, 1>>, <<1, 1>>, <<2, Null>>>>
Far == <<<<0, 1>>, <<3, 1>>>>

Scan(store) == Op("scan", [store |-> store, where |-> Null, cols |-> Node3], <<>>)
Where(store, e) == Op("scan", [store |-> store, where |-> e, cols |-> Node3], <<>>)
Eq(c, v) == <<"eq", <<"col", c>>, <<"lit", v>>>>
Either == <<"or", Eq("score", 2), <<"not", Eq("nid", 2)>>>>
Few == <<"and", <<"in", <<"col", "nid">>, {1, 2}>>, <<"ge", <<"col", "score">>, <<"lit", 1>>>>>>

Ring == [p |-> <<<<0, 1>>, <<1, 2>>, <<2, 0>>, <<0, 2>>>>, q |-> <<<<0, 1>>, <<1, 1>>>>]
Chain == [p |-> <<<<0, 1>>, <<0, 1>>, <<1, 2>>>>, q |-> <<<<2, 0>>>>]

Case(plan, graph, batches, flaky) ==
    [plan |-> plan, graph |-> graph, batches |-> batches, flaky |-> flaky, pattern |-> Null]
Stores(all) == {[s |-> c] : c \in Cuts(Node3, all)}

JoinArg(kind) == [build_key |-> "nid", probe_key |-> "score", kind |-> kind]
Hopping(rel, dir, store) == Op("expand", [rel |-> rel, dir |-> dir, col |-> "nid", src |-> "src", dst |-> "dst"], <<store>>)

Relational == {
    Op("project", <<<<<<"col", "score">>, "x">>, <<<<"lit", 7>>, "y">>>>, <<Op("filter", Either, <<Scan("s")>>)>>),
    Op("topk", [keys |-> <<<<"score", TRUE>>>>, limit |-> 2, offset |-> 1], <<Op("filter", Few, <<Scan("s")>>)>>),
    Op("topk", [keys |-> <<<<"score", TRUE>>, <<"nid", FALSE>>>>, limit |-> 2, offset |-> 1], <<Scan("s")>>),
    Op("topk", [keys |-> <<<<"age", TRUE>>>>, limit |-> Null, offset |-> 0], <<Scan("s")>>),
    Op("aggregate", [group |-> <<"nid">>, aggs |-> <<<<"score", "sum", "total">>, <<Null, "count_star", "n">>>>], <<Scan("s")>>),
    Op("aggregate", [group |-> <<>>, aggs |-> <<<<"score", "count", "n">>, <<"score", "max", "m">>>>], <<Scan("s")>>),
    Op("aggregate", [group |-> <<"age">>, aggs |-> <<<<Null, "count_star", "n">>>>], <<Scan("s")>>),
    Op("join", JoinArg("inner"), <<Scan("s"), Where("s", Few)>>),
    Op("join", JoinArg("left"), <<Where("s", Few), Op("rename", [nid |-> "id"], <<Scan("s")>>)>>),
    Op("join", JoinArg("left"), <<Op("filter", Eq("score", 9), <<Scan("s")>>), Scan("s")>>),
    Op("drop", <<"nid">>, <<Op("join", JoinArg("inner"), <<Scan("s"), Scan("s")>>)>>),
    Op("drop", <<"score">>, <<Op("union", <<>>, <<Where("s", Few), Scan("s")>>)>>),
    Op("lookup", [store |-> "s", ids |-> <<2, 1, 2>>, id |-> "nid", where |-> Null, cols |-> Node3], <<>>)}

Graphic == {
    Op("varpath", [rel |-> "p", min |-> 1, max |-> 2, col |-> "nid", src |-> "src", dst |-> "dst"], <<Where("s", Few)>>),
    Op("varpath", [rel |-> "p", min |-> 2, max |-> 3, col |-> "nid", src |-> "src", dst |-> "dst"], <<Scan("s")>>),
    Op("varpath", [rel |-> "q", min |-> 0, max |-> 2, col |-> "nid", src |-> "src", dst |-> "dst"], <<Scan("s")>>),
    Op("union", <<>>, <<Hopping("p", "out", Scan("s")), Hopping("q", "both", Scan("s"))>>),
    Hopping("q", "in", Op("filter", Few, <<Scan("s")>>)),
    Op("triples", [store |-> "t", where |-> Eq("src", 0), cols |-> <<"dst">>], <<>>),
    Op("knn", [store |-> "v", k |-> 2, keep |-> {0, 2}, where |-> Null, cols |-> <<"nid", "distance">>], <<>>),
    Op("sample", [rels |-> <<"p", "q">>, layers |-> <<1, 2>>, replace |-> FALSE, strategy |-> "uniform", col |-> "nid"], <<Scan("s")>>),
    Op("sample", [rels |-> <<"p">>, layers |-> <<2, 0>>, replace |-> TRUE, strategy |-> "first", col |-> "nid"], <<Scan("s")>>),
    Op("walk", [rel |-> "p", length |-> 1, walks |-> 1, col |-> "nid"], <<Scan("s")>>),
    Op("walk", [rel |-> "p", length |-> 3, walks |-> 2, col |-> "nid"], <<Where("s", Few)>>)}

(* What both engines run, joins with repeated keys and with nulls on one side  *)
(* among it.                                                                   *)
On(build_key, probe_key) == [build_key |-> build_key, probe_key |-> probe_key, kind |-> "inner"]
Alike == Op("filter", Eq("score", 1), <<Scan("s")>>)
Shared == {
    Op("join", On("nid", "score"), <<Scan("s"), Scan("s")>>),
    Op("join", On("score", "nid"), <<Scan("s"), Scan("s")>>),
    Op("join", On("score", "score"), <<Alike, Scan("s")>>),
    Op("join", On("score", "src"), <<Scan("s"), Hopping("p", "out", Scan("s"))>>),
    Op("aggregate", [group |-> <<>>, aggs |-> <<<<Null, "count_star", "n">>>>],
       <<Op("join", On("score", "score"), <<Scan("s"), Alike>>)>>),
    Op("project", <<<<<<"col", "score">>, "score">>>>, <<Op("filter", Eq("nid", 2), <<Scan("s")>>)>>),
    Op("topk", [keys |-> <<<<"score", FALSE>>>>, limit |-> 2, offset |-> 1], <<Scan("s")>>),
    Op("aggregate", [group |-> <<>>, aggs |-> <<<<Null, "count_star", "n">>>>], <<Hopping("p", "out", Scan("s"))>>),
    Op("sample", [rels |-> <<"p">>, layers |-> <<1>>, replace |-> FALSE, strategy |-> "first", col |-> "nid"], <<Scan("s")>>),
    Op("sample", [rels |-> <<"p">>, layers |-> <<3>>, replace |-> TRUE, strategy |-> "first", col |-> "nid"], <<Scan("s")>>)}

Sides == [t |-> <<Batch(<<"src", "dst">>, <<<<1, 2>>>>), Batch(<<"src", "dst">>, <<<<0, 1>>, <<0, 2>>>>)>>,
          v |-> <<Batch(<<"nid", "distance">>, <<<<0, 5>>, <<1, 2>>, <<2, 3>>>>)>>]

Hop1(dir, rels) == [alias |-> "b", store |-> "g", rels |-> rels, dir |-> dir]
Hop2(dir, rels) == [alias |-> "c", store |-> "s", rels |-> rels, dir |-> dir]
Pattern(hops) == [alias |-> "a", store |-> "s", id |-> "nid", cols |-> Node3, hops |-> hops, where |-> Null, return |-> <<>>]
Patterns == {Pattern(<<Hop1("out", <<"p", "q">>)>>), Pattern(<<Hop1("both", <<"q">>)>>),
             Pattern(<<Hop1("out", <<"p">>), Hop2("in", <<"p">>)>>)}
Asked == [Pattern(<<Hop1("out", <<"p">>)>>) EXCEPT !.where = Eq("b.score", 1), !.return = <<<<<<"col", "a.nid">>, "who">>>>]

NCall(op, edges, seeds, target, min, max) ==
    [op |-> op, edges |-> edges, size |-> 3, seeds |-> seeds, target |-> target, min |-> min, max |-> max]
EdgeLists == {Ring.p, Chain.p, <<<<2, 1>>, <<0, 2>>, <<1, 0>>, <<0, 2>>>>, <<<<1, 1>>>>, <<<<0, 3>>>>}
MCNativeCalls ==
    {NCall("k_hop", e, s, 0, d[1], d[2]) : e \in EdgeLists, s \in {<<0>>, <<0, 2, 0>>, <<3>>}, d \in {<<0, 2>>, <<1, 3>>, <<2, 1>>}}
    \cup {NCall("shortest_path", e, <<s>>, t, 0, d) : e \in EdgeLists, s \in 0..2, t \in 0..3, d \in 0..2}

MCNodes == 0..3
MCNodeType == [n \in MCNodes |-> IF n \in {1, 3} THEN "Chunk" ELSE "Entity"]
MCWeight == [e \in (1..2) \X (1..5) |-> <<<<2, 1, 3, 1, 2>>, <<1, 3, 1, 2, 1>>>>[e[1]][e[2]]]

MCGraphs ==
    {<<SetToSeq(a), SetToSeq(b)>> :
        a \in {{<<0, 1>>, <<1, 3>>} \cup y : y \in {{}, {<<3, 0>>}, {<<0, 2>>, <<2, 3>>}}},
        b \in {{<<0, 1>>}, {<<1, 2>>, <<2, 2>>}}}

BaseCall == [op |-> "paths", seeds |-> <<0>>, target |-> 3, types |-> {}, depth |-> 3, limit |-> NoLimit,
         dir |-> "out", top |-> NoLimit, byWeight |-> FALSE, score |-> "none", order |-> "none",
         maxNodes |-> 9, maxEdges |-> 9, perSeed |-> NoLimit, filter |-> NoLimit]

MCQueries ==
    {[BaseCall EXCEPT !.op = "neighbors", !.dir = d, !.depth = k, !.limit = l] :
        d \in {"out", "both"}, k \in {1, 3}, l \in {NoLimit, 0, 2}}
    \cup {[BaseCall EXCEPT !.op = "neighbors", !.seeds = <<1, 0, 1>>, !.dir = "in", !.types = {"Entity"},
                       !.byWeight = TRUE, !.top = 1, !.score = s, !.order = "desc", !.limit = l] :
            s \in {"sum", "min"}, l \in {NoLimit, 1}}
    \cup {[BaseCall EXCEPT !.op = "k_hop", !.seeds = ss, !.dir = d, !.depth = k, !.maxNodes = n, !.maxEdges = e] :
            ss \in {<<0>>, <<2, 1>>}, d \in {"out", "both"}, k \in {0, 2}, n \in {1, 3, 9}, e \in {2, 9}}
    \cup {[BaseCall EXCEPT !.dir = d, !.depth = k, !.limit = l, !.target = t] :
            d \in {"out", "both"}, k \in {2, 3}, l \in {NoLimit, 1}, t \in {0, 3}}
    \cup {[BaseCall EXCEPT !.score = s, !.order = o, !.limit = 2, !.dir = "both"] :
            s \in {"max", "product"}, o \in {"asc", "desc"}}
    \cup {[BaseCall EXCEPT !.op = "multi_seed", !.seeds = ss, !.types = {"Chunk"}, !.dir = d, !.perSeed = p,
                       !.limit = l, !.score = s, !.order = "desc"] :
            ss \in {<<0, 2>>, <<1, 2>>}, d \in {"out", "both"}, p \in {NoLimit, 1},
            l \in {NoLimit, 2}, s \in {"none", "sum"}}
    \cup {[BaseCall EXCEPT !.op = "evidence", !.seeds = ss, !.types = {"Chunk"}, !.dir = d, !.perSeed = p,
                       !.limit = l, !.byWeight = TRUE] :
            ss \in {<<0, 2>>, <<0, 0>>, <<3>>}, d \in {"out", "both"}, p \in {1, 50}, l \in {2, 9}}

Returned(kind, name, alias) == [kind |-> kind, name |-> name, alias |-> alias, value |-> 7]
By(name, desc) == [name |-> name, desc |-> desc]
MCProp == [n \in MCNodes |-> <<1, Missing, 2, 1>>[n + 1]]

BaseMatch == BaseCall @@ [from |-> "Entity", fromProp |-> Missing, to |-> "Chunk", toProp |-> Missing, min |-> Missing, max |-> Missing,
    where |-> Missing, return |-> <<Returned("path", "p", "p")>>, orderBy |-> <<>>, skip |-> Missing, limit |-> Missing]
Matching == [BaseMatch EXCEPT !.op = "match", !.limit = Missing]
LongNodes == <<Returned("length", "length", "p"), Returned("node_id", "a", "a"), Returned("node_id", "b", "b")>>
Longer == <<"gt", <<"length">>, <<"lit", 1>>>>
SameProp == <<"or", <<"eq", <<"prop", "a">>, <<"prop", "b">>>>, <<"not", <<"ne", <<"lit", 1>>, <<"length">>>>>>>>
LessProp == <<"and", <<"le", <<"prop", "b">>, <<"prop", "a">>>>, <<"prop", "a">>>>

MCPathQueries ==
    {[Matching EXCEPT !.min = r[1], !.max = r[2], !.dir = d, !.where = w] :
        r \in {<<Missing, Missing>>, <<0, 2>>, <<2, 3>>, <<3, 1>>}, d \in {"out", "both"}, w \in {Missing, Longer, LessProp}}
    \cup {[Matching EXCEPT !.dir = d, !.filter = 1, !.where = SameProp] : d \in {"out", "both"}}
    \cup {[Matching EXCEPT !.to = t, !.toProp = v, !.dir = "both", !.max = 3, !.return = LongNodes, !.orderBy = o, !.skip = k[1], !.limit = k[2]] :
            t \in {"Chunk", "Entity"}, v \in {Missing, 1},
            o \in {<<By("length", TRUE)>>, <<By("b", FALSE), By("length", TRUE)>>, <<By("a", TRUE), By("length", FALSE)>>},
            k \in {<<Missing, Missing>>, <<1, 2>>, <<9, 1>>, <<Missing, 0>>}}
    \cup {[Matching EXCEPT !.to = t, !.fromProp = 1, !.max = 2, !.return = <<Returned("property", "x", "a"), Returned("literal", "y", "a"), Returned("property", "x", "b")>>,
                         !.orderBy = o] : t \in {"Chunk", "Entity"}, o \in {<<>>, <<By("x", FALSE)>>}}

MCExternalId == [k \in 10..12 |-> k - 10]

Gnn(graph, seeds, fanouts, rels, dir, maxNodes, maxEdges) ==
    Case(Op("gnn", [seeds |-> seeds, space |-> "external", fanouts |-> fanouts, rels |-> rels, dir |-> dir, replace |-> FALSE,
                    strategy |-> "uniform", maxNodes |-> maxNodes, maxEdges |-> maxEdges, batchSize |-> Null, shuffle |-> FALSE], <<>>),
         graph, [s |-> <<>>], "no")
Loader(c, b, sh) == [c EXCEPT !.plan.arg.batchSize = b, !.plan.arg.shuffle = sh]

MCGnnCases ==
    {Gnn(g, ss, <<1, 2>>, <<"p", "q">>, d, n, e) :
        g \in {Ring, Chain}, ss \in {<<11, 10, 11>>, <<12>>}, d \in {"out", "both"}, n \in {Null, 1, 2}, e \in {Null, 0, 1, 3}}
    \cup {Gnn(g, ss, <<0, 0>>, rels, d, Null, e) :
            g \in {Ring, Chain}, ss \in {<<10>>, <<>>, <<12, 13>>}, rels \in {<<"p">>, <<"q", "p">>}, d \in {"out", "in", "both"}, e \in {Null, 2}}
    \cup {[Gnn(g, <<0, 5>>, <<1, 1>>, <<"p">>, "in", n, Null) EXCEPT !.plan.arg.space = "internal", !.plan.arg.replace = r, !.plan.arg.strategy = st] :
            g \in {Ring, Chain}, n \in {Null, 2}, r \in BOOLEAN, st \in {"uniform", "first", "all"}}
    \cup {Loader(Gnn(g, ss, <<1>>, <<"p">>, "out", Null, Null), b, sh) :
            g \in {Ring, Chain}, ss \in {Null, <<12, 10, 12>>, <<10, 13>>, <<>>}, b \in {1, 2, 3}, sh \in BOOLEAN}

MCCases ==
    MCGnnCases
    \cup {Case(t, Ring, b, "no") : t \in Relational, b \in Stores(People)}
    \cup {Case(t, g, b @@ Sides, "no") : t \in Graphic, g \in {Ring, Chain}, b \in Stores(Genes)}
    \cup {Case(t, Ring, b @@ Sides, "no") : t \in Graphic, b \in Stores(Far)}
    \cup {Case(t, Chain, b, "no") : t \in Shared, b \in Stores(Genes)}
    \cup {Case(t, Chain, [s |-> <<Batch(Node3, Genes)>>] @@ Sides, f) : t \in Relational \cup Graphic, f \in {"open", "next"}}
    \cup {[Case(PatternPipeline(pt), g, [s |-> b.s, g |-> <<Batch(Node3, Genes)>>], "no") EXCEPT !.pattern = pt] :
            pt \in Patterns, g \in {Ring, Chain}, b \in {[s |-> <<Batch(Node3, <<People[1], People[2]>>), Batch(Node3, <<People[3]>>)>>]}}
    \cup {Case(PatternPipeline(Asked), Ring, [s |-> <<Batch(Node3, Genes)>>, g |-> <<Batch(Node3, Genes)>>], f) : f \in {"no", "open"}}

-----------------------------------------------------------------------------
Only(mine, S) == IF part = mine THEN S ELSE {CHOOSE x \in S : TRUE}

Init ==
    /\ part \in {"python", "native", "api", "match", "gnn"}
    /\ call \in Only("native", NativeCalls) /\ run \in Only(IF part = "gnn" THEN "gnn" ELSE "python", {c \in Cases : (c.plan.op = "gnn") = (part = "gnn")})
    /\ theGraph \in IF part \in {"api", "match"} THEN Graphs ELSE {CHOOSE g \in Graphs : TRUE}
    /\ query \in IF part = "match" THEN PathQueries ELSE Only("api", Queries)
    /\ OpInit /\ NativeInit /\ GnnInit
    /\ IF part = "match" THEN MatchInit ELSE TravInit

Python == part = "python" /\ OpNext /\ UNCHANGED <<nativeVars, travVars, gnnVars, part>>
Native == part = "native" /\ NativeTurn /\ UNCHANGED <<opVars, travVars, gnnVars, part>>
Facade == part = "api" /\ Turn /\ UNCHANGED <<opVars, nativeVars, gnnVars, part>>

Match == part = "match" /\ MatchTurn /\ UNCHANGED <<opVars, nativeVars, gnnVars, part>>
Sampler == part = "gnn" /\ GnnTurn /\ UNCHANGED <<opVars, nativeVars, travVars, part>>

Next == Python \/ Native \/ Facade \/ Match \/ Sampler

(* Once called, each engine goes on until it answers; only the consumer of a   *)
(* pipeline may leave it where it is.                                          *)
GoesOn ==
    \/ part = "python" /\ (Operator \/ Pipeline) /\ UNCHANGED <<nativeVars, travVars, gnnVars, part>>
    \/ Native
    \/ Facade
    \/ Match
    \/ Sampler

Spec == Init /\ [][Next]_vars /\ WF_vars(GoesOn)

(* Every call ends, on cyclic graphs too: a pipeline with its answer, with an  *)
(* error, or because its consumer left; a traversal with its answer.           *)
CallsEnd ==
    <>(CASE part = "python" -> phase \in Over
         [] part = "native" -> npc \in {"done", "failed"}
         [] part = "gnn" -> gnnStage \in {"done", "failed"}
         [] OTHER -> stage \in {"done", "failed"})
=============================================================================
