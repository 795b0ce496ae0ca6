----------------------------- MODULE PathQuery -----------------------------
(***************************************************************************)
(* Variable-length pattern queries of caracaldb/api.py,                    *)
(*     MATCH p = (a:A {..})-[:R|S*min..max {..}]->(b:B {..})               *)
(*     WHERE ... RETURN ... ORDER BY ... SKIP ... LIMIT ...                *)
(* which run on their own loop over the adjacency lists of Traversal, one  *)
(* turn of it a step, and not on the physical operators.                   *)
(*                                                                         *)
(* A node row has one property besides its id, which may be missing        *)
(* (None).  An expression is a tuple: <<"lit", v>>, <<"prop", alias>>,     *)
(* <<"length">>, or an operator before its operands.                       *)
(***************************************************************************)
EXTENDS Traversal

CONSTANTS
    Prop,         \* the property of each node, an integer or Missing
    Missing,      \* None
    PathQueries   \* [from, fromProp, to, toProp, min, max, where, return, orderBy, skip, limit, ...]

-----------------------------------------------------------------------------
(* _compile_variable_length_pattern: at least one hop unless the query says    *)
(* otherwise, at most as many as there are vertices.                           *)
MinHops == IF query.min = Missing THEN 1 ELSE query.min
MaxHops == IF query.max = Missing THEN Larger(1, Cardinality(Nodes)) ELSE query.max

(* The nodes of a pattern (a:Type {property: value}), by internal id.          *)
Candidates(type, prop) ==
    InOrder({n \in Nodes : NodeType[n] = type /\ (prop = Missing \/ Prop[n] = prop)}, LAMBDA n : <<n>>)

MatchInit ==
    /\ theGraph \in Graphs /\ query \in PathQueries
    /\ adj = [n \in Nodes |-> Adjacency(n)]
    /\ seedsLeft = <<>> /\ frontier = <<>> /\ visited = {} /\ depths = <<>>
    /\ foundRows = <<>> /\ result = <<>> /\ stage = "compile"

MatchCompile ==
    /\ stage = "compile"
    /\ \/ /\ MaxHops < MinHops
          /\ stage' = "failed" /\ UNCHANGED seedsLeft
       \/ /\ MinHops <= MaxHops
          /\ stage' = "loop" /\ seedsLeft' = Candidates(query.from, query.fromProp)
    /\ UNCHANGED <<theGraph, query, adj, frontier, visited, depths, foundRows, result>>

(* _enumerate_paths_to_targets.  A path is simple: it never comes back to its  *)
(* source, and there is none of length 0 although a range may begin there.     *)
IsTarget(p) ==
    /\ Depth(p) >= MinHops
    /\ NodeType[Last(p.nodes)] = query.to /\ (query.toProp = Missing \/ Prop[Last(p.nodes)] = query.toProp)

MatchStep ==
    /\ stage = "loop" /\ frontier # <<>>
    /\ LET more == IF Depth(Head(frontier)) >= MaxHops THEN <<>> ELSE Onward(Head(frontier)) IN
       /\ foundRows' = foundRows \o SelectSeq(more, IsTarget)
       /\ frontier' = Tail(frontier) \o SelectSeq(more, LAMBDA p : Depth(p) < MaxHops)
    /\ UNCHANGED <<theGraph, query, adj, seedsLeft, visited, depths, result, stage>>

HopKey(p) == <<Depth(p)>> \o p.nodes \o Eids(p)

-----------------------------------------------------------------------------
(* _eval_var_path_value: both sides of an operator are evaluated, and an order *)
(* comparison with None raises.                                                *)
BoundNode(p, alias) == IF alias = "a" THEN p.nodes[1] ELSE Last(p.nodes)

Scalar(e, p) ==
    CASE e[1] = "lit" -> e[2]
      [] e[1] = "prop" -> Prop[BoundNode(p, e[2])]
      [] e[1] = "length" -> Depth(p)

Comparisons == {"eq", "ne", "lt", "le", "gt", "ge"}
Compares(op, x, y) ==
    CASE op = "eq" -> x = y
      [] op = "ne" -> x # y
      [] op = "lt" -> x < y
      [] op = "le" -> x <= y
      [] op = "gt" -> x > y
      [] op = "ge" -> x >= y

RECURSIVE ComparesNone(_, _)
ComparesNone(e, p) ==
    \/ e[1] \in {"lt", "le", "gt", "ge"} /\ (Scalar(e[2], p) = Missing \/ Scalar(e[3], p) = Missing)
    \/ e[1] \in {"and", "or"} /\ (ComparesNone(e[2], p) \/ ComparesNone(e[3], p))
    \/ e[1] = "not" /\ ComparesNone(e[2], p)

RECURSIVE Holds(_, _)
Holds(e, p) ==
    CASE e[1] \in Comparisons -> Compares(e[1], Scalar(e[2], p), Scalar(e[3], p))
      [] e[1] = "and" -> Holds(e[2], p) /\ Holds(e[3], p)
      [] e[1] = "or" -> Holds(e[2], p) \/ Holds(e[3], p)
      [] e[1] = "not" -> ~Holds(e[2], p)
      [] OTHER -> Scalar(e, p) # Missing /\ Scalar(e, p) # 0

Refused(paths) == query.where # Missing /\ \E p \in paths : ComparesNone(query.where, p)

(* The rows of a source are sorted and filtered before the next source's.      *)
MatchSourceEnd ==
    /\ stage = "loop" /\ frontier = <<>>
    /\ LET mine == SortedBy(foundRows, HopKey) IN
       \/ /\ Refused(Range(mine))
          /\ stage' = "failed" /\ UNCHANGED <<result, seedsLeft, frontier, foundRows>>
       \/ /\ ~Refused(Range(mine))
          /\ result' = result \o SelectSeq(mine, LAMBDA p : query.where = Missing \/ Holds(query.where, p))
          /\ foundRows' = <<>>
          /\ IF seedsLeft = <<>> THEN stage' = "project" /\ UNCHANGED <<seedsLeft, frontier>>
             ELSE frontier' = <<PathFrom(Head(seedsLeft))>> /\ seedsLeft' = Tail(seedsLeft) /\ UNCHANGED stage
    /\ UNCHANGED <<theGraph, query, adj, visited, depths>>

-----------------------------------------------------------------------------
(* _project_var_path_row.  A column without AS is named after its property, so *)
(* that of two such columns the later one stays.                               *)
Column(c, p) ==
    CASE c.kind = "path" -> p
      [] c.kind = "length" -> Depth(p)
      [] c.kind = "property" -> Prop[BoundNode(p, c.alias)]
      [] c.kind = "node_id" -> BoundNode(p, c.alias)
      [] c.kind = "literal" -> c.value

ReturnedRow(p) ==
    LET cs == query.return
        Latest(name) == CHOOSE i \in DOMAIN cs : cs[i].name = name /\ \A j \in (i + 1)..Len(cs) : cs[j].name # name
    IN [name \in {cs[i].name : i \in DOMAIN cs} |-> Column(cs[Latest(name)], p)]

SortKeys == Reverse(query.orderBy)

MatchProject ==
    /\ stage = "project"
    /\ result' = [i \in DOMAIN result |-> ReturnedRow(result[i])]
    /\ frontier' = SortKeys /\ stage' = "modify"
    /\ UNCHANGED <<theGraph, query, adj, seedsLeft, visited, depths, foundRows>>

(* _apply_modifiers: one stable sort for each key, the last key first; None    *)
(* does not compare with anything.  Then SKIP and LIMIT.                       *)
SortRaises(o) == Len(result) > 1 /\ \E i \in DOMAIN result : result[i][o.name] = Missing

SortPass ==
    /\ stage = "modify" /\ frontier # <<>>
    /\ LET o == Head(frontier) IN
       \/ /\ SortRaises(o)
          /\ stage' = "failed" /\ UNCHANGED <<result, frontier>>
       \/ /\ ~SortRaises(o)
          /\ result' = SortedBy(result, LAMBDA r : <<IF o.desc THEN -r[o.name] ELSE r[o.name]>>)
          /\ frontier' = Tail(frontier) /\ UNCHANGED stage
    /\ UNCHANGED <<theGraph, query, adj, seedsLeft, visited, depths, foundRows>>

SkipLimit ==
    /\ stage = "modify" /\ frontier = <<>>
    /\ LET rest == IF query.skip = Missing THEN result ELSE SubSeq(result, query.skip + 1, Len(result))
       IN result' = Upto(rest, IF query.limit = Missing THEN NoLimit ELSE query.limit)
    /\ stage' = "done"
    /\ UNCHANGED <<theGraph, query, adj, seedsLeft, frontier, visited, depths, foundRows>>

MatchTurn == MatchCompile \/ MatchStep \/ MatchSourceEnd \/ MatchProject \/ SortPass \/ SkipLimit

-----------------------------------------------------------------------------
(* The simple paths from a node, level by level.                               *)
PathsFrom(n) ==
    LET P[i \in 0..MaxHops] ==
            IF i = 0 THEN {PathFrom(n)}
            ELSE UNION {{Extend(p, s) : s \in {x \in Range(adj[Last(p.nodes)]) : x.next \notin Range(p.nodes)}} : p \in P[i - 1]}
    IN UNION {P[i] : i \in 1..MaxHops}

Matched ==
    {p \in UNION {PathsFrom(n) : n \in Range(Candidates(query.from, query.fromProp))} : IsTarget(p)}

(* A variable-length query answers with the paths that match the pattern and   *)
(* its WHERE, each once, by source, length, nodes and edges, or in the order   *)
(* asked for with that as the last resort; SKIP and LIMIT cut a window out of  *)
(* it.  It fails exactly for an empty range, or when it compares None.         *)
MatchExact ==
    LET good == {p \in Matched : query.where = Missing \/ Holds(query.where, p)}
        Key(p) == [k \in DOMAIN query.orderBy |->
                      LET o == query.orderBy[k]
                          v == ReturnedRow(p)[o.name]
                      IN IF o.desc THEN -v ELSE v]
                  \o <<p.nodes[1]>> \o HopKey(p) \o [i \in DOMAIN p.edges |-> p.edges[i].type]
        SortsNone == Cardinality(good) > 1 /\ \E p \in good, k \in DOMAIN query.orderBy :
                                                  ReturnedRow(p)[query.orderBy[k].name] = Missing
        Wrong == MaxHops < MinHops \/ Refused(Matched) \/ SortsNone
        after == {[place |-> Cardinality({o \in good : TupleLess(Key(o), Key(p))}), row |-> ReturnedRow(p)] : p \in good}
        first == IF query.skip = Missing THEN 0 ELSE query.skip
        size == IF query.limit = Missing THEN Cardinality(good) ELSE query.limit
    IN /\ stage = "failed" => Wrong
       /\ stage = "done" /\ query.op = "match" =>
             /\ ~Wrong
             /\ {[place |-> first + i - 1, row |-> result[i]] : i \in DOMAIN result}
                   = {x \in after : x.place \in first..(first + size - 1)}

(* Every traversal and every variable-length query answers what its definition *)
(* without queues gives, in order and within its limits.                       *)
GraphCallsExact == TraversalsExact /\ MatchExact
=============================================================================
