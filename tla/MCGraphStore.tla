---------------------------- MODULE MCGraphStore ----------------------------
(* Instance of GraphStore for TLC: two classes and two relations, so that an   *)
(* upsert may move rows between stores.  Node keys are interchangeable.        *)
EXTENDS GraphStore

CONSTANTS x, y
MCKeys == {x, y}
MCPairs == {<<x, y>>, <<y, x>>}
(* Tables of one row of the first class, and those of two keys in two classes. *)
TableRow(k, c) == [key |-> k, type |-> c]
MCTables ==
    {<<TableRow(k, "A")>> : k \in MCKeys}
    \cup {<<TableRow(p[1], "A"), TableRow(p[2], "B")>> : p \in MCPairs}
MCClasses == <<"A", "B">>
MCRelations == <<"R", "S">>
KeySymmetry == Permutations(MCKeys)
=============================================================================
