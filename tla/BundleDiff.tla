----------------------------- MODULE BundleDiff -----------------------------
(***************************************************************************)
(* caracaldb/storage/diff.py: the comparison of two bundles, each written  *)
(* by one process at a time.  A bundle here is its catalog (names of       *)
(* classes and properties, the empty name left out) and its stores: for a  *)
(* class the names of the columns and the ids of the rows, for a property  *)
(* the pairs of its edges.  Values, types and repeated rows are not        *)
(* compared by the code and are left out.                                  *)
(***************************************************************************)
EXTENDS Integers, FiniteSets, Sequences

CONSTANTS Classes, Relations, NodeIds, Edges, Columns,
          NidOnly,    \* the columns of a node store without rows
          NoStore,    \* there is no directory
          Broken      \* there is one that cannot be read: a call was cut short in it

(* The store of a class; that of a property is a set of edges.                 *)
NodeStore == [ids : SUBSET NodeIds, cols : Columns \cup {NidOnly}]
Empty == [ids |-> {}, cols |-> NidOnly]
Unreadable == {NoStore, Broken}

ASSUME DiffConstants ==
    /\ \A s \in Unreadable : s \notin NodeStore /\ \A E \in SUBSET Edges : s # E
    /\ NoStore # Broken

VARIABLES a, b    \* the two bundles
diffVars == <<a, b>>

Nothing == [classes |-> {}, props |-> {}, nodes |-> [c \in Classes |-> NoStore], edges |-> [r \in Relations |-> NoStore]]

DiffInit == a = Nothing /\ b = Nothing

(* _node_id_set and _edge_pair_set: rows inserted twice count once.            *)
NodeIdSet(x, c) == x.nodes[c].ids
EdgePairSet(x, r) == x.edges[r]

(* A name enters the catalog by itself, its store by a later step or never:    *)
(* insert_triples defines the properties of literals, which have no edges.     *)
Declared(x, c) == [x EXCEPT !.classes = @ \cup {c}]
Defined(x, r) == [x EXCEPT !.props = @ \cup {r}]

(* Opening a store with create=True makes the directory, then the manifest;    *)
(* an upsert removes the directory first and may leave the store empty.        *)
Prepared(s, empty) == IF s = NoStore THEN {Broken} ELSE IF s = Broken THEN {empty} ELSE {Broken, NoStore}

(* Rows are appended to a store that was opened; the first fix its columns,    *)
(* others must have the same.                                                  *)
Inserted(s) ==
    IF s \in Unreadable THEN {}
    ELSE {[ids |-> s.ids \cup {i}, cols |-> k] : i \in NodeIds, k \in {cols \in Columns : s.cols \in {NidOnly, cols}}}
Linked(s) == IF s \in Unreadable THEN {} ELSE {s \cup {e} : e \in Edges}

ClassesChanged(x) ==
    UNION {{[x EXCEPT !.nodes[c] = s] : s \in Prepared(x.nodes[c], Empty) \cup Inserted(x.nodes[c])} : c \in x.classes}
RelationsChanged(x) ==
    UNION {{[x EXCEPT !.edges[r] = s] : s \in Prepared(x.edges[r], {}) \cup Linked(x.edges[r])} : r \in x.props}
Changed(x) ==
    {Declared(x, c) : c \in Classes} \cup {Defined(x, r) : r \in Relations}
    \cup ClassesChanged(x) \cup RelationsChanged(x)

DiffNext == (a' \in Changed(a) /\ UNCHANGED b) \/ (b' \in Changed(b) /\ UNCHANGED a)
DiffSpec == DiffInit /\ [][DiffNext]_diffVars

-----------------------------------------------------------------------------
ClassDiff(x, y, c) ==
    [added |-> NodeIdSet(y, c) \ NodeIdSet(x, c), removed |-> NodeIdSet(x, c) \ NodeIdSet(y, c),
     schema |-> x.nodes[c].cols # y.nodes[c].cols]
RelationDiff(x, y, r) ==
    [added |-> EdgePairSet(y, r) \ EdgePairSet(x, r), removed |-> EdgePairSet(x, r) \ EdgePairSet(y, r)]

(* Classes and properties of both catalogs, where both bundles have a store.   *)
SharedClasses(x, y) == {c \in x.classes \cap y.classes : x.nodes[c] # NoStore /\ y.nodes[c] # NoStore}
SharedProps(x, y) == {r \in x.props \cap y.props : x.edges[r] # NoStore /\ y.edges[r] # NoStore}

(* Opening one of them raises: there is a directory and nothing to read.       *)
DiffRaises(x, y) ==
    \/ \E c \in SharedClasses(x, y) : Broken \in {x.nodes[c], y.nodes[c]}
    \/ \E r \in SharedProps(x, y) : Broken \in {x.edges[r], y.edges[r]}

DiffBundles(x, y) ==
    [classesAdded |-> y.classes \ x.classes, classesRemoved |-> x.classes \ y.classes,
     propsAdded |-> y.props \ x.props, propsRemoved |-> x.props \ y.props,
     nodes |-> [c \in SharedClasses(x, y) |-> ClassDiff(x, y, c)],
     edges |-> [r \in SharedProps(x, y) |-> RelationDiff(x, y, r)]]

MutIsEmpty(d) ==
    /\ d.classesAdded = {} /\ d.classesRemoved = {} /\ d.propsAdded = {} /\ d.propsRemoved = {}
    /\ \A c \in DOMAIN d.nodes : d.nodes[c].added = {} /\ d.nodes[c].removed = {} /\ ~d.nodes[c].schema
IsEmpty(d) ==
    /\ d.classesAdded = {} /\ d.classesRemoved = {} /\ d.propsAdded = {} /\ d.propsRemoved = {}
    /\ \A c \in DOMAIN d.nodes : d.nodes[c].added = {} /\ d.nodes[c].removed = {} /\ ~d.nodes[c].schema
    /\ \A r \in DOMAIN d.edges : d.edges[r].added = {} /\ d.edges[r].removed = {}

-----------------------------------------------------------------------------
(* What the diff skips: a name of both catalogs with a directory in only one   *)
(* of the bundles, rows or none in it.                                         *)
Unfilled == {c \in a.classes \cap b.classes : (a.nodes[c] = NoStore) # (b.nodes[c] = NoStore)}
Unlinked == {r \in a.props \cap b.props : (a.edges[r] = NoStore) # (b.edges[r] = NoStore)}

(* A diff that does not raise is empty exactly for bundles of the same names,  *)
(* columns, ids and pairs, except where it skips a class (Unfilled) or a       *)
(* relation (Unlinked): all the rows of the one bundle go unreported there.    *)
(* And it "is symmetric under swapping a and b" (storage/diff.py:162): what is *)
(* added in one direction is removed in the other, and both raise or neither.  *)
DiffExact ==
    LET d == DiffBundles(a, b)
        e == DiffBundles(b, a)
        Compared(x) == [classes |-> x.classes, props |-> x.props,
                        nodes |-> [c \in Classes \ Unfilled |-> x.nodes[c]],
                        edges |-> [r \in Relations \ Unlinked |-> x.edges[r]]]
    IN /\ DiffRaises(a, b) <=> DiffRaises(b, a)
       /\ ~DiffRaises(a, b) =>
            /\ IsEmpty(d) <=> Compared(a) = Compared(b)
            /\ d.classesAdded = e.classesRemoved /\ d.propsAdded = e.propsRemoved
            /\ DOMAIN d.nodes = DOMAIN e.nodes /\ DOMAIN d.edges = DOMAIN e.edges
            /\ \A c \in DOMAIN d.nodes : d.nodes[c].added = e.nodes[c].removed /\ d.nodes[c].schema = e.nodes[c].schema
            /\ \A r \in DOMAIN d.edges : d.edges[r].added = e.edges[r].removed

=============================================================================
