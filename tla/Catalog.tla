------------------------------ MODULE Catalog ------------------------------
(***************************************************************************)
(* The ontology catalog of a directory bundle and the class closure index  *)
(* built from it: caracaldb/onto/catalog.py, hierarchy.py, closure.py, and *)
(* the definitions of classes and properties in caracaldb/api.py.          *)
(*                                                                         *)
(* Every handle loads the catalog when it is opened, changes its own copy  *)
(* and saves that copy as a whole.  Handles on one bundle do not know of   *)
(* each other.  The node stores of a bundle are directories named after    *)
(* the local name of a class; a store remembers the IRI it was made for.   *)
(***************************************************************************)
EXTENDS Integers, Sequences, FiniteSets, SequencesExt, Relation

CONSTANTS
    Handles,    \* open Database objects
    Iris,       \* IRIs of classes, properties, graphs and indexes
    Names,      \* local names
    Tail_,      \* the local name at the end of an IRI
    Defs,       \* the calls of define_class: name, IRI, superclass IRIs
    PropDefs,   \* the calls of _define_property: name, IRI
    Others,     \* the calls of register_graph and register_index: kind, name
    None

ASSUME CatalogConstants ==
    /\ Tail_ \in [Iris -> Names]
    /\ \A d \in Defs : d.name \in Names /\ d.iri \in Iris /\ Range(d.supers) \subseteq Iris

VARIABLES
    file,       \* the catalog file
    cat,        \* the catalog of each handle, None when it is not open
    owner,      \* the node stores: the class IRI of each, None if there is none
    cfile,      \* the closure file, None if there is none
    idx,        \* the closure index of each handle, None if it has none
    lossy       \* history: two handles were open at once, or a handle ended
                \* with definitions that it had not saved

catVars == <<file, cat, owner, cfile, idx, lossy>>

Empty == [classes |-> <<>>, properties |-> <<>>, graphs |-> <<>>, indexes |-> <<>>]

-----------------------------------------------------------------------------
(* _next_id, and the ids of the definitions of one kind.                       *)
NextId(items) == Max({items[i].id : i \in DOMAIN items} \cup {0}) + 1

(* _find_by_attr: the places of the items with an IRI, or with a local name.   *)
ByIri(items, iri) == {i \in DOMAIN items : items[i].iri = iri}
ByName(items, name) == {i \in DOMAIN items : items[i].name = name}
First(S) == Min(S)

(* _find_class and _find_property: by IRI, else the first of that local name.  *)
Find(items, word) ==
    IF ByIri(items, word) # {} THEN First(ByIri(items, word))
    ELSE IF ByName(items, word) # {} THEN First(ByName(items, word)) ELSE 0

ClassDef(id, iri, name, supers) == [id |-> id, iri |-> iri, name |-> name, supers |-> supers]
PropertyDef(id, iri, name) == [id |-> id, iri |-> iri, name |-> name]
GraphDef(id, name) == [id |-> id, iri |-> name, name |-> name]
IndexDef(id, name) == [id |-> id, iri |-> name, name |-> name]

Dedup(s) == FoldLeft(LAMBDA acc, x : IF x \in Range(acc) THEN acc ELSE Append(acc, x), <<>>, s)

IrisOf(c) == {c.classes[i].iri : i \in DOMAIN c.classes}

(* catalog.register_class, register_property, register_graph, register_index,  *)
(* each defined only when the name is not taken yet (_ensure_unique).          *)
RegisterClass(c, iri, name, supers) ==
    [c EXCEPT !.classes = Append(@, ClassDef(NextId(@), iri, name, supers))]
RegisterProperty(c, iri, name) ==
    [c EXCEPT !.properties = Append(@, PropertyDef(NextId(@), iri, name))]
RegisterGraph(c, name) == [c EXCEPT !.graphs = Append(@, GraphDef(NextId(@), name))]
RegisterIndex(c, name) == [c EXCEPT !.indexes = Append(@, IndexDef(NextId(@), name))]

(* _merge_class: superclasses are added to those the class has; the name and   *)
(* the id stay.                                                                *)
MergeClass(c, k, supers) == [c EXCEPT !.classes[k].supers = Dedup(@ \o supers)]

(* define_class: by IRI, then by local name, else a new class.                 *)
DefineIn(c, d) ==
    LET k == IF ByIri(c.classes, d.iri) # {} THEN First(ByIri(c.classes, d.iri))
             ELSE IF ByName(c.classes, d.name) # {} THEN First(ByName(c.classes, d.name)) ELSE 0
    IN IF k # 0 THEN MergeClass(c, k, d.supers) ELSE RegisterClass(c, d.iri, d.name, d.supers)

-----------------------------------------------------------------------------
(* HierarchyDAG.from_edges over the classes of a catalog.  The superclasses of *)
(* a class are looked up by IRI; Kahn's algorithm orders the classes.          *)
Nodes(c) == [i \in DOMAIN c.classes |-> c.classes[i].iri]
Hierarchy(c) == [iri \in IrisOf(c) |-> Dedup(c.classes[First(ByIri(c.classes, iri))].supers)]

Children(dag, iri) == {x \in DOMAIN dag : iri \in Range(dag[x])}

(* One turn of the loop: a class is taken from the queue, and its children     *)
(* follow that have no other parent left (their indegree falls to 0).          *)
KahnStep(dag, nodes, acc) ==
    IF acc.queue = <<>> THEN acc ELSE
    LET taken == Append(acc.order, Head(acc.queue))
        free == SelectSeq(nodes, LAMBDA x : Head(acc.queue) \in Range(dag[x]) /\ Range(dag[x]) \subseteq Range(taken))
    IN [queue |-> Tail(acc.queue) \o free, order |-> taken]

(* The topological order; classes on or below a cycle are not in it.           *)
Kahn(c) ==
    LET dag == Hierarchy(c)
        roots == SelectSeq(Nodes(c), LAMBDA x : dag[x] = <<>>)
    IN FoldLeft(LAMBDA acc, i : KahnStep(dag, Nodes(c), acc), [queue |-> roots, order |-> <<>>], Nodes(c)).order

(* No error CDB-9504 (an unknown superclass) and no CDB-9505 (a cycle).        *)
Known(c) == \A i \in DOMAIN c.classes : Range(c.classes[i].supers) \subseteq IrisOf(c)
WellFormed(c) == Known(c) /\ Len(Kahn(c)) = Len(c.classes)

(* _collect_up and _collect_down: depth-first, without visiting a class twice. *)
CollectUp(dag, iri, seen) ==
    LET up[p \in (DOMAIN dag) \X (SUBSET DOMAIN dag)] ==
            FoldLeft(LAMBDA acc, x : IF x \in acc THEN acc ELSE up[<<x, acc \cup {x}>>], p[2], dag[p[1]])
    IN  up[<<iri, seen>>]
CollectDown(dag, iri, seen) ==
    LET down[p \in (DOMAIN dag) \X (SUBSET DOMAIN dag)] ==
            FoldSet(LAMBDA x, acc : IF x \in acc THEN acc ELSE down[<<x, acc \cup {x}>>],
                    p[2], Children(dag, p[1]))
    IN  down[<<iri, seen>>]

Ancestors(dag, iri) == CollectUp(dag, iri, {})
Descendants(dag, iri) == CollectDown(dag, iri, {})

-----------------------------------------------------------------------------
(* ClassClosureIndex.  The bitmaps of class ids are sets of IRIs here; ids are *)
(* compared on load.  made is history: the superclasses of each class that the *)
(* cached sets were computed from.                                             *)
NoSets == [x \in {} |-> {}]
Ids(c) == {<<c.classes[i].iri, c.classes[i].id>> : i \in DOMAIN c.classes}
FromCatalog(c) ==
    [ids |-> Ids(c), dag |-> Hierarchy(c), desc |-> NoSets, anc |-> NoSets, made |-> Hierarchy(c)]

WithDesc(x, iri) ==
    IF iri \in DOMAIN x.desc THEN x
    ELSE [x EXCEPT !.desc = @ @@ (iri :> Descendants(x.dag, iri))]
WithAnc(x, iri) ==
    IF iri \in DOMAIN x.anc THEN x
    ELSE [x EXCEPT !.anc = @ @@ (iri :> Ancestors(x.dag, iri))]

Without(f, S) == [k \in DOMAIN f \ S |-> f[k]]

MutInvalidated(x, iri) ==
    LET gone == {iri} \cup Ancestors(x.dag, iri)
    IN [x EXCEPT !.desc = Without(@, gone), !.anc = Without(@, gone), !.made[iri] = x.dag[iri]]

(* invalidate(iri): the sets of the class, its ancestors and its descendants.  *)
Invalidated(x, iri) ==
    LET gone == {iri} \cup Ancestors(x.dag, iri) \cup Descendants(x.dag, iri)
    IN [x EXCEPT !.desc = Without(@, gone), !.anc = Without(@, gone), !.made[iri] = x.dag[iri]]

MaterializeAll(x) == FoldSet(LAMBDA iri, acc : WithAnc(WithDesc(acc, iri), iri), x, DOMAIN x.dag)

(* from_bytes: the file must have the class ids of the catalog, nothing else   *)
(* of the catalog is compared.                                                 *)
Accepts(c) == WellFormed(c) /\ cfile.ids = Ids(c)
FromFile(c) == [FromCatalog(c) EXCEPT !.desc = cfile.desc, !.anc = cfile.anc, !.made = cfile.made]

-----------------------------------------------------------------------------
CatInit ==
    /\ file = Empty /\ cfile = None /\ lossy = FALSE
    /\ cat = [h \in Handles |-> None] /\ idx = [h \in Handles |-> None]
    /\ owner = [n \in Names |-> None]

Opened(h) == cat[h] # None

(* connect: load_catalog.                                                      *)
Open(h) ==
    /\ ~Opened(h)
    /\ cat' = [cat EXCEPT ![h] = file]
    /\ lossy' = (lossy \/ \E o \in Handles : Opened(o))
    /\ UNCHANGED <<file, owner, cfile, idx>>

(* close, or the death of the process: the copy in memory is gone.             *)
End(h) ==
    /\ Opened(h)
    /\ cat' = [cat EXCEPT ![h] = None] /\ idx' = [idx EXCEPT ![h] = None]
    /\ lossy' = (lossy \/ cat[h] # file)
    /\ UNCHANGED <<file, owner, cfile>>

MutSaved(h, c) == cat' = [cat EXCEPT ![h] = c] /\ UNCHANGED file

(* save_catalog: a temporary file replaces the catalog in one step.            *)
Saved(h, c) == cat' = [cat EXCEPT ![h] = c] /\ file' = c

DefineClass(h, d) ==
    /\ Opened(h)
    /\ LET c == DefineIn(cat[h], d) IN
       IF c = cat[h] THEN UNCHANGED <<cat, file>> ELSE Saved(h, c)
    /\ UNCHANGED <<owner, cfile, idx, lossy>>

DefineProperty(h, d) ==
    /\ Opened(h)
    /\ IF ByIri(cat[h].properties, d.iri) # {} \/ ByName(cat[h].properties, d.name) # {}
       THEN UNCHANGED <<cat, file>>
       ELSE Saved(h, RegisterProperty(cat[h], d.iri, d.name))
    /\ UNCHANGED <<owner, cfile, idx, lossy>>

(* register_graph and register_index on the catalog of a handle: not saved.    *)
Register(h, r) ==
    /\ Opened(h)
    /\ LET items == IF r.kind = "graph" THEN cat[h].graphs ELSE cat[h].indexes IN
       /\ ByName(items, r.name) = {}
       /\ cat' = [cat EXCEPT ![h] = IF r.kind = "graph" THEN RegisterGraph(@, r.name)
                                                        ELSE RegisterIndex(@, r.name)]
    /\ UNCHANGED <<file, owner, cfile, idx, lossy>>

(* open_node_store(create=True): made for the class, or error CDB-7013 when it *)
(* belongs to another class.                                                   *)
StoreOf(k, h) ==
    LET cls == cat[h].classes[k] IN
    IF owner[cls.name] \in {None, cls.iri} THEN [owner EXCEPT ![cls.name] = cls.iri] ELSE owner

InsertNodes(h, word) ==
    /\ Opened(h) /\ Find(cat[h].classes, word) # 0
    /\ owner' = StoreOf(Find(cat[h].classes, word), h)
    /\ UNCHANGED <<file, cat, cfile, idx, lossy>>

-----------------------------------------------------------------------------
BuildClosure(h) ==
    /\ Opened(h) /\ WellFormed(cat[h])
    /\ idx' = [idx EXCEPT ![h] = FromCatalog(cat[h])]
    /\ UNCHANGED <<file, cat, owner, cfile, lossy>>

(* load_class_closure.                                                         *)
LoadClosure(h) ==
    /\ Opened(h) /\ cfile # None /\ Accepts(cat[h])
    /\ idx' = [idx EXCEPT ![h] = FromFile(cat[h])]
    /\ UNCHANGED <<file, cat, owner, cfile, lossy>>

SaveClosure(h) ==
    /\ idx[h] # None
    /\ LET x == MaterializeAll(idx[h]) IN
       /\ idx' = [idx EXCEPT ![h] = x]
       /\ cfile' = [ids |-> x.ids, desc |-> x.desc, anc |-> x.anc, made |-> x.made]
    /\ UNCHANGED <<file, cat, owner, lossy>>

(* descendants_bitmap and ancestors_bitmap, filled on demand.                  *)
AskClosure(h, iri) ==
    /\ idx[h] # None /\ iri \in DOMAIN idx[h].dag
    /\ \/ idx' = [idx EXCEPT ![h] = WithDesc(@, iri)]
       \/ idx' = [idx EXCEPT ![h] = WithAnc(@, iri)]
    /\ UNCHANGED <<file, cat, owner, cfile, lossy>>

Invalidate(h, iri) ==
    /\ idx[h] # None /\ iri \in DOMAIN idx[h].dag
    /\ idx' = [idx EXCEPT ![h] = Invalidated(@, iri)]
    /\ UNCHANGED <<file, cat, owner, cfile, lossy>>

Sessions(h) == Open(h) \/ End(h)
Definitions(h) == \E d \in Defs : DefineClass(h, d)
OtherDefinitions(h) == (\E d \in PropDefs : DefineProperty(h, d)) \/ \E r \in Others : Register(h, r)
Inserts(h) == \E w \in Iris \cup Names : InsertNodes(h, w)
Closures(h) ==
    \/ BuildClosure(h) \/ LoadClosure(h) \/ SaveClosure(h)
    \/ \E iri \in Iris : AskClosure(h, iri) \/ Invalidate(h, iri)

CatNext ==
    \E h \in Handles :
        Sessions(h) \/ Definitions(h) \/ OtherDefinitions(h) \/ Inserts(h) \/ Closures(h)

CatSpec == CatInit /\ [][CatNext]_catVars

-----------------------------------------------------------------------------
(* ClosureScan over a class and its subclasses: the classes whose rows it      *)
(* returns.  A store is looked up by the tail of the IRI: it is skipped if it  *)
(* is missing, and CDB-7013 ends the scan if it belongs to another class.      *)
Scanned(c, base) == {base} \cup Descendants(Hierarchy(c), base)
ScanFails(c, base) == \E iri \in Scanned(c, base) : owner[Tail_[iri]] \notin {None, iri}
ClosureScan(c, base) == {iri \in Scanned(c, base) : owner[Tail_[iri]] = iri}

Catalogs == {file} \cup {cat[h] : h \in {o \in Handles : Opened(o)}}

(* Reference: y is a subclass of x, by the transitive closure of the links.    *)
SubclassOf(dag) ==
    LET R == [p \in (DOMAIN dag) \X (DOMAIN dag) |-> p[2] \in Range(dag[p[1]])]
    IN TransitiveClosure(R, DOMAIN dag)
Below(dag, x) == LET R == SubclassOf(dag) IN {y \in DOMAIN dag : R[y, x]}
Above(dag, y) == LET R == SubclassOf(dag) IN {x \in DOMAIN dag : R[y, x]}

(* HierarchyDAG.from_edges accepts a catalog exactly if all superclasses are   *)
(* known and no class is its own superclass, and then orders the classes so    *)
(* that parents come before children.                                          *)
HierarchyExact ==
    \A c \in Catalogs : Known(c) =>
        LET dag == Hierarchy(c)
            order == Kahn(c)
        IN /\ WellFormed(c) <=> \A x \in DOMAIN dag : x \notin Below(dag, x)
           /\ Cardinality(Range(order)) = Len(order)
           /\ \A i \in DOMAIN order : \A p \in Range(dag[order[i]]) : \E j \in 1..(i - 1) : order[j] = p

(* The cached closures answer as the hierarchy does once every class whose     *)
(* superclasses changed since the closure file was written is invalidated; and *)
(* even before, while no definition was lost, they never name a class that is  *)
(* not a subclass.                                                             *)
ClosureExact ==
    \A h \in Handles : idx[h] # None =>
        LET x == idx[h] IN
        /\ x.made = x.dag =>
              /\ \A iri \in DOMAIN x.desc : x.desc[iri] = Below(x.dag, iri)
              /\ \A iri \in DOMAIN x.anc : x.anc[iri] = Above(x.dag, iri)
        /\ ~lossy =>
              /\ \A iri \in DOMAIN x.desc : x.desc[iri] \subseteq Below(x.dag, iri)
              /\ \A iri \in DOMAIN x.anc : x.anc[iri] \subseteq Above(x.dag, iri)

(* In every catalog, however classes, properties, graphs and indexes were      *)
(* defined (again, under another name, under another IRI), no two of a kind    *)
(* share an id, an IRI or a local name; and while no definition was lost every *)
(* node store belongs to a class of the catalog file: after any crash a name   *)
(* finds one class and every store has its class.                              *)
StoresKnown ==
    /\ \A c \in Catalogs : \A items \in {c.classes, c.properties, c.graphs, c.indexes} :
          \A i, j \in DOMAIN items : i # j =>
              items[i].id # items[j].id /\ items[i].iri # items[j].iri /\ items[i].name # items[j].name
    /\ ~lossy => \A n \in Names : owner[n] # None =>
          \E i \in DOMAIN file.classes : file.classes[i].iri = owner[n] /\ file.classes[i].name = n

(* Where the local name of every class is the tail of its IRI, SUBCLASSOF*     *)
(* returns the rows of the class and of all its subclasses, and of no other.   *)
ScanExact ==
    \A h \in Handles : Opened(h) /\ ~lossy /\ WellFormed(cat[h])
                         /\ (\A i \in DOMAIN cat[h].classes : cat[h].classes[i].name = Tail_[cat[h].classes[i].iri]) =>
        \A base \in IrisOf(cat[h]) :
            /\ ~ScanFails(cat[h], base)
            /\ ClosureScan(cat[h], base)
                 = Range(owner) \cap ({base} \cup Below(Hierarchy(cat[h]), base))

(* The hierarchy, its cached closures and the SUBCLASSOF* scan agree with the  *)
(* superclasses that were declared: see the three parts.                       *)
SubclassesExact == HierarchyExact /\ ClosureExact /\ ScanExact

=============================================================================
