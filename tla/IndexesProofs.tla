--------------------------- MODULE IndexesProofs ---------------------------
(***************************************************************************)
(* What the indexes and caches of Indexes answer, for any number of        *)
(* handles, types, relations, indexes and writes.                          *)
(*                                                                         *)
(* An index is marked stale by a write to its store only if its metadata   *)
(* names that store: the inductive invariant has to say whose index it is. *)
(* An edge write marks property indexes alone, so that the argument also   *)
(* needs that vector and text indexes are over node types.                 *)
(***************************************************************************)
EXTENDS Indexes, TLAPS

(* The shape of the state that the proofs use.                                 *)
Built == [owner : Owners, ver : Nat]
ShapeOK ==
    /\ ver \in [Owners -> Nat]
    /\ man \in [Names -> Meta \cup {None}]
    /\ file \in [Names -> Built \cup {None}]
    /\ ents \in [Handles -> [VNames -> Built \cup {None}]]
    /\ rows \in [Handles -> [Types -> Nat \cup {None}]]
    /\ look \in [Handles -> [Types -> Nat] \cup {None}]
    /\ prior \in [Handles -> [edges : [Rels -> Nat], nodes : [Types -> Nat]] \cup {None}]
    /\ adj \in [Handles -> [Rels -> Nat \cup {None}]]
    /\ pool \in [Rels -> Nat \cup {None}]
    /\ behind \in [Handles -> SUBSET Owners]

(* Every index was declared for the store its metadata names.                  *)
OwnersDeclared == \A n \in Names : man[n] # None => <<n, man[n].owner>> \in Declared

ShapeInv == ShapeOK /\ OwnersDeclared

LEMMA InitShape == Init => ShapeInv
BY IndexConstants DEF Init, ShapeInv, ShapeOK, OwnersDeclared, Empty, Owners, Names

(* The store of a declared index, by the kind of its name.                     *)
LEMMA DeclaredOwner ==
    ASSUME NEW n \in Names, NEW o, <<n, o>> \in Declared
    PROVE  o \in Owners /\ (n \notin PNames => o \in Types /\ o \notin Rels)
BY IndexConstants DEF Names, Owners

LEMMA MarkStaleShape ==
    ASSUME ShapeInv, NEW S, NEW kinds, MarkStale(S, kinds)
    PROVE  man' \in [Names -> Meta \cup {None}] /\ OwnersDeclared'
<1> DEFINE new(n) == [man[n] EXCEPT !.status = "stale"]
<1>1. man \in [Names -> Meta \cup {None}] /\ OwnersDeclared
    BY DEF ShapeInv, ShapeOK
<1>2. \A n \in Names : man[n] # None => new(n) \in Meta /\ new(n).owner = man[n].owner
    BY <1>1 DEF Meta
<1> HIDE DEF new
<1>3. man' = [n \in Names |-> IF man[n] # None /\ man[n].owner \in S /\ n \in kinds /\ man[n].status = "ready"
                              THEN new(n) ELSE man[n]]
    BY DEF MarkStale, new
<1> QED BY <1>1, <1>2, <1>3 DEF OwnersDeclared

LEMMA ForgetShape ==
    ASSUME Forget
    PROVE  /\ ents' \in [Handles -> [VNames -> Built \cup {None}]]
           /\ rows' \in [Handles -> [Types -> Nat \cup {None}]]
           /\ look' \in [Handles -> [Types -> Nat] \cup {None}]
           /\ prior' \in [Handles -> [edges : [Rels -> Nat], nodes : [Types -> Nat]] \cup {None}]
           /\ adj' \in [Handles -> [Rels -> Nat \cup {None}]]
           /\ pool' \in [Rels -> Nat \cup {None}]
           /\ behind' \in [Handles -> SUBSET Owners]
BY DEF Forget, Empty

(* What Write and Passed do, in the form the steps use.                         *)
LEMMA WriteShape ==
    ASSUME ShapeInv, NEW S \in SUBSET Owners, Write(S)
    PROVE  /\ ver' \in [Owners -> Nat]
           /\ \A o \in Owners \ S : ver'[o] = ver[o]
BY DEF Write, ShapeInv, ShapeOK

LEMMA PassedShape ==
    ASSUME ShapeInv, NEW h, NEW S \in SUBSET Owners, NEW own \in SUBSET Owners, Passed(h, S, own)
    PROVE  behind' \in [Handles -> SUBSET Owners]
BY DEF Passed, ShapeInv, ShapeOK

LEMMA DropCachesShape ==
    ASSUME ShapeInv, NEW h \in Handles,
           DropCaches(h) \/ DropNodeCaches(h) \/ \E r \in Rels : DropRelationCaches(h, r)
    PROVE  /\ ents' \in [Handles -> [VNames -> Built \cup {None}]]
           /\ rows' \in [Handles -> [Types -> Nat \cup {None}]]
           /\ look' \in [Handles -> [Types -> Nat] \cup {None}]
           /\ prior' \in [Handles -> [edges : [Rels -> Nat], nodes : [Types -> Nat]] \cup {None}]
           /\ adj' \in [Handles -> [Rels -> Nat \cup {None}]]
           /\ pool' \in [Rels -> Nat \cup {None}]
<1>1. CASE DropCaches(h)
    BY <1>1 DEF DropCaches, ShapeInv, ShapeOK, Empty
<1>4. CASE DropNodeCaches(h)
    BY <1>4 DEF DropNodeCaches, ShapeInv, ShapeOK, Empty
<1>2. ASSUME NEW r \in Rels, DropRelationCaches(h, r)
      PROVE  adj' \in [Handles -> [Rels -> Nat \cup {None}]]
    BY <1>2 DEF DropRelationCaches, ShapeInv, ShapeOK
<1>3. CASE \E r \in Rels : DropRelationCaches(h, r)
    BY <1>2, <1>3 DEF DropRelationCaches, ShapeInv, ShapeOK, Empty
<1> QED BY <1>1, <1>3, <1>4

LEMMA BuildVectorShape ==
    ASSUME ShapeInv, NEW h \in Handles, NEW n \in VNames, NEW meta \in Meta,
           <<n, meta.owner>> \in Declared, BuildVector(h, n, meta), ver' = ver
    PROVE  /\ ents' \in [Handles -> [VNames -> Built \cup {None}]]
           /\ man' \in [Names -> Meta \cup {None}]
           /\ file' \in [Names -> Built \cup {None}]
           /\ OwnersDeclared'
<1>1. Entries(h, n, meta.owner) \in Built \cup {None}
    BY DEF ShapeInv, ShapeOK, Entries, Built, Meta
<1>2. [meta EXCEPT !.status = "ready"] \in Meta /\ [meta EXCEPT !.status = "ready"].owner = meta.owner
    BY DEF Meta
<1>3. n \in Names
    BY DEF Names
<1>4. ents' \in [Handles -> [VNames -> Built \cup {None}]] /\ ents'[h][n] = Entries(h, n, meta.owner)
    BY <1>1 DEF BuildVector, ShapeInv, ShapeOK
<1>5. man' \in [Names -> Meta \cup {None}] /\ OwnersDeclared'
    BY <1>2, <1>3 DEF BuildVector, ShapeInv, ShapeOK, OwnersDeclared
<1>6. file' \in [Names -> Built \cup {None}]
    BY <1>1, <1>3, <1>4 DEF BuildVector, ShapeInv, ShapeOK
<1> QED BY <1>4, <1>5, <1>6

LEMMA LeftBuildingShape ==
    ASSUME ShapeInv, NEW n \in Names, NEW meta \in Meta,
           <<n, meta.owner>> \in Declared, LeftBuilding(n, meta)
    PROVE  man' \in [Names -> Meta \cup {None}] /\ OwnersDeclared'
<1>1. [meta EXCEPT !.status = "building"] \in Meta /\ [meta EXCEPT !.status = "building"].owner = meta.owner
    BY DEF Meta
<1> QED BY <1>1 DEF LeftBuilding, ShapeInv, ShapeOK, OwnersDeclared

LEMMA BuildJsonShape ==
    ASSUME ShapeInv, NEW n \in Names, NEW meta \in Meta,
           <<n, meta.owner>> \in Declared, BuildJson(n, meta)
    PROVE  /\ man' \in [Names -> Meta \cup {None}]
           /\ file' \in [Names -> Built \cup {None}]
           /\ OwnersDeclared'
<1>1. [meta EXCEPT !.status = "ready"] \in Meta /\ [meta EXCEPT !.status = "ready"].owner = meta.owner
    BY DEF Meta
<1>2. [owner |-> meta.owner, ver |-> ver[meta.owner]] \in Built
    BY DEF ShapeInv, ShapeOK, Meta, Built
<1> QED BY <1>1, <1>2 DEF BuildJson, ShapeInv, ShapeOK, OwnersDeclared

LEMMA StepShape == ShapeInv /\ [Next]_vars => ShapeInv'
<1> SUFFICES ASSUME ShapeInv, [Next]_vars PROVE ShapeInv'
    OBVIOUS
<1> USE DEF ShapeInv
<1> USE DEF Owners
<1>1. ASSUME NEW h \in Handles, NEW t \in Types, NEW named \in Types \cup {None}, NEW unfit \in BOOLEAN,
             InsertNodes(h, t, named, unfit)
      PROVE  ShapeInv'
    <2>1. Write({t}) /\ file' = file /\ DropCaches(h) /\ Passed(h, {t}, {}) /\ MarkStale({named}, Names)
        BY <1>1 DEF InsertNodes
    <2> QED BY <2>1, WriteShape, MarkStaleShape, DropCachesShape, PassedShape DEF ShapeOK
<1>17. ASSUME NEW h \in Handles, NEW touched \in SUBSET Types, NEW changed \in SUBSET touched, NEW unfit \in BOOLEAN,
              UpsertNodes(h, touched, changed, unfit)
      PROVE  ShapeInv'
    <2>1. Write(changed) /\ file' = file /\ DropCaches(h) /\ Passed(h, changed, {}) /\ MarkStale(touched, Names)
        BY <1>17 DEF UpsertNodes
    <2> QED BY <2>1, WriteShape, MarkStaleShape, DropCachesShape, PassedShape DEF ShapeOK
<1>18. ASSUME NEW h \in Handles, NEW done \in SUBSET Types, NEW changed \in SUBSET done, NEW lost \in SUBSET Types,
              UpsertNodesRaises(h, done, changed, lost)
      PROVE  ShapeInv'
    <2>1. Write(changed \cup lost) /\ file' = file /\ MarkStale(done, Names)
        BY <1>18 DEF UpsertNodesRaises
    <2>2. ver' \in [Owners -> Nat] /\ man' \in [Names -> Meta \cup {None}] /\ OwnersDeclared'
        BY <2>1, WriteShape, MarkStaleShape
    <2>3. CASE DropNodeCaches(h) /\ Passed(h, changed \cup lost, behind[h] \ Types)
        <3>1. behind[h] \ Types \in SUBSET Owners
            BY DEF ShapeOK
        <3>2. behind' \in [Handles -> SUBSET Owners]
            BY <2>3, <3>1, PassedShape
        <3> QED BY <2>1, <2>2, <2>3, <3>2, DropCachesShape DEF ShapeOK
    <2>4. CASE UNCHANGED <<caches, pool>> /\ Passed(None, lost, {})
        BY <2>1, <2>2, <2>4, PassedShape DEF ShapeOK, caches
    <2> QED BY <1>18, <2>3, <2>4 DEF UpsertNodesRaises
<1>2. ASSUME NEW h \in Handles, NEW r \in Rels, InsertEdges(h, r)
      PROVE  ShapeInv'
    <2>1. Write({r}) /\ file' = file /\ DropRelationCaches(h, r) /\ Passed(h, {r}, behind[h] \ {r}) /\ \E S, kinds : MarkStale(S, kinds)
        BY <1>2 DEF InsertEdges, MarkEdgesStale
    <2>2. behind[h] \ {r} \in SUBSET Owners
        BY DEF ShapeOK
    <2> QED BY <2>1, <2>2, WriteShape, MarkStaleShape, DropCachesShape, PassedShape DEF ShapeOK
<1>3. ASSUME NEW h \in Handles, NEW r \in Rels, Traverse(h, r) \/ Evidence(h, r)
      PROVE  ShapeInv'
    <2>1. r \in Owners /\ Rels \subseteq Owners /\ Types \subseteq Owners
        BY DEF Owners
    <2>2. ReadLookup(h) \in [Types -> Nat] \cup {None} /\ \A q \in Rels : ReadEdges(q) \in Nat \cup {None}
        BY <2>1 DEF ReadLookup, ReadEdges, ShapeOK
    <2>3. look' \in [Handles -> [Types -> Nat] \cup {None}]
        BY <1>3, <2>2 DEF Traverse, Evidence, ShapeOK
    <2>4. pool' \in [Rels -> Nat \cup {None}]
        <3>1. pool' = pool \/ KeepEdges({r})
            BY <1>3 DEF Traverse, Evidence
        <3>2. pool \in [Rels -> Nat \cup {None}]
            BY DEF ShapeOK
        <3>3. ASSUME NEW q \in Rels
              PROVE  (IF q \in {r} /\ ver[q] > 0 THEN ReadEdges(q) ELSE pool[q]) \in Nat \cup {None}
            BY <2>2, <3>2
        <3> QED BY <3>1, <3>2, <3>3 DEF KeepEdges
    <2>5. adj' \in [Handles -> [Rels -> Nat \cup {None}]]
        <3> DEFINE v == IF adj[h][r] = None THEN ReadEdges(r) ELSE adj[h][r]
        <3>1. v \in Nat \cup {None}
            BY <2>2 DEF ShapeOK
        <3>2. adj' = adj \/ adj' = [adj EXCEPT ![h][r] = v]
            BY <1>3 DEF Traverse, Evidence
        <3>3. adj \in [Handles -> [Rels -> Nat \cup {None}]]
            BY DEF ShapeOK
        <3> HIDE DEF v
        <3>4. [adj[h] EXCEPT ![r] = v] \in [Rels -> Nat \cup {None}]
            BY <3>1, <3>3
        <3>5. adj' = adj \/ adj' = [adj EXCEPT ![h] = [adj[h] EXCEPT ![r] = v]]
            BY <3>2
        <3> QED BY <3>3, <3>4, <3>5
    <2> QED BY <1>3, <2>3, <2>4, <2>5 DEF Traverse, Evidence, disk, ShapeOK, OwnersDeclared
<1>4. ASSUME NEW r \in Rels, ChangeEdgesOnly(r)
      PROVE  ShapeInv'
    BY <1>4, WriteShape, PassedShape DEF ChangeEdgesOnly, caches, ShapeOK, OwnersDeclared
<1>5. ASSUME NEW o \in Owners, DieInWrite(o)
      PROVE  ShapeInv'
    <2>1. Write({o}) /\ file' = file /\ Forget /\ \E S, kinds : MarkStale(S, kinds)
        BY <1>5 DEF DieInWrite
    <2> QED BY <2>1, WriteShape, ForgetShape, MarkStaleShape DEF ShapeOK
<1>6. CASE Restart
    BY <1>6, ForgetShape DEF Restart, disk, ShapeOK, OwnersDeclared
<1>7. ASSUME NEW h \in Handles, Reopen(h)
      PROVE  ShapeInv'
    BY <1>7 DEF Reopen, disk, Empty, ShapeOK, OwnersDeclared
<1>8. ASSUME NEW h \in Handles, LinkEntities(h)
      PROVE  ShapeInv'
    <2>1. Rels \subseteq Owners /\ Types \subseteq Owners
        BY DEF Owners
    <2>2. look[h] \in [Types -> Nat] \cup {None}
        BY DEF ShapeOK
    <2>3. ReadLookup(h) \in [Types -> Nat]
        BY <2>1, <2>2 DEF ReadLookup, ShapeOK
    <2>4. PriorIndex(h) \in [edges : [Rels -> Nat], nodes : [Types -> Nat]]
        BY <2>1, <2>3 DEF PriorIndex, ShapeOK
    <2> QED BY <1>8, <2>3, <2>4 DEF LinkEntities, disk, ShapeOK, OwnersDeclared
<1>9. ASSUME NEW h \in Handles, NEW n \in VNames, NEW t \in Types, NEW algo \in {"hnsw", "exact"},
             <<n, t>> \in Declared, CreateVector(h, n, t, algo)
      PROVE  ShapeInv'
    <2> DEFINE meta == [owner |-> t, algo |-> algo, status |-> "building"]
    <2>1. meta \in Meta /\ meta.owner = t /\ n \in Names
        BY DEF Meta, Owners, Names
    <2>2. UNCHANGED quiet /\ (BuildVector(h, n, meta) \/ LeftBuilding(n, meta))
        BY <1>9 DEF CreateVector
    <2> HIDE DEF meta
    <2>3. CASE BuildVector(h, n, meta)
        BY <1>9, <2>1, <2>2, <2>3, BuildVectorShape DEF quiet, ShapeOK
    <2>4. CASE LeftBuilding(n, meta)
        BY <1>9, <2>1, <2>2, <2>4, LeftBuildingShape DEF quiet, LeftBuilding, ShapeOK
    <2> QED BY <2>2, <2>3, <2>4
<1>10. ASSUME NEW h \in Handles, NEW n \in VNames, RebuildVector(h, n) \/ SearchVector(h, n)
      PROVE  ShapeInv'
    <2>1. n \in Names /\ man[n] \in Meta /\ <<n, man[n].owner>> \in Declared
        BY <1>10 DEF RebuildVector, SearchVector, Names, ShapeOK, OwnersDeclared
    <2>2. CASE UNCHANGED quiet /\ BuildVector(h, n, man[n])
        BY <2>1, <2>2, BuildVectorShape DEF quiet, ShapeOK
    <2>3. CASE UNCHANGED quiet /\ LeftBuilding(n, man[n])
        BY <2>1, <2>3, LeftBuildingShape DEF quiet, LeftBuilding, ShapeOK
    <2>4. CASE UNCHANGED <<quiet, man, file, astray>> /\ ents' = [ents EXCEPT ![h][n] = Entries(h, n, man[n].owner)]
        <3>1. Entries(h, n, man[n].owner) \in Built \cup {None}
            BY <2>1 DEF Entries, Built, Meta, ShapeOK
        <3>2. ents' \in [Handles -> [VNames -> Built \cup {None}]]
            BY <2>4, <3>1 DEF ShapeOK
        <3> QED BY <2>4, <3>2 DEF quiet, ShapeOK, OwnersDeclared
    <2> QED BY <1>10, <2>2, <2>3, <2>4 DEF RebuildVector, SearchVector
<1>11. ASSUME NEW n \in VNames, DropVector(n)
      PROVE  ShapeInv'
    BY <1>11 DEF DropVector, quiet, Names, ShapeOK, OwnersDeclared
<1>12. ASSUME NEW n \in Names, NEW o \in Owners, <<n, o>> \in Declared, DieInCreate(n, o)
      PROVE  ShapeInv'
    <2> DEFINE meta == [owner |-> o, status |-> "building", algo |-> IF n \in VNames THEN "hnsw" ELSE "json"]
    <2>1. meta \in Meta /\ meta.owner = o
        BY DEF Meta
    <2>2. man' = [man EXCEPT ![n] = meta] /\ Forget /\ UNCHANGED <<ver, file>>
        BY <1>12 DEF DieInCreate
    <2> HIDE DEF meta
    <2> QED BY <1>12, <2>1, <2>2, ForgetShape DEF ShapeOK, OwnersDeclared
<1>13. ASSUME NEW n \in Names, NEW o \in Owners, <<n, o>> \in Declared, CreateProperty(n, o) \/ CreateText(n, o)
      PROVE  ShapeInv'
    <2>1. NewJson(o) \in Meta /\ NewJson(o).owner = o
        BY DEF NewJson, Meta
    <2>2. man[n] # None => man[n] \in Meta /\ <<n, man[n].owner>> \in Declared
        BY DEF ShapeOK, OwnersDeclared
    <2>3. UNCHANGED <<quiet, ents, astray>> /\ \E m \in Meta : <<n, m.owner>> \in Declared /\ BuildJson(n, m)
        BY <1>13, <2>1, <2>2 DEF CreateProperty, CreateText, BuildText
    <2> QED BY <2>3, BuildJsonShape DEF quiet, ShapeOK
<1>14. ASSUME NEW n \in PNames, LookupProperty(n)
      PROVE  ShapeInv'
    <2>1. n \in Names /\ man[n] \in Meta /\ <<n, man[n].owner>> \in Declared
        BY <1>14 DEF LookupProperty, Names, ShapeOK, OwnersDeclared
    <2> QED BY <1>14, <2>1, BuildJsonShape DEF LookupProperty, quiet, ShapeOK
<1>15. ASSUME NEW h \in Handles, NEW n \in TNames, SearchText(h, n)
      PROVE  ShapeInv'
    <2>1. n \in Names /\ man[n] \in Meta /\ <<n, man[n].owner>> \in Declared
        BY <1>15 DEF SearchText, Names, ShapeOK, OwnersDeclared
    <2>2. n \notin PNames
        BY IndexConstants
    <2>3. man[n].owner \in Types /\ Types \subseteq Owners
        BY <2>1, <2>2, DeclaredOwner DEF Owners
    <2>4. rows' \in [Handles -> [Types -> Nat \cup {None}]]
        BY <1>15, <2>3 DEF SearchText, KeepRows, ShapeOK
    <2>5. CASE BuildJson(n, man[n])
        BY <1>15, <2>1, <2>4, <2>5, BuildJsonShape DEF SearchText, ShapeOK
    <2>6. CASE UNCHANGED <<man, file>>
        BY <1>15, <2>4, <2>6 DEF SearchText, ShapeOK, OwnersDeclared
    <2> QED BY <1>15, <2>5, <2>6 DEF SearchText, LoadText, BuildText
<1>19. ASSUME NEW n \in VNames, DieInDrop(n)
      PROVE  ShapeInv'
    BY <1>19, ForgetShape DEF DieInDrop, Names, ShapeOK, OwnersDeclared
<1>20. ASSUME NEW n \in Names, DieInBuild(n)
      PROVE  ShapeInv'
    <2>1. man[n] \in Meta /\ <<n, man[n].owner>> \in Declared
        BY <1>20 DEF DieInBuild, ShapeOK, OwnersDeclared
    <2>2. PICK status \in {"building", man[n].status} : man' = [man EXCEPT ![n].status = status]
        BY <1>20 DEF DieInBuild
    <2> DEFINE new == [man[n] EXCEPT !.status = status]
    <2>3. new \in Meta /\ new.owner = man[n].owner /\ man' = [man EXCEPT ![n] = new]
        BY <2>1, <2>2 DEF Meta
    <2> HIDE DEF new
    <2>4. man' \in [Names -> Meta \cup {None}] /\ OwnersDeclared'
        BY <2>1, <2>3 DEF ShapeOK, OwnersDeclared
    <2>5. [owner |-> man[n].owner, ver |-> ver[man[n].owner]] \in Built
        BY <2>1 DEF Meta, Built, ShapeOK
    <2>6. file' \in [Names -> Built \cup {None}]
        BY <1>20, <2>5 DEF DieInBuild, ShapeOK
    <2> QED BY <1>20, <2>4, <2>6, ForgetShape DEF DieInBuild, ShapeOK
<1>16. CASE UNCHANGED vars
    BY <1>16 DEF vars, disk, caches, ShapeOK, OwnersDeclared
<1>21. \A t \in Types : {t} \in SUBSET Types
    OBVIOUS
<1> QED
    BY <1>1, <1>2, <1>3, <1>4, <1>5, <1>6, <1>7, <1>8, <1>9, <1>10, <1>11, <1>12, <1>13, <1>14, <1>15, <1>16,
       <1>17, <1>18, <1>19, <1>20, <1>21
    DEF Next, Names, InferEdges, UpsertEdgesRaises

THEOREM ShapeCorrect == Spec => []ShapeInv
<1> QED BY InitShape, StepShape, PTL DEF Spec

-----------------------------------------------------------------------------
(* After a write has marked the indexes of S stale, a ready index is as it     *)
(* was and not over S, unless its kind was left out.                           *)
LEMMA MarkedStale ==
    ASSUME ShapeInv, NEW S, NEW kinds, MarkStale(S, kinds),
           NEW n \in Names, man'[n] # None, man'[n].status = "ready"
    PROVE  man'[n] = man[n] /\ (n \in kinds => man[n].owner \notin S)
<1>1. man[n] \in Meta \cup {None}
    BY DEF ShapeInv, ShapeOK
<1>2. CASE man[n] # None /\ man[n].owner \in S /\ n \in kinds /\ man[n].status = "ready"
    <2>1. man'[n] = [man[n] EXCEPT !.status = "stale"] /\ man[n] \in Meta
        BY <1>1, <1>2 DEF MarkStale
    <2>2. man'[n].status = "stale"
        BY <2>1 DEF Meta
    <2> QED BY <2>2
<1>3. CASE ~(man[n] # None /\ man[n].owner \in S /\ n \in kinds /\ man[n].status = "ready")
    <2>1. man'[n] = man[n]
        BY <1>3 DEF MarkStale
    <2> QED BY <1>3, <2>1
<1> QED BY <1>2, <1>3

(* One index, in a form that both kinds share.                                 *)
Exact(n) ==
    man[n] # None /\ man[n].status = "ready" /\ man[n].owner \notin missed /\ (n \in VNames => n \notin astray)
        => file[n] = IF n \in VNames /\ man[n].algo # "hnsw" THEN None ELSE Current(man[n].owner)

LEMMA ExactSuffices == (\A n \in Names : Exact(n)) <=> IndexesExact
BY IndexConstants DEF Exact, IndexesExact, JsonIndexExact, VectorIndexExact, Names

(* A write to the stores in W that marks the indexes of those in S, of all     *)
(* kinds they have, W among them but for the stores it counts as missed.       *)
LEMMA WriteExact ==
    ASSUME ShapeInv, NEW W \in SUBSET Owners, NEW S, NEW kinds, MarkStale(S, kinds), Write(W),
           file' = file, astray' = astray, W \ missed' \subseteq S,
           \A q \in Owners : q \notin missed' => q \notin missed \/ q \in S,
           NEW n \in Names, Exact(n),
           \A q \in Owners : q \in S => n \in kinds \/ q \in missed' \/ (q \in Rels /\ n \notin PNames)
    PROVE  Exact(n)'
<1> SUFFICES ASSUME man'[n] # None, man'[n].status = "ready", man'[n].owner \notin missed',
                    n \in VNames => n \notin astray'
             PROVE  file'[n] = IF n \in VNames /\ man'[n].algo # "hnsw" THEN None
                               ELSE [owner |-> man'[n].owner, ver |-> ver'[man'[n].owner]]
    BY DEF Exact, Current
<1>1. man'[n] = man[n] /\ (n \in kinds => man[n].owner \notin S)
    BY MarkedStale
<1>2. man[n] \in Meta /\ man[n].owner \in Owners /\ <<n, man[n].owner>> \in Declared
    BY <1>1 DEF ShapeInv, ShapeOK, OwnersDeclared, Meta
<1>3. n \notin PNames => man[n].owner \notin Rels
    BY <1>2, DeclaredOwner
<1>4. man[n].owner \notin W /\ man[n].owner \notin S
    BY <1>1, <1>2, <1>3
<1>5. ver'[man[n].owner] = ver[man[n].owner]
    BY <1>2, <1>4, WriteShape
<1> QED BY <1>1, <1>2, <1>4, <1>5 DEF Exact, Current

(* A step that changes at most one index, and leaves it not ready or built     *)
(* from the rows its store holds.                                              *)
LEMMA BuildExact ==
    ASSUME ShapeInv, NEW m \in Names, NEW new, NEW f, ver' = ver, missed' = missed,
           man' = [man EXCEPT ![m] = new], file' = [file EXCEPT ![m] = f],
           astray' \ {m} = astray \ {m},
           \/ new = None \/ new.status # "ready"
           \/ m \in VNames /\ m \in astray'
           \/ f = IF m \in VNames /\ new.algo # "hnsw" THEN None ELSE Current(new.owner),
           NEW n \in Names, Exact(n)
    PROVE  Exact(n)'
<1>1. man'[m] = new /\ file'[m] = f
    BY DEF ShapeInv, ShapeOK
<1>2. CASE n = m
    BY <1>1, <1>2 DEF Exact, Current
<1>3. CASE n # m
    <2>1. man'[n] = man[n] /\ file'[n] = file[n] /\ (n \in astray' <=> n \in astray)
        BY <1>3 DEF ShapeInv, ShapeOK
    <2> QED BY <2>1 DEF Exact, Current
<1> QED BY <1>2, <1>3

LEMMA BuildVectorExact ==
    ASSUME ShapeInv, NEW h \in Handles, NEW m \in VNames, NEW meta \in Meta, BuildVector(h, m, meta),
           ver' = ver, missed' = missed, NEW n \in Names, Exact(n)
    PROVE  Exact(n)'
<1> DEFINE new == [meta EXCEPT !.status = "ready"]
           f == IF meta.algo = "hnsw" THEN ents'[h][m] ELSE None
<1>1. m \in Names
    BY DEF Names
<1>2. new.algo = meta.algo /\ new.owner = meta.owner
    BY DEF Meta
<1>3. man' = [man EXCEPT ![m] = new] /\ file' = [file EXCEPT ![m] = f] /\ astray' \ {m} = astray \ {m}
    BY DEF BuildVector
<1>4. m \in astray' \/ ents'[h][m] = Current(meta.owner)
    BY DEF BuildVector, Current
<1>5. m \in astray' \/ f = IF m \in VNames /\ new.algo # "hnsw" THEN None ELSE Current(new.owner)
    BY <1>2, <1>4
<1> HIDE DEF new, f
<1> QED BY <1>1, <1>3, <1>5, BuildExact

LEMMA LeftBuildingExact ==
    ASSUME ShapeInv, NEW m \in Names, NEW meta \in Meta, LeftBuilding(m, meta),
           ver' = ver, missed' = missed, NEW n \in Names, Exact(n)
    PROVE  Exact(n)'
<1> DEFINE new == [meta EXCEPT !.status = "building"]
<1>1. new.status # "ready"
    BY DEF Meta
<1>2. man' = [man EXCEPT ![m] = new] /\ file' = [file EXCEPT ![m] = file[m]] /\ astray' = astray
    BY DEF LeftBuilding, ShapeInv, ShapeOK
<1> HIDE DEF new
<1> QED BY <1>1, <1>2, BuildExact

LEMMA BuildJsonExact ==
    ASSUME ShapeInv, NEW m \in Names \ VNames, NEW meta \in Meta, BuildJson(m, meta),
           ver' = ver, missed' = missed, astray' = astray, NEW n \in Names, Exact(n)
    PROVE  Exact(n)'
<1> DEFINE new == [meta EXCEPT !.status = "ready"]
           f == Current(meta.owner)
<1>1. new.owner = meta.owner
    BY DEF Meta
<1>2. man' = [man EXCEPT ![m] = new] /\ file' = [file EXCEPT ![m] = f]
    BY DEF BuildJson, Current
<1>3. f = IF m \in VNames /\ new.algo # "hnsw" THEN None ELSE Current(new.owner)
    BY <1>1
<1> HIDE DEF new, f
<1> QED BY <1>2, <1>3, BuildExact

LEMMA InitExact == Init => IndexesExact
BY DEF Init, IndexesExact, JsonIndexExact, VectorIndexExact, Empty, Names

LEMMA StepExact == ShapeInv /\ IndexesExact /\ [Next]_vars => IndexesExact'
<1> SUFFICES ASSUME ShapeInv, IndexesExact, [Next]_vars, NEW n \in Names PROVE Exact(n)'
    <2>1. (\A n \in Names : Exact(n)') <=> IndexesExact'
        BY IndexConstants DEF Exact, IndexesExact, JsonIndexExact, VectorIndexExact, Names
    <2> QED BY <2>1
<1>0. Exact(n)
    BY ExactSuffices
<1> USE DEF Owners
<1>1. ASSUME NEW h \in Handles, NEW t \in Types, NEW named \in Types \cup {None}, NEW unfit \in BOOLEAN,
             InsertNodes(h, t, named, unfit)
      PROVE  Exact(n)'
    <2> DEFINE W == {t}
               S == {named}
    <2>1. W \in SUBSET Owners
        OBVIOUS
    <2>2. MarkStale(S, Names) /\ Write(W) /\ file' = file /\ astray' = astray
        BY <1>1 DEF InsertNodes
    <2>3. W \ missed' \subseteq S /\ \A q \in Owners : q \notin missed' => q \notin missed \/ q \in S
        BY <1>1 DEF InsertNodes
    <2> HIDE DEF W, S
    <2> QED BY <1>0, <2>1, <2>2, <2>3, WriteExact
<1>2. ASSUME NEW h \in Handles, NEW touched \in SUBSET Types, NEW changed \in SUBSET touched, NEW unfit \in BOOLEAN,
             UpsertNodes(h, touched, changed, unfit)
      PROVE  Exact(n)'
    <2>1. /\ MarkStale(touched, Names) /\ Write(changed) /\ missed' = missed \ touched
          /\ file' = file /\ astray' = astray
        BY <1>2 DEF UpsertNodes
    <2> QED BY <1>0, <2>1, WriteExact
<1>16. ASSUME NEW h \in Handles, NEW done \in SUBSET Types, NEW changed \in SUBSET done, NEW lost \in SUBSET Types,
              UpsertNodesRaises(h, done, changed, lost)
      PROVE  Exact(n)'
    <2> DEFINE W == changed \cup lost
    <2>1. W \in SUBSET Owners
        OBVIOUS
    <2>2. MarkStale(done, Names) /\ Write(W) /\ file' = file /\ astray' = astray
        BY <1>16 DEF UpsertNodesRaises
    <2>3. W \ missed' \subseteq done /\ \A q \in Owners : q \notin missed' => q \notin missed \/ q \in done
        BY <1>16 DEF UpsertNodesRaises
    <2> HIDE DEF W
    <2> QED BY <1>0, <2>1, <2>2, <2>3, WriteExact
<1>3. ASSUME NEW h \in Handles, NEW r \in Rels, InsertEdges(h, r)
      PROVE  Exact(n)'
    <2> DEFINE S == {r}
    <2>1. S \in SUBSET Owners /\ \A q \in S : q \in Rels
        OBVIOUS
    <2>2. /\ MarkStale(S, PNames) /\ missed' = missed \ S /\ Write(S)
          /\ file' = file /\ astray' = astray
        BY <1>3 DEF InsertEdges, MarkEdgesStale
    <2> HIDE DEF S
    <2> QED BY <1>0, <2>1, <2>2, WriteExact
<1>4. ASSUME NEW h \in Handles, NEW r \in Rels, Traverse(h, r) \/ Evidence(h, r)
      PROVE  Exact(n)'
    BY <1>0, <1>4 DEF Traverse, Evidence, disk, Exact, Current
<1>5. ASSUME NEW r \in Rels, ChangeEdgesOnly(r)
      PROVE  Exact(n)'
    <2>1. Write({r}) /\ UNCHANGED <<man, file, astray>> /\ missed' = missed \cup {r}
        BY <1>5 DEF ChangeEdgesOnly
    <2>2. man[n] # None /\ man[n].owner # r => ver'[man[n].owner] = ver[man[n].owner]
        <3>1. man[n] # None => man[n].owner \in Owners
            BY DEF ShapeInv, ShapeOK, Meta
        <3>2. \A o \in Owners \ {r} : ver'[o] = ver[o]
            BY <2>1, WriteShape
        <3> QED BY <3>1, <3>2
    <2> QED BY <1>0, <2>1, <2>2 DEF Exact, Current
<1>6. ASSUME NEW o \in Owners, DieInWrite(o)
      PROVE  Exact(n)'
    <2> DEFINE S == {o}
    <2>1. PICK kinds : MarkStale(S, kinds)
        BY <1>6 DEF DieInWrite
    <2>2. S \in SUBSET Owners /\ Write(S) /\ missed' = missed \cup S /\ file' = file /\ astray' = astray
        BY <1>6 DEF DieInWrite
    <2> HIDE DEF S
    <2> QED BY <1>0, <2>1, <2>2, WriteExact
<1>7. CASE Restart \/ \E h \in Handles : Reopen(h) \/ LinkEntities(h)
    BY <1>0, <1>7 DEF Restart, Reopen, LinkEntities, disk, Exact, Current
<1>8. ASSUME NEW h \in Handles, NEW m \in VNames, NEW t \in Types, NEW algo \in {"hnsw", "exact"},
             CreateVector(h, m, t, algo)
      PROVE  Exact(n)'
    <2> DEFINE meta == [owner |-> t, algo |-> algo, status |-> "building"]
    <2>1. meta \in Meta /\ m \in Names
        BY DEF Meta, Owners, Names
    <2>2. UNCHANGED quiet /\ (BuildVector(h, m, meta) \/ LeftBuilding(m, meta))
        BY <1>8 DEF CreateVector
    <2> HIDE DEF meta
    <2> QED BY <1>0, <2>1, <2>2, BuildVectorExact, LeftBuildingExact DEF quiet
<1>9. ASSUME NEW h \in Handles, NEW m \in VNames, RebuildVector(h, m) \/ SearchVector(h, m)
      PROVE  Exact(n)'
    <2>1. m \in Names /\ man[m] \in Meta
        BY <1>9 DEF RebuildVector, SearchVector, Names, ShapeInv, ShapeOK
    <2>2. CASE UNCHANGED quiet /\ (BuildVector(h, m, man[m]) \/ LeftBuilding(m, man[m]))
        BY <1>0, <2>1, <2>2, BuildVectorExact, LeftBuildingExact DEF quiet
    <2>3. CASE UNCHANGED <<quiet, man, file, astray>>
        BY <1>0, <2>3 DEF quiet, Exact, Current
    <2> QED BY <1>9, <2>2, <2>3 DEF RebuildVector, SearchVector
<1>10. ASSUME NEW m \in VNames, DropVector(m)
      PROVE  Exact(n)'
    <2>1. m \in Names
        BY DEF Names
    <2> QED BY <1>0, <1>10, <2>1, BuildExact DEF DropVector, quiet
<1>11. ASSUME NEW m \in Names, NEW o \in Owners, DieInCreate(m, o)
      PROVE  Exact(n)'
    <2>1. man' = [man EXCEPT ![m] = [owner |-> o, status |-> "building", algo |-> IF m \in VNames THEN "hnsw" ELSE "json"]]
          /\ file' = [file EXCEPT ![m] = file[m]] /\ UNCHANGED <<ver, missed, astray>>
        BY <1>11 DEF DieInCreate, ShapeInv, ShapeOK
    <2> QED BY <1>0, <2>1, BuildExact
<1>12. ASSUME NEW m \in PNames \cup TNames, NEW o \in Owners, CreateProperty(m, o) \/ CreateText(m, o)
      PROVE  Exact(n)'
    <2>1. NewJson(o) \in Meta /\ m \in Names \ VNames
        BY IndexConstants DEF NewJson, Meta, Names
    <2>2. man[m] # None => man[m] \in Meta
        BY <2>1 DEF ShapeInv, ShapeOK
    <2>3. UNCHANGED <<quiet, ents, astray>> /\ \E meta \in Meta : BuildJson(m, meta)
        BY <1>12, <2>1, <2>2 DEF CreateProperty, CreateText, BuildText
    <2> QED BY <1>0, <2>1, <2>3, BuildJsonExact DEF quiet
<1>13. ASSUME NEW m \in PNames, LookupProperty(m)
      PROVE  Exact(n)'
    <2>1. m \in Names \ VNames
        BY IndexConstants DEF Names
    <2>2. man[m] \in Meta
        BY <1>13, <2>1 DEF LookupProperty, ShapeInv, ShapeOK
    <2> QED BY <1>0, <1>13, <2>1, <2>2, BuildJsonExact DEF LookupProperty, quiet
<1>14. ASSUME NEW h \in Handles, NEW m \in TNames, SearchText(h, m)
      PROVE  Exact(n)'
    <2>1. m \in Names \ VNames
        BY IndexConstants DEF Names
    <2>2. man[m] \in Meta
        BY <1>14, <2>1 DEF SearchText, ShapeInv, ShapeOK
    <2>3. CASE BuildJson(m, man[m])
        BY <1>0, <1>14, <2>1, <2>2, <2>3, BuildJsonExact DEF SearchText
    <2>4. CASE UNCHANGED <<man, file>>
        BY <1>0, <1>14, <2>4 DEF SearchText, Exact, Current
    <2> QED BY <1>14, <2>3, <2>4 DEF SearchText, LoadText, BuildText
<1>17. ASSUME NEW m \in VNames, DieInDrop(m)
      PROVE  Exact(n)'
    <2>1. m \in Names
        BY DEF Names
    <2>2. /\ man' = [man EXCEPT ![m] = man[m]] /\ file' = [file EXCEPT ![m] = None] /\ astray' = astray \cup {m}
          /\ ver' = ver /\ missed' = missed
        BY <1>17 DEF DieInDrop, ShapeInv, ShapeOK
    <2>3. astray' \ {m} = astray \ {m} /\ m \in astray'
        BY <2>2
    <2> QED BY <1>0, <2>1, <2>2, <2>3, BuildExact
<1>18. ASSUME NEW m \in Names, DieInBuild(m)
      PROVE  Exact(n)'
    <2>1. man[m] \in Meta
        BY <1>18 DEF DieInBuild, ShapeInv, ShapeOK
    <2>2. PICK status : status # "ready" /\ man' = [man EXCEPT ![m].status = status]
        BY <1>18 DEF DieInBuild
    <2>3. PICK f : file' = [file EXCEPT ![m] = f]
        BY <1>18 DEF DieInBuild
    <2> DEFINE new == [man[m] EXCEPT !.status = status]
    <2>4. man' = [man EXCEPT ![m] = new] /\ new.status # "ready"
        BY <2>1, <2>2 DEF Meta
    <2>5. ver' = ver /\ missed' = missed /\ astray' = astray
        BY <1>18 DEF DieInBuild
    <2> HIDE DEF new
    <2> QED BY <1>0, <2>3, <2>4, <2>5, BuildExact
<1>15. CASE UNCHANGED vars
    BY <1>0, <1>15 DEF vars, disk, caches, Exact, Current
<1>19. \A t \in Types : {t} \in SUBSET Types
    OBVIOUS
<1> QED
    BY <1>1, <1>2, <1>3, <1>4, <1>5, <1>6, <1>7, <1>8, <1>9, <1>10, <1>11, <1>12, <1>13, <1>14, <1>15,
       <1>16, <1>17, <1>18, <1>19
    DEF Next, InferEdges, UpsertEdgesRaises

(* An index that is declared ready answers for the rows its store holds now,   *)
(* whichever handle wrote last and whichever build, or process, was cut short  *)
(* (create_*_index, rebuild_vector_index, *_search, _mark_node_indexes_stale). *)
THEOREM ReadyIndexesExact == Spec => []IndexesExact
<1> QED BY InitExact, StepExact, ShapeCorrect, PTL DEF Spec

-----------------------------------------------------------------------------
(* The caches of one handle: what it keeps of the stores, and of edge tables.  *)
Cached(h) ==
    /\ \A t \in Types \ behind[h] :
           /\ rows[h][t] \in {None, ver[t]}
           /\ look[h] # None => look[h][t] = ver[t]
           /\ prior[h] # None => prior[h].nodes[t] = ver[t]
    /\ \A r \in Rels \ behind[h] : prior[h] # None => prior[h].edges[r] = ver[r]

(* A handle whose caches were dropped, and one that another's write went by.   *)
LEMMA DroppedCached ==
    ASSUME NEW g \in Handles, \A t \in Types : rows'[g][t] = None, look'[g] = None, prior'[g] = None
    PROVE  Cached(g)'
BY DEF Cached

LEMMA PassedCached ==
    ASSUME ShapeInv, NEW g \in Handles, Cached(g), NEW S \in SUBSET Owners, Write(S),
           rows'[g] = rows[g], look'[g] = look[g], prior'[g] = prior[g], behind'[g] = behind[g] \cup S
    PROVE  Cached(g)'
<1>1. \A q \in Owners \ behind'[g] : ver'[q] = ver[q] /\ q \notin behind[g]
    BY WriteShape
<1> QED BY <1>1 DEF Cached, Owners

LEMMA KeptCached ==
    ASSUME NEW g \in Handles, Cached(g), ver' = ver, behind'[g] = behind[g],
           rows'[g] = rows[g], look'[g] = look[g], prior'[g] = prior[g]
    PROVE  Cached(g)'
BY DEF Cached

(* A call that fills the caches of its handle h from the stores.               *)
LEMMA FilledCached ==
    ASSUME ShapeInv, NEW h \in Handles, NEW g \in Handles, Cached(g), ver' = ver, behind' = behind, rows' = rows,
           look' = [look EXCEPT ![h] = ReadLookup(h)],
           prior' = prior \/ prior' = [prior EXCEPT ![h] = PriorIndex(h)]
    PROVE  Cached(g)'
<1>1. CASE g # h
    <2>1. look'[g] = look[g] /\ prior'[g] = prior[g]
        BY <1>1 DEF ShapeInv, ShapeOK
    <2> QED BY <2>1, KeptCached
<1>2. CASE g = h
    <2>1. look'[g] = ReadLookup(g) /\ (prior'[g] = prior[g] \/ prior'[g] = PriorIndex(g))
        BY <1>2 DEF ShapeInv, ShapeOK
    <2>2. \A t \in Types \ behind[g] : ReadLookup(g)[t] = ver[t]
        BY DEF Cached, ReadLookup
    <2>3. /\ PriorIndex(g).nodes = ReadLookup(g)
          /\ \A r \in Rels : PriorIndex(g).edges[r] = ver[r]
        BY DEF PriorIndex
    <2> QED BY <2>1, <2>2, <2>3 DEF Cached
<1> QED BY <1>1, <1>2

(* What a write by h does to the caches of the handles, h among them.          *)
LEMMA WriteCached ==
    ASSUME ShapeInv, NEW h \in Handles, NEW g \in Handles, Cached(g), NEW S \in SUBSET Owners,
           Write(S), NEW own, Passed(h, S, own),
           DropCaches(h) \/ DropNodeCaches(h) \/ \E r \in Rels : DropRelationCaches(h, r)
    PROVE  Cached(g)'
<1>1. /\ rows' = [rows EXCEPT ![h] = Empty(Types)]
      /\ look' = [look EXCEPT ![h] = None] /\ prior' = [prior EXCEPT ![h] = None]
    BY DEF DropCaches, DropNodeCaches, DropRelationCaches
<1>2. CASE g = h
    <2>1. (\A t \in Types : rows'[g][t] = None) /\ look'[g] = None /\ prior'[g] = None
        BY <1>1, <1>2 DEF ShapeInv, ShapeOK, Empty
    <2> QED BY <2>1, DroppedCached
<1>3. CASE g # h
    <2>1. rows'[g] = rows[g] /\ look'[g] = look[g] /\ prior'[g] = prior[g] /\ behind'[g] = behind[g] \cup S
        BY <1>1, <1>3 DEF Passed, ShapeInv, ShapeOK
    <2> QED BY <2>1, PassedCached
<1> QED BY <1>2, <1>3

LEMMA ForgetCached ==
    ASSUME Forget, NEW g \in Handles
    PROVE  Cached(g)'
<1>1. (\A t \in Types : rows'[g][t] = None) /\ look'[g] = None /\ prior'[g] = None
    BY DEF Forget, Empty
<1> QED BY <1>1, DroppedCached

LEMMA StepCached ==
    ASSUME ShapeInv, [Next]_vars, NEW g \in Handles, Cached(g)
    PROVE  Cached(g)'
<1> USE DEF Owners
<1>1. ASSUME NEW h \in Handles, NEW t \in Types, NEW named, NEW unfit, InsertNodes(h, t, named, unfit)
      PROVE  Cached(g)'
    <2>1. Write({t}) /\ Passed(h, {t}, {}) /\ DropCaches(h)
        BY <1>1 DEF InsertNodes
    <2> QED BY <2>1, WriteCached
<1>11. ASSUME NEW h \in Handles, NEW touched, NEW changed \in SUBSET Types, NEW unfit, UpsertNodes(h, touched, changed, unfit)
      PROVE  Cached(g)'
    <2>1. Write(changed) /\ Passed(h, changed, {}) /\ DropCaches(h)
        BY <1>11 DEF UpsertNodes
    <2> QED BY <2>1, WriteCached
<1>12. ASSUME NEW h \in Handles, NEW done \in SUBSET Types, NEW changed \in SUBSET done, NEW lost \in SUBSET Types,
              UpsertNodesRaises(h, done, changed, lost)
      PROVE  Cached(g)'
    <2> DEFINE S == changed \cup lost
    <2>1. S \in SUBSET Owners /\ Write(S)
        BY <1>12 DEF UpsertNodesRaises
    <2>2. CASE DropNodeCaches(h) /\ Passed(h, S, behind[h] \ Types)
        <3> HIDE DEF S
        <3> QED BY <2>1, <2>2, WriteCached
    <2>3. CASE done = {} /\ UNCHANGED <<caches, pool>> /\ Passed(None, lost, {})
        <3>1. S = lost /\ g # None
            BY <2>3, IndexConstants
        <3>2. behind'[g] = behind[g] \cup S
            BY <2>3, <3>1 DEF Passed
        <3> HIDE DEF S
        <3> QED BY <2>1, <2>3, <3>2, PassedCached DEF caches
    <2> QED BY <1>12, <2>2, <2>3 DEF UpsertNodesRaises
<1>2. ASSUME NEW h \in Handles, NEW r \in Rels, InsertEdges(h, r)
      PROVE  Cached(g)'
    <2>1. Write({r}) /\ Passed(h, {r}, behind[h] \ {r}) /\ DropRelationCaches(h, r)
        BY <1>2 DEF InsertEdges
    <2> QED BY <2>1, WriteCached
<1>3. ASSUME NEW h \in Handles, NEW r \in Rels, Traverse(h, r) \/ Evidence(h, r)
      PROVE  Cached(g)'
    <2>1. ver' = ver /\ behind' = behind /\ rows' = rows /\ prior' = prior /\ look' = [look EXCEPT ![h] = ReadLookup(h)]
        BY <1>3 DEF Traverse, Evidence, disk
    <2> QED BY <2>1, FilledCached
<1>4. ASSUME NEW r \in Rels, ChangeEdgesOnly(r)
      PROVE  Cached(g)'
    <2>1. g # None /\ {r} \in SUBSET Owners /\ Write({r}) /\ UNCHANGED <<rows, look, prior>>
        BY <1>4, IndexConstants DEF ChangeEdgesOnly, caches
    <2>2. behind'[g] = behind[g] \cup {r}
        BY <1>4, <2>1 DEF ChangeEdgesOnly, Passed
    <2> QED BY <2>1, <2>2, PassedCached
<1>5. CASE Forget
    BY <1>5, ForgetCached
<1>6. ASSUME NEW h \in Handles, Reopen(h)
      PROVE  Cached(g)'
    <2>1. CASE g = h
        <3>1. (\A t \in Types : rows'[g][t] = None) /\ look'[g] = None /\ prior'[g] = None
            BY <1>6, <2>1 DEF Reopen, Empty, ShapeInv, ShapeOK
        <3> QED BY <3>1, DroppedCached
    <2>2. CASE g # h
        <3>1. ver' = ver /\ behind'[g] = behind[g] /\ rows'[g] = rows[g] /\ look'[g] = look[g] /\ prior'[g] = prior[g]
            BY <1>6, <2>2 DEF Reopen, disk, ShapeInv, ShapeOK
        <3> QED BY <3>1, KeptCached
    <2> QED BY <2>1, <2>2
<1>7. ASSUME NEW h \in Handles, LinkEntities(h)
      PROVE  Cached(g)'
    <2>1. /\ ver' = ver /\ behind' = behind /\ rows' = rows /\ look' = [look EXCEPT ![h] = ReadLookup(h)]
          /\ prior' = [prior EXCEPT ![h] = PriorIndex(h)]
        BY <1>7 DEF LinkEntities, disk
    <2> QED BY <2>1, FilledCached
<1>8. CASE UNCHANGED quiet
    BY <1>8, KeptCached DEF quiet
<1>9. ASSUME NEW h \in Handles, NEW n \in TNames, SearchText(h, n)
      PROVE  Cached(g)'
    <2> DEFINE o == man[n].owner
    <2>1. n \in Names /\ n \notin PNames /\ <<n, o>> \in Declared
        BY <1>9, IndexConstants DEF SearchText, Names, ShapeInv, OwnersDeclared
    <2>2. o \in Types
        BY <2>1, DeclaredOwner
    <2>3. rows' = [rows EXCEPT ![h][o] = IF rows[h][o] = None THEN ver[o] ELSE rows[h][o]]
          /\ UNCHANGED <<ver, look, prior, behind>>
        BY <1>9 DEF SearchText, KeepRows
    <2> HIDE DEF o
    <2>4. \A t \in Types : rows'[g][t] = rows[g][t] \/ rows'[g][t] = ver[t]
        BY <2>2, <2>3 DEF ShapeInv, ShapeOK
    <2> QED BY <2>3, <2>4 DEF Cached
<1>10. CASE UNCHANGED vars
    BY <1>10, KeptCached DEF vars, disk, caches
<1>13. \A t \in Types : {t} \in SUBSET Types
    OBVIOUS
<1> QED
    BY <1>1, <1>2, <1>3, <1>4, <1>5, <1>6, <1>7, <1>8, <1>9, <1>10, <1>11, <1>12, <1>13
    DEF Next, InferEdges, UpsertEdgesRaises, DieInDrop, DieInBuild, DieInWrite, Restart, CreateVector, RebuildVector, SearchVector, DropVector, DieInCreate,
        CreateProperty, CreateText, LookupProperty

-----------------------------------------------------------------------------
(* The adjacency of relation q that handle g keeps is the one it would read.   *)
Agree(g, q) == q \notin behind[g] /\ adj[g][q] # None => adj[g][q] = ReadEdges(q)

LEMMA StepAgree ==
    ASSUME ShapeInv, [Next]_vars, NEW g \in Handles, NEW q \in Rels, Agree(g, q)
    PROVE  Agree(g, q)'
<1> USE DEF ReadEdges, Agree, Owners
<1>1. ASSUME NEW h \in Handles, NEW S \in SUBSET Types, NEW own, Write(S), Passed(h, S, own), DropCaches(h)
      PROVE  Agree(g, q)'
    <2>1. adj' = [adj EXCEPT ![h] = Empty(Rels)] /\ pool' = pool
        BY <1>1 DEF DropCaches
    <2>2. q \notin S
        BY IndexConstants
    <2>3. ver'[q] = ver[q]
        BY <1>1, <2>2, WriteShape
    <2>4. CASE g = h
        BY <2>1, <2>4 DEF Empty, ShapeInv, ShapeOK
    <2>5. CASE g # h
        <3>1. adj'[g] = adj[g] /\ behind'[g] = behind[g] \cup S
            BY <1>1, <2>1, <2>5 DEF Passed, ShapeInv, ShapeOK
        <3> QED BY <2>1, <2>3, <3>1
    <2> QED BY <2>4, <2>5
<1>11. ASSUME NEW h \in Handles, NEW done \in SUBSET Types, NEW changed \in SUBSET done, NEW lost \in SUBSET Types,
              UpsertNodesRaises(h, done, changed, lost)
      PROVE  Agree(g, q)'
    <2>1. adj' = adj /\ pool' = pool /\ Write(changed \cup lost)
        BY <1>11 DEF UpsertNodesRaises, DropNodeCaches, caches
    <2>2. q \notin Types
        BY IndexConstants
    <2>3. ver'[q] = ver[q]
        BY <2>1, <2>2, WriteShape
    <2>4. q \notin behind'[g] => q \notin behind[g]
        <3>1. CASE Passed(h, changed \cup lost, behind[h] \ Types)
            BY <2>2, <3>1 DEF Passed
        <3>2. CASE Passed(None, lost, {})
            <4>1. g # None
                BY IndexConstants
            <4>2. behind'[g] = behind[g] \cup lost
                BY <3>2, <4>1 DEF Passed
            <4> QED BY <4>2
        <3> QED BY <1>11, <3>1, <3>2 DEF UpsertNodesRaises
    <2> QED BY <2>1, <2>3, <2>4
<1>2. ASSUME NEW h \in Handles, NEW r \in Rels, InsertEdges(h, r)
      PROVE  Agree(g, q)'
    <2>1. adj' = [adj EXCEPT ![h][r] = None] /\ pool' = pool /\ Write({r}) /\ Passed(h, {r}, behind[h] \ {r})
        BY <1>2 DEF InsertEdges, DropRelationCaches
    <2>3. CASE q = r
        <3>1. g # h => r \in behind'[g]
            BY <2>1 DEF Passed
        <3>2. adj'[h][r] = None
            BY <2>1 DEF ShapeInv, ShapeOK
        <3> QED BY <2>3, <3>1, <3>2
    <2>4. CASE q # r
        <3>1. adj'[g][q] = adj[g][q]
            BY <2>1, <2>4 DEF ShapeInv, ShapeOK
        <3>2. q \notin behind'[g] => q \notin behind[g]
            BY <2>1, <2>4 DEF Passed
        <3>3. ver'[q] = ver[q]
            BY <2>1, <2>4, WriteShape
        <3> QED BY <2>1, <3>1, <3>2, <3>3
    <2> QED BY <2>3, <2>4
<1>3. ASSUME NEW h \in Handles, NEW r \in Rels, Traverse(h, r) \/ Evidence(h, r)
      PROVE  Agree(g, q)'
    <2>1. UNCHANGED <<ver, behind>> /\ (pool' = pool \/ KeepEdges({r}))
        BY <1>3 DEF Traverse, Evidence, disk
    <2>2. ReadEdges(q)' = ReadEdges(q)
        BY <2>1 DEF KeepEdges
    <2>3. adj'[g][q] = adj[g][q] \/ adj'[g][q] = ReadEdges(q)
        <3> DEFINE v == IF adj[h][r] = None THEN ReadEdges(r) ELSE adj[h][r]
        <3>1. adj' = adj \/ adj' = [adj EXCEPT ![h][r] = v]
            BY <1>3 DEF Traverse, Evidence
        <3>2. v = adj[h][r] \/ v = ReadEdges(r)
            OBVIOUS
        <3> HIDE DEF v
        <3>3. adj \in [Handles -> [Rels -> Nat \cup {None}]]
            BY DEF ShapeInv, ShapeOK
        <3>4. adj'[g][q] = adj[g][q] \/ (g = h /\ q = r /\ adj'[g][q] = v)
            BY <3>1, <3>3
        <3> QED BY <3>2, <3>4
    <2> QED BY <2>1, <2>2, <2>3
<1>4. ASSUME NEW r \in Rels, ChangeEdgesOnly(r)
      PROVE  Agree(g, q)'
    <2>1. g # None /\ UNCHANGED <<adj, pool>> /\ Write({r})
        BY <1>4, IndexConstants DEF ChangeEdgesOnly, caches
    <2>2. behind'[g] = behind[g] \cup {r}
        BY <1>4, <2>1 DEF ChangeEdgesOnly, Passed
    <2>3. q # r => ver'[q] = ver[q]
        BY <2>1, WriteShape
    <2> QED BY <2>1, <2>2, <2>3
<1>5. CASE Forget
    BY <1>5 DEF Forget, Empty
<1>6. ASSUME NEW h \in Handles, Reopen(h)
      PROVE  Agree(g, q)'
    <2>1. adj'[g][q] = None \/ (adj'[g] = adj[g] /\ behind'[g] = behind[g])
        BY <1>6 DEF Reopen, Empty, ShapeInv, ShapeOK
    <2> QED BY <1>6, <2>1 DEF Reopen, disk
<1>7. CASE UNCHANGED <<ver, adj, pool, behind>>
    BY <1>7
<1>8. ASSUME NEW h \in Handles, NEW t \in Types, NEW named, NEW unfit, InsertNodes(h, t, named, unfit)
      PROVE  Agree(g, q)'
    BY <1>1, <1>8 DEF InsertNodes
<1>9. ASSUME NEW h \in Handles, NEW touched, NEW changed \in SUBSET Types, NEW unfit, UpsertNodes(h, touched, changed, unfit)
      PROVE  Agree(g, q)'
    BY <1>1, <1>9 DEF UpsertNodes
<1>10. \A t \in Types : {t} \in SUBSET Types
    OBVIOUS
<1> QED
    BY <1>2, <1>3, <1>4, <1>5, <1>6, <1>7, <1>8, <1>9, <1>10, <1>11
    DEF Next, vars, disk, caches, quiet, InferEdges, UpsertEdgesRaises, DieInDrop, DieInBuild, DieInWrite, Restart,
        CreateVector, RebuildVector, SearchVector, DropVector, DieInCreate, CreateProperty, CreateText,
        LookupProperty, LinkEntities, SearchText

(* What a handle keeps of rows, node lookup, graph priors and adjacency is     *)
(* what it would read again, up to what other writers, and its own calls that  *)
(* raised, did since it dropped its caches (_invalidate_graph_indexes,         *)
(* _node_rows_by_id, _node_lookup, _cached_typed_adjacency).                   *)
THEOREM CachesCurrent == Spec => []HandleCachesExact
<1> DEFINE Each == \A h \in Handles : Cached(h) /\ \A r \in Rels : Agree(h, r)
<1>1. Init => Each
    BY DEF Init, Cached, Agree, Empty
<1>2. ShapeInv /\ Each /\ [Next]_vars => Each'
    BY StepCached, StepAgree
<1>3. Each => HandleCachesExact
    BY DEF HandleCachesExact, Cached, Agree
<1> HIDE DEF Each
<1> QED BY <1>1, <1>2, <1>3, ShapeCorrect, PTL DEF Spec
=============================================================================
