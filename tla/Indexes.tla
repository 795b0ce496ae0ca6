------------------------------ MODULE Indexes ------------------------------
(***************************************************************************)
(* The vector, property and text indexes of a bundle and the caches that   *)
(* searches and traversals read (caracaldb/api.py).                        *)
(*                                                                         *)
(* A store (the node rows of a type, the edge rows of a relation) is       *)
(* represented by its version, the number of writes it has seen: an index  *)
(* file or a cache holds what the store held at some version, and is right *)
(* when that version is the current one.  Version 0 is a store that does   *)
(* not exist yet.                                                          *)
(*                                                                         *)
(* Handles are Database objects of one process; their caches are fields of *)
(* the object, except the edge tables of _get_arrow_table, which the whole *)
(* process shares.  A call may be cut short by the end of the process.     *)
(* Text data and HNSW objects in memory are keyed by the path, time and    *)
(* size of their file, and so stand for what the file holds.               *)
(***************************************************************************)
EXTENDS Naturals, FiniteSets

CONSTANTS
    Types,     \* node types
    Rels,      \* relations
    VNames,    \* names of vector indexes
    PNames,    \* names of property indexes
    TNames,    \* names of text indexes
    Handles,   \* Database objects
    None,      \* no metadata, no file, nothing cached
    Declared,  \* the pairs of a name and a store that callers declare an index for
    IriTail,   \* the type whose local name is the tail of a type's IRI: itself, another, None
    MaxWrites  \* bound on the writes of all stores together

Owners == Types \cup Rels
Names == VNames \cup PNames \cup TNames

ASSUME IndexConstants ==
    /\ Types \cap Rels = {} /\ MaxWrites \in Nat
    /\ VNames \cap PNames = {} /\ VNames \cap TNames = {} /\ PNames \cap TNames = {}
    /\ None \notin Owners \cup Handles /\ IriTail \in [Types -> Types \cup {None}]
    (* create_property_index takes a node or an edge type, the others a node type. *)
    /\ Declared \subseteq (PNames \X Owners) \cup ((VNames \cup TNames) \X Types)

VARIABLES
    ver,     \* the version of each store
    bad,     \* the types with a row whose vector cannot be indexed, or with no rows left
    man,     \* the three index manifests: the metadata of each index
    file,    \* the index files: the store version they were built from
    ents,    \* _vector_entries_cache of each handle
    rows,    \* _node_rows_by_id_cache of each handle
    look,    \* _node_lookup_cache of each handle
    prior,   \* _graph_prior_index_cache of each handle
    adj,     \* _typed_adjacency_cache of each handle
    pool,    \* _PROCESS_GLOBAL_BUFFER_POOL
    missed,  \* history: stores whose last write marked no index stale
    behind,  \* history: stores changed since the handle dropped its caches, by another
             \* writer or by a call of its own that raised
    astray   \* history: vector indexes built from entries older than the store, or
             \* whose file is gone because a death cut their removal short

disk == <<ver, bad, man, file>>
caches == <<ents, rows, look, prior, adj>>
vars == <<disk, caches, pool, missed, behind, astray>>

Version == 0..MaxWrites
Snap == [owner : Types, ver : Version]
Meta == [owner : Owners, algo : {"hnsw", "exact", "json"}, status : {"building", "ready", "stale"}]

Empty(S) == [x \in S |-> None]

Init ==
    /\ ver = [o \in Owners |-> 0] /\ bad = {}
    /\ man = Empty(Names) /\ file = Empty(Names)
    /\ ents = [h \in Handles |-> Empty(VNames)] /\ rows = [h \in Handles |-> Empty(Types)]
    /\ look = Empty(Handles) /\ prior = Empty(Handles)
    /\ adj = [h \in Handles |-> Empty(Rels)] /\ pool = Empty(Rels)
    /\ missed = {} /\ astray = {} /\ behind = [h \in Handles |-> {}]

-----------------------------------------------------------------------------
(* Writes, and what they do to indexes and caches.                             *)

Written == Cardinality({w \in Owners \X (1..MaxWrites) : w[2] <= ver[w[1]]})

(* The stores in S get other rows.                                             *)
Write(S) ==
    /\ Written + Cardinality(S) <= MaxWrites
    /\ ver' = [o \in Owners |-> IF o \in S THEN ver[o] + 1 ELSE ver[o]]

(* The indexes of the given stores, of the given kinds, are no longer ready.   *)
MarkStale(S, kinds) ==
    man' = [n \in Names |-> IF man[n] # None /\ man[n].owner \in S /\ n \in kinds
                               /\ man[n].status = "ready"
                            THEN [man[n] EXCEPT !.status = "stale"] ELSE man[n]]

(* _mark_edge_indexes_stale: property indexes over the relation only.          *)
MarkEdgesStale(r) == MarkStale({r}, PNames)

(* A write to the stores in S by handle h (None: not through a handle) passes   *)
(* the other handles by; own: what h has missed after it.                      *)
Passed(h, S, own) == behind' = [g \in Handles |-> IF g = h THEN own ELSE behind[g] \cup S]

MutDropCaches(h) ==
    /\ adj' = [adj EXCEPT ![h] = Empty(Rels)]
    /\ look' = [look EXCEPT ![h] = None]
    /\ UNCHANGED <<ents, pool, rows, prior>>

(* _invalidate_graph_indexes(): everything derived from the graph but the      *)
(* vector entries and the shared edge tables.                                  *)
DropCaches(h) ==
    /\ adj' = [adj EXCEPT ![h] = Empty(Rels)]
    /\ rows' = [rows EXCEPT ![h] = Empty(Types)]
    /\ look' = [look EXCEPT ![h] = None] /\ prior' = [prior EXCEPT ![h] = None]
    /\ UNCHANGED <<ents, pool>>

(* _invalidate_graph_indexes(relation) keeps the adjacency of other relations. *)
DropRelationCaches(h, r) ==
    /\ adj' = [adj EXCEPT ![h][r] = None]
    /\ rows' = [rows EXCEPT ![h] = Empty(Types)]
    /\ look' = [look EXCEPT ![h] = None] /\ prior' = [prior EXCEPT ![h] = None]
    /\ UNCHANGED <<ents, pool>>

(* The part of _mark_node_indexes_stale that is about the handle.              *)
DropNodeCaches(h) ==
    /\ rows' = [rows EXCEPT ![h] = Empty(Types)]
    /\ look' = [look EXCEPT ![h] = None] /\ prior' = [prior EXCEPT ![h] = None]
    /\ UNCHANGED <<ents, adj, pool>>

(* insert_nodes: append, invalidate, mark.  The class is named by its local    *)
(* name or by its IRI; the indexes marked are those over the class whose local *)
(* name is the tail of that.  unfit: the batch has a row whose vector is       *)
(* missing or of another dimension.                                            *)
InsertNodes(h, t, named, unfit) ==
    /\ named \in {t, IriTail[t]}
    /\ Write({t})
    /\ bad' = IF unfit THEN bad \cup {t} ELSE bad
    /\ DropCaches(h) /\ MarkStale({named}, Names) /\ Passed(h, {t}, {})
    /\ missed' = IF named = t THEN missed \ {t} ELSE missed \cup {t}
    /\ UNCHANGED <<file, astray>>

(* upsert_node_table_arrow rewrites, and marks, the types of the rows it is    *)
(* given and those with rows that have a key; the rows of `changed` differ.    *)
UpsertNodes(h, touched, changed, unfit) ==
    /\ \A u \in touched \ changed : ver[u] > 0
    /\ Write(changed)
    /\ bad' = IF unfit THEN bad \cup changed ELSE bad \ changed
    /\ MarkStale(touched, Names) /\ DropCaches(h) /\ Passed(h, changed, {})
    /\ missed' = missed \ touched
    /\ UNCHANGED <<file, astray>>

(* The upsert raises: the types before, in the order of their names, are       *)
(* rewritten and marked; that of `lost`, if any, has been removed and not      *)
(* written again.  What the marking dropped is all that the handle drops.      *)
UpsertNodesRaises(h, done, changed, lost) ==
    /\ done \cap lost = {} /\ done \cup lost # {}
    /\ \A u \in done \ changed : ver[u] > 0
    /\ Write(changed \cup lost)
    /\ bad' = (bad \ changed) \cup lost
    /\ MarkStale(done, Names)
    /\ missed' = (missed \ done) \cup lost
    /\ IF done # {}
       THEN DropNodeCaches(h) /\ Passed(h, changed \cup lost, behind[h] \ Types)
       ELSE UNCHANGED <<caches, pool>> /\ Passed(None, lost, {})
    /\ UNCHANGED <<file, astray>>

(* insert_edge_table, its Arrow form, and an edge upsert relation by relation: *)
(* append or replace, invalidate, mark.                                        *)
InsertEdges(h, r) ==
    /\ Write({r})
    /\ DropRelationCaches(h, r) /\ MarkEdgesStale(r) /\ Passed(h, {r}, behind[h] \ {r})
    /\ missed' = missed \ {r}
    /\ UNCHANGED <<bad, file, astray>>

(* Edges change and no handle drops a cache, no index is marked.               *)
ChangeEdgesOnly(r) ==
    /\ Write({r})
    /\ missed' = missed \cup {r} /\ Passed(None, {r}, {})
    /\ UNCHANGED <<bad, man, file, caches, pool, astray>>

(* The reasoner appends inferred edges to the store directly.                  *)
InferEdges(r) == ver[r] > 0 /\ ChangeEdgesOnly(r)

(* An edge upsert raises after it removed the store of a relation.             *)
UpsertEdgesRaises(r) == ChangeEdgesOnly(r)

(* The end of the process, and a new one: what was in memory is gone.          *)
Forget ==
    /\ ents' = [h \in Handles |-> Empty(VNames)] /\ rows' = [h \in Handles |-> Empty(Types)]
    /\ look' = Empty(Handles) /\ prior' = Empty(Handles)
    /\ adj' = [h \in Handles |-> Empty(Rels)] /\ pool' = Empty(Rels)
    /\ behind' = [h \in Handles |-> {}]

(* The process ends in a write to o after the append, having marked none of    *)
(* the manifests, the vector manifest, or that and the property manifest.      *)
DieInWrite(o) ==
    /\ Write({o})
    /\ \E kinds \in {{}, VNames, VNames \cup PNames} : MarkStale({o}, kinds)
    /\ missed' = missed \cup {o}
    /\ Forget
    /\ UNCHANGED <<bad, file, astray>>

Restart == Forget /\ UNCHANGED <<disk, missed, astray>>

(* A handle is closed and the bundle opened again in the same process.         *)
Reopen(h) ==
    /\ ents' = [ents EXCEPT ![h] = Empty(VNames)] /\ rows' = [rows EXCEPT ![h] = Empty(Types)]
    /\ look' = [look EXCEPT ![h] = None] /\ prior' = [prior EXCEPT ![h] = None]
    /\ adj' = [adj EXCEPT ![h] = Empty(Rels)]
    /\ behind' = [behind EXCEPT ![h] = {}]
    /\ UNCHANGED <<disk, pool, missed, astray>>

-----------------------------------------------------------------------------
(* Vector indexes.                                                             *)

(* _vector_entries: the rows cached under the index name, else the store's,    *)
(* which raises when a vector cannot be used.                                  *)
Entries(h, n, t) == IF ents[h][n] # None THEN ents[h][n] ELSE [owner |-> t, ver |-> ver[t]]
Readable(h, n, t) == ents[h][n] # None \/ t \notin bad

MutBuildVector(h, n, meta) ==
    /\ ents' = [ents EXCEPT ![h][n] = Entries(h, n, meta.owner)]
    /\ man' = [man EXCEPT ![n] = [meta EXCEPT !.status = "ready"]]
    /\ file' = [file EXCEPT ![n] = IF meta.algo = "hnsw" /\ @ = None THEN ents'[h][n] ELSE @]
    /\ astray' = IF ents'[h][n] = [owner |-> meta.owner, ver |-> ver[meta.owner]]
                 THEN astray \ {n} ELSE astray \cup {n}

(* _build_vector_index, from the entries of the handle; an exact index has no  *)
(* file.                                                                       *)
BuildVector(h, n, meta) ==
    /\ ents' = [ents EXCEPT ![h][n] = Entries(h, n, meta.owner)]
    /\ man' = [man EXCEPT ![n] = [meta EXCEPT !.status = "ready"]]
    /\ file' = [file EXCEPT ![n] = IF meta.algo = "hnsw" THEN ents'[h][n] ELSE None]
    /\ astray' = IF ents'[h][n] = [owner |-> meta.owner, ver |-> ver[meta.owner]]
                 THEN astray \ {n} ELSE astray \cup {n}

(* What is declared but could not be built stays "building".                   *)
LeftBuilding(n, meta) ==
    /\ man' = [man EXCEPT ![n] = [meta EXCEPT !.status = "building"]]
    /\ UNCHANGED <<file, ents, astray>>

quiet == <<ver, bad, rows, look, prior, adj, pool, missed, behind>>

(* create_vector_index.  A name in use returns its metadata or is refused, and *)
(* nothing changes.                                                            *)
CreateVector(h, n, t, algo) ==
    LET meta == [owner |-> t, algo |-> algo, status |-> "building"] IN
    /\ man[n] = None /\ ver[t] > 0
    /\ \/ Readable(h, n, t) /\ BuildVector(h, n, meta)
       \/ ~Readable(h, n, t) /\ LeftBuilding(n, meta)
    /\ UNCHANGED quiet

(* drop_vector_index removes the file and the metadata, not cached entries.    *)
DropVector(n) ==
    /\ man[n] # None
    /\ file' = [file EXCEPT ![n] = None] /\ man' = [man EXCEPT ![n] = None]
    /\ astray' = astray \ {n}
    /\ UNCHANGED <<quiet, ents>>

(* The process ends between the two: the manifest still lists the index.       *)
DieInDrop(n) ==
    /\ man[n] # None /\ file[n] # None
    /\ file' = [file EXCEPT ![n] = None]
    /\ astray' = astray \cup {n}
    /\ Forget
    /\ UNCHANGED <<ver, bad, man, missed>>

(* rebuild_vector_index: declared "building", then built.                      *)
RebuildVector(h, n) ==
    /\ man[n] # None
    /\ \/ Readable(h, n, man[n].owner) /\ BuildVector(h, n, man[n])
       \/ ~Readable(h, n, man[n].owner) /\ LeftBuilding(n, man[n])
    /\ UNCHANGED quiet

(* vector_search: an index that is not ready is built first, and its entries   *)
(* are cached; without usable rows the call raises and nothing changes.        *)
SearchVector(h, n) ==
    /\ man[n] # None /\ Readable(h, n, man[n].owner)
    /\ \/ man[n].status \in {"stale", "building"} /\ BuildVector(h, n, man[n])
       \/ /\ man[n].status = "ready"
          /\ ents' = [ents EXCEPT ![h][n] = Entries(h, n, man[n].owner)]
          /\ UNCHANGED <<man, file, astray>>
    /\ UNCHANGED quiet

(* The process ends after the index was declared and before it was built.      *)
DieInCreate(n, o) ==
    /\ man[n] = None /\ ver[o] > 0
    /\ man' = [man EXCEPT ![n] = [owner |-> o, status |-> "building",
                                  algo |-> IF n \in VNames THEN "hnsw" ELSE "json"]]
    /\ Forget
    /\ UNCHANGED <<ver, bad, file, missed, astray>>

(* The process ends in a build, before or after the file is in place: the      *)
(* index is not ready (a rebuild had declared it "building" first).            *)
DieInBuild(n) ==
    /\ man[n] # None
    /\ \E status \in {"building", man[n].status} :
          /\ status # "ready" /\ (n \notin VNames => status = man[n].status)
          /\ man' = [man EXCEPT ![n].status = status]
    /\ \E f \in {None, file[n], [owner |-> man[n].owner, ver |-> ver[man[n].owner]]} :
          file' = [file EXCEPT ![n] = f]
    /\ Forget
    /\ UNCHANGED <<ver, bad, missed, astray>>

-----------------------------------------------------------------------------
(* Property and text indexes: one JSON file each, replaced as a whole.         *)

(* _build_property_index: scan the store, replace the file as a whole, then    *)
(* declare the index ready.                                                    *)
BuildJson(n, meta) ==
    /\ file' = [file EXCEPT ![n] = [owner |-> meta.owner, ver |-> ver[meta.owner]]]
    /\ man' = [man EXCEPT ![n] = [meta EXCEPT !.status = "ready"]]

(* _build_text_index: the same steps over normalized texts and tokens.         *)
BuildText(n, meta) == BuildJson(n, meta)

Served(n) == man[n].status = "ready" /\ file[n] # None
NewJson(o) == [owner |-> o, algo |-> "json", status |-> "building"]

(* create_property_index, create_text_index: the same definition again builds  *)
(* unless the index is served already; another definition is refused.          *)
CreateProperty(n, o) ==
    /\ ver[o] > 0
    /\ \/ man[n] = None /\ BuildJson(n, NewJson(o))
       \/ man[n] # None /\ man[n].owner = o /\ ~Served(n) /\ BuildJson(n, man[n])
    /\ UNCHANGED <<quiet, ents, astray>>

CreateText(n, o) ==
    /\ ver[o] > 0
    /\ \/ man[n] = None /\ BuildText(n, NewJson(o))
       \/ man[n] # None /\ man[n].owner = o /\ ~Served(n) /\ BuildText(n, man[n])
    /\ UNCHANGED <<quiet, ents, astray>>

(* _property_index_lookup_ids: an equality predicate answered by the index.    *)
LookupProperty(n) ==
    /\ man[n] # None /\ ~Served(n) /\ BuildJson(n, man[n])
    /\ UNCHANGED <<quiet, ents, astray>>

(* _load_text_index_data.                                                      *)
LoadText(n) == IF Served(n) THEN UNCHANGED <<man, file>> ELSE BuildText(n, man[n])

(* _node_rows_by_id.                                                           *)
KeepRows(h, t) == rows' = [rows EXCEPT ![h][t] = IF @ = None THEN ver[t] ELSE @]

(* text_search: the index data, then the rows of the hits from the cache.      *)
SearchText(h, n) ==
    /\ man[n] # None
    /\ LoadText(n) /\ KeepRows(h, man[n].owner)
    /\ UNCHANGED <<ver, bad, ents, look, prior, adj, pool, missed, behind, astray>>

-----------------------------------------------------------------------------
(* Traversals and graph priors.                                                *)

(* _get_arrow_table: the edge table under the bundle, the relation and the     *)
(* time of edges/<relation>/data.arrow, a file no code writes: the time is     *)
(* always 0 and the first table read stays.  Without a relation of that name   *)
(* the table is empty and is not kept.                                         *)
ReadEdges(r) == IF pool[r] # None THEN pool[r] ELSE ver[r]
KeepEdges(S) == pool' = [r \in Rels |-> IF r \in S /\ ver[r] > 0 THEN ReadEdges(r) ELSE pool[r]]

(* _node_lookup: the rows of every node store, by internal id.                 *)
ReadLookup(h) == IF look[h] # None THEN look[h] ELSE [t \in Types |-> ver[t]]

(* neighbors, k_hop, paths, shortest_path: _typed_adjacency over edge tables.  *)
Traverse(h, r) ==
    /\ KeepEdges({r}) /\ look' = [look EXCEPT ![h] = ReadLookup(h)]
    /\ UNCHANGED <<disk, ents, rows, prior, adj, missed, behind, astray>>

(* evidence_search and edge weight boosts: _cached_typed_adjacency.            *)
Evidence(h, r) ==
    /\ adj' = [adj EXCEPT ![h][r] = IF @ = None THEN ReadEdges(r) ELSE @]
    /\ IF adj[h][r] = None THEN KeepEdges({r}) ELSE UNCHANGED pool
    /\ look' = [look EXCEPT ![h] = ReadLookup(h)]
    /\ UNCHANGED <<disk, ents, rows, prior, missed, behind, astray>>

(* _graph_prior_index: degrees and supporting chunks, over the edge stores     *)
(* themselves and the cached node lookup.                                      *)
PriorIndex(h) == [edges |-> [r \in Rels |-> ver[r]], nodes |-> ReadLookup(h)]

(* link_entities ranks the hits of a text or a vector search by graph priors.  *)
LinkEntities(h) ==
    /\ prior[h] = None
    /\ look' = [look EXCEPT ![h] = ReadLookup(h)]
    /\ prior' = [prior EXCEPT ![h] = PriorIndex(h)]
    /\ UNCHANGED <<disk, ents, rows, adj, pool, missed, behind, astray>>

Next ==
    \/ \E h \in Handles, t \in Types, named \in Types \cup {None}, unfit \in BOOLEAN :
           InsertNodes(h, t, named, unfit)
    \/ \E h \in Handles, touched \in SUBSET Types, unfit \in BOOLEAN :
           \E changed \in SUBSET touched : UpsertNodes(h, touched, changed, unfit)
    \/ \E h \in Handles, done \in SUBSET Types, lost \in {{}} \cup {{t} : t \in Types} :
           \E changed \in SUBSET done : UpsertNodesRaises(h, done, changed, lost)
    \/ \E h \in Handles, r \in Rels : InsertEdges(h, r) \/ Traverse(h, r) \/ Evidence(h, r)
    \/ \E r \in Rels : InferEdges(r) \/ UpsertEdgesRaises(r)
    \/ \E o \in Owners : DieInWrite(o)
    \/ Restart
    \/ \E h \in Handles : Reopen(h) \/ LinkEntities(h)
    \/ \E h \in Handles, n \in VNames :
           \/ \E t \in Types, algo \in {"hnsw", "exact"} : <<n, t>> \in Declared /\ CreateVector(h, n, t, algo)
           \/ RebuildVector(h, n) \/ SearchVector(h, n)
    \/ \E n \in VNames : DropVector(n) \/ DieInDrop(n)
    \/ \E n \in Names : DieInBuild(n)
    \/ \E n \in Names, o \in Owners : <<n, o>> \in Declared /\ DieInCreate(n, o)
    \/ \E n \in PNames, o \in Owners : <<n, o>> \in Declared /\ CreateProperty(n, o)
    \/ \E n \in TNames, o \in Types : <<n, o>> \in Declared /\ CreateText(n, o)
    \/ \E n \in PNames : LookupProperty(n)
    \/ \E h \in Handles, n \in TNames : SearchText(h, n)

Spec == Init /\ [][Next]_vars

-----------------------------------------------------------------------------
Current(o) == [owner |-> o, ver |-> ver[o]]

(* A property or text index that is declared ready has a file, and the file    *)
(* answers for the rows its store holds now: whatever handle wrote last,       *)
(* whichever build was cut short.  Left behind it is only by a write that did  *)
(* not mark it: one that ended or raised before, went past the Database, or    *)
(* named its class by an IRI whose tail is not the class's local name.         *)
JsonIndexExact ==
    \A n \in PNames \cup TNames :
        man[n] # None /\ man[n].status = "ready" /\ man[n].owner \notin missed
            => file[n] = Current(man[n].owner)

(* The same for the HNSW file of a vector index, unless it was built from      *)
(* entries a handle had cached before (_vector_entries never forgets them), or *)
(* drop_vector_index ended after it had removed the file.                      *)
VectorIndexExact ==
    \A n \in VNames :
        man[n] # None /\ man[n].status = "ready" /\ man[n].owner \notin missed /\ n \notin astray
            => file[n] = IF man[n].algo = "hnsw" THEN Current(man[n].owner) ELSE None

(* A secondary index that is declared ready answers for the current rows.      *)
IndexesExact == JsonIndexExact /\ VectorIndexExact

(* What a handle has cached is what it would read now, up to the writes of     *)
(* others, and of its own calls that raised, since it dropped its caches: rows, *)
(* node lookup and graph priors from the stores, the adjacency evidence_search *)
(* keeps from the edge tables of the process.  (Those are not the stores'      *)
(* current edges, which adjacency readers and queries read: TraversalLatest.)  *)
HandleCachesExact ==
    \A h \in Handles :
        /\ \A t \in Types \ behind[h] :
               /\ rows[h][t] \in {None, ver[t]}
               /\ look[h] # None => look[h][t] = ver[t]
               /\ prior[h] # None => prior[h].nodes[t] = ver[t]
        /\ \A r \in Rels \ behind[h] :
               /\ prior[h] # None => prior[h].edges[r] = ver[r]
               /\ adj[h][r] # None => adj[h][r] = ReadEdges(r)

(* docs/api/graph.md:46: "When node or edge batches are appended through       *)
(* Database, derived graph index files are invalidated automatically so the    *)
(* next traversal rebuilds against the latest bundle state."                   *)
TraversalLatest == \A r \in Rels : r \notin missed => ReadEdges(r) = ver[r]

(* docs/format/column-segment.md:10: the column segments "are the source of    *)
(* truth used to rebuild indexes": an index declared ready was built from the  *)
(* rows its store holds.                                                       *)
VectorIndexFresh ==
    \A n \in VNames :
        man[n] # None /\ man[n].status = "ready" /\ man[n].algo = "hnsw"
            /\ man[n].owner \notin missed => file[n] = Current(man[n].owner)

=============================================================================
