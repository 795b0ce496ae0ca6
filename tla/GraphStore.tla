----------------------------- MODULE GraphStore -----------------------------
(***************************************************************************)
(* The graph a Database object keeps in its bundle (caracaldb/api.py):     *)
(* node rows with internal ids (gids), edges between gids, the cached map  *)
(* from node keys to gids, and the adjacency (CSR) files and readers       *)
(* derived from the edges.                                                 *)
(*                                                                         *)
(* A call on a table is several file operations, one per store: an append  *)
(* (or a removal and an append, for an upsert) followed by the             *)
(* invalidation of caches and CSR files.  It may raise at an append, which *)
(* leaves the object in use, and the process may stop at any moment, which *)
(* leaves the files.  Only the outgoing adjacency is modelled; the         *)
(* incoming one is the same over swapped columns.                          *)
(***************************************************************************)
EXTENDS Integers, Sequences, SequencesExt, TLC

CONSTANTS
    Keys,       \* external node ids
    EdgeKeys,   \* values of the edge key column
    Pairs,      \* the pairs of node keys that edges may join
    NoKey,      \* the edge key of a store without that column
    Classes,    \* class local names, in the order sorted() gives
    Relations,  \* relation local names, in the order sorted() gives
    Tables,     \* the node tables a caller may pass: rows with a key and a type
    MaxNodes,   \* bound on the rows of all node stores
    MaxEdges,   \* bound on the rows of all edge stores
    MaxFaults   \* bound on the calls that raise half way or are cut short

ASSUME ConstantsAssumption ==
    /\ Pairs \subseteq Keys \X Keys /\ NoKey \notin EdgeKeys
    /\ Relations \in Seq(ToSet(Relations)) /\ IsInjective(Relations)
    /\ Classes \in Seq(ToSet(Classes)) /\ IsInjective(Classes)
    \* an empty table is refused at once (CDB-7011)
    /\ \A t \in Tables : t \in Seq([key : Keys, type : ToSet(Classes)]) /\ t # <<>>
    /\ MaxNodes \in Nat /\ MaxEdges \in Nat /\ MaxFaults \in Nat

VARIABLES
    nodes,    \* the rows of each node store
    edges,    \* the rows of each edge store, in eid order
    ids,      \* _external_id_map_cache: {} or {the map}
    reader,   \* _csr_cache: for each relation {} or {the reader}
    file,     \* graph/<relation>/forward.csr: {} or {its contents}
    job,      \* the call in progress
    ghosts,   \* history: an insert_node_table raised
    nodeLoss, \* history: a node upsert raised or was cut short
    edgeLoss, \* history: an edge upsert raised or was cut short
    faults,   \* history: how often a call raised half way or the process stopped in one
    acked     \* history: edge keys written by an insert or upsert, NoKey included

losses == <<ghosts, nodeLoss, edgeLoss, faults>>
vars == <<nodes, edges, ids, reader, file, job, losses, acked>>

Class == ToSet(Classes)
Relation == ToSet(Relations)
NodeRow == [key : Keys, type : Class, gid : Nat]
(* from and to are what the caller asked for; the store has src and dst.       *)
EdgeRow == [key : EdgeKeys \cup {NoKey}, type : Relation, src : Nat, dst : Nat, from : Keys, to : Keys]
Csr == [n : Nat, adj : Seq(Nat \X Nat)]

(* todo: the stores left to write, with their rows, in order.                  *)
Idle == [op |-> "idle", phase |-> "idle", todo |-> <<>>]

Init ==
    /\ nodes = [c \in Class |-> <<>>] /\ edges = [r \in Relation |-> <<>>]
    /\ ids = {} /\ reader = [r \in Relation |-> {}] /\ file = [r \in Relation |-> {}]
    /\ job = Idle /\ ghosts = FALSE /\ nodeLoss = FALSE /\ edgeLoss = FALSE
    /\ faults = 0 /\ acked = {}

----------------------------------------------------------------------------
(* Rows, keys and gids.                                                        *)

Pick(s, S) ==
    LET first[n \in 0..Len(s)] ==  \* of the first n elements
            IF n = 0 THEN <<>> ELSE IF n \in S THEN Append(first[n - 1], s[n]) ELSE first[n - 1]
    IN  first[Len(s)]
Those(s, Test(_)) == Pick(s, {i \in DOMAIN s : Test(s[i])})
FirstOnly(s) == Pick(s, {i \in DOMAIN s : \A j \in 1..(i - 1) : s[j] # s[i]})
KeysOf(rows) == [i \in DOMAIN rows |-> rows[i].key]
TypesOf(rows) == [i \in DOMAIN rows |-> rows[i].type]

AllNodes == FlattenSeq([i \in DOMAIN Classes |-> nodes[Classes[i]]])
AllEdges == FlattenSeq([i \in DOMAIN Relations |-> edges[Relations[i]]])

(* The last row scanned for each key.                                          *)
LastByKey(rows) ==
    [k \in ToSet(KeysOf(rows)) |-> rows[Max({i \in DOMAIN rows : rows[i].key = k})]]

(* _external_id_map: the cached map, or one made from the stores.              *)
ExternalIds ==
    IF ids # {} THEN CHOOSE m \in ids : TRUE
    ELSE LET last == LastByKey(AllNodes) IN [k \in DOMAIN last |-> last[k].gid]

Put(m, k, v) == [l \in DOMAIN m \cup {k} |-> IF l = k THEN v ELSE m[l]]
NextGid(gids) == Max(gids \cup {-1}) + 1

(* Mutant: the next gid is the number of keys known.                           *)
MutAssignGids(map, table) ==
    FoldLeft(LAMBDA m, row : IF row.key \in DOMAIN m THEN m
                             ELSE Put(m, row.key, Cardinality(DOMAIN m)),
             map, table)

GiveGid(m, k) == IF k \in DOMAIN m THEN m ELSE Put(m, k, NextGid(Range(m)))

(* The map after a node table: new keys get the next gids.  The code changes    *)
(* the cached map in place.                                                    *)
AssignGids(map, table) ==
    LET after[n \in 0..Len(table)] ==  \* the first n rows
            IF n = 0 THEN map ELSE GiveGid(after[n - 1], table[n].key)
    IN  after[Len(table)]

(* The rows of a table by class, classes in order of appearance.               *)
Grouped(table, map) ==
    LET rows == [i \in DOMAIN table |->
                    [key |-> table[i].key, type |-> table[i].type, gid |-> map[table[i].key]]]
        order == FirstOnly(TypesOf(table))
    IN  [n \in DOMAIN order |->
            [store |-> order[n], rows |-> Those(rows, LAMBDA row : row.type = order[n])]]

(* The stores an upsert rewrites: those of `sorted` that are touched, each with  *)
(* the final rows of its type, keys in the order they were met.                 *)
Rewrites(sorted, touched, order, final) ==
    LET stores == Those(sorted, LAMBDA s : s \in touched)
        keys(s) == Those(order, LAMBDA k : final[k].type = s)
    IN  [n \in DOMAIN stores |->
            [store |-> stores[n], rows |-> [i \in DOMAIN keys(stores[n]) |-> final[keys(stores[n])[i]]]]]

----------------------------------------------------------------------------
(* The calls: what they compute before the first file operation.               *)

(* insert_node_table: gids first, then one insert_nodes per class.             *)
InsertNodes(table) ==
    LET map == AssignGids(ExternalIds, table)
    IN  /\ job = Idle /\ Len(AllNodes) + Len(table) <= MaxNodes
        /\ ids' = {map}
        /\ job' = [op |-> "insertNodes", phase |-> "append", todo |-> Grouped(table, map)]
        /\ UNCHANGED <<nodes, edges, reader, file, losses, acked>>

(* A row whose type is not a local name raises after its gid was given.        *)
InsertNodesRefused(table) ==
    /\ faults < MaxFaults /\ faults' = faults + 1
    /\ job = Idle
    /\ ids' = {AssignGids(ExternalIds, table)}
    /\ ghosts' = TRUE
    /\ UNCHANGED <<nodes, edges, reader, file, job, nodeLoss, edgeLoss, acked>>

(* Mutant: an updated row is taken for a new one and gets a new gid.           *)
MutFinalNodes(table, update) ==
    LET used(m) == {m[k].gid : k \in DOMAIN m} \cup {row.gid : row \in ToSet(AllNodes)}
        put(m, row) ==
            IF row.key \in DOMAIN m /\ ~update THEN m
            ELSE Put(m, row.key, [key |-> row.key, type |-> row.type, gid |-> NextGid(used(m))])
    IN  FoldLeft(put, LastByKey(AllNodes), table)

(* One row of an upsert: a known key keeps its gid, and takes the new class     *)
(* with update_existing.                                                       *)
PutNode(m, row, update) ==
    LET gids == {m[k].gid : k \in DOMAIN m} \cup {stored.gid : stored \in ToSet(AllNodes)}
    IN  IF row.key \notin DOMAIN m
        THEN Put(m, row.key, [key |-> row.key, type |-> row.type, gid |-> NextGid(gids)])
        ELSE IF update THEN [m EXCEPT ![row.key].type = row.type] ELSE m

(* The rows after an upsert, by key.                                           *)
FinalNodes(table, update) ==
    LET after[n \in 0..Len(table)] ==  \* the first n rows
            IF n = 0 THEN LastByKey(AllNodes) ELSE PutNode(after[n - 1], table[n], update)
    IN  after[Len(table)]

(* _upsert_node_table_arrow.                                                   *)
UpsertNodes(table, update) ==
    LET order == FirstOnly(KeysOf(AllNodes) \o KeysOf(table))
        touched == ToSet(TypesOf(AllNodes)) \cup ToSet(TypesOf(table))
    IN  /\ job = Idle /\ Len(order) <= MaxNodes
        /\ job' = [op |-> "upsertNodes", phase |-> "remove",
                   todo |-> Rewrites(Classes, touched, order, FinalNodes(table, update))]
        /\ UNCHANGED <<nodes, edges, ids, reader, file, losses, acked>>

Resolved(r, from, to, key) ==
    [key |-> key, type |-> r, src |-> ExternalIds[from], dst |-> ExternalIds[to], from |-> from, to |-> to]

(* insert_edge_table with one row; unknown node keys are refused (CDB-7021).   *)
InsertEdge(r, from, to, key) ==
    /\ job = Idle /\ Len(AllEdges) < MaxEdges
    /\ {from, to} \subseteq DOMAIN ExternalIds
    /\ ids' = {ExternalIds}
    /\ job' = [op |-> "insertEdges", phase |-> "append",
               todo |-> <<[store |-> r, rows |-> <<Resolved(r, from, to, key)>>]>>]
    /\ UNCHANGED <<nodes, edges, reader, file, losses, acked>>

(* Looking up node keys (insert_edge_table, out, in_, degree, ...) fills the    *)
(* cached map, whether or not the call goes on.                                *)
LookUp ==
    /\ job = Idle /\ ids = {} /\ ids' = {ExternalIds}
    /\ UNCHANGED <<nodes, edges, reader, file, job, losses, acked>>

(* A store has the edge key column or not, as its first row has.               *)
Keyed(r) == edges[r] # <<>> /\ edges[r][1].key # NoKey

(* _upsert_edge_table_arrow with one row: the rows of the stores that have the  *)
(* edge key column are collected, and the row's own store is rewritten with     *)
(* the stores of those rows.                                                   *)
UpsertEdge(r, from, to, key, update) ==
    LET scanned == Those(AllEdges, LAMBDA e : Keyed(e.type))
        existing == LastByKey(scanned)
        final == IF key \in DOMAIN existing /\ ~update THEN existing
                 ELSE Put(existing, key, Resolved(r, from, to, key))
        order == FirstOnly(Append(KeysOf(scanned), key))
        touched == {r} \cup ToSet(TypesOf(scanned))
    IN  /\ job = Idle /\ Len(order) <= MaxEdges
        /\ {from, to} \subseteq DOMAIN ExternalIds
        /\ ids' = {ExternalIds}
        /\ job' = [op |-> "upsertEdges", phase |-> "remove",
                   todo |-> Rewrites(Relations, touched, order, final)]
        /\ UNCHANGED <<nodes, edges, reader, file, losses, acked>>

----------------------------------------------------------------------------
(* The file operations of a call, store by store.                              *)

OnNodes == job.op \in {"insertNodes", "upsertNodes"}
Store == Head(job.todo).store
Rows == Head(job.todo).rows

(* Mutant: the last store is left out.                                         *)
MutNextStore(phase) ==
    job' = IF Len(job.todo) <= 2 THEN Idle ELSE [job EXCEPT !.phase = phase, !.todo = Tail(@)]

(* The next store, or the end of the call.                                     *)
NextStore(phase) ==
    job' = IF Len(job.todo) = 1 THEN Idle ELSE [job EXCEPT !.phase = phase, !.todo = Tail(@)]

(* rmtree in _replace_node_store_rows and _replace_edge_store_rows.            *)
RemoveStore ==
    /\ job.phase = "remove"
    /\ IF OnNodes THEN nodes' = [nodes EXCEPT ![Store] = <<>>] /\ UNCHANGED edges
                  ELSE edges' = [edges EXCEPT ![Store] = <<>>] /\ UNCHANGED nodes
    /\ job' = [job EXCEPT !.phase = IF Rows # <<>> THEN "append" ELSE "invalidate"]
    /\ UNCHANGED <<ids, reader, file, losses, acked>>

(* A store refuses rows with other columns than it has.                        *)
Fits == ~OnNodes /\ edges[Store] # <<>> => Keyed(Store) = (Rows[1].key # NoKey)

AppendRows ==
    /\ job.phase = "append" /\ Fits
    /\ IF OnNodes THEN nodes' = [nodes EXCEPT ![Store] = @ \o Rows] /\ UNCHANGED edges
                  ELSE edges' = [edges EXCEPT ![Store] = @ \o Rows] /\ UNCHANGED nodes
    /\ job' = [job EXCEPT !.phase = "invalidate"]
    /\ UNCHANGED <<ids, reader, file, losses, acked>>

(* An append raises: the rows do not fit the store, or the disk is full.  The   *)
(* call ends without invalidating anything.                                    *)
AppendFails ==
    /\ job.phase = "append"
    /\ IF Fits THEN faults < MaxFaults /\ faults' = faults + 1 ELSE UNCHANGED faults
    /\ job' = Idle
    /\ ghosts' = (ghosts \/ job.op = "insertNodes")
    /\ nodeLoss' = (nodeLoss \/ job.op = "upsertNodes")
    /\ edgeLoss' = (edgeLoss \/ job.op = "upsertEdges")
    /\ UNCHANGED <<nodes, edges, ids, reader, file, acked>>

(* _invalidate_graph_indexes(): after each class of an insert, and after the    *)
(* last one of an upsert.                                                      *)
InvalidateAll ==
    /\ job.phase = "invalidate" /\ OnNodes
    /\ IF job.op = "upsertNodes" /\ Len(job.todo) > 1
       THEN UNCHANGED <<ids, reader, file>>
       ELSE /\ ids' = {} /\ reader' = [r \in Relation |-> {}] /\ file' = [r \in Relation |-> {}]
    /\ NextStore(IF job.op = "upsertNodes" THEN "remove" ELSE "append")
    /\ UNCHANGED <<nodes, edges, losses, acked>>

(* Mutant: the files are removed, the readers stay cached.                     *)
MutInvalidateRelation ==
    /\ job.phase = "invalidate" /\ ~OnNodes
    /\ file' = [file EXCEPT ![Store] = {}]
    /\ NextStore("remove")
    /\ acked' = acked \cup ToSet(KeysOf(Rows))
    /\ UNCHANGED <<nodes, edges, ids, reader, losses>>

(* _invalidate_graph_indexes(relation): the map of node keys stays.            *)
InvalidateRelation ==
    /\ job.phase = "invalidate" /\ ~OnNodes
    /\ reader' = [reader EXCEPT ![Store] = {}] /\ file' = [file EXCEPT ![Store] = {}]
    /\ NextStore("remove")
    /\ acked' = acked \cup ToSet(KeysOf(Rows))
    /\ UNCHANGED <<nodes, edges, ids, losses>>

----------------------------------------------------------------------------
(* Adjacency.                                                                  *)

Adjacency(r) == [i \in DOMAIN edges[r] |-> <<edges[r][i].src, edges[r][i].dst>>]

(* _global_vertex_count.                                                       *)
VertexCount == Max({row.gid + 1 : row \in ToSet(AllNodes)} \cup {Len(nodes[c]) : c \in Class})

(* _fresh_csr_reader: a file is taken for fresh by its counts.                 *)
Fresh(r) == {f \in file[r] : f.n = VertexCount /\ Len(f.adj) = Len(edges[r])}

(* build_csr refuses a source beyond the vertex count (CDB-7082).              *)
Built(r) == {f \in {[n |-> VertexCount, adj |-> Adjacency(r)]} : \A i \in DOMAIN f.adj : f.adj[i][1] < f.n}

(* _readers_for_relation for a reader not cached.  Reading a relation without  *)
(* edges is left out.                                                          *)
ReadRelation(r) ==
    /\ job = Idle /\ edges[r] # <<>> /\ reader[r] = {}
    /\ file' = [file EXCEPT ![r] = IF Fresh(r) # {} THEN @ ELSE Built(r)]
    /\ reader' = [reader EXCEPT ![r] = file'[r]]
    /\ UNCHANGED <<nodes, edges, ids, job, losses, acked>>

(* The process ends, and another opens the bundle.                             *)
Stop ==
    /\ IF job # Idle THEN faults < MaxFaults /\ faults' = faults + 1 ELSE UNCHANGED faults
    /\ ids' = {} /\ reader' = [r \in Relation |-> {}] /\ job' = Idle
    /\ nodeLoss' = (nodeLoss \/ job.op = "upsertNodes")
    /\ edgeLoss' = (edgeLoss \/ job.op = "upsertEdges")
    /\ UNCHANGED <<nodes, edges, file, ghosts, acked>>

Next ==
    \/ \E table \in Tables :
          \/ InsertNodes(table) \/ InsertNodesRefused(table)
          \/ \E update \in BOOLEAN : UpsertNodes(table, update)
    \/ \E r \in Relation, p \in Pairs :
          \/ \E key \in EdgeKeys \cup {NoKey} : InsertEdge(r, p[1], p[2], key)
          \/ \E key \in EdgeKeys, update \in BOOLEAN : UpsertEdge(r, p[1], p[2], key, update)
    \/ LookUp \/ RemoveStore \/ AppendRows \/ AppendFails \/ InvalidateAll \/ InvalidateRelation
    \/ \E r \in Relation : ReadRelation(r)
    \/ Stop

Spec == Init /\ [][Next]_vars

----------------------------------------------------------------------------
TypeOK ==
    /\ nodes \in [Class -> Seq(NodeRow)] /\ edges \in [Relation -> Seq(EdgeRow)]
    /\ \A m \in ids : DOMAIN m \subseteq Keys /\ Range(m) \subseteq Nat
    /\ \A r \in Relation : reader[r] \cup file[r] \subseteq Csr
    /\ job.op \in {"idle", "insertNodes", "upsertNodes", "insertEdges", "upsertEdges"}
    /\ job.phase \in {"idle", "remove", "append", "invalidate"}
    /\ {ghosts, nodeLoss, edgeLoss} \subseteq BOOLEAN /\ faults \in 0..MaxFaults
    /\ acked \subseteq EdgeKeys \cup {NoKey}

(* A gid belongs to one key and a key has one gid, over all stores, whatever    *)
(* inserts failed and wherever the process stopped; only an upsert that raised  *)
(* leaves a cached map that hides gids in use.                                 *)
GidsUnique ==
    nodeLoss \/ \A a, b \in ToSet(AllNodes) : a.key = b.key <=> a.gid = b.gid

(* Between node writes, the gids of an edge are those of the nodes it was       *)
(* asked to join, as long as no node write raised and no node upsert was cut    *)
(* short: gids given out by the cache are the ones on disk.                    *)
EdgesGrounded ==
    \/ ghosts \/ nodeLoss \/ OnNodes
    \/ \A e \in ToSet(AllEdges) :
          \E a, b \in ToSet(AllNodes) :
             a.gid = e.src /\ a.key = e.from /\ b.gid = e.dst /\ b.key = e.to

(* Between calls, an adjacency reader in use, and a file that would be taken    *)
(* for fresh, hold exactly the edges of the relation, unless an edge upsert     *)
(* raised or was cut short: the counts tell every other stale file.            *)
ReadersExact ==
    job = Idle /\ ~edgeLoss =>
        \A r \in Relation : \A c \in reader[r] \cup Fresh(r) : c.adj = Adjacency(r)

(* Between calls, an edge key written by an insert or upsert is in some store,  *)
(* unless an edge upsert raised or was cut short: rewriting all relations, with *)
(* edges moving between them, loses none.                                      *)
EdgeKeysKept ==
    job = Idle /\ ~edgeLoss => acked \ {NoKey} \subseteq ToSet(KeysOf(AllEdges))

(* The same for edges without key: an upsert inserts and updates rows and       *)
(* deletes none ("Idempotently insert or update typed edge rows", api.py).     *)
EdgesKept ==
    job = Idle /\ ~edgeLoss => acked \subseteq ToSet(KeysOf(AllEdges))
=============================================================================
