---------------------------- MODULE NativeStore ----------------------------
(***************************************************************************)
(* The Rust core's node and edge stores (crates/caracaldb-core/src:        *)
(* storage.rs, column.rs) as the Python bindings call them                 *)
(* (crates/caracaldb-python/src/storage.rs): every call opens the bundle   *)
(* and the store afresh, and a process may die between two of its writes.  *)
(*                                                                         *)
(* A batch of a caller is [schema, parts]: its columns, and the values of  *)
(* its Arrow record batches.  A row in a store is [id, val, created].      *)
(* Rows have no deletion LSN here, because no call of the core sets one.   *)
(***************************************************************************)
EXTENDS NativeLog, Functions

CONSTANTS
    Stores,     \* the local names of stores
    EdgeStores, \* those of them that hold edges
    Iris,       \* the IRIs a caller may name
    Batches,    \* the batches a caller may append
    Lsns,       \* the created_lsn a caller may give, and the snapshots
    MaxChunks   \* bound: chunks of a store

(* What the files of a store may hold: rows, column segments, manifests.       *)
Columns == (UNION {Range(b.schema) : b \in Batches}) \cup {"id", "_created_lsn", "_deleted_lsn"}
Values == UNION {Range(p) : p \in UNION {Range(b.parts) : b \in Batches}}
StoredRow == [id : Nat, val : Values, created : Lsns]
SegmentType ==
    [schema : Seq(Columns), row_count : Nat, batch_count : Nat, parts : Seq(Seq(StoredRow))]
Ref == [path : Nat, row_count : Nat, start : Nat, end : Nat]
StoreManifest == [iri : Iris, next : Nat, chunks : Seq(Ref)]

ASSUME NativeStoreAssumption ==
    /\ EdgeStores \subseteq Stores /\ Lsns \subseteq Nat /\ MaxChunks \in Nat
    /\ Batches \subseteq [schema : Seq(Columns), parts : Seq(Seq(Values))]
    /\ Null \notin SegmentType \cup StoreManifest

VARIABLES
    storeDirs,  \* the stores with a directory
    meta,       \* store -> _manifest.json: Null or [iri, next, chunks]
    files,      \* store -> chunk number -> column segment, Null when missing
    call,       \* the append in progress: Null or [store, pc, meta, file]
    kept        \* ghost: store -> the [val, created] whose append was saved
storeVars == <<storeDirs, meta, files, call, kept>>

-----------------------------------------------------------------------------
(* The elements of s that are in S, in their order, and those that are not.    *)
Only(s, S) ==
    LET first[n \in 0..Len(s)] ==
            IF n = 0 THEN <<>> ELSE IF s[n] \in S THEN Append(first[n - 1], s[n]) ELSE first[n - 1]
    IN  first[Len(s)]
Without(s, S) == Only(s, Range(s) \ S)

(* Column segments.  The footer repeats the counts of the payload, and a       *)
(* reader compares them.                                                       *)
Rows(parts) == FlattenSeq(parts)
Segment(schema, parts) ==
    [schema |-> schema, row_count |-> Len(Rows(parts)), batch_count |-> Len(parts), parts |-> parts]
Decodes(f) ==
    f # Null /\ f.row_count = Len(Rows(f.parts)) /\ f.batch_count = Len(f.parts)

-----------------------------------------------------------------------------
(* open_node_store and open_edge_store.                                        *)
Opens(s, iri) == Openable /\ meta[s] # Null /\ meta[s].iri = iri

CreateStore(s, iri) ==
    /\ Openable /\ call = Null /\ meta[s] = Null
    /\ storeDirs' = storeDirs \cup {s}
    /\ \/ meta' = [meta EXCEPT ![s] = [iri |-> iri, next |-> 0, chunks |-> <<>>]]
       \/ UNCHANGED meta
    /\ UNCHANGED <<files, call, kept>>

-----------------------------------------------------------------------------
(* What an append refuses: no rows, the columns the store adds itself, an edge *)
(* without its endpoints, and columns unlike those of the first chunk.         *)
Reserved == {"id", "_created_lsn", "_deleted_lsn"}
Public(schema) == Without(schema, {"_created_lsn", "_deleted_lsn"})

ValidInput(s, b) ==
    /\ Rows(b.parts) # <<>>
    /\ Reserved \cap Range(b.schema) = {}
    /\ s \in EdgeStores => {"src", "dst"} \subseteq Range(b.schema)

FirstChunk(s) == files[s][meta[s].chunks[1].path]
Compatible(s, b) ==
    meta[s].chunks # <<>> =>
        /\ Decodes(FirstChunk(s))
        /\ Without(Public(FirstChunk(s).schema), {"id"}) = Public(b.schema)

(* The ids continue over the record batches of one append.                     *)
AddStoreColumns(b, start, lsn) ==
    LET Before(p) == Len(Rows(SubSeq(b.parts, 1, p - 1)))
    IN [p \in DOMAIN b.parts |-> [i \in DOMAIN b.parts[p] |->
           [id |-> start + Before(p) + i - 1, val |-> b.parts[p][i], created |-> lsn]]]

StoreSchema(b) == <<"id">> \o b.schema \o <<"_created_lsn", "_deleted_lsn">>

(* The chunk and the manifest that an append is going to write.                *)
Chunk(s, b, lsn) == Segment(StoreSchema(b), AddStoreColumns(b, meta[s].next, lsn))
ChunkPath(s) == Len(meta[s].chunks) + 1
ChunkRef(s, f) ==
    [path |-> ChunkPath(s), row_count |-> f.row_count,
     start |-> meta[s].next, end |-> meta[s].next + f.row_count]
Extended(s, f) ==
    [iri |-> meta[s].iri, next |-> meta[s].next + f.row_count, chunks |-> Append(meta[s].chunks, ChunkRef(s, f))]

AppendCall(s, iri, b, lsn, first) ==
    /\ call = Null /\ Opens(s, iri) /\ Len(meta[s].chunks) < MaxChunks
    /\ ValidInput(s, b) /\ Compatible(s, b)
    /\ call' = LET f == Chunk(s, b, lsn)
               IN [store |-> s, pc |-> first, file |-> f, path |-> ChunkPath(s), meta |-> Extended(s, f)]
    /\ UNCHANGED <<storeDirs, meta, files, kept>>

MutBeginAppend(s, iri, b, lsn) == AppendCall(s, iri, b, lsn, "meta")
BeginAppend(s, iri, b, lsn) == AppendCall(s, iri, b, lsn, "chunk")

(* The column file goes to a temporary name and is renamed into its place,     *)
(* over a file that an append that died has left there.                        *)
WriteChunk ==
    /\ call # Null /\ call.pc = "chunk"
    /\ files' = [files EXCEPT ![call.store][call.path] = call.file]
    /\ call' = [call EXCEPT !.pc = "meta"]
    /\ UNCHANGED <<storeDirs, meta, kept>>

SaveMeta ==
    /\ call # Null /\ call.pc = "meta"
    /\ meta' = [meta EXCEPT ![call.store] = call.meta]
    /\ kept' = [kept EXCEPT ![call.store] =
                  LET new == Rows(call.file.parts)
                  IN @ \o [i \in DOMAIN new |-> [val |-> new[i].val, created |-> new[i].created]]]
    /\ call' = Null
    /\ UNCHANGED <<storeDirs, files>>

(* A write fails, or the process dies: the files stay as they are.             *)
AppendStops ==
    /\ call # Null /\ call' = Null
    /\ UNCHANGED <<storeDirs, meta, files, kept>>

StoreInit ==
    /\ storeDirs = {} /\ call = Null
    /\ meta = [s \in Stores |-> Null]
    /\ files = [s \in Stores |-> [n \in 1..MaxChunks |-> Null]]
    /\ kept = [s \in Stores |-> <<>>]

StoreNext ==
    \/ \E s \in Stores, iri \in Iris : CreateStore(s, iri)
    \/ \E s \in Stores, iri \in Iris, b \in Batches, lsn \in Lsns : BeginAppend(s, iri, b, lsn)
    \/ WriteChunk \/ SaveMeta \/ AppendStops

StoreSpec == StoreInit /\ [][StoreNext]_storeVars

-----------------------------------------------------------------------------
(* scan_*_store_ipc_streams and scan_*_store_summary.                          *)
ScanRefs(s) == meta[s].chunks
ScanFile(s, i) == files[s][ScanRefs(s)[i].path]
Scans(s) == \A i \in DOMAIN ScanRefs(s) : Decodes(ScanFile(s, i))
AllStored(s) == FlattenSeq([i \in DOMAIN ScanRefs(s) |-> Rows(ScanFile(s, i).parts)])

Visible(r, snapshot) == r.created <= snapshot
ScanAsOf(s, snapshot) ==
    LET Filtered(part) == Only(part, {r \in Range(part) : Visible(r, snapshot)})
        Stream(i) == [p \in DOMAIN ScanFile(s, i).parts |-> Filtered(ScanFile(s, i).parts[p])]
    IN FlattenSeq([i \in DOMAIN ScanRefs(s) |-> Rows(Stream(i))])

Summary(s) ==
    LET names == {ScanFile(s, i).schema : i \in DOMAIN ScanRefs(s)}
        rows[n \in 0..Len(ScanRefs(s))] ==
            IF n = 0 THEN 0 ELSE rows[n - 1] + Len(Rows(ScanFile(s, n).parts))
    IN [drift |-> \E x, y \in names : x # y,
        chunk_count |-> Len(ScanRefs(s)),
        row_count |-> rows[Len(ScanRefs(s))]]

(* list_*_stores: a directory is a store, also when its creation died before   *)
(* the manifest was written.                                                   *)
Listed == storeDirs

-----------------------------------------------------------------------------
(* Whatever append died where: a scan reads every chunk the manifest names and *)
(* finds the rows of the saved appends, in their order, with the ids 0, 1, ... *)
RowsExact ==
    \A s \in Stores : meta[s] # Null =>
        /\ s \in Listed
        /\ Scans(s)
        /\ Len(kept[s]) = meta[s].next
        /\ AllStored(s) = [i \in 1..Len(kept[s]) |->
                              [id |-> i - 1, val |-> kept[s][i].val, created |-> kept[s][i].created]]

(* A scan at a snapshot shows the rows written at or before it and no others.  *)
AsOfExact ==
    \A s \in Stores : meta[s] # Null /\ Scans(s) =>
        \A l \in Lsns :
            LET seen == ScanAsOf(s, l)
            IN [i \in DOMAIN seen |-> [val |-> seen[i].val, created |-> seen[i].created]]
               = Only(kept[s], {r \in Range(kept[s]) : r.created <= l})

(* A store once written can always be summed up: its chunks never disagree     *)
(* about the columns, and the counts of manifest, chunks and rows agree.       *)
SummaryExact ==
    \A s \in Stores : meta[s] # Null /\ Scans(s) =>
        /\ ~Summary(s).drift
        /\ Summary(s).row_count = meta[s].next
        /\ \A i \in DOMAIN meta[s].chunks :
              meta[s].chunks[i].start = IF i = 1 THEN 0 ELSE meta[s].chunks[i - 1].end

(* A store that appends died in at any step holds, shows at each snapshot and  *)
(* sums up exactly the rows of the appends that were saved.                    *)
StoreExact == RowsExact /\ AsOfExact /\ SummaryExact
=============================================================================
