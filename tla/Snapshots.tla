----------------------------- MODULE Snapshots -----------------------------
(***************************************************************************)
(* Node rows, the write clock and named snapshots of a database bundle:    *)
(* caracaldb/api.py (insert_nodes, upsert_node_table_arrow, _next_lsn),    *)
(* caracaldb/storage/node_store.py, snapshot.py and mvcc.py.               *)
(*                                                                         *)
(* The clock is last_lsn of the MANIFEST.  A write takes the next LSN      *)
(* (rewriting the MANIFEST), writes a chunk file stamped with it and then  *)
(* lists the chunk in the store's manifest.  An upsert reads all stores,   *)
(* then deletes and rewrites each of them.  A snapshot is an LSN in the    *)
(* registry file, whose names are mirrored in the MANIFEST.  The process   *)
(* may stop between any two file operations.  One process has the bundle   *)
(* open at a time.                                                         *)
(***************************************************************************)
EXTENDS Integers, Sequences, FiniteSets, SequencesExt

CONSTANTS
    Keys,     \* node keys (external ids)
    Values,   \* property values
    TypeOf,   \* the Arrow type of each value
    Classes,  \* class local names, in the order sorted() gives
    Names,    \* snapshot names
    Stops,    \* TRUE: the process may stop at any moment
    MaxLsn,   \* bound on the clock
    MaxRef    \* bound on the refcount of a snapshot

ASSUME ConstantsAssumption ==
    /\ Stops \in BOOLEAN /\ MaxLsn \in Nat /\ MaxRef \in Nat
    /\ DOMAIN TypeOf = Values /\ Classes \in Seq(ToSet(Classes))

VARIABLES
    manifest,  \* the MANIFEST file: [last, snaps]
    mem,       \* bundle.manifest of the process
    up,        \* whether a process has the bundle open
    registry,  \* snapshots/_registry.json: name -> [lsn, ref]
    files,     \* chunk files of each class's store: [rows, created]
    listed,    \* number of chunks in each store's manifest
    job,       \* the call in progress: its next step, the store it is at, the stores it has left
    taken,     \* history: the rows of the database when a snapshot was created
    moved,     \* history: snapshots with an upsert since
    acked,     \* history: keys whose insert or upsert returned
    damaged,   \* history: an upsert was cut short
    unmirrored \* history: a snapshot call was cut short before the mirror

vars == <<manifest, mem, up, registry, files, listed, job, taken, moved, acked, damaged, unmirrored>>

Class == ToSet(Classes)
Row == [cls : Class, key : Keys, val : Values]
Chunk == [rows : SUBSET Row, created : Nat]
Manifest == [last : Nat, snaps : SUBSET Names]
Work == [cls : Class, rows : SUBSET Row]  \* the rows to write to one store

(* A write goes through the phases clock, chunk and list, an upsert through     *)
(* remove before them for every store; a snapshot call ends with mirror.        *)
Idle == [phase |-> "idle", cls |-> "", rows |-> {}, todo |-> {}, lsn |-> 0, upsert |-> FALSE, keys |-> {}]
Phases == {"idle", "remove", "clock", "chunk", "list", "mirror"}
Job == [phase : Phases, cls : Class \cup {""}, rows : SUBSET Row, todo : SUBSET Work, lsn : Nat,
        upsert : BOOLEAN, keys : SUBSET Keys]

Init ==
    /\ manifest = [last |-> 0, snaps |-> {}] /\ mem = manifest /\ up = FALSE
    /\ registry = [n \in {} |-> [lsn |-> 0, ref |-> 0]]
    /\ files = [c \in Class |-> <<>>] /\ listed = [c \in Class |-> 0]
    /\ job = Idle
    /\ taken = [n \in Names |-> {}] /\ moved = {}
    /\ acked = {} /\ damaged = FALSE /\ unmirrored = FALSE

----------------------------------------------------------------------------
(* Reading.                                                                   *)

Chunks(c) == SubSeq(files[c], 1, listed[c])

(* scan(snapshot_lsn): rows created after the LSN are filtered out; rows are    *)
(* never marked deleted.                                                       *)
VisibleAt(lsn) ==
    UNION {x.rows : x \in {y \in UNION {ToSet(Chunks(c)) : c \in Class} : y.created <= lsn}}
AllRows == UNION {x.rows : x \in UNION {ToSet(Chunks(c)) : c \in Class}}

----------------------------------------------------------------------------
(* connect() on a directory bundle.                                           *)
Open ==
    /\ ~up /\ up' = TRUE
    /\ mem' = manifest
    /\ UNCHANGED <<manifest, registry, files, listed, job, taken, moved, acked, damaged, unmirrored>>

(* insert_nodes(cls, [row]).                                                   *)
Insert(c, k, v) ==
    /\ up /\ job = Idle /\ mem.last < MaxLsn
    /\ job' = [phase |-> "clock", cls |-> c, rows |-> {[cls |-> c, key |-> k, val |-> v]}, todo |-> {},
               lsn |-> 0, upsert |-> FALSE, keys |-> {k}]
    /\ UNCHANGED <<manifest, mem, up, registry, files, listed, taken, moved, acked, damaged, unmirrored>>

(* The rows an upsert collects: one per key, the last one met going through    *)
(* the chunks of the stores in order.                                          *)
Places == UNION {{<<i, j>> : j \in 1..listed[Classes[i]]} : i \in DOMAIN Classes}
RowsAt(p) == files[Classes[p[1]]][p[2]].rows
After(q, p) == q[1] > p[1] \/ (q[1] = p[1] /\ q[2] > p[2])
Existing ==
    UNION {{r \in RowsAt(p) : \A q \in Places : After(q, p) => \A s \in RowsAt(q) : s.key # r.key} : p \in Places}

(* Mutant: rows of classes the table does not name are forgotten.              *)
MutFinal(row, update) ==
    {r \in Existing : r.key # row.key /\ r.cls = row.cls} \cup {row}

(* What it makes of them for one row of its table: a known key is updated, or   *)
(* skipped without update_existing.                                            *)
Final(row, update) ==
    IF (\E r \in Existing : r.key = row.key) /\ ~update
    THEN Existing
    ELSE {r \in Existing : r.key # row.key} \cup {row}

(* Every class with a row, or named in the table, is rewritten.                *)
Rewrites(row, update) ==
    LET touched == {c \in Class : c = row.cls \/ \E r \in AllRows : r.cls = c}
        final == Final(row, update)
    IN  {[cls |-> c, rows |-> {r \in final : r.cls = c}] : c \in touched}

Upsert(c, k, v, update) ==
    LET row == [cls |-> c, key |-> k, val |-> v]
        todo == Rewrites(row, update)
    IN  /\ up /\ job = Idle /\ mem.last + Cardinality(todo) <= MaxLsn
        /\ job' = [Idle EXCEPT !.phase = "remove", !.upsert = TRUE, !.keys = {k}, !.todo = todo]
        /\ moved' = moved \cup DOMAIN registry
        /\ UNCHANGED <<manifest, mem, up, registry, files, listed, taken, acked, damaged, unmirrored>>

----------------------------------------------------------------------------
(* The steps of a write.                                                       *)

(* Rows fit one Arrow schema.                                                  *)
Uniform(rows) == \A r, q \in rows : TypeOf[r.val] = TypeOf[q.val]

(* The store finds its schema in its first chunk.                              *)
Fits(c, rows) == Chunks(c) # <<>> => Uniform(rows \cup Chunks(c)[1].rows)

(* One store is finished: the next one, or the call returns.                   *)
StoreDone(left) ==
    /\ job' = IF left = {} THEN Idle ELSE [job EXCEPT !.phase = "remove", !.todo = left]
    /\ acked' = IF left = {} THEN acked \cup job.keys ELSE acked

(* The stores are rewritten in the order of their names.                       *)
FirstOf(w, todo) ==
    \A v \in todo : \E i, j \in DOMAIN Classes : i <= j /\ Classes[i] = w.cls /\ Classes[j] = v.cls

(* _replace_node_store_rows: rmtree, and an empty store in its place; nothing   *)
(* more without rows.                                                          *)
RemoveStore ==
    /\ job.phase = "remove"
    /\ \E w \in job.todo :
          /\ FirstOf(w, job.todo)
          /\ files' = [files EXCEPT ![w.cls] = <<>>]
          /\ listed' = [listed EXCEPT ![w.cls] = 0]
          /\ IF w.rows = {} THEN StoreDone(job.todo \ {w})
             ELSE /\ job' = [job EXCEPT !.phase = "clock", !.cls = w.cls, !.rows = w.rows, !.todo = @ \ {w}]
                  /\ UNCHANGED acked
    /\ UNCHANGED <<manifest, mem, up, registry, taken, moved, damaged, unmirrored>>

(* Mutant: the clock advances in memory only.                                  *)
MutClock ==
    /\ job.phase = "clock" /\ Uniform(job.rows)
    /\ mem' = [mem EXCEPT !.last = @ + 1]
    /\ job' = [job EXCEPT !.phase = "chunk", !.lsn = mem.last + 1]
    /\ UNCHANGED <<manifest, up, registry, files, listed, taken, moved, acked, damaged, unmirrored>>

(* _next_lsn: the MANIFEST is rewritten from the process's copy.               *)
Clock ==
    /\ job.phase = "clock" /\ Uniform(job.rows)
    /\ mem' = [mem EXCEPT !.last = @ + 1] /\ manifest' = mem'
    /\ job' = [job EXCEPT !.phase = "chunk", !.lsn = mem.last + 1]
    /\ UNCHANGED <<up, registry, files, listed, taken, moved, acked, damaged, unmirrored>>

(* NodeStore.append: the chunk file after the last listed one, replacing what   *)
(* an interrupted append left there; then the store's manifest.                 *)
WriteChunk ==
    /\ job.phase = "chunk" /\ Fits(job.cls, job.rows)
    /\ files' = [files EXCEPT ![job.cls] = Append(Chunks(job.cls), [rows |-> job.rows, created |-> job.lsn])]
    /\ job' = [job EXCEPT !.phase = "list"]
    /\ UNCHANGED <<manifest, mem, up, registry, listed, taken, moved, acked, damaged, unmirrored>>

ListChunk ==
    /\ job.phase = "list"
    /\ listed' = [listed EXCEPT ![job.cls] = @ + 1]
    /\ StoreDone(job.todo)
    /\ UNCHANGED <<manifest, mem, up, registry, files, taken, moved, damaged, unmirrored>>

(* append() refuses a batch that does not fit the store (CDB-7011): the clock   *)
(* has advanced already.                                                       *)
AppendFails ==
    /\ job.phase = "chunk" /\ ~Fits(job.cls, job.rows)
    /\ job' = Idle
    /\ UNCHANGED <<manifest, mem, up, registry, files, listed, taken, moved, acked, damaged, unmirrored>>

(* The rows of an upsert do not fit one Arrow schema: from_pylist raises, and   *)
(* the store is gone already.                                                  *)
RewriteFails ==
    /\ job.phase = "clock" /\ ~Uniform(job.rows)
    /\ job' = Idle /\ damaged' = TRUE
    /\ UNCHANGED <<manifest, mem, up, registry, files, listed, taken, moved, acked, unmirrored>>

----------------------------------------------------------------------------
(* Snapshots.                                                                  *)

(* create_snapshot: refused for a name in use (CDB-8012).                      *)
CreateSnapshot(n) ==
    /\ up /\ job = Idle /\ n \notin DOMAIN registry
    /\ registry' = [m \in DOMAIN registry \cup {n} |->
                       IF m = n THEN [lsn |-> mem.last, ref |-> 1] ELSE registry[m]]
    /\ taken' = [taken EXCEPT ![n] = AllRows]
    /\ job' = [Idle EXCEPT !.phase = "mirror"]
    /\ UNCHANGED <<manifest, mem, up, files, listed, moved, acked, damaged, unmirrored>>

OpenSnapshot(n) ==
    /\ up /\ job = Idle /\ n \in DOMAIN registry /\ registry[n].ref < MaxRef
    /\ registry' = [registry EXCEPT ![n].ref = @ + 1]
    /\ UNCHANGED <<manifest, mem, up, files, listed, job, taken, moved, acked, damaged, unmirrored>>

(* release_snapshot: the last reference removes the entry.                     *)
ReleaseSnapshot(n) ==
    /\ up /\ job = Idle /\ n \in DOMAIN registry
    /\ IF registry[n].ref > 1
       THEN registry' = [registry EXCEPT ![n].ref = @ - 1] /\ UNCHANGED job
       ELSE /\ registry' = [m \in DOMAIN registry \ {n} |-> registry[m]]
            /\ job' = [Idle EXCEPT !.phase = "mirror"]
    /\ taken' = IF registry[n].ref > 1 THEN taken ELSE [taken EXCEPT ![n] = {}]
    /\ moved' = IF registry[n].ref > 1 THEN moved ELSE moved \ {n}
    /\ UNCHANGED <<manifest, mem, up, files, listed, acked, damaged, unmirrored>>

(* Mutant: the names go to the file, and not to the process's copy.            *)
MutMirror ==
    /\ job.phase = "mirror"
    /\ manifest' = [mem EXCEPT !.snaps = DOMAIN registry]
    /\ job' = Idle /\ unmirrored' = FALSE
    /\ UNCHANGED <<mem, up, registry, files, listed, taken, moved, acked, damaged>>

(* The second half of create_snapshot and release_snapshot.                    *)
Mirror ==
    /\ job.phase = "mirror"
    /\ mem' = [mem EXCEPT !.snaps = DOMAIN registry] /\ manifest' = mem'
    /\ job' = Idle /\ unmirrored' = FALSE
    /\ UNCHANGED <<up, registry, files, listed, taken, moved, acked, damaged>>

(* The process ends, between calls or in the middle of one.                    *)
Stop ==
    /\ Stops /\ up /\ up' = FALSE
    /\ job' = Idle
    /\ damaged' = (damaged \/ job.upsert)
    /\ unmirrored' = (unmirrored \/ job.phase = "mirror")
    /\ UNCHANGED <<manifest, mem, registry, files, listed, taken, moved, acked>>

Next ==
    \/ Open \/ Stop
    \/ \E c \in Class, k \in Keys, v \in Values :
          Insert(c, k, v) \/ \E update \in BOOLEAN : Upsert(c, k, v, update)
    \/ RemoveStore \/ Clock \/ WriteChunk \/ ListChunk \/ AppendFails \/ RewriteFails
    \/ \E n \in Names : CreateSnapshot(n) \/ OpenSnapshot(n) \/ ReleaseSnapshot(n)
    \/ Mirror

Spec == Init /\ [][Next]_vars

----------------------------------------------------------------------------
TypeOK ==
    /\ manifest \in Manifest /\ mem \in Manifest /\ up \in BOOLEAN
    /\ DOMAIN registry \subseteq Names /\ registry \in [DOMAIN registry -> [lsn : Nat, ref : Nat \ {0}]]
    /\ files \in [Class -> Seq(Chunk)] /\ listed \in [Class -> Nat]
    /\ \A c \in Class : listed[c] <= Len(files[c])
    /\ job \in Job
    /\ taken \in [Names -> SUBSET Row] /\ moved \subseteq Names /\ acked \subseteq Keys
    /\ damaged \in BOOLEAN /\ unmirrored \in BOOLEAN

(* A read AS OF a snapshot never shows a row written after the snapshot was    *)
(* created, whatever inserts, failures, upserts and restarts follow; and until *)
(* an upsert it shows exactly the rows there were.                             *)
SnapshotFixed ==
    \A n \in DOMAIN registry :
        /\ VisibleAt(registry[n].lsn) \subseteq taken[n]
        /\ n \notin moved => VisibleAt(registry[n].lsn) = taken[n]

(* The same without the exception: "a read boundary that does not move while   *)
(* writes continue" (docs/guides/snapshots-as-of.md).                          *)
SnapshotStable ==
    job = Idle => \A n \in DOMAIN registry : VisibleAt(registry[n].lsn) = taken[n]

(* No two chunks carry the same LSN: a restart, a failed insert or an          *)
(* interrupted one never makes the clock give an LSN twice.                    *)
OneWritePerLsn ==
    \A c, d \in Class : \A i \in 1..listed[c], j \in 1..listed[d] :
        files[c][i].created = files[d][j].created => c = d /\ i = j

(* Between calls, a key whose insert or upsert returned is in some store.      *)
KeysKept == job = Idle => acked \subseteq {r.key : r \in AllRows}

(* The same as long as no upsert was cut short: rewriting all stores, with     *)
(* rows moving between classes, loses no key.                                  *)
KeysKeptByUpserts == damaged \/ KeysKept

(* Between calls the MANIFEST lists the snapshots of the registry, unless a     *)
(* snapshot call was cut short; the next one repairs that.                     *)
MirrorExact == job.phase # "mirror" /\ ~unmirrored => manifest.snaps = DOMAIN registry
=============================================================================
