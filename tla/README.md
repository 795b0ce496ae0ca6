# CaracalDB verification

TLA+ models of CaracalDB's storage, transactions, indexes, ontology and query
engines in Python and Rust, the TLC configurations that check them, and TLAPS
proofs of results that do not depend on the size of the instance. The models
are translated from the code under `src/`; `PROJECT.json` maps every definition
to the lines it models.

## 1. The system

CaracalDB is an embedded graph database (Python package `caracaldb`, with a
Rust core in `crates/caracaldb-core`). A database is a *bundle*: a directory
(or, packed, one file) with a `MANIFEST`, a WAL directory, node and edge stores
per class and relation, indexes, an ontology catalog and a snapshot registry.
There is no server: concurrency is threads inside one process and several
handles on one bundle, failure is the process ending or the machine losing
power between two file operations.

### Inventory

| Component | State | Operations | Hard behaviour | What makes it correct |
|---|---|---|---|---|
| Write-ahead log (`storage/wal.py`) | segment files, the open file object and its buffer, `_last_lsn` | open, `append` (with roll), `flush`, `iter_since`, `close`, `truncate_before` | three places hold a record (Python buffer, OS, disk), under every sync mode; torn tails; a roll between append and flush; an fsync that fails | flushed records are read back; dense LSNs; a log can always be reopened |
| Checkpoint and recovery (`storage/checkpoint.py`, `recovery.py`, `manifest.py`) | `last_lsn`, `checkpoint_lsn` in the MANIFEST and in memory | `checkpoint`: marker, flush, manifest, truncation; `recover`: replay, manifest | a crash between any two steps; appends by other threads; an unsynced manifest that comes back old | recovery redoes everything flushed that no checkpoint covers; the log never ends below the checkpoint |
| Transaction manager (`tx/manager.py`, `tx.rs`) | next id, last committing LSN of each key, transaction objects | `begin`, `record_write`, `commit`, `rollback`, `transaction()` | interleaved transactions, calls repeated on ended transactions, a flush that fails after the commit is recorded, restarts | first committer wins; conflicts are exact; acknowledged commits survive |
| Buffer pool (`storage/buffer_pool.py`) | frames with pin counts, dirty flags, access histories | fetch, new page, guards, mark dirty, unpin, flush | eviction at the limit, a read that fails after the eviction, flush of pages in use | no update lost, no page in use evicted, capacity kept |
| Bundle and manifest (`storage/bundle.py`) | directory layout, MANIFEST | create, open | MANIFEST rewritten from one handle's copy | the clock never gives an LSN twice |
| Node and edge stores (`storage/node_store.py`, `edge_store.py`, `column_store.py`, `dict_store.py`) | chunk files and a store manifest per class or relation | append, scan, replace | a stop between chunk and store manifest; refused batches | written rows stay; scans at an LSN are stable |
| Named snapshots (`storage/snapshot.py`, `mvcc.py`, `exec/as_of.py`) | registry file, its mirror in the MANIFEST | create, open, peek, release | two files, one change; upserts that rewrite rows | a read AS OF a snapshot shows what there was |
| Database facade (`api.py`, `engine.py`) | bundle handle, caches (external ids, CSR readers, vector entries), index status | insert, upsert, index build, search, query, close | caches changed before a write that fails; staleness judged by counts | reads reflect writes; ids are never reused |
| Packed bundles (`storage/pack.py`, `diff.py`) | one file, a working directory while open | connect unpacks, close packs; comparison of two bundles | the old file is removed before the new one is complete; two openers | whatever happens, what was written is on disk somewhere; a clean close leaves all of it at the path |
| Graph indexes (`graph/`, `graph.rs`) | CSR/CSC files, vector, property and text index files, their manifests | build, drop, rebuild, read, search | staleness judged by counts, times and names; caches per handle and per process | an index declared ready answers for the rows of its store |
| Ontology (`onto/`) | catalog, hierarchy, closure file, inferred edges | definitions, closure, SUBCLASSOF* scan, reasoning | cycles; two handles saving whole catalogs; a closure file that outlives a change; budgets and deaths between passes | subclass answers agree with the declared superclasses; inference is sound, complete and repeatable |
| Query operators (`exec/`, `planner/`, `exec.rs`) | operator state between calls | open, next_batch, close | stores cut into batches, children that fail, consumers that leave | answers agree with a definition over all rows; nothing is left open |
| Graph calls (`api.py`: traversals, variable-length queries, GNN sampling) | a queue, a visited set, limits | one call | cycles, parallel edges, limits that cut in the middle of a node or layer | answers agree with definitions without queues |
| Native core storage (`bundle.rs`, `wal.rs`, `checkpoint.rs`, `storage.rs`, `column.rs`) | one-segment log, stores | append, replay, checkpoint, truncate, scan | a write cut short, a death between two writes | a prefix of the log is read back; a store holds the appends that were saved |
| Ingestion (`ingest/`, `insert_triples`, `import_resource` of `api.py`) | the store being loaded, the report; the batches left and the cached map of ids | Parquet loaders, `import_ntriples`, resources of five shapes | batches refused in the middle, a stop between chunk and manifest or between nodes and edges, columns fixed by a first batch | what was accepted is stored once and in order; links run between the resources they name |
| Tuft language, ML adapters, UDFs, viewer, CLI, observability, feature store | none, or a dictionary | conversions | none of its own | not modelled, see section 8 |

Interactions: the facade and `TransactionManager` write through their own
clocks. The manager's LSNs come from the `Wal` it is given; the facade's come
from `MANIFEST.last_lsn`, which `checkpoint` and `recover` also write.
`TransactionManager` serialises its calls with a lock that `checkpoint()` does
not take. Node stores are stamped with the facade's LSNs, and snapshots are
such LSNs, so that an AS OF read joins the clock, the stores and the registry.
Handles on one bundle share nothing but its files, and each rewrites MANIFEST, catalog and registry from its own copy; the
edge tables of `_get_arrow_table` are shared by all handles of a process.
Pattern queries become pipelines of operators; traversals, variable-length
queries and the sampler read adjacency lists directly.

## 2. Modules

| Module | Models | State and code |
|---|---|---|
| `Wal` | `storage/wal.py` | `segs` = segment files (`recs` what the OS has, `synced` what fsync covered, `hdr` whether the header is complete), `buf` = the buffer of the open file object, `open` = `_segment is not None`, `lastLsn` = `_last_lsn`, `fresh` = what no flush has covered. Operations are functions of the writer state, one per method, and actions built on them. Under sync `on` an append is a write (`WalAppend`), maybe a spill of the buffer (`WalOsFlush`), and the fsync that returns or fails (`WalSync`, `WalSyncFails`); a crash may come between any two. |
| `Recovery` | `storage/checkpoint.py`, `storage/recovery.py`, the MANIFEST | `EXTENDS Wal`. `disk` = the MANIFEST file, `mem` = `bundle.manifest`, `pc` = the next step of a checkpoint or recovery, `olds` = earlier manifests that a power failure may bring back. `outran` remembers a step that left a checkpoint above the log which had been within it (the two of section 6; a checkpoint that is above the log when it is made is a violation). |
| `DurableLog` | what the two promise | An abstract log with a durable prefix and a covered prefix. `Recovery!ImplementsDurableLog` is the refinement. |
| `TxManager` | `tx/manager.py` | `committed` = `_committed_writes`, `txs` = `Transaction` objects, `log`/`flushed` = the WAL as `DurableLog` promises it. One action per method, plus the failing flush and the restart. |
| `BufferPool` | `storage/buffer_pool.py` | One variable per field of the frames; `holds` = live `PageGuard`s; `disk` = the file behind the callbacks. |
| `Snapshots` | node stores, the facade's clock, inserts and node upserts, snapshots | `manifest`/`mem`, `registry`, `files` and `listed` (chunk files, and how many of them the store manifest lists), `job` = the call in progress, one phase per file operation. |
| `GraphStore` | table inserts and upserts of nodes and edges, gids, adjacency readers (`api.py`, `edge_store.py`, `graph/csr_builder.py`) | `nodes`, `edges` = the rows of the stores, `ids` = `_external_id_map_cache`, `reader` = `_csr_cache`, `file` = `graph/<relation>/forward.csr`, `job` = the call in progress with the stores it has left to write. |
| `Indexes` | vector, property and text indexes and every cache of a handle (`api.py`, `graph/hnsw.py`) | A store is its version, the number of writes it has seen; an index file or a cache holds a version. `man` = the three index manifests, `file` = the index files, `rows`, `look`, `prior`, `adj` = the caches of each handle, `pool` = the edge tables all handles of the process share. |
| `Catalog` | `onto/catalog.py`, `hierarchy.py`, `closure.py`, `closure_scan.py` and the definitions of `api.py` | `file` = the catalog file, `cat` = the copy of each handle, `owner` = the node stores with the IRI each was made for, `cfile` and `idx` = the closure index, on disk and in each handle. |
| `Reasoner` | `onto/reasoner.py` | `store` = the rows of the edge store, `at`, `iteration`, `total` = the loop of the rule in progress, `wal` = its log records. A step is one rule, or one pass of a transitive rule. |
| `Session` | `connect` and `close` of `api.py`, `storage/pack.py` | `path` = what is at the path, `hd` = the handles with the step each has come to, `left` = abandoned working directories. |
| `BundleDiff` | `storage/diff.py` | two bundles, `a` and `b`, and the comparison as an operator. Names enter a catalog, directories and store manifests are made, rows are appended, and stores are removed and rewritten, in separate steps: a property may have no store, a directory no manifest. |
| `Operators` | `exec/` and the pattern pipelines of `api.py` | A plan is a tree; `stack` = the calls in progress, `local` = what an operator keeps between calls, `opened`/`closed` its flags, `out` = the batches yielded. A step is what one operator does between two calls. |
| `NativeOps` | `exec.rs`, `graph.rs` | `EXTENDS Operators`. The Rust operators are functions of the plan; CSR files as offsets and neighbours; its traversals one turn of the queue at a time. |
| `Traversal` | `neighbors`, `k_hop`, `paths`, `shortest_path`, multi-seed paths and `evidence_search` of `api.py` | `frontier` = the queue, `visited`, `depths`, `foundRows` as in the code; a step is one turn of the loop. |
| `PathQuery` | variable-length pattern queries of `api.py` | `EXTENDS Traversal`: compilation, enumeration of paths, WHERE, RETURN, ORDER BY, SKIP, LIMIT. |
| `GnnSampling` | `sample_gnn_subgraph`, `neighbor_loader` of `api.py` | `layerNodes` = `frontier`, `nodeIds` = `ordered_nodes`, `edgePairs` = the chunks of edges; a step reads one adjacency file for one layer. |
| `NativeLog` | `bundle.rs`, `wal.rs`, `checkpoint.rs` | `segment` = the segment file, `Torn` standing for a record cut short; `manifest` on disk and `bundle` in memory; `cp` = a checkpoint in progress. |
| `NativeStore` | `storage.rs`, `column.rs` and the calls of the bindings | `EXTENDS NativeLog`. `meta` = the store manifests, `files` = the chunks, `call` = the append in progress. |
| `BulkLoad` | `ingest/parquet_loader.py`, `storage/edge_store.py`, `node_store.py`, `column_store.py`, `dict_store.py` | `shelf` = the chunk files of a store, `listing` = its manifest file, `load` = the load in progress with its report; `words` = `DictStore._entries`, `wordFile` = its file. A step is one batch, and for a batch that is appended the chunk file and the manifest are two. |
| `TripleImport` | `ingest/rdf_import.py`; `insert_triples`, `import_resource`, `resource`, `export_resource_turtle` of `api.py` | `nodeRows`, `edgeRows` = the stores with the columns they began with, `idMap` = `_external_id_map_cache`, `imp` = the import in progress with the batches it has left. A step is one batch. |
| `RecoveryProofs`, `TxManagerProofs`, `BufferPoolProofs`, `SnapshotsProofs`, `GraphStoreProofs`, `IndexesProofs`, `SessionProofs`, `NativeLogProofs` | | theorems and their proofs; `TxManagerProofs` is also about `Catalog`, `SessionProofs` about `BundleDiff`, `NativeLogProofs` about `NativeStore` |
| `MC...` | | constants, inputs and symmetries for TLC |

`MCOperators`, `MCOntology`, `MCSession` and `MCNative` each put together
modules that share no state at run time. A variable `part`, chosen initially
and never changed, says which of them a behaviour is about, so that one run
covers the union of their behaviours and not the product.

Abstractions. A record is its LSN and kind; sizes are small units, and a cut
record remembers only how many more units its length fields make the reader ask
for, which is what decides whether the reader stops cleanly or takes the bytes
that follow for the rest of the record. Pages and property values are members
of small sets; a value has an Arrow type where whether rows fit one schema
decides whether a write succeeds. Each call under a lock is one step; every
other writing call has one step per file operation, and the process may end
between them.

* `Snapshots` and `GraphStore` leave out what writes do to secondary indexes:
  that is `Indexes`, which in turn keeps no rows. `GraphStore` leaves out LSNs,
  models the outgoing adjacency only (the incoming one is the same over swapped
  columns) and writes one edge per call.
* `Indexes`: what a cache holds is the version it was read at; text data and
  HNSW objects in memory are keyed by path, time and size of their file and
  stand for what the file holds. HNSW itself is external.
* `Catalog`: IRIs and local names are members of small sets; the tail of an IRI
  is a function `Tail_`, because the scan looks a store up by it.
* `Session`: the content of a bundle is its rows and its clock.
* `Operators`: a batch is column names and rows of integers or `Null`. Edge ids
  of `Expand`, the checks of constructors and the Arrow kernels' types are left
  out. Seeded random numbers are free choices, and a property says which draws
  are allowed.
* `Traversal`, `PathQuery`, `GnnSampling`: weights, scores and properties are
  small integers. A node has one property besides its id, which may be missing.
* `NativeLog`, `NativeStore`: a header, record or column segment is whole or
  not.
* `BulkLoad`: a batch is its rows, its columns and whether its end columns are
  there and fit; a file of rows is one value, as the code replaces files whole.
  Strings of the dictionary are numbers, ordered as the strings sort.
* `TripleImport`: a line is what it says of whom: a class, a link, a value, or a
  blank node or nothing. Values are strings, so that a batch is refused for its
  columns only.

Names beginning with `Mut` are deliberately wrong variants of the definition
that follows them. Putting a variant in its definition's place must make TLC
report the property named in `PROJECT.json`; no specification uses them.

## 3. Runs

| Run | Instance | Shows | Distinct states |
|---|---|---|---|
| `recovery_kill` | sync `group`, the process killed at any step, 6 LSNs, segments of 2 or 3 records | `ImplementsDurableLog`: files, buffers and segments refine the abstract log, whose records above the checkpoint are always all there | @KILL@ |
| `recovery_sync_on` | sync `on`, write and fsync apart; kill, power loss between any two steps, incomplete headers, failing fsyncs, old manifests, appends between the steps of a checkpoint, 4 LSNs, segments of 1 or 2 records, at most 3 of them (`Bounded`); no record cut in two | `RecoveryComplete`: an acknowledged append that no checkpoint covers is replayed. `LogReachesCheckpoint`: an open log never ends below the checkpoint. Both unless the checkpoint once outran the log, where the search stops | @ON@ |
| `tx_manager` | 2 keys, 2 transactions in each run of the program, 6 records, 1 restart, snapshots taken under the running manager | `FirstCommitterWins`; `ConflictTableExact`: the table has the last committing LSN of each key; `AckedCommitsSurvive` | 870,000 |
| `buffer_pool` | 3 pages, 2 frames, 2 guards, LRU-2, 5 accesses | `PinsAccounted`, `NoLostUpdate`, `WithinCapacity` | 38,000 |
| `snapshots` | 2 classes, 2 keys, values of 2 Arrow types, 1 snapshot name, 3 LSNs, the process may stop anywhere | `SnapshotFixed`: a snapshot admits nothing newer. `OneWritePerLsn`, `KeysKeptByUpserts`, `MirrorExact` | 416,000 |
| `graph_store` | 2 classes, 2 relations, 2 node keys, 1 edge key besides edges without key, 2 node rows and 2 edge rows, 1 call that raises or is cut short | `GidsUnique`, `EdgesGrounded`, `ReadersExact`: adjacency readers hold the relation's edges. `EdgeKeysKept` | 2,140,000 |
| `indexes` | 2 handles of one process, 2 node types, one of them with an IRI that ends in the name of the other, 1 relation, one index of each kind, the vector index moving between types, 2 writes, upserts that raise between stores, builds that fail, the process ending in any call | `IndexesExact`: an index declared ready answers for the rows of its store, unless the last write did not mark it (cut short, raised, past the facade, or naming the class by such an IRI), the vectors came from old cached entries, or a drop was cut short. `HandleCachesExact`: caches are current up to what other handles, or a call that raised, wrote | @IX@ |
| `ontology` | 3 IRIs and names, definitions in every order with a cycle, a superclass defined later and clashing names, 1 or 2 handles; 6 edge stores, 4 plans, budgets 0, 1, 3, 3 calls of the reasoner | `SubclassesExact`: hierarchy, closure index and SUBCLASSOF* scan agree with the declared superclasses. `StoresKnown`: ids, IRIs and names stay unique, every store has its class. `InferExact`: inference is sound, complete, logged and within budget. `InferEnds` | 72,000 |
| `session` | 2 openers, directory or packed, 2 writes, 1 death or failing pack; two bundles of 2 classes and 1 relation, with 2 ids, 2 edges, 2 sets of columns, and stores missing, empty or cut short; 3 loads of 3 files into a node or an edge store; merges of 3 strings; 3 of 11 imports over 3 ids, 2 classes and 2 predicates | `CopyOnDisk`: whatever step fails, every row is on disk somewhere. `PathComplete`: after clean closes the path has all rows. `ClockAhead`: LSNs are not reused across sessions. `DiffExact`: a diff raises in both directions or in neither, is symmetric, and is empty for equal content only, but for the classes and relations it skips. `IngestExact`: a load, the dictionary or an import stores what it was given, whatever is refused and wherever it stops | @SE@ |
| `operators` | stores of up to 4 rows cut into batches in every way, 27 plans, pattern queries of 1 and 2 hops, failing leaves; 5 joins that both engines run, with repeated keys, null keys on one side, and a count over a join; graphs of 3 or 4 nodes with a diamond, a cycle, parallel edges and a loop; 225 calls of the Rust traversals, 140 traversal calls and 78 variable-length queries on each of 6 graphs, 240 calls of sampler and loader | `AnswerExact`: an answer is what the plan means over all rows at once. `SamplingExact`: a sample is a subgraph grown from its seeds within its limits. `NothingLeftOpen`. `EnginesAgree`: both engines answer shared plans alike, joins included where not both sides have a null key. `NativeExact`, `GraphCallsExact`: traversals answer what definitions without queues give. `CallsEnd` | @OP@ |
| `native` | log of 5 LSNs and 5 items, writes that fail or are cut; 2 stores, 2 chunks each, 6 batches, a death between any two writes | `ReadsBack`: a reader gets a prefix of what was appended, all of it unless a write was cut. `StoreExact`: a store holds, shows at each snapshot and sums up the appends that were saved. `PrunedCovered`: a segment goes only when the manifest on disk covers it | 168,000 |
| `torn_tail` | sync `on`, records cut by a power failure before their fsync, 5 LSNs | ends in a violation of `Reopens`, see section 6 | |

### Bounds and why they are enough

* `Recovery`: record sizes 3 and 2 and `RollSize` 7 make a segment hold two or
  three records, so that within 6 LSNs the log rolls twice, a resumed tail
  may have to roll at once, a truncation removes one segment and keeps another,
  and two checkpoints with crashes and recoveries between them fit. In
  `recovery_sync_on`, `RollSize` 5 has one or two records in a segment, with the
  same cases within 4 LSNs; its constraint bounds the segment files, because one
  that a power failure has emptied stays for good. The number of crashes is not
  bounded. `Wants` = {1, 20} has one cut record that the next append completes
  and one that no append in the run completes.
* `TxManager`: two transactions and two keys are the smallest instance with a
  conflict on a part of the write sets; six records allow both to commit again
  after they ended, which the code permits.
* `BufferPool`: more pages than frames, as many guards as frames (so that all
  frames may be pinned), and more accesses than `LruK` keeps.
* `Snapshots`: three LSNs are an insert followed by an upsert that rewrites two
  stores, or three inserts around a snapshot and a restart.
* `GraphStore`: two rows let a key have rows in two classes, or two keys have
  one row each; a table of two keys in two classes is an insert that can fail
  between its stores. Edges run both ways between the nodes, so that an update
  may change an edge and keep the counts. One failure suffices for each
  property: they exclude the losses named in them.
* `Indexes`: two writes are one before and one after an index is built, or one
  by each handle; the index calls and the ends of the process are not bounded.
  The constraint `Apart` explores vector and property indexes apart from the
  caches of traversals and text searches: neither is built from the other, and a
  write acts on both.
* `Catalog`: three classes make a chain, a cycle and a change in the middle of
  a chain; a name taken by another IRI and an IRI with another name are the two
  clashes the code distinguishes. Calls are not bounded.
* `Reasoner`: a chain of five edges uses up `MaxIterations` = 3 passes,
  cycles of one to three nodes close on themselves; budget 1 is exhausted
  within a pass, 3 exactly by one, 0 never. Three calls are a failed one, its
  repetition and one that has nothing to do.
* `Session`: two handles are every overlap that matters (each handle works on
  its own copy), one fault at every step of a close.
* `BulkLoad`, `TripleImport`: three calls are one that leaves something behind
  (an orphan chunk, ids of a refused batch in the cached map, columns of a first
  batch), one that meets it, and one more after a restart. The files have an
  empty batch, a batch of other columns and batches with bad or missing ends;
  the imports name the same ids in different classes and with different columns.
* `Operators`: three or four rows have every cut into one, two, one-by-one and
  an empty batch; limits below, at and above the rows; null and repeated keys.
  Four nodes are a diamond with a way back.
* `Native`: five records are one before and several behind a torn one, and a
  checkpoint with records on both sides; two chunks are an orphan and the
  append that meets its name.
* Symmetry is used for keys, pages, guards and the handles of `Indexes`, which
  no action or property distinguishes, and in no run with a liveness property.
* `CHECK_DEADLOCK FALSE` is set where a bound, a failed open or the end of the
  call stops the system.

### Fairness

The code starts no thread that must make progress by itself. Fairness is
assumed only of the steps of a call that is running, which its caller runs to
the end: `WF(GoesOn)` in `MCOperators` (the engines are single-threaded loops;
the consumer of a pipeline is free to leave it, and is not forced to), and
`WF(Work)` in `MCOntology` (the passes of a running `infer_closure`; a death
stays possible). Under it `CallsEnd` says that traversals of cyclic graphs and
every pipeline end, and `InferEnds` that inference over cycles ends within its
passes. Recovery, sessions, transactions, stores and indexes
assume none: their properties are safety properties.

### Further configurations

These are kept for the disagreements of section 6; run them with `tlc -config <file> <module>`.

| Configuration | Module | Property | Result |
|---|---|---|---|
| `PowerRoll.cfg` | `MCRecovery` | `FlushedReadable` | violated |
| `AsOfUpsert.cfg` | `MCSnapshots` | `SnapshotStable` | violated |
| `UpsertFails.cfg` | `MCSnapshots` | `KeysKept` | violated |
| `EdgeUpsert.cfg` | `MCGraphStore` | `EdgesKept` | violated |
| `StaleTraversal.cfg` | `MCIndexes` | `TraversalLatest` (docs/api/graph.md:46) | violated |
| `StaleVectors.cfg` | `MCIndexes` | `VectorIndexFresh` (docs/format/column-segment.md:10) | violated |
| `NativeLsn.cfg` | `MCNative` | `LsnOrdersWrites` (docs/concepts/snapshots-and-mvcc.md:26) | violated |

## 4. Hazards

`PROJECT.json` lists what is hard to test in this code, each at its line, with
the properties aimed at it. In short: deaths between the files of one logical
change (log and manifest, chunk and store manifest, registry and mirror, packed
file and working directory, rows and index status); caches and derived files
judged by counts, names, ids or times; handles that save whole files from their
own copies; calls that fail after they have changed a cache or removed a store;
limits that cut in the middle of something; loops over cyclic graphs.

## 5. Proofs

The proofs hold for every value of the constants, including the bounds: they
use only the named assumptions in the modules that declare the constants. The
inductive invariants also hold, checked by TLC, on the instances of the runs
(the one of `Recovery` on smaller ones: 177,000 states under `on` with every
crash of its hypotheses, 34,000 under `group`).

* `RecoveryProofs`. `RecoveryCompleteInvariant`, `LogReachesCheckpointInvariant`
  and the refinement `LogIsDurable`, for any record sizes, segment size and
  number of crashes, under the hypothesis `Careful`: no crash cuts a record in
  two, and either sync `on` (power failures, incomplete headers, failing fsyncs
  and appends during a checkpoint included) or sync `group` without power
  failures. Cut records are excluded under every mode because with them the
  statements are false (`torn_tail`). Both properties say "unless the checkpoint
  once outran the log" (`outran`, section 6); `NeverOutran` proves that this
  does not happen when the machine does not fail and no other thread appends
  during a checkpoint. The refinement `LogIsDurable` has the same two
  hypotheses: under a power failure an older MANIFEST may come back, which the
  abstract log does not allow.

  The inductive invariant `IInv` says beside the properties that LSNs ascend
  through the segments and the buffer (`Files`); at which step of a checkpoint
  or recovery memory and MANIFEST agree (`Phase`); that promised records are
  among those sure to survive the next crash, and that under `on` the record of
  a running append is in the open segment (`Kept`); that the MANIFEST, with every older copy a power failure may bring back, is below
  them and not above the last of those records (`Covered`); that under `on` the
  marker of a checkpoint is either among them or still the append that is
  running (`MarkerSafe`), so that a failing fsync takes its checkpoint with it;
  and that from the marker to the truncation the open segment has records
  (`Marking`), so that the truncation never removes the end of the log. The
  reader and the truncation are recursive functions over the segments; the first
  part of the module proves what they return. For the refinement, each action is
  mapped to one of `Append`, `Persist`, `Cover`, `Prune`, `Open`, `Crash` or a
  stutter. `LogReplayable` and `LogKeepsDurable` state the abstract log's own
  promises of the files: no record above the checkpoint is missing or there
  twice, and no step loses a durable one.
* `TxManagerProofs`. `TypeCorrect`, and `ConflictsCaught`: when begin() is
  given no snapshot older than the manager, `FirstCommitterWins` holds for any
  number of keys, transactions and restarts. The inductive invariant adds that
  the table of committed writes is at or above every commit of this run of the
  program (`TableComplete`), that snapshots of live transactions are not older
  than the run (`SnapshotsFresh`), and that every commit in the history is in
  the log (`HistoryInLog`). The restriction on snapshots is necessary: with
  `OldSnapshots = TRUE` TLC finds the property violated after a restart.
  `ConflictTableIsExact` and `AckedCommitsAreKept` need no restriction. Their
  invariant `LogInv` adds that every entry of the table is a commit
  (`TableGrounded`), that a commit is a TX_COMMIT record of the log at its own
  LSN (`HistoryLogged`, `OneCommitPerLsn`) and that acknowledged commits are
  flushed, which is what a crash cannot take (`AckedFlushed`).
* `BufferPoolProofs`. `TypeCorrect`, `PinsAlwaysAccounted`, `UpdatesNeverLost`
  and `CapacityRespected`, for every number of pages, guards and frames and
  every `LruK`. `NoLostUpdate` needs `PinsAccounted` (no eviction of a page a
  user is changing, shown by counting the guards that hold it) and
  `TouchedHeld` (a guard with an unreported change holds a page); the
  conjunction is the inductive invariant.
* `SnapshotsProofs`. `TypeCorrect`, `SnapshotsFixed`, `LsnsUnique`,
  `MirrorIsExact`, `KeysNeverLost`. What reads see depends on the set of listed
  chunks, and each file operation does one thing to it: removing a store takes
  chunks away, writing a chunk file changes nothing, listing it adds one. `SInv`
  adds to the properties what the call in progress has written and not listed
  (`JobShape`), and that the clock is at or above every LSN given out, on disk
  before the chunk that carries it (`Clocks`); without this a restart could give
  an LSN twice and a later write could enter an older snapshot. `KeysNeverLost`
  needs more, because an upsert first takes all rows away: `KInv` says that a
  promised key is in a store the upsert is done with or does not touch, or in
  the rows it still has to write (`Safe`).
* `GraphStoreProofs`. `ReadersAlwaysExact`: the code judges an adjacency file by
  counts, so the proof has to show that counts are enough. The invariant says
  that a file on disk always is the adjacency of a prefix of the relation's
  edges (`Before`), except for the relation a running upsert has replaced and
  not yet invalidated; a prefix of the same length is the whole.
  `EdgeKeysNeverLost`: a key is in a store that no pending rewrite covers, or in
  the rows of a pending rewrite (`Kept`). The rewrites are built by recursive
  functions over the rows (`Pick`, `FlattenSeq`), about which the module proves
  lemmas of its own: induction over a set of numbers (`Induct`), existence and
  equation of a function defined by recursion on an interval (`Recursion`), and
  from these the length, range and injectivity of what they return.
  `GidsAlwaysUnique` and `EdgesAlwaysGrounded` rest on a second invariant,
  `NInv`. That gids are unique on disk is not inductive: a call takes the next
  gid from the cached map, and what it gave out is on disk only after several
  file operations. So the invariant is about the rows on disk and those the call
  has yet to write together (`StoredNodes`, `Due`): among them a gid has one
  key (`Unique`), and the cached map is one-to-one and knows all of them
  (`Numbered`). An upsert does not go through the map and removes stores before
  it writes them; during one, what an edge joins is in a pending row or in a
  store that no pending row will replace (`Ground`). `Assigned` and `Finals` say
  what `AssignGids` and `FinalNodes`, recursions over the caller's table, do to
  the map and the rows they start from: known keys keep their gids, new ones get
  gids above all others.
* `IndexesProofs`. `ReadyIndexesExact` and `CachesCurrent`, over
  `ShapeCorrect`, for any handles, types, names and IRIs, with upserts that raise
  and calls cut short. A write marks as stale the indexes whose metadata names
  its store, so the invariant has to know whose index a name is
  (`OwnersDeclared`); an edge write marks property indexes alone, so that the
  argument also needs that the other kinds are over node types, which is what
  `create_vector_index` and `create_text_index` accept.
* `SessionProofs`. `RowsSurvive`, `ClosedPathComplete`, `ClockNeverBehind`. As
  long as no two handles overlapped, the state is the path, the abandoned
  working directories and at most one handle; `Sound` says how the three hang
  together at each step of connect, close and pack: which of them holds a row
  while the file at the path is being replaced. `DiffAlwaysExact` is about
  `BundleDiff`: classes and properties have a directory only if they are in the
  catalog (`Kept`; not the other way round), and for bundles of that form the
  diff raises both ways or neither, is symmetric, and says what differs outside
  the names it skips.
* `NativeLogProofs`. `LogReadsBack` and the action property
  `PrunedOnlyCovered`, for the specification `LogSpec` of the log alone. `LInv`
  says that the whole records of the segment up to the first torn one are a
  prefix of what was appended (`Matches`), what the open log takes for the last
  LSN (`LastKnown`) and that a checkpoint saved in the manifest is not above
  the records on disk at that moment (`Saved`). `StoreAlwaysExact` is about
  `NativeStore`, for any batches, stores and LSNs and for `StoreSpec`, in which
  the bundle may be open or not at any step. `StoreOK` says of a manifest that
  its chunks are the files 1, 2, ... in order, each whole, with the columns of
  some accepted batch, those of the first file, and with ids that go on where
  the chunk before ended, and that all rows together are the saved ones,
  numbered; `CallOK` that the append in progress writes a file no chunk names
  and a manifest that lists it. A snapshot filters batch by batch and chunk by
  chunk, the property the whole: `OnlyFlatten` says that it is the same. The
  public columns of a stored schema are those of the batch (`PublicBack`), so
  that what an append accepts by comparing public columns has the same stored
  columns, and a summary finds no drift.
* `TxManagerProofs`, its last part. `StoresAlwaysKnown` is about `Catalog`.
  `CatInv` says that in the file and in every handle the items of each kind have
  ids below some bound and nothing in common (`Listed`), and that while no
  definition was lost, at most one handle is open, it has the classes of the
  file, and they include the class of every store.

Assumptions. `BoundsAssumption` of `TxManager`: the bounds are numbers.
`ConstantsAssumption` of `BufferPool`: finite sets of pages and guards, at least
one frame, `LruK` at least 1, `None` is no page. `ConstantsAssumption` of
`Snapshots`: every value has an Arrow type, the classes are a sequence, bounds
are numbers. `ConstantsAssumption` of `GraphStore`: classes and relations are
listed once (directories have different names), tables are over the keys and
classes and not empty (`insert_node_table` and the upsert refuse an empty one at
once), `NoKey` is no key. `IndexConstants`: node types and relations have different
names, an index name is of one kind, vector and text indexes are over node
types, the tail of an IRI is a type's name or nobody's. `SessionConstants`: the formats are those `connect` accepts, there is a
handle, `None` is none. `CatalogConstants`: definitions are over the names and
IRIs. `DiffConstants`, `NativeLogAssumption` and `NativeStoreAssumption`: the
values for "no file" and for a directory cut short are no store, the caller's kinds of records do not include the
checkpoint's own, a batch is columns and lists of values. `KindsAssumption`, `BoundsAssumption` and
`ModeAssumption` of `Wal` and `CheckpointAssumption` of `Recovery`: sizes are
positive, `Checkpoint` is a kind of record, the sync mode and the crashes are
among those modelled.

Only model-checked:

* The disagreement in `torn_tail`, and recovery under `off`, which promises
  nothing.
* `NothingLeftOpen`: an invariant of the call stack of `Operators`, with no
  theorem yet. It is not a matter of recursion by itself: `Operators` declares
  recursive operators (the compiler and the reference answers), which would
  have to move to a module of their own before its steps can be reasoned about,
  and the invariant needs the relation between each frame's phase and the
  frame above it.
* `SubclassesExact`, `InferExact`, `AnswerExact`,
  `SamplingExact`, `EnginesAgree`, `NativeExact`, `GraphCallsExact`: these compare an algorithm with a recursive definition, in
  `Catalog`, `Operators` and the modules that extend it, and `PathQuery`; what a
  recursive operator computes for every input is out of the prover's reach.
* `IngestExact`: folds over statements and batches.
* `InferEnds`, `CallsEnd`: liveness under fairness.

## 6. What the checks found out

### The log and transactions

The Python log is correct against process crashes as long as no append runs
during a checkpoint. Against power failures sync `on` keeps every acknowledged
record as long as the failure leaves whole records. It need not: between the
write and the fsync of `append()` the record is in the file and may be cut in
two, under every sync mode. `torn_tail` shows what follows. The cut record is a
clean end of the log for the next open; `_resume_or_create` then appends
acknowledged records, or a checkpoint's marker, behind the torn bytes without
cutting them off. Until enough bytes follow, readers do not see those records
at all, so that recovery does not dispatch them and the log ends below the
checkpoint; once enough follow, the reader takes torn and new bytes for one
record, and every later open and recovery raises CDB-7052.

With whole records only there are two more ways for the checkpoint to end up
above the log, which `RecoveryComplete` and `LogReachesCheckpoint` except
(`outran`). `recover()` takes a marker for the boundary that a dead process had
written and not synced; a power failure after the new MANIFEST takes the marker
away. And `checkpoint()` takes no lock: an append of another thread rolls the
log before the truncation, the marker's segment goes, the new record is not on
disk yet, and after a crash the log ends below `checkpoint_lsn`.

Under the default `group`, `_ensure_segment` closes a full segment without
fsync, and a later `flush()` syncs the new segment only (`PowerRoll.cfg`).
First committer wins holds within a run of the program: a new manager knows no earlier
commits, so a transaction begun on a snapshot from before a restart
(`OldSnapshots = TRUE`) overwrites them unnoticed.

In the Rust log, records appended behind a torn one cannot be read, a header cut
short makes the log unopenable, and after a checkpoint has removed the segment
the next process starts at LSN 1 again (`NativeLsn.cfg`). Its stores hold
exactly the appends that were saved; listing the stores names directories
without a manifest too.

### Stores, snapshots and sessions

Inserts and snapshots are correct, restarts included; upserts keep all keys when
they run to the end, and neither keep snapshots (`AsOfUpsert.cfg`: rewritten rows
get a new LSN) nor survive a failure (`UpsertFails.cfg`: the store is removed
before it is known that the new rows fit one schema). An edge upsert replaces
the store of every relation it names but collects only rows of stores with the
edge key column (`EdgeUpsert.cfg`).

Gids stay unique and edges point where they were asked to, with two exceptions
that the properties of `GraphStore` name. An insert that raises has put its gids
into the cached map already; edges to those keys are accepted although no row
has them (`ghosts`). A node upsert that raises leaves a map from before it, and
a later insert may give out a gid that is in use (`nodeLoss`). Adjacency
readers hold the relation's edges, except after an edge upsert that is cut short
before it removes the adjacency file of a rewritten relation (`edgeLoss`).

Closing a packed database never loses the only copy, but after a death or a
failed pack the copy is in a working directory that nothing looks for, and an
incomplete file that `is_packed` accepts may be at the path. Two overlapping
handles overwrite each other and give an LSN twice: `Session` states its
properties for one handle at a time. Read-only mode is looked at only when a
packed handle is closed; on a directory a read-only handle writes.

The diff skips a class or a relation that both catalogs have and only one bundle
has a directory for, so that the diff of different bundles may be empty:
`insert_triples` defines properties of literals, which never get an edge store,
and `insert_edge_table` saves the property before it makes the store
(`diff.py:186`, `diff.py:209`). It raises CDB-7012 or CDB-7022 when a directory
was made and its manifest was not. Values are never compared, only names of
columns, ids and pairs.

A Parquet load stores exactly the batches it accepts, in order and with ids that
are positions, wherever it is interrupted; a chunk file that was written and not
listed is overwritten by the next append. The ids of the string dictionary
change with every merge, as its comment says.

An import that returns has stored its statements: one node for each resource of
a list of statements, in the class said last, its links in order, and an export
of a resource has them. Two things `TripleImport` makes visible are no
properties. `lower_to_tables` says "Make sure every subject we saw at least
exists as a node" (`rdf_import.py:209`), but goes through the resources that
already have a node or a class; a subject that only has links gets none, and
`insert_edge_table` raises CDB-7021 after the nodes have been stored. And a batch
has the columns of its first row: a literal whose column the first resource of
its class does not have is dropped without an error (`RowsSaid` compares the
columns that were stored).

### Indexes and caches

Property and text indexes that are declared ready answer for the current rows,
with four exceptions, each a write that marks nothing: a process that ends
between an append and the manifests; an upsert that raises after it removed a
store, which leaves the indexes over that store ready and, when it is the first
store, the caches of its own handle as they were; writes of the reasoner; and
`insert_nodes` with a class named by an IRI whose tail is not the class's local
name: the row goes to the class, the indexes marked are those over the tail.
The vector entries a handle has cached are keyed by index name and never
dropped: a rebuild, or an index of that name over another type, uses the old
rows and declares itself ready (`StaleVectors.cfg`). `drop_vector_index` removes
the index file before the manifest entry; a death in between leaves a ready
entry without a file.

The process-wide edge tables are keyed by the time of a file that does not
exist, so that k_hop, paths and evidence_search read the edges of the first read
after an append too (`StaleTraversal.cfg`), while adjacency readers, sampling
and pattern queries read the current ones: two calls in a row may disagree about
the graph. No run has a property of this, because none holds that is not about
relations written only once.

### Ontology

Cycles and unknown superclasses are accepted, and hierarchy and closure
agree about them. A closure file is judged by its class ids alone: after a
superclass is added to a class, the old file is accepted, and the properties
exclude exactly this. The SUBCLASSOF* scan looks for a store under the tail of
the IRI while inserts use the local name; classes whose two names differ are
skipped (compare docs/guides/ontology-reasoning.md:106). Two handles that define
classes lose each other's definitions. The reasoner logs one record per rule,
where the header of `reasoner.py` says one per pass; a budget that is exactly
used up counts as exhausted; after a death or that error the inferred edges stay
without a record, and a repetition completes the closure.

### Queries

Answers do not depend on how stores are cut into batches. Where the definition
the properties compare with had to follow the code: a left join with an empty
build side raises; Python joins match null keys with null keys, Rust does not (`EnginesAgree`
excludes plans where both sides have one);
`and_`/`or_` are not Kleene's; an aggregate over no batches has no rows in Python
and one in Rust; a column name that both sides of a join have is kept twice in Python unless a
prefix is given, and renamed to `right.` in Rust, so that answers are compared
by position; a variable-length path operator
does not repeat a pair it met
before `hop_min`; the Rust TopK works batch by batch; `csr_k_hop` tells nodes at
different depths apart; fanout 0 is all neighbours in Python and none in Rust. A
union one of whose later branches fails to open leaves the earlier ones open.

A variable-length query has no path of length 0 and none back to its source;
columns without AS share a name and the later wins; comparing a missing property
raises, in WHERE and in ORDER BY. The sampler may visit a node in two layers, so
that an edge may be in `edge_index` twice; edges to nodes beyond `max_nodes` count
against `max_edges` and are dropped afterwards; internal seeds out of range stay
as isolated nodes.

## 7. Plan

Done: all modules of section 2 and the proofs of section 5. Left:

1. `LoadExact` of `BulkLoad`.

## 8. Not modelled

* The Tuft parser, typer and tree: no state, and inputs out of TLC's reach. The
  pipelines the pattern compiler makes are in `Operators`. The translation of
  plans to the Rust form (`rust_lowering.py`, `ir.rs`) is a conversion.
* ML adapters, viewer, CLI and observability (conversions, rendering,
  printing), the UDF
  registry (a dictionary of callables), the feature store (lookups in a table
  that is read once, a function of its rows).
* Of the facade: scoring of text and hybrid
  search, recommendation measures and the formatting of tables. Of the sampler:
  worker processes of the loader, input by class and filter, and the validation
  of arguments.
* Byte formats and codecs of column segments, the catalog's JSON form
  and migration of old files, and HNSW (an external library).
* `tx.rs` has no caller. The bindings open bundle and store afresh in every
  call, under the interpreter lock; `NativeStore` has one action per step of
  such a call, and the rest of them converts values.
* A buffer pool without a `write_page` callback drops dirty pages by design. A
  file object's buffer is emptied in whole records; an fsync that returns after
  one that failed is taken to cover the whole file, and the fsync of a file to
  make its name durable; disk errors other than a failing fsync, pack or Rust
  write are left out.
