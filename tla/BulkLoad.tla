------------------------------ MODULE BulkLoad ------------------------------
(***************************************************************************)
(* caracaldb/ingest/parquet_loader.py over the store files of              *)
(* caracaldb/storage/edge_store.py, node_store.py and column_store.py, and *)
(* the string dictionary of caracaldb/storage/dict_store.py.               *)
(*                                                                         *)
(* A load streams the batches of one file into one store.  A batch the     *)
(* store refuses is counted and left out; a file without the end columns,  *)
(* an I/O error or the end of the process stops the load where it is.  A   *)
(* store is its chunk files and the manifest that lists them, each         *)
(* replaced as a whole.                                                    *)
(***************************************************************************)
EXTENDS Integers, Sequences, FiniteSets, SequencesExt, FiniteSetsExt

CONSTANTS
    Inputs,    \* the files: sequences of batches [rows, cols, ends]
    Owners,    \* IRIs of the class or the property a store belongs to
    Limit,     \* quarantine_limit
    MaxLoads,  \* bound on the loads
    Strings,   \* the strings of the dictionary, ordered as they sort
    NoFile     \* no such file

VARIABLES
    shelf,     \* the chunk files of each store, by position
    listing,   \* the manifest file of each store: [owner, cols, refs, next], or NoFile
    load,      \* the load in progress
    loads,     \* the number of loads
    was,       \* history: the rows of each store when the last load began
    words,     \* DictStore._entries of the process
    wordFile,  \* the dictionary file
    wordIds    \* history: what the last merge returned

storeVars == <<shelf, listing, load, loads, was>>
wordVars == <<words, wordFile, wordIds>>

(* The loader of nodes and the loader of edges.                                *)
Targets == {"nodes", "edges"}
Report == [read |-> 0, written |-> 0, quarantined |-> 0, kept |-> 0, chunks |-> 0]
NoLoad == [to |-> "nodes", at |-> "idle", in |-> <<>>, done |-> 0, store |-> NoFile, report |-> Report]

LoadInit ==
    /\ shelf = [t \in Targets |-> <<>>] /\ listing = [t \in Targets |-> NoFile]
    /\ load = NoLoad /\ loads = 0 /\ was = [t \in Targets |-> <<>>]
WordInit ==
    /\ words = <<>> /\ wordFile = NoFile /\ wordIds = [w \in {} |-> 0]

-----------------------------------------------------------------------------
(* Store files.                                                                *)

(* The rows of a batch with their ids, as ColumnWriter.close writes them.      *)
ChunkFile(rows, start) == [i \in DOMAIN rows |-> [row |-> rows[i], id |-> start + i - 1]]

(* scan: the listed chunks, in order.                                          *)
Scan(t) == IF listing[t] = NoFile THEN <<>> ELSE FlattenSeq(SubSeq(shelf[t], 1, Len(listing[t].refs)))

(* open_edge_store and open_node_store.                                        *)
OpenStore(t, owner) ==
    IF listing[t] = NoFile THEN [owner |-> owner, cols |-> <<>>, refs |-> <<>>, next |-> 0] ELSE listing[t]
OpenRaises(t, owner, create) ==
    IF listing[t] = NoFile THEN ~create ELSE listing[t].owner # owner

Begin(t, file, owner, create) ==
    /\ load.at \in {"idle", "raised", "returned"} /\ loads < MaxLoads /\ loads' = loads + 1
    /\ was' = [was EXCEPT ![t] = Scan(t)]
    /\ IF OpenRaises(t, owner, create)
       THEN load' = [NoLoad EXCEPT !.to = t, !.at = "raised"] /\ UNCHANGED listing
       ELSE /\ listing' = [listing EXCEPT ![t] = OpenStore(t, owner)]
            /\ load' = [NoLoad EXCEPT !.to = t, !.at = "batch", !.in = file, !.store = listing'[t]]
    /\ UNCHANGED shelf

-----------------------------------------------------------------------------
(* The loop over the batches.                                                  *)

Batch == load.in[load.done + 1]
Ends == load.to = "edges"

(* _validate_batch and _ensure_compatible: the columns of the first chunk.     *)
Drifts(b) == load.store.refs # <<>> /\ load.store.cols # b.cols

NextBatch == [load EXCEPT !.done = @ + 1, !.report.read = @ + Len(Batch.rows)]

(* _quarantine: the list has a limit, the count has none.                      *)
Quarantine ==
    /\ load.at = "batch" /\ load.done < Len(load.in) /\ ~(Ends /\ Batch.ends = "absent")
    /\ (Ends /\ Batch.ends = "unfit") \/ (Batch.rows # <<>> /\ Drifts(Batch))
    /\ load' = [NextBatch EXCEPT !.report.quarantined = @ + Len(Batch.rows),
                                 !.report.kept = IF @ < Limit THEN @ + 1 ELSE @]
    /\ UNCHANGED <<shelf, listing, loads, was>>

Fitting == Batch.rows # <<>> /\ ~Drifts(Batch) /\ ~(Ends /\ Batch.ends # "fit")

(* An empty batch is passed over; the end columns are asked for first.         *)
SkipEmpty ==
    /\ load.at = "batch" /\ load.done < Len(load.in)
    /\ Batch.rows = <<>> /\ ~(Ends /\ Batch.ends # "fit")
    /\ load' = NextBatch
    /\ UNCHANGED <<shelf, listing, loads, was>>

(* Mutant: the next id is not advanced.                                        *)
MutWriteChunk ==
    /\ load.at = "batch" /\ load.done < Len(load.in) /\ Fitting
    /\ LET s == load.store IN
       /\ shelf' = [shelf EXCEPT ![load.to] = Append(SubSeq(@, 1, Len(s.refs)), ChunkFile(Batch.rows, s.next))]
       /\ load' = [load EXCEPT !.at = "list",
              !.store = [s EXCEPT !.cols = Batch.cols, !.refs = Append(@, <<s.next, s.next + Len(Batch.rows)>>)]]
    /\ UNCHANGED <<listing, loads, was>>

(* append, first half: the chunk file takes the position after the listed      *)
(* chunks, over a file an interrupted append left there.                       *)
WriteChunk ==
    /\ load.at = "batch" /\ load.done < Len(load.in) /\ Fitting
    /\ LET s == load.store
           end == s.next + Len(Batch.rows)
       IN /\ shelf' = [shelf EXCEPT ![load.to] = Append(SubSeq(@, 1, Len(s.refs)), ChunkFile(Batch.rows, s.next))]
          /\ load' = [load EXCEPT !.at = "list",
                 !.store = [s EXCEPT !.cols = Batch.cols, !.refs = Append(@, <<s.next, end>>), !.next = end]]
    /\ UNCHANGED <<listing, loads, was>>

(* append, second half: the manifest, and then the report.                     *)
SaveManifest ==
    /\ load.at = "list"
    /\ listing' = [listing EXCEPT ![load.to] = load.store]
    /\ load' = [NextBatch EXCEPT !.at = "batch", !.report.written = @ + Len(Batch.rows), !.report.chunks = @ + 1]
    /\ UNCHANGED <<shelf, loads, was>>

(* A file without src or dst (CDB-7031); its report is not returned.           *)
EndsMissing ==
    /\ load.at = "batch" /\ load.done < Len(load.in) /\ Ends /\ Batch.ends = "absent"
    /\ load' = [load EXCEPT !.at = "raised"]
    /\ UNCHANGED <<shelf, listing, loads, was>>

Return ==
    /\ load.at = "batch" /\ load.done = Len(load.in)
    /\ load' = [load EXCEPT !.at = "returned"]
    /\ UNCHANGED <<shelf, listing, loads, was>>

(* An I/O error, which the loader does not catch, or the end of the process.   *)
Interrupt ==
    /\ load.at \in {"batch", "list"} /\ load' = [load EXCEPT !.at = "raised"]
    /\ UNCHANGED <<shelf, listing, loads, was>>

LoadNext ==
    \/ \E t \in Targets, file \in Inputs, owner \in Owners, create \in BOOLEAN : Begin(t, file, owner, create)
    \/ Quarantine \/ SkipEmpty \/ WriteChunk \/ SaveManifest \/ EndsMissing \/ Return \/ Interrupt

-----------------------------------------------------------------------------
(* The dictionary.                                                             *)

(* id_of: the position at which bisect_left would insert, if the string is     *)
(* there; str_of is the string at a position.                                  *)
IdOf(ws, w) == Cardinality({i \in DOMAIN ws : ws[i] < w})
HasWord(ws, w) == IdOf(ws, w) < Len(ws) /\ ws[IdOf(ws, w) + 1] = w
StrOf(ws, i) == ws[i + 1]

(* merge: all strings are numbered anew.                                       *)
Merged(S) == SetToSortSeq(ToSet(words) \cup S, <)
Merge(S) ==
    /\ words' = IF S \subseteq ToSet(words) THEN words ELSE Merged(S)
    /\ wordIds' = [w \in S |-> IdOf(words', w)]
    /\ UNCHANGED wordFile

WriteWords == wordFile' = words /\ UNCHANGED <<words, wordIds>>
ReadWords ==
    /\ wordFile # NoFile /\ words' = wordFile /\ wordIds' = [w \in {} |-> 0]
    /\ UNCHANGED wordFile

WordNext == (\E S \in SUBSET Strings : Merge(S)) \/ WriteWords \/ ReadWords

-----------------------------------------------------------------------------
(* The batches of the input that a load may write: those with rows and with    *)
(* good ends whose columns are those of the first rows of the store.           *)
Good(i) == load.in[i].rows # <<>> /\ (load.to = "edges" => load.in[i].ends = "fit")
FirstCols == IF was[load.to] # <<>> THEN listing[load.to].cols
             ELSE load.in[Min({i \in DOMAIN load.in : Good(i)})].cols
Accepted(n) == FlattenSeq([i \in 1..n |->
                   IF Good(i) /\ load.in[i].cols = FirstCols THEN load.in[i].rows ELSE <<>>])

(* At every moment a store holds the rows from before the load and the         *)
(* accepted rows of the batches done, nothing lost, repeated or reordered,     *)
(* whatever was refused or interrupted; the ids are the positions; and the     *)
(* report accounts for every row read.                                         *)
LoadExact ==
    /\ \A t \in Targets : \A i \in DOMAIN Scan(t) : Scan(t)[i].id = i - 1
    /\ \A t \in Targets : listing[t] # NoFile =>
           /\ listing[t].next = Len(Scan(t))
           /\ \A i \in DOMAIN listing[t].refs :
                  listing[t].refs[i] = <<shelf[t][i][1].id, Last(shelf[t][i]).id + 1>>
    /\ load.store # NoFile =>
           LET rows == [i \in DOMAIN Scan(load.to) |-> Scan(load.to)[i].row]
               old == [i \in DOMAIN was[load.to] |-> was[load.to][i].row]
           IN  /\ rows = old \o Accepted(load.done)
               /\ load.report.written = Len(rows) - Len(old)
    /\ load.report.read = load.report.written + load.report.quarantined
    /\ load.at = "returned" => load.report.read = Len(FlattenSeq([i \in DOMAIN load.in |-> load.in[i].rows]))

(* The ids of the last merge name their strings, and every string has one id,  *)
(* in the order of the strings, in memory and after reading the file.          *)
WordsExact ==
    /\ \A w \in DOMAIN wordIds : StrOf(words, wordIds[w]) = w
    /\ \A i, j \in DOMAIN words : i < j => words[i] < words[j]
    /\ \A i \in DOMAIN words : HasWord(words, words[i]) /\ IdOf(words, words[i]) = i - 1
=============================================================================
