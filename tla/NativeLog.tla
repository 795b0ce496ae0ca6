----------------------------- MODULE NativeLog -----------------------------
(***************************************************************************)
(* The Rust core's bundle, write-ahead log and checkpoint                  *)
(* (crates/caracaldb-core/src: bundle.rs, wal.rs, checkpoint.rs).  The log *)
(* is one segment file, appended to without fsync; a process may die, and  *)
(* a write may fail, after any part of it has reached the file.            *)
(*                                                                         *)
(* A segment is [head, items]: whether its header is whole, and the        *)
(* records after it, Torn standing for a record that was cut short.        *)
(***************************************************************************)
EXTENDS Integers, Sequences, SequencesExt

CONSTANTS
    Null,
    Kinds,    \* the record kinds of the callers
    WritesFail,  \* whether a write to the log may fail or be cut short
    MaxLsn,   \* bound: the highest LSN assigned
    MaxItems  \* bound: the records of a segment, torn ones included

Torn == [torn |-> TRUE]
Item == {Torn} \cup [torn : {FALSE}, lsn : Nat, prev_lsn : Nat, kind : Kinds \cup {"CHECKPOINT"}]
SegmentFile == [head : BOOLEAN, items : Seq(Item)]

ASSUME NativeLogAssumption ==
    /\ WritesFail \in BOOLEAN /\ MaxLsn \in Nat /\ MaxItems \in Nat /\ "CHECKPOINT" \notin Kinds
    /\ Null \notin SegmentFile

VARIABLES
    dirs,      \* the bundle's directories: "none", "some" or "all"
    manifest,  \* MANIFEST on disk: Null or [last_lsn, checkpoint_lsn]
    segment,   \* the segment file: Null or [head, items]
    bundle,    \* the open Bundle's copy of the manifest, Null when not open
    wal,       \* last_lsn of the open Wal, Null when not open
    cp,        \* a checkpoint in progress: Null or [pc, lsn]
    written,   \* ghost: the records whose append returned, of this segment
    highest    \* ghost: the highest LSN an append has returned
logVars == <<dirs, manifest, segment, bundle, wal, cp, written, highest>>

Manifest(n) == [last_lsn |-> n, checkpoint_lsn |-> n]
Record(lsn, prev, kind) == [torn |-> FALSE, lsn |-> lsn, prev_lsn |-> prev, kind |-> kind]
Idle == cp = Null

-----------------------------------------------------------------------------
(* The bundle directory.  create_bundle makes the directories one by one and   *)
(* writes an empty manifest unless there is one.                               *)
Openable == dirs = "all" /\ manifest # Null

MadeManifest == IF manifest = Null THEN Manifest(0) ELSE manifest

CreateBundle(exist_ok) ==
    /\ bundle = Null /\ Idle
    /\ dirs = "none" \/ exist_ok
    /\ \/ dirs' = "all" /\ manifest' = MadeManifest /\ bundle' = MadeManifest
       \/ dirs' = "all" /\ UNCHANGED <<manifest, bundle>>
       \/ dirs' = (IF dirs = "all" THEN "all" ELSE "some") /\ UNCHANGED <<manifest, bundle>>
    /\ UNCHANGED <<segment, wal, cp, written, highest>>

OpenBundle ==
    /\ bundle = Null /\ Openable
    /\ bundle' = manifest
    /\ UNCHANGED <<dirs, manifest, segment, wal, cp, written, highest>>

ReloadManifest ==
    /\ bundle # Null /\ Idle
    /\ bundle' = manifest
    /\ UNCHANGED <<dirs, manifest, segment, wal, cp, written, highest>>

-----------------------------------------------------------------------------
(* Reading a segment: the records up to the first one cut short.  What stands  *)
(* behind a cut, or behind a cut header, is parsed at the wrong place: the     *)
(* reader takes it for an incomplete tail, or a length or a checksum fails.    *)
Broken == [ok |-> FALSE, records |-> <<>>]
Read(records) == [ok |-> TRUE, records |-> records]

WholeRecords(items) == SubSeq(items, 1, SelectInSeq(items \o <<Torn>>, LAMBDA r : r.torn) - 1)

Reads(seg) ==
    CASE seg = Null -> {Read(<<>>)}
      [] seg # Null /\ ~seg.head -> IF seg.items = <<>> THEN {Broken} ELSE {Broken, Read(<<>>)}
      [] OTHER -> LET whole == WholeRecords(seg.items)
                  IN IF Len(whole) + 1 < Len(seg.items) THEN {Broken, Read(whole)} ELSE {Read(whole)}

LastLsn(records) == IF records = <<>> THEN 0 ELSE Last(records).lsn

WalOpen ==
    /\ bundle # Null /\ wal = Null
    /\ \E r \in Reads(segment) : r.ok /\ wal' = LastLsn(r.records)
    /\ UNCHANGED <<dirs, manifest, segment, bundle, cp, written, highest>>

-----------------------------------------------------------------------------
(* Wal::append.  The header of a new file and the record are written one after *)
(* the other; either may be cut short, or nothing be written at all.           *)
File == IF segment = Null THEN [head |-> TRUE, items |-> <<>>] ELSE segment
MutWith(item) == [File EXCEPT !.items = <<item>>]
With(item) == [File EXCEPT !.items = Append(@, item)]

Room == wal < MaxLsn /\ Len(File.items) < MaxItems
NextRecord(kind) == Record(wal + 1, wal, kind)

Appended(kind) ==
    /\ segment' = With(NextRecord(kind))
    /\ wal' = wal + 1
    /\ written' = Append(IF segment = Null THEN <<>> ELSE written, NextRecord(kind))
    /\ highest' = IF wal + 1 > highest THEN wal + 1 ELSE highest

(* What a failed append leaves behind; the handle keeps its last_lsn.          *)
AppendFailed ==
    /\ WritesFail
    /\ segment' \in {segment, With(Torn)} \cup (IF segment = Null THEN {[head |-> FALSE, items |-> <<>>]} ELSE {})
    /\ written' = (IF segment = Null THEN <<>> ELSE written)
    /\ UNCHANGED <<wal, highest>>

WalAppend(kind) ==
    /\ wal # Null /\ Idle /\ Room
    /\ Appended(kind) \/ AppendFailed
    /\ UNCHANGED <<dirs, manifest, bundle, cp>>

-----------------------------------------------------------------------------
(* checkpoint(): refuse to go back, append a marker, replace the manifest,     *)
(* remove every segment that ends at or before the marker.                     *)
Behind == wal < bundle.checkpoint_lsn

MutCheckpointMark ==
    /\ wal # Null /\ Idle /\ Room /\ ~Behind
    /\ Appended("CHECKPOINT") /\ cp' = [pc |-> "truncate", lsn |-> wal + 1]
    /\ UNCHANGED <<dirs, manifest, bundle>>
CheckpointMark ==
    /\ wal # Null /\ Idle /\ Room /\ ~Behind
    /\ \/ Appended("CHECKPOINT") /\ cp' = [pc |-> "save", lsn |-> wal + 1]
       \/ AppendFailed /\ UNCHANGED cp
    /\ UNCHANGED <<dirs, manifest, bundle>>

(* Manifest::write_atomic writes a temporary file and renames it.              *)
CheckpointSave ==
    /\ cp # Null /\ cp.pc = "save"
    /\ \/ manifest' = Manifest(cp.lsn) /\ bundle' = Manifest(cp.lsn) /\ cp' = [cp EXCEPT !.pc = "truncate"]
       \/ cp' = Null /\ UNCHANGED <<manifest, bundle>>
    /\ UNCHANGED <<dirs, segment, wal, written, highest>>

Removable(records, lsn) == records # <<>> /\ LastLsn(records) <= lsn

TruncateBefore ==
    /\ cp # Null /\ cp.pc = "truncate"
    /\ \E r \in Reads(segment) :
          segment' = IF r.ok /\ Removable(r.records, cp.lsn) THEN Null ELSE segment
    /\ cp' = Null
    /\ UNCHANGED <<dirs, manifest, bundle, wal, written, highest>>

(* The process dies; between two steps of a checkpoint, too.  A death within   *)
(* an append is a failed append followed by this.                              *)
Die ==
    /\ bundle # Null
    /\ bundle' = Null /\ wal' = Null /\ cp' = Null
    /\ UNCHANGED <<dirs, manifest, segment, written, highest>>

LogInit ==
    /\ dirs = "none" /\ manifest = Null /\ segment = Null
    /\ bundle = Null /\ wal = Null /\ cp = Null /\ written = <<>> /\ highest = 0

LogNext ==
    \/ \E exist_ok \in BOOLEAN : CreateBundle(exist_ok)
    \/ OpenBundle \/ ReloadManifest \/ WalOpen
    \/ \E kind \in Kinds : WalAppend(kind)
    \/ CheckpointMark \/ CheckpointSave \/ TruncateBefore \/ Die

LogSpec == LogInit /\ [][LogNext]_logVars

-----------------------------------------------------------------------------
(* What iter_all_records returns is what the appends returned, from the first  *)
(* record of the segment on and without a gap; it is all of it unless a write  *)
(* was cut short, and then nothing that was not appended.  Each record names   *)
(* its predecessor, failed appends and restarts in between or not.             *)
Whole == segment = Null \/ (segment.head /\ \A i \in DOMAIN segment.items : ~segment.items[i].torn)
ReadsBack ==
    segment # Null =>
        \A r \in Reads(segment) :
            /\ r.ok => IsPrefix(r.records, written)
            /\ Whole => r.ok /\ r.records = written
            /\ \A i \in DOMAIN r.records :
                  /\ r.records[i].lsn = r.records[i].prev_lsn + 1
                  /\ i > 1 => r.records[i].prev_lsn = r.records[i - 1].lsn

(* A segment goes only when the manifest on disk covers each of its records.   *)
PrunedCovered ==
    [][(segment # Null /\ segment' = Null) =>
          /\ segment.items # <<>>
          /\ \A r \in Reads(segment) : r.ok => LastLsn(r.records) <= manifest.checkpoint_lsn]_logVars

(* docs/concepts/snapshots-and-mvcc.md:26, "Log sequence number used to order  *)
(* writes": a later append has the higher number.                              *)
LsnOrdersWrites == [][written' # written /\ written' # <<>> => Last(written').lsn > highest]_logVars
=============================================================================
