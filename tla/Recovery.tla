------------------------------ MODULE Recovery ------------------------------
(***************************************************************************)
(* Checkpoints and crash recovery on top of the WAL:                       *)
(* caracaldb/storage/checkpoint.py, caracaldb/storage/recovery.py and the  *)
(* two manifest fields they maintain (last_lsn, checkpoint_lsn).           *)
(*                                                                         *)
(* A checkpoint is four steps (marker, flush, manifest, truncation) and a  *)
(* crash may come between any two, or part way through the truncation.     *)
(* Recovery reads the whole log, dispatches the records above the          *)
(* boundary, and then writes the manifest.  Between runs of the program    *)
(* the bundle is recovered before its WAL is opened for writing, as        *)
(* tests/recovery does.                                                    *)
(***************************************************************************)
EXTENDS Wal

CONSTANTS
    Checkpoint,  \* CHECKPOINT_KIND, a member of Kinds
    Concurrent   \* TRUE: other threads append while a checkpoint runs (it takes no lock)

ASSUME CheckpointAssumption == Checkpoint \in Kinds /\ Concurrent \in BOOLEAN

VARIABLES
    disk,      \* the MANIFEST file: [last, ckpt]
    mem,       \* bundle.manifest of the running process
    pc,        \* "idle", or the next step of checkpoint()/recover()
    marker,    \* marker_lsn of the running checkpoint
    replayed,  \* records the last recover() dispatched to handlers
    olds,      \* earlier contents of the MANIFEST, which is never fsynced
    outran     \* history: the MANIFEST named a checkpoint above all that is sure to survive

vars == <<walVars, disk, mem, pc, marker, replayed, olds, outran>>

Init ==
    /\ WalInit
    /\ disk = [last |-> 0, ckpt |-> 0] /\ mem = disk
    /\ pc = "recovered" /\ marker = 0 /\ replayed = {} /\ olds = {} /\ outran = FALSE

(* The records of a file that fsync covered, and those of the files ss that    *)
(* the next crash is sure to leave.                                            *)
Hard(s) == {s.recs[k] : k \in 1..s.synced}
Durable(ss) == UNION {Hard(ss[i]) : i \in DOMAIN ss}
OnFile(ss) == UNION {ToSet(ss[i].recs) : i \in DOMAIN ss}
Safe(ss) == IF "power" \in CrashModes THEN Durable(ss) ELSE OnFile(ss)
Highest(S) == IF S = {} THEN 0 ELSE Max({e.lsn : e \in S})

(* Two steps leave a checkpoint above the log that was within it before: when  *)
(* recover() takes a marker for the boundary that a dead process wrote and     *)
(* never synced, and when checkpoint() prunes the segment of its marker after  *)
(* another thread's append has rolled the log.  `outran` remembers such a step, *)
(* not a checkpoint that was above the log when it was made.                   *)
NoteOutran(ckpt, ss) ==
    outran' = (outran \/ (disk.ckpt <= Highest(Safe(segs)) /\ ckpt > Highest(Safe(ss))))

(* Manifest.write_atomic: a temporary file renamed over the old one, without   *)
(* fsync, so that a power failure may bring an older manifest back.            *)
WriteManifest(m) ==
    /\ disk' = m /\ mem' = m
    /\ olds' = IF "power" \in CrashModes THEN olds \cup {disk} ELSE {}

----------------------------------------------------------------------------
(* recover(bundle), run on a bundle just opened from disk.                    *)

(* The boundary is the checkpoint_lsn of the manifest, moved forward by        *)
(* CHECKPOINT records above it; a record below the boundary in force when it   *)
(* is met is skipped.                                                         *)
Markers(log, low) == {r.lsn : r \in {x \in ToSet(log) : x.kind = Checkpoint /\ x.lsn > low}}

(* Mutant: one pass over the whole log finds the last CHECKPOINT before the     *)
(* replay starts.                                                              *)
MutBoundaryPrescan(log, i, low) ==
    LET seen == Markers(log, low)
    IN  IF seen = {} THEN low ELSE Max(seen)

BoundaryBefore(log, i, low) ==
    LET seen == Markers(SubSeq(log, 1, i - 1), low)
    IN  IF seen = {} THEN low ELSE Max(seen)

Dispatched(log, low) ==
    {log[i] : i \in {j \in DOMAIN log : log[j].kind # Checkpoint
                                        /\ log[j].lsn > BoundaryBefore(log, j, low)}}

RecoverReplay ==
    /\ status = "down" /\ pc = "crashed"
    /\ IF ReadRaises(segs)
       THEN /\ status' = "failed"
            /\ UNCHANGED <<pc, replayed, mem>>
       ELSE /\ replayed' = Dispatched(ReadAll(segs), disk.ckpt)
            /\ mem' = disk
            /\ pc' = "writeManifest"
            /\ UNCHANGED status
    /\ UNCHANGED <<segs, buf, open, lastLsn, fresh, promised, disk, marker, olds, outran>>

(* The manifest is rewritten when it differs; the records up to the new        *)
(* checkpoint_lsn have been redone and are recovery's concern no longer.       *)
RecoverManifest ==
    /\ pc = "writeManifest"
    /\ LET log == ReadAll(segs)
           top == MaxLsnOf(log)
           new == [last |-> IF top > mem.last THEN top ELSE mem.last,
                   ckpt |-> BoundaryBefore(log, Len(log) + 1, mem.ckpt)]
       IN  /\ WriteManifest(new)
           /\ promised' = {r \in promised : r.lsn > new.ckpt}
           /\ NoteOutran(new.ckpt, segs)
    /\ pc' = "recovered" /\ replayed' = {}
    /\ UNCHANGED <<segs, buf, open, lastLsn, status, fresh, marker>>

(* The application opens the WAL for writing.                                 *)
OpenLog ==
    /\ pc = "recovered"
    /\ WalOpen
    /\ pc' = "idle"
    /\ UNCHANGED <<disk, mem, marker, replayed, olds, outran>>

----------------------------------------------------------------------------
(* checkpoint(bundle, wal).                                                   *)

CkptMarker ==
    /\ pc = "idle"
    /\ lastLsn >= mem.ckpt          \* otherwise CDB-7060
    /\ WalAppend(Checkpoint)
    /\ marker' = lastLsn + 1
    /\ pc' = "ckptFlush"
    /\ UNCHANGED <<disk, mem, replayed, olds, outran>>

(* checkpoint() goes on when its append has returned.                          *)
MarkerReturned == Sync = "on" => \A r \in fresh : r.lsn # marker

(* Mutant: the manifest is written without flushing the marker.                *)
MutCkptFlush ==
    /\ pc = "ckptFlush" /\ MarkerReturned
    /\ pc' = "ckptManifest"
    /\ UNCHANGED <<walVars, disk, mem, marker, replayed, olds, outran>>

CkptFlush ==
    /\ pc = "ckptFlush" /\ MarkerReturned
    /\ WalFlush
    /\ pc' = "ckptManifest"
    /\ UNCHANGED <<disk, mem, marker, replayed, olds, outran>>

(* The flush raises CDB-7051: no manifest is written, the marker stays.        *)
CkptFlushFails ==
    /\ "fsync" \in CrashModes /\ Sync # "off"
    /\ pc = "ckptFlush" /\ MarkerReturned
    /\ pc' = "idle" /\ marker' = 0
    /\ UNCHANGED <<walVars, disk, mem, replayed, olds, outran>>

(* From here on the checkpoint stands for every record up to its marker.      *)
CkptManifest ==
    /\ pc = "ckptManifest"
    /\ WriteManifest([last |-> marker, ckpt |-> marker])
    /\ promised' = {r \in promised : r.lsn > marker}
    /\ pc' = "ckptTruncate"
    /\ UNCHANGED <<segs, buf, open, lastLsn, status, fresh, marker, replayed, outran>>

CkptTruncate ==
    /\ pc = "ckptTruncate"
    /\ Install(TruncateBefore(writer, marker))
    /\ NoteOutran(disk.ckpt, segs')
    /\ pc' = "idle" /\ marker' = 0
    /\ UNCHANGED <<lastLsn, status, fresh, promised, disk, mem, replayed, olds>>

----------------------------------------------------------------------------
(* Other calls on the WAL between checkpoints.                                *)
LogOp ==
    /\ pc = "idle"
    /\ \/ \E kind \in Kinds \ {Checkpoint} : WalAppend(kind)
       \/ Settled /\ WalFlush
       \/ WalClose
    /\ UNCHANGED <<disk, mem, pc, marker, replayed, olds, outran>>

(* The buffer may reach the operating system at any time.                      *)
BufferSpills ==
    /\ WalOsFlush
    /\ UNCHANGED <<disk, mem, pc, marker, replayed, olds, outran>>

(* Sync "on": an append returns, or raises and takes a checkpoint whose marker *)
(* it was with it.                                                             *)
AppendReturns ==
    /\ WalSync
    /\ UNCHANGED <<disk, mem, pc, marker, replayed, olds, outran>>

AppendFails ==
    /\ WalSyncFails
    /\ IF pc = "ckptFlush" /\ ~MarkerReturned
       THEN pc' = "idle" /\ marker' = 0
       ELSE UNCHANGED <<pc, marker>>
    /\ UNCHANGED <<disk, mem, replayed, olds, outran>>

(* Another thread's append (a TransactionManager holds its own lock, which     *)
(* checkpoint() does not take) between two steps of a checkpoint.              *)
ConcurrentAppend ==
    /\ Concurrent /\ pc \in {"ckptFlush", "ckptManifest", "ckptTruncate"}
    /\ \E kind \in Kinds \ {Checkpoint} : WalAppend(kind)
    /\ UNCHANGED <<disk, mem, pc, marker, replayed, olds, outran>>

(* What the process had in memory is gone.                                    *)
Forget ==
    /\ pc' = "crashed" /\ replayed' = {}
    /\ mem' = [last |-> 0, ckpt |-> 0] /\ marker' = 0

CrashAnywhere ==
    /\ Kill \/ \E kind \in Kinds : KillInCreate(kind)
    /\ Forget
    /\ UNCHANGED <<disk, olds, outran>>

PowerLossAnywhere ==
    /\ PowerLoss
    /\ disk' \in olds \cup {disk} /\ olds' = {}
    /\ Forget
    /\ UNCHANGED outran

(* Segments are unlinked one by one, oldest first.                            *)
CrashInTruncate ==
    /\ pc = "ckptTruncate" /\ CrashModes # {}
    /\ \E n \in 0..marker : segs' = TruncateBefore(writer, n).segs
    /\ NoteOutran(disk.ckpt, segs')
    /\ GoDown /\ Forget
    /\ UNCHANGED <<disk, olds>>

(* The process dies between the replay and the manifest write of recover().    *)
CrashInRecover ==
    /\ pc = "writeManifest" /\ CrashModes # {}
    /\ Forget
    /\ UNCHANGED <<walVars, disk, olds, outran>>

Next ==
    \/ RecoverReplay \/ RecoverManifest \/ OpenLog
    \/ CkptMarker \/ CkptFlush \/ CkptFlushFails \/ CkptManifest \/ CkptTruncate
    \/ LogOp \/ BufferSpills \/ AppendReturns \/ AppendFails \/ ConcurrentAppend
    \/ CrashAnywhere \/ PowerLossAnywhere \/ CrashInTruncate \/ CrashInRecover

Spec == Init /\ [][Next]_vars

----------------------------------------------------------------------------
Phases == {"idle", "crashed", "writeManifest", "recovered",
           "ckptFlush", "ckptManifest", "ckptTruncate"}

TypeOK ==
    /\ WalTypeOK
    /\ disk \in [last : Nat, ckpt : Nat] /\ mem \in [last : Nat, ckpt : Nat]
    /\ pc \in Phases /\ marker \in Nat /\ replayed \subseteq Entry
    /\ olds \subseteq [last : Nat, ckpt : Nat] /\ outran \in BOOLEAN

(* When recover() has replayed the log it has dispatched every record that a   *)
(* flush() promised and no checkpoint or earlier recovery stands for, however  *)
(* many crashes interrupted appends, checkpoints and recoveries before, unless *)
(* the checkpoint once outran the log.                                        *)
RecoveryComplete ==
    pc = "writeManifest" /\ ~outran => {r \in promised : r.kind # Checkpoint} \subseteq replayed

(* While the WAL is open its last LSN is at or above the checkpoint, so no     *)
(* checkpoint is refused with CDB-7060 and no new record gets an LSN that      *)
(* recovery would skip, unless the checkpoint once outran the log.             *)
LogReachesCheckpoint == status = "up" /\ ~outran => lastLsn >= disk.ckpt

(* The checkpoint recorded in the MANIFEST never moves back.                  *)
CheckpointMonotone == [][disk'.ckpt >= disk.ckpt]_vars

(* For process crashes, the log with its checkpoints implements DurableLog:    *)
(* what the operating system has is durable, what the Python buffer has is     *)
(* not, and the checkpoint is the one in the MANIFEST.                         *)
Stored == OnFile(segs)
Written == Stored \cup ToSet(buf)
Records == {[lsn |-> e.lsn, kind |-> e.kind] : e \in Written}
LastWritten == Highest(Written)
LastStored == Highest(Stored)
Base == disk.ckpt
Up == status = "up"

Promise == INSTANCE DurableLog WITH
    log <- Records, last <- LastWritten, durable <- LastStored, base <- Base, up <- Up

ImplementsDurableLog == Promise!Spec
=============================================================================
