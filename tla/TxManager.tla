----------------------------- MODULE TxManager -----------------------------
(***************************************************************************)
(* caracaldb/tx/manager.py: BEGIN / COMMIT / ROLLBACK over the WAL with    *)
(* write-write conflict detection.  begin, commit and rollback run under   *)
(* one re-entrant lock, so each is one step; threads interleave between    *)
(* them.  The code keeps no status of a transaction: any call may be made  *)
(* on any transaction object, in any order and repeatedly.                 *)
(*                                                                         *)
(* The WAL is used through what module DurableLog promises: a log with     *)
(* dense LSNs (here the position in `log`) of which a flushed prefix       *)
(* survives a crash of the process.                                        *)
(***************************************************************************)
EXTENDS Integers, Sequences, FiniteSets

CONSTANTS
    Keys,          \* the (table, key) pairs transactions declare
    OldSnapshots,  \* TRUE: begin() may be given a snapshot older than the manager
    MaxTx,         \* bound on the transactions of one run of the program
    MaxLsn,        \* bound on the records of the log
    MaxRestarts    \* bound on crashes

ASSUME BoundsAssumption ==
    MaxTx \in Nat /\ MaxLsn \in Nat /\ MaxRestarts \in Nat /\ OldSnapshots \in BOOLEAN

VARIABLES
    log,        \* the WAL: [kind, tx] records, the LSN is the position
    flushed,    \* the prefix of the log that survives a crash
    nextTx,     \* self._next_tx
    committed,  \* self._committed_writes: last committing LSN of a key, 0 if none
    txs,        \* the Transaction objects of this run, by tx_id
    epoch,      \* wal.last_lsn when this TransactionManager was built
    history,    \* history: every commit in the log, [lsn, snap, keys]
    acked,      \* history: LSNs of the commits whose commit() returned
    restarts    \* number of crashes so far

vars == <<log, flushed, nextTx, committed, txs, epoch, history, acked, restarts>>

last == Len(log)
Lsn == Nat
Kind == {"TX_BEGIN", "TX_COMMIT", "TX_ABORT"}
Transaction == [snapshot : Lsn, writes : SUBSET Keys]
CommitRecord == [lsn : Lsn, snap : Lsn, keys : SUBSET Keys]

Init ==
    /\ log = <<>> /\ flushed = 0
    /\ nextTx = 1 /\ committed = [k \in Keys |-> 0]
    /\ txs = <<>> /\ epoch = 0
    /\ history = {} /\ acked = {} /\ restarts = 0

----------------------------------------------------------------------------
(* wal.append(kind, ...).                                                     *)
LogAppend(kind, tx) ==
    /\ last < MaxLsn
    /\ log' = Append(log, [kind |-> kind, tx |-> tx])

(* begin(snapshot): by default the snapshot is the last LSN before the BEGIN   *)
(* record.  The record is not flushed.                                         *)
Begin(snap) ==
    /\ nextTx <= MaxTx
    /\ LogAppend("TX_BEGIN", nextTx)
    /\ nextTx' = nextTx + 1
    /\ txs' = Append(txs, [snapshot |-> snap, writes |-> {}])
    /\ UNCHANGED <<flushed, committed, epoch, history, acked, restarts>>

(* Transaction.record_write, on the caller's own object.                      *)
RecordWrite(t, k) ==
    /\ txs' = [txs EXCEPT ![t].writes = @ \cup {k}]
    /\ UNCHANGED <<log, flushed, nextTx, committed, epoch, history, acked, restarts>>

(* Mutant: off by one, a commit right after the snapshot is not a conflict.    *)
MutConflicts(t) == \E k \in txs[t].writes : committed[k] > txs[t].snapshot + 1

(* Some key of the transaction was committed after its snapshot: CDB-8002,     *)
(* and nothing changes.                                                        *)
Conflicts(t) == \E k \in txs[t].writes : committed[k] > txs[t].snapshot

(* Mutant: the keys are not stamped with the commit's LSN.                     *)
MutCommitBody(t) ==
    /\ ~Conflicts(t)
    /\ LogAppend("TX_COMMIT", t)
    /\ history' = history \cup
         {[lsn |-> last + 1, snap |-> txs[t].snapshot, keys |-> txs[t].writes]}
    /\ UNCHANGED <<nextTx, committed, txs, epoch, restarts>>

(* commit() up to the flush: the COMMIT record, then the keys are stamped with *)
(* its LSN.                                                                    *)
CommitBody(t) ==
    /\ ~Conflicts(t)
    /\ LogAppend("TX_COMMIT", t)
    /\ committed' = [k \in Keys |-> IF k \in txs[t].writes THEN last + 1 ELSE committed[k]]
    /\ history' = history \cup
         {[lsn |-> last + 1, snap |-> txs[t].snapshot, keys |-> txs[t].writes]}
    /\ UNCHANGED <<nextTx, txs, epoch, restarts>>

(* Mutant: commit() returns before the log is flushed.                         *)
MutCommit(t) ==
    /\ CommitBody(t)
    /\ acked' = acked \cup {last + 1}
    /\ UNCHANGED flushed

Commit(t) ==
    /\ CommitBody(t)
    /\ flushed' = last + 1
    /\ acked' = acked \cup {last + 1}

(* wal.flush() raises CDB-7051: the caller sees an error, but the commit is in *)
(* the log and in _committed_writes.                                           *)
CommitFlushFails(t) ==
    /\ CommitBody(t)
    /\ UNCHANGED <<flushed, acked>>

Rollback(t) ==
    /\ LogAppend("TX_ABORT", t)
    /\ txs' = [txs EXCEPT ![t].writes = {}]
    /\ flushed' = last + 1
    /\ UNCHANGED <<nextTx, committed, epoch, history, acked, restarts>>

(* The process dies and a new manager is built over the recovered log: its     *)
(* table of committed writes is empty and transaction ids start at 1 again.    *)
Restart ==
    /\ restarts < MaxRestarts
    /\ restarts' = restarts + 1
    /\ \E n \in flushed..last :
          /\ log' = SubSeq(log, 1, n)
          /\ epoch' = n
          /\ flushed' = n
          /\ history' = {c \in history : c.lsn <= n}
    /\ nextTx' = 1 /\ committed' = [k \in Keys |-> 0] /\ txs' = <<>>
    /\ UNCHANGED acked

Next ==
    \/ \E s \in (IF OldSnapshots THEN 0 ELSE epoch)..last : Begin(s)
    \/ \E t \in 1..Len(txs) :
          \/ \E k \in Keys : RecordWrite(t, k)
          \/ Commit(t) \/ CommitFlushFails(t) \/ Rollback(t)
    \/ Restart

Spec == Init /\ [][Next]_vars

----------------------------------------------------------------------------
TypeOK ==
    /\ log \in Seq([kind : Kind, tx : Nat]) /\ flushed \in 0..last
    /\ nextTx \in Nat /\ committed \in [Keys -> Lsn]
    /\ txs \in Seq(Transaction) /\ epoch \in 0..last
    /\ history \subseteq CommitRecord /\ acked \subseteq Lsn /\ restarts \in Nat

(* Write-write conflicts are caught: of two commits touching the same key, the *)
(* later one read a snapshot that includes the earlier one ("rejects a commit  *)
(* when another transaction already committed a write touching the same key    *)
(* after the writer's snapshot was taken").                                    *)
FirstCommitterWins ==
    \A c, d \in history :
        c.lsn < d.lsn /\ c.keys \cap d.keys # {} => c.lsn <= d.snap

(* A conflict is reported only when there is one: the table names, for every   *)
(* key, the LSN of the last commit of this run that wrote it.                  *)
ConflictTableExact ==
    \A k \in Keys :
        LET writers == {c.lsn : c \in {h \in history : k \in h.keys /\ h.lsn > epoch}}
        IN  IF writers = {} THEN committed[k] = 0
            ELSE committed[k] \in writers /\ \A n \in writers : n <= committed[k]

(* A commit() that returned is in the log for good, whatever crash follows,    *)
(* and no two commits have the same LSN.                                       *)
AckedCommitsSurvive ==
    /\ \A n \in acked : \E c \in history : c.lsn = n
    /\ \A c \in history : c.lsn <= last /\ log[c.lsn].kind = "TX_COMMIT"
    /\ \A c, d \in history : c.lsn = d.lsn => c = d
=============================================================================
