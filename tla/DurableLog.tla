----------------------------- MODULE DurableLog -----------------------------
(***************************************************************************)
(* What the WAL together with checkpoints promises (caracaldb/storage:     *)
(* wal.py, checkpoint.py, recovery.py), stated without files, buffers or   *)
(* segments: a set of records with dense LSNs, of which a prefix `durable` *)
(* survives a crash and a prefix `base` is covered by a checkpoint and may *)
(* be pruned.  Recovery implements it for process crashes:                 *)
(* Recovery!ImplementsDurableLog, proved in RecoveryProofs.                *)
(***************************************************************************)
EXTENDS Integers

CONSTANT Kinds  \* the record kinds

VARIABLES
    log,      \* the records retained
    last,     \* the highest LSN assigned
    durable,  \* every record up to this LSN survives a crash
    base,     \* the checkpoint: records up to this LSN are covered by it
    up        \* whether the log is open for appending

vars == <<log, last, durable, base, up>>

LogRecord == [lsn : Nat, kind : Kinds]

Init == log = {} /\ last = 0 /\ durable = 0 /\ base = 0 /\ up = FALSE

Open == ~up /\ up' = TRUE /\ UNCHANGED <<log, last, durable, base>>

(* Records become durable in LSN order, on the way or by a flush.             *)
Append(kind) ==
    /\ up
    /\ last' = last + 1
    /\ log' = log \cup {[lsn |-> last + 1, kind |-> kind]}
    /\ durable' \in durable..(last + 1)
    /\ UNCHANGED <<base, up>>

Persist ==
    /\ up
    /\ durable' \in durable..last
    /\ UNCHANGED <<log, last, base, up>>

(* Only a durable prefix may be covered by a checkpoint.                      *)
Cover ==
    /\ base' \in base..durable
    /\ UNCHANGED <<log, last, durable, up>>

(* Only covered records may be pruned.                                        *)
Prune ==
    /\ UNCHANGED <<last, durable, base, up>>
    /\ log' \in SUBSET log
    /\ \A r \in log \ log' : r.lsn <= base

(* A crash loses a suffix of what is not durable when it comes, part way       *)
(* through pruning or not.                                                     *)
Crash ==
    /\ up /\ up' = FALSE
    /\ UNCHANGED base
    /\ durable' \in durable..last /\ last' \in durable'..last
    /\ log' \in SUBSET log
    /\ \A r \in log' : r.lsn <= last'
    /\ \A r \in log \ log' : r.lsn <= base \/ r.lsn > last'

Next ==
    \/ Open
    \/ \E kind \in Kinds : Append(kind)
    \/ Persist \/ Cover \/ Prune \/ Crash

Spec == Init /\ [][Next]_vars

----------------------------------------------------------------------------
(* The checkpoint never covers more than what is durable, and every LSN above  *)
(* it has exactly one record: recovery has all it needs and nothing twice.     *)
Replayable ==
    /\ base <= durable /\ durable <= last
    /\ \A n \in (base + 1)..last : \E r \in log : r.lsn = n
    /\ \A r, s \in log : r.lsn = s.lsn => r = s

(* No step loses a durable record that the checkpoint does not cover.         *)
DurableKept == [][\A r \in log : base < r.lsn /\ r.lsn <= durable /\ base' < r.lsn => r \in log']_vars
=============================================================================
