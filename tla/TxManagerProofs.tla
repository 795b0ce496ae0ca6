-------------------------- MODULE TxManagerProofs --------------------------
(* Proofs about TxManager for every set of keys and any number of              *)
(* transactions, log records and crashes.  ConflictsCaught is for snapshots    *)
(* taken under the running manager (OldSnapshots = FALSE), the other theorems  *)
(* are for all.  At the end: StoresKnown of Catalog.                           *)
EXTENDS TxManager, Catalog, SequenceTheorems, WellFoundedInduction, TLAPS

(* The table knows every commit of this run; snapshots are at least as new as  *)
(* the manager.  Together they make FirstCommitterWins inductive.              *)
TableComplete ==
    \A k \in Keys : \A c \in history : k \in c.keys /\ c.lsn > epoch => c.lsn <= committed[k]
SnapshotsFresh == \A t \in 1..Len(txs) : epoch <= txs[t].snapshot
HistoryInLog == \A c \in history : 1 <= c.lsn /\ c.lsn <= last

IInv == TypeOK /\ TableComplete /\ SnapshotsFresh /\ HistoryInLog /\ FirstCommitterWins

USE DEF Lsn, last

LEMMA InitInv == Init => IInv
<1> SUFFICES ASSUME Init PROVE IInv
  OBVIOUS
<1>1. TypeOK
  BY DEF Init, TypeOK, Transaction
<1>2. QED
  BY <1>1 DEF Init, IInv, TableComplete, SnapshotsFresh, HistoryInLog, FirstCommitterWins

(* What appending a record does to the log.                                    *)
LEMMA LogAppendGrows ==
  ASSUME TypeOK, NEW kind \in Kind, NEW tx \in Nat, LogAppend(kind, tx)
  PROVE  /\ log' \in Seq([kind : Kind, tx : Nat])
         /\ Len(log') = Len(log) + 1
         /\ Len(log) \in Nat
         /\ \A i \in 1..Len(log) : log'[i] = log[i]
         /\ log'[Len(log) + 1].kind = kind
  BY DEF TypeOK, LogAppend

(* What changing the write set of one transaction does to the others.          *)
LEMMA WritesUpdate ==
  ASSUME TypeOK, NEW t \in 1..Len(txs), NEW W \in SUBSET Keys,
         txs' = [txs EXCEPT ![t].writes = W]
  PROVE  /\ txs' \in Seq(Transaction) /\ Len(txs') = Len(txs)
         /\ \A u \in 1..Len(txs) : txs'[u].snapshot = txs[u].snapshot
<1> DEFINE new == [txs[t] EXCEPT !.writes = W]
<1>1. txs \in Seq(Transaction) /\ txs[t] \in Transaction
  BY DEF TypeOK
<1>2. new \in Transaction /\ new.snapshot = txs[t].snapshot
  BY <1>1 DEF Transaction
<1>3. txs' = [txs EXCEPT ![t] = new]
  OBVIOUS
<1> HIDE DEF new
<1>4. /\ txs' \in Seq(Transaction) /\ Len(txs') = Len(txs)
      /\ \A u \in 1..Len(txs) : txs'[u] = IF u = t THEN new ELSE txs[u]
  BY <1>1, <1>2, <1>3, ExceptSeq
<1>5. QED
  BY <1>2, <1>4

LEMMA LogElements ==
  TypeOK => Len(log) \in Nat /\ \A i \in 1..Len(log) : log[i] \in [kind : Kind, tx : Nat]
<1> SUFFICES ASSUME TypeOK
             PROVE  Len(log) \in Nat /\ \A i \in 1..Len(log) : log[i] \in [kind : Kind, tx : Nat]
  OBVIOUS
<1>1. log \in Seq([kind : Kind, tx : Nat])
  BY DEF TypeOK
<1>2. QED
  BY <1>1, LenProperties, ElementOfSeq

(* What a crash leaves of the log.                                             *)
LEMMA LogPrefix ==
  ASSUME TypeOK, NEW n \in 0..Len(log), log' = SubSeq(log, 1, n)
  PROVE  /\ log' \in Seq([kind : Kind, tx : Nat]) /\ Len(log') = n
         /\ \A i \in 1..n : log'[i] = log[i]
<1>1. \A i \in 1..n : log[i] \in [kind : Kind, tx : Nat]
  <2>1. Len(log) \in Nat /\ \A i \in 1..Len(log) : log[i] \in [kind : Kind, tx : Nat]
    BY LogElements
  <2>2. \A i \in 1..n : i \in 1..Len(log)
    BY <2>1
  <2>3. QED
    BY <2>1, <2>2
<1>2. 1 \in Int /\ n \in Int
  BY DEF TypeOK
<1>3. /\ log' \in Seq([kind : Kind, tx : Nat])
      /\ Len(log') = IF 1 <= n THEN n - 1 + 1 ELSE 0
      /\ \A i \in 1..(n - 1 + 1) : log'[i] = log[1 + i - 1]
  BY <1>1, <1>2, SubSeqProperties
<1>4. n \in Nat
  BY DEF TypeOK
<1>5. QED
  BY <1>3, <1>4

LEMMA TypeStep == TypeOK /\ [Next]_vars => TypeOK'
<1> SUFFICES ASSUME TypeOK, [Next]_vars PROVE TypeOK'
  OBVIOUS
<1>1. ASSUME NEW s \in (IF OldSnapshots THEN 0 ELSE epoch)..last, Begin(s) PROVE TypeOK'
  <2>1. s \in Nat
    BY DEF TypeOK
  <2>2. nextTx \in Nat /\ "TX_BEGIN" \in Kind
    BY DEF TypeOK, Kind
  <2>3. Len(log') = Len(log) + 1 /\ log' \in Seq([kind : Kind, tx : Nat]) /\ Len(log) \in Nat
    BY <1>1, <2>2, LogAppendGrows DEF Begin
  <2>4. txs' \in Seq(Transaction)
    BY <1>1, <2>1 DEF Begin, TypeOK, Transaction
  <2>5. QED
    BY <1>1, <2>2, <2>3, <2>4 DEF Begin, TypeOK
<1>2. ASSUME NEW t \in 1..Len(txs), NEW k \in Keys, RecordWrite(t, k) PROVE TypeOK'
  <2>1. txs' \in Seq(Transaction)
    <3>1. txs[t] \in Transaction
      BY DEF TypeOK
    <3>2. txs[t].writes \cup {k} \in SUBSET Keys
      BY <3>1 DEF Transaction
    <3>3. QED
      BY <1>2, <3>2, WritesUpdate DEF RecordWrite
  <2>2. QED
    BY <1>2, <2>1 DEF RecordWrite, TypeOK
<1>3. ASSUME NEW t \in 1..Len(txs), CommitBody(t) PROVE
        /\ Len(log') = Len(log) + 1 /\ log' \in Seq([kind : Kind, tx : Nat]) /\ Len(log) \in Nat
        /\ committed' \in [Keys -> Nat] /\ history' \subseteq CommitRecord
        /\ nextTx' = nextTx /\ txs' = txs /\ epoch' = epoch /\ restarts' = restarts
  <2>1. t \in Nat /\ "TX_COMMIT" \in Kind
    BY DEF Kind
  <2>2. Len(log') = Len(log) + 1 /\ log' \in Seq([kind : Kind, tx : Nat]) /\ Len(log) \in Nat
    BY <1>3, <2>1, LogAppendGrows DEF CommitBody
  <2>3. txs[t] \in Transaction
    BY DEF TypeOK
  <2>4. history' \subseteq CommitRecord
    BY <1>3, <2>2, <2>3 DEF CommitBody, TypeOK, CommitRecord, Transaction
  <2>5. committed' \in [Keys -> Nat]
    BY <1>3, <2>2 DEF CommitBody, TypeOK
  <2>6. QED
    BY <1>3, <2>2, <2>4, <2>5 DEF CommitBody
<1>4. ASSUME NEW t \in 1..Len(txs), Commit(t) PROVE TypeOK'
  <2>1. CommitBody(t) /\ flushed' = Len(log) + 1 /\ acked' = acked \cup {Len(log) + 1}
    BY <1>4 DEF Commit
  <2>2. /\ Len(log') = Len(log) + 1 /\ log' \in Seq([kind : Kind, tx : Nat]) /\ Len(log) \in Nat
        /\ committed' \in [Keys -> Nat] /\ history' \subseteq CommitRecord
        /\ nextTx' = nextTx /\ txs' = txs /\ epoch' = epoch /\ restarts' = restarts
    BY <2>1, <1>3
  <2>3. acked' \subseteq Nat
    <3>1. acked \subseteq Nat
      BY DEF TypeOK
    <3>2. Len(log) + 1 \in Nat
      BY <2>2
    <3>3. QED
      BY <2>1, <3>1, <3>2
  <2>4. flushed' \in 0..Len(log')
    BY <2>1, <2>2
  <2>5. QED
    BY <2>2, <2>3, <2>4 DEF TypeOK
<1>5. ASSUME NEW t \in 1..Len(txs), CommitFlushFails(t) PROVE TypeOK'
  <2>1. CommitBody(t) /\ flushed' = flushed /\ acked' = acked
    BY <1>5 DEF CommitFlushFails
  <2>2. /\ Len(log') = Len(log) + 1 /\ log' \in Seq([kind : Kind, tx : Nat]) /\ Len(log) \in Nat
        /\ committed' \in [Keys -> Nat] /\ history' \subseteq CommitRecord
        /\ nextTx' = nextTx /\ txs' = txs /\ epoch' = epoch /\ restarts' = restarts
    BY <2>1, <1>3
  <2>3. QED
    BY <2>1, <2>2 DEF TypeOK
<1>6. ASSUME NEW t \in 1..Len(txs), Rollback(t) PROVE TypeOK'
  <2>1. t \in Nat /\ "TX_ABORT" \in Kind
    BY DEF Kind
  <2>2. Len(log') = Len(log) + 1 /\ log' \in Seq([kind : Kind, tx : Nat]) /\ Len(log) \in Nat
    BY <1>6, <2>1, LogAppendGrows DEF Rollback
  <2>3. txs' \in Seq(Transaction)
    <3>1. {} \in SUBSET Keys
      OBVIOUS
    <3>2. QED
      BY <1>6, <3>1, WritesUpdate DEF Rollback
  <2>4. QED
    BY <1>6, <2>2, <2>3 DEF Rollback, TypeOK
<1>7. CASE Restart
  <2>1. PICK n \in flushed..last :
          /\ log' = SubSeq(log, 1, n) /\ epoch' = n /\ flushed' = n
          /\ history' = {c \in history : c.lsn <= n}
    BY <1>7 DEF Restart
  <2>2. n \in 0..Len(log) /\ Len(log) \in Nat
    BY <2>1 DEF TypeOK
  <2>3. Len(log') = n /\ log' \in Seq([kind : Kind, tx : Nat])
    BY <2>1, <2>2, LogPrefix
  <2>4. QED
    BY <1>7, <2>1, <2>2, <2>3 DEF Restart, TypeOK
<1>8. CASE UNCHANGED vars
  BY <1>8 DEF vars, TypeOK
<1>9. QED
  BY <1>1, <1>2, <1>4, <1>5, <1>6, <1>7, <1>8 DEF Next

(* The state of every transaction manager is well typed.                       *)
THEOREM TypeCorrect == Spec => []TypeOK
<1>1. Init => TypeOK
  BY InitInv DEF IInv
<1>2. QED
  BY <1>1, TypeStep, PTL DEF Spec

----------------------------------------------------------------------------
(* A commit extends the history by one entry whose LSN is new and whose keys   *)
(* were last committed, in this run, at or before its snapshot.                *)
LEMMA CommitStep ==
  ASSUME IInv, ~OldSnapshots, NEW t \in 1..Len(txs), CommitBody(t)
  PROVE  TableComplete' /\ SnapshotsFresh' /\ HistoryInLog' /\ FirstCommitterWins'
<1> DEFINE new == [lsn |-> Len(log) + 1, snap |-> txs[t].snapshot, keys |-> txs[t].writes]
<1>1. /\ history' = history \cup {new} /\ epoch' = epoch /\ txs' = txs
      /\ committed' = [k \in Keys |-> IF k \in txs[t].writes THEN Len(log) + 1 ELSE committed[k]]
      /\ \A k \in txs[t].writes : ~(committed[k] > txs[t].snapshot)
  BY DEF CommitBody, Conflicts
<1>2. Len(log') = Len(log) + 1 /\ Len(log) \in Nat
  <2>1. t \in Nat /\ "TX_COMMIT" \in Kind
    BY DEF Kind
  <2>2. QED
    BY <2>1, LogAppendGrows DEF CommitBody, IInv
<1>3. /\ txs[t].snapshot \in Nat /\ txs[t].writes \subseteq Keys
      /\ epoch \in Nat /\ committed \in [Keys -> Nat] /\ epoch <= txs[t].snapshot
  <2>1. txs \in Seq(Transaction) /\ epoch \in 0..Len(log) /\ committed \in [Keys -> Nat]
    BY DEF IInv, TypeOK
  <2>2. txs[t] \in Transaction
    BY <2>1, ElementOfSeq
  <2>3. QED
    BY <1>2, <2>1, <2>2 DEF Transaction, IInv, SnapshotsFresh
<1>4. \A c \in history : c.lsn \in Nat /\ 1 <= c.lsn /\ c.lsn <= Len(log) /\ c.keys \subseteq Keys
  BY DEF IInv, TypeOK, HistoryInLog, CommitRecord
<1>5. new.lsn = Len(log) + 1 /\ new.snap = txs[t].snapshot /\ new.keys = txs[t].writes
  OBVIOUS
<1> HIDE DEF new
<1>6. HistoryInLog'
  BY <1>1, <1>2, <1>4, <1>5 DEF HistoryInLog
<1>7. SnapshotsFresh'
  BY <1>1 DEF IInv, SnapshotsFresh
<1>8. TableComplete'
  <2> SUFFICES ASSUME NEW k \in Keys, NEW c \in history', k \in c.keys, c.lsn > epoch'
               PROVE  c.lsn <= committed'[k]
    BY DEF TableComplete
  <2>1. CASE c = new
    BY <2>1, <1>1, <1>2, <1>5
  <2>2. CASE c \in history
    <3>1. c.lsn <= committed[k] /\ committed[k] \in Nat
      BY <2>2, <1>1, <1>3 DEF IInv, TableComplete
    <3>2. QED
      BY <2>2, <3>1, <1>1, <1>2, <1>4
  <2>3. QED
    BY <2>1, <2>2, <1>1
<1>9. FirstCommitterWins'
  <2> SUFFICES ASSUME NEW c \in history', NEW d \in history', c.lsn < d.lsn, c.keys \cap d.keys # {}
               PROVE  c.lsn <= d.snap
    BY DEF FirstCommitterWins
  <2>1. CASE c \in history /\ d \in history
    BY <2>1 DEF IInv, FirstCommitterWins
  <2>2. CASE c = new
    BY <2>2, <1>1, <1>2, <1>4, <1>5
  <2>3. CASE c \in history /\ d = new
    <3>1. PICK k \in Keys : k \in c.keys /\ k \in txs[t].writes
      BY <2>3, <1>3, <1>5
    <3>2. c.lsn <= committed[k] \/ c.lsn <= epoch
      BY <2>3, <3>1, <1>3, <1>4 DEF IInv, TableComplete
    <3>3. committed[k] <= txs[t].snapshot /\ committed[k] \in Nat
      BY <3>1, <1>1, <1>3
    <3>4. c.lsn <= txs[t].snapshot
      BY <2>3, <3>2, <3>3, <1>3, <1>4
    <3>5. QED
      BY <2>3, <3>4, <1>5
  <2>4. QED
    BY <2>1, <2>2, <2>3, <1>1
<1>10. QED
  BY <1>6, <1>7, <1>8, <1>9

LEMMA NextInv == ~OldSnapshots /\ IInv /\ [Next]_vars => IInv'
<1> SUFFICES ASSUME ~OldSnapshots, IInv, [Next]_vars PROVE IInv'
  OBVIOUS
<1> DEFINE Rest == TableComplete /\ SnapshotsFresh /\ HistoryInLog /\ FirstCommitterWins
<1>0. TypeOK /\ TypeOK' /\ Len(log) \in Nat /\ txs \in Seq(Transaction) /\ Len(txs) \in Nat
  <2>1. TypeOK /\ TypeOK'
    BY TypeStep DEF IInv
  <2>2. QED
    BY <2>1, LogElements, LenProperties DEF TypeOK
<1>1. ASSUME NEW s \in (IF OldSnapshots THEN 0 ELSE epoch)..last, Begin(s) PROVE Rest'
  <2>1. s \in Nat /\ epoch <= s /\ epoch \in Nat
    BY <1>0 DEF TypeOK
  <2>2. Len(log') = Len(log) + 1
    BY <1>0, <1>1, LogAppendGrows DEF Begin, Kind, TypeOK
  <2>3. SnapshotsFresh'
    <3> SUFFICES ASSUME NEW u \in 1..Len(txs') PROVE epoch' <= txs'[u].snapshot
      BY DEF SnapshotsFresh
    <3>1. Len(txs') = Len(txs) + 1 /\ epoch' = epoch
      BY <1>0, <1>1 DEF Begin
    <3>2. CASE u = Len(txs) + 1
      BY <1>0, <1>1, <2>1, <3>1, <3>2 DEF Begin
    <3>3. CASE u \in 1..Len(txs)
      BY <1>0, <1>1, <3>1, <3>3 DEF Begin, IInv, SnapshotsFresh
    <3>4. QED
      BY <1>0, <3>1, <3>2, <3>3
  <2>4. HistoryInLog'
    BY <1>0, <1>1, <2>2 DEF Begin, IInv, HistoryInLog, TypeOK, CommitRecord
  <2>5. QED
    BY <1>1, <2>3, <2>4 DEF Begin, IInv, TableComplete, FirstCommitterWins
<1>2. ASSUME NEW t \in 1..Len(txs), NEW k \in Keys, RecordWrite(t, k) PROVE Rest'
  <2>1. txs[t] \in Transaction
    BY <1>0, ElementOfSeq
  <2>2. txs[t].writes \cup {k} \in SUBSET Keys
    BY <2>1 DEF Transaction
  <2>3. Len(txs') = Len(txs) /\ \A u \in 1..Len(txs) : txs'[u].snapshot = txs[u].snapshot
    BY <1>0, <1>2, <2>2, WritesUpdate DEF RecordWrite
  <2>4. SnapshotsFresh'
    BY <1>2, <2>3 DEF RecordWrite, IInv, SnapshotsFresh
  <2>5. QED
    BY <1>2, <2>4 DEF RecordWrite, IInv, TableComplete, HistoryInLog, FirstCommitterWins
<1>3. ASSUME NEW t \in 1..Len(txs), Commit(t) \/ CommitFlushFails(t) PROVE Rest'
  BY <1>3, CommitStep DEF Commit, CommitFlushFails
<1>4. ASSUME NEW t \in 1..Len(txs), Rollback(t) PROVE Rest'
  <2>1. {} \in SUBSET Keys
    OBVIOUS
  <2>2. Len(txs') = Len(txs) /\ \A u \in 1..Len(txs) : txs'[u].snapshot = txs[u].snapshot
    BY <1>0, <1>4, <2>1, WritesUpdate DEF Rollback
  <2>3. Len(log') = Len(log) + 1
    BY <1>0, <1>4, LogAppendGrows DEF Rollback, Kind
  <2>4. SnapshotsFresh'
    BY <1>4, <2>2 DEF Rollback, IInv, SnapshotsFresh
  <2>5. HistoryInLog'
    BY <1>0, <1>4, <2>3 DEF Rollback, IInv, HistoryInLog, TypeOK, CommitRecord
  <2>6. QED
    BY <1>4, <2>4, <2>5 DEF Rollback, IInv, TableComplete, FirstCommitterWins
<1>5. ASSUME Restart PROVE Rest'
  <2>1. PICK n \in flushed..last :
          /\ log' = SubSeq(log, 1, n) /\ epoch' = n /\ flushed' = n
          /\ history' = {c \in history : c.lsn <= n}
    BY <1>5 DEF Restart
  <2>2. n \in 0..Len(log) /\ n \in Nat
    BY <1>0, <2>1 DEF TypeOK
  <2>3. Len(log') = n
    BY <1>0, <2>1, <2>2, LogPrefix
  <2>4. \A c \in history' : c \in history /\ c.lsn \in Nat /\ c.lsn <= n
    BY <1>0, <2>1 DEF TypeOK, CommitRecord
  <2>5. SnapshotsFresh'
    BY <1>5 DEF Restart, SnapshotsFresh
  <2>6. TableComplete' /\ HistoryInLog' /\ FirstCommitterWins'
    BY <2>1, <2>2, <2>3, <2>4 DEF IInv, TableComplete, HistoryInLog, FirstCommitterWins
  <2>7. QED
    BY <2>5, <2>6
<1>6. ASSUME UNCHANGED vars PROVE Rest'
  BY <1>6 DEF vars, IInv, TableComplete, SnapshotsFresh, HistoryInLog, FirstCommitterWins
<1>7. Rest'
  BY <1>1, <1>2, <1>3, <1>4, <1>5, <1>6 DEF Next
<1>8. QED
  BY <1>0, <1>7 DEF IInv

(* However transactions interleave, are retried, reused or cut off by crashes, *)
(* of two commits of one key the later one saw the earlier one.                *)
THEOREM ConflictsCaught == ASSUME ~OldSnapshots PROVE Spec => []FirstCommitterWins
<1>1. Init => IInv
  BY InitInv
<1>2. IInv /\ [Next]_vars => IInv'
  BY NextInv
<1>3. IInv => FirstCommitterWins
  BY DEF IInv
<1>4. QED
  BY <1>1, <1>2, <1>3, PTL DEF Spec
----------------------------------------------------------------------------
(* What the next two theorems need, whatever snapshots begin() is given: every *)
(* entry of the table is a commit of this run, every commit of the history is  *)
(* a record of the log of its own, and an acknowledged one is flushed.         *)
TableGrounded ==
    \A k \in Keys : committed[k] = 0 \/ \E c \in history : k \in c.keys /\ c.lsn > epoch /\ c.lsn = committed[k]
HistoryLogged == \A c \in history : log[c.lsn].kind = "TX_COMMIT"
OneCommitPerLsn == \A c, d \in history : c.lsn = d.lsn => c = d
AckedFlushed == \A n \in acked : n <= flushed /\ \E c \in history : c.lsn = n

LogInv ==
    /\ TypeOK /\ HistoryInLog /\ TableComplete /\ TableGrounded
    /\ HistoryLogged /\ OneCommitPerLsn /\ AckedFlushed

LEMMA CommitLogged ==
  ASSUME LogInv, NEW t \in 1..Len(txs), CommitBody(t),
         \/ flushed' = flushed /\ acked' = acked
         \/ flushed' = Len(log) + 1 /\ acked' = acked \cup {Len(log) + 1}
  PROVE  /\ HistoryInLog' /\ TableComplete' /\ TableGrounded'
         /\ HistoryLogged' /\ OneCommitPerLsn' /\ AckedFlushed'
<1> DEFINE new == [lsn |-> Len(log) + 1, snap |-> txs[t].snapshot, keys |-> txs[t].writes]
<1>1. /\ history' = history \cup {new} /\ epoch' = epoch
      /\ committed' = [k \in Keys |-> IF k \in txs[t].writes THEN Len(log) + 1 ELSE committed[k]]
  BY DEF CommitBody
<1>2. /\ Len(log') = Len(log) + 1 /\ Len(log) \in Nat /\ log'[Len(log) + 1].kind = "TX_COMMIT"
      /\ \A i \in 1..Len(log) : log'[i] = log[i]
  <2>1. t \in Nat /\ "TX_COMMIT" \in Kind
    BY DEF Kind
  <2>2. QED
    BY <2>1, LogAppendGrows DEF CommitBody, LogInv
<1>3. epoch \in Nat /\ epoch <= Len(log) /\ committed \in [Keys -> Nat] /\ flushed \in 0..Len(log) /\ acked \subseteq Nat
  BY <1>2 DEF LogInv, TypeOK
<1>4. \A c \in history : c.lsn \in Nat /\ 1 <= c.lsn /\ c.lsn <= Len(log)
  BY DEF LogInv, TypeOK, HistoryInLog, CommitRecord
<1>5. new.lsn = Len(log) + 1 /\ new.keys = txs[t].writes
  OBVIOUS
<1> HIDE DEF new
<1>6. HistoryInLog'
  BY <1>1, <1>2, <1>4, <1>5 DEF HistoryInLog
<1>7. TableComplete'
  <2> SUFFICES ASSUME NEW k \in Keys, NEW c \in history', k \in c.keys, c.lsn > epoch'
               PROVE  c.lsn <= committed'[k]
    BY DEF TableComplete
  <2>1. CASE c = new
    BY <2>1, <1>1, <1>2, <1>5
  <2>2. CASE c \in history
    <3>1. c.lsn <= committed[k] /\ committed[k] \in Nat
      BY <2>2, <1>1, <1>3 DEF LogInv, TableComplete
    <3>2. QED
      BY <2>2, <3>1, <1>1, <1>2, <1>4
  <2>3. QED
    BY <2>1, <2>2, <1>1
<1>8. TableGrounded'
  <2> SUFFICES ASSUME NEW k \in Keys
               PROVE  committed'[k] = 0 \/ \E c \in history' : k \in c.keys /\ c.lsn > epoch' /\ c.lsn = committed'[k]
    BY DEF TableGrounded
  <2>1. CASE k \in txs[t].writes
    BY <2>1, <1>1, <1>2, <1>3, <1>5
  <2>2. CASE k \notin txs[t].writes
    BY <2>2, <1>1 DEF LogInv, TableGrounded
  <2>3. QED
    BY <2>1, <2>2
<1>9. HistoryLogged'
  BY <1>1, <1>2, <1>4, <1>5 DEF LogInv, HistoryLogged
<1>10. OneCommitPerLsn'
  BY <1>1, <1>2, <1>4, <1>5 DEF LogInv, OneCommitPerLsn
<1>11. AckedFlushed'
  <2> SUFFICES ASSUME NEW n \in acked' PROVE n <= flushed' /\ \E c \in history' : c.lsn = n
    BY DEF AckedFlushed
  <2>1. CASE n \in acked
    BY <2>1, <1>1, <1>2, <1>3 DEF LogInv, AckedFlushed
  <2>2. CASE n \notin acked
    BY <2>2, <1>1, <1>2, <1>5
  <2>3. QED
    BY <2>1, <2>2
<1>12. QED
  BY <1>6, <1>7, <1>8, <1>9, <1>10, <1>11

LEMMA LogStep == LogInv /\ [Next]_vars => LogInv'
<1> SUFFICES ASSUME LogInv, [Next]_vars PROVE LogInv'
  OBVIOUS
<1> DEFINE Rest == /\ HistoryInLog /\ TableComplete /\ TableGrounded
                   /\ HistoryLogged /\ OneCommitPerLsn /\ AckedFlushed
<1>1. TypeOK /\ TypeOK' /\ Len(log) \in Nat
  <2>1. TypeOK /\ TypeOK'
    BY TypeStep DEF LogInv
  <2>2. QED
    BY <2>1, LogElements
<1>2. \A c \in history : c.lsn \in Nat /\ 1 <= c.lsn /\ c.lsn <= Len(log)
  BY DEF LogInv, TypeOK, HistoryInLog, CommitRecord
<1>3. ASSUME NEW kind \in Kind, NEW tx \in Nat, LogAppend(kind, tx), flushed' \in {flushed, Len(log) + 1},
             UNCHANGED <<history, committed, epoch, acked>>
      PROVE  Rest'
  <2>1. Len(log') = Len(log) + 1 /\ \A i \in 1..Len(log) : log'[i] = log[i]
    BY <1>1, <1>3, LogAppendGrows
  <2>2. HistoryInLog' /\ HistoryLogged'
    BY <1>1, <1>2, <1>3, <2>1 DEF LogInv, HistoryInLog, HistoryLogged
  <2>3. AckedFlushed'
    BY <1>1, <1>3 DEF LogInv, AckedFlushed, TypeOK
  <2>4. TableComplete' /\ TableGrounded' /\ OneCommitPerLsn'
    BY <1>3 DEF LogInv, TableComplete, TableGrounded, OneCommitPerLsn
  <2>5. QED
    BY <2>2, <2>3, <2>4
<1>4. ASSUME NEW s \in (IF OldSnapshots THEN 0 ELSE epoch)..last, Begin(s) PROVE Rest'
  <2>1. "TX_BEGIN" \in Kind /\ nextTx \in Nat
    BY <1>1 DEF Kind, TypeOK
  <2>2. LogAppend("TX_BEGIN", nextTx) /\ flushed' = flushed /\ UNCHANGED <<history, committed, epoch, acked>>
    BY <1>4 DEF Begin
  <2>3. QED
    BY <1>3, <2>1, <2>2
<1>5. ASSUME NEW t \in 1..Len(txs), Rollback(t) PROVE Rest'
  <2>1. "TX_ABORT" \in Kind /\ t \in Nat
    BY DEF Kind
  <2>2. LogAppend("TX_ABORT", t) /\ flushed' = Len(log) + 1 /\ UNCHANGED <<history, committed, epoch, acked>>
    BY <1>5 DEF Rollback
  <2>3. QED
    BY <1>3, <2>1, <2>2
<1>6. ASSUME NEW t \in 1..Len(txs), Commit(t) \/ CommitFlushFails(t) PROVE Rest'
  BY <1>6, CommitLogged DEF Commit, CommitFlushFails
<1>7. ASSUME UNCHANGED <<log, flushed, history, committed, epoch, acked>> PROVE Rest'
  BY <1>7 DEF LogInv, HistoryInLog, HistoryLogged, AckedFlushed, TableComplete, TableGrounded, OneCommitPerLsn
<1>8. ASSUME Restart PROVE Rest'
  <2>1. PICK n \in flushed..last :
          /\ log' = SubSeq(log, 1, n) /\ epoch' = n /\ flushed' = n
          /\ history' = {c \in history : c.lsn <= n}
    BY <1>8 DEF Restart
  <2>2. n \in 0..Len(log) /\ n \in Nat /\ flushed <= n /\ flushed \in Nat /\ acked \subseteq Nat
    BY <1>1, <2>1 DEF TypeOK
  <2>3. Len(log') = n /\ \A i \in 1..n : log'[i] = log[i]
    BY <1>1, <2>1, <2>2, LogPrefix
  <2>4. acked' = acked /\ \A k \in Keys : committed'[k] = 0
    BY <1>8 DEF Restart
  <2>5. HistoryInLog' /\ HistoryLogged' /\ OneCommitPerLsn'
    BY <1>2, <2>1, <2>2, <2>3 DEF LogInv, HistoryInLog, HistoryLogged, OneCommitPerLsn
  <2>6. TableComplete' /\ TableGrounded'
    BY <1>2, <2>1, <2>2, <2>4 DEF TableComplete, TableGrounded
  <2>7. AckedFlushed'
    BY <1>2, <2>1, <2>2, <2>4 DEF LogInv, AckedFlushed
  <2>8. QED
    BY <2>5, <2>6, <2>7
<1>9. Rest'
  <2>1. ASSUME NEW t \in 1..Len(txs), NEW k \in Keys, RecordWrite(t, k) PROVE Rest'
    BY <1>7, <2>1 DEF RecordWrite
  <2>2. CASE UNCHANGED vars
    BY <1>7, <2>2 DEF vars
  <2> HIDE DEF Rest
  <2>3. QED
    BY <1>4, <1>5, <1>6, <1>8, <2>1, <2>2 DEF Next
<1>10. QED
  BY <1>1, <1>9 DEF LogInv

LEMMA SpecLogInv == Spec => []LogInv
<1>1. Init => LogInv
  <2> SUFFICES ASSUME Init PROVE LogInv
    OBVIOUS
  <2>1. TypeOK
    BY InitInv DEF IInv
  <2>2. QED
    BY <2>1 DEF Init, LogInv, HistoryInLog, TableComplete, TableGrounded, HistoryLogged, OneCommitPerLsn, AckedFlushed
<1>2. QED
  BY <1>1, LogStep, PTL DEF Spec

(* No commit is refused without a reason: for any snapshots, old ones too, the *)
(* table names for every key the last commit of this run that wrote it.        *)
THEOREM ConflictTableIsExact == Spec => []ConflictTableExact
<1>1. LogInv => ConflictTableExact
  <2> SUFFICES ASSUME LogInv, NEW k \in Keys
               PROVE  LET writers == {c.lsn : c \in {h \in history : k \in h.keys /\ h.lsn > epoch}}
                      IN  IF writers = {} THEN committed[k] = 0
                          ELSE committed[k] \in writers /\ \A n \in writers : n <= committed[k]
    BY DEF ConflictTableExact
  <2> DEFINE writers == {c.lsn : c \in {h \in history : k \in h.keys /\ h.lsn > epoch}}
  <2>1. \A n \in writers : n <= committed[k] /\ n \in Nat /\ n > epoch
    BY DEF LogInv, TableComplete, TypeOK, CommitRecord
  <2>2. committed[k] = 0 \/ committed[k] \in writers
    BY DEF LogInv, TableGrounded
  <2>3. epoch \in Nat
    BY LogElements DEF LogInv, TypeOK
  <2> HIDE DEF writers
  <2>4. IF writers = {} THEN committed[k] = 0
        ELSE committed[k] \in writers /\ \A n \in writers : n <= committed[k]
    BY <2>1, <2>2, <2>3
  <2>5. QED
    BY <2>4 DEF writers
<1>2. QED
  BY <1>1, SpecLogInv, PTL

(* A commit() that returned stays in the log through any number of crashes,    *)
(* and every commit has an LSN of its own.                                     *)
THEOREM AckedCommitsAreKept == Spec => []AckedCommitsSurvive
<1>1. LogInv => AckedCommitsSurvive
  BY DEF LogInv, AckedCommitsSurvive, AckedFlushed, HistoryInLog, HistoryLogged, OneCommitPerLsn
<1>2. QED
  BY <1>1, SpecLogInv, PTL

-----------------------------------------------------------------------------
(* The catalog of classes, properties, graphs and indexes, and the stores of   *)
(* its classes.                                                                *)

LEMMA Least ==
    ASSUME NEW T \in SUBSET Nat, T # {}
    PROVE  \E n \in T : \A m \in T : n <= m
<1>1. IsWellFoundedOn(OpToRel(<, Nat), Nat)
    BY NatLessThanWellFounded
<1>2. PICK x \in T : \A y \in T : ~(<<y, x>> \in OpToRel(<, Nat))
    BY <1>1, WFMin
<1>3. \A y \in T : y < x => <<y, x>> \in OpToRel(<, Nat)
    BY DEF OpToRel
<1>4. \A y \in T : ~(y < x)
    BY <1>2, <1>3
<1> QED BY <1>4

(* The items of one kind: ids are numbers with a bound, and no two items have  *)
(* an id, an IRI or a local name in common.                                    *)
Listed(items) ==
    /\ items \in Seq(Range(items))
    /\ \E b \in Nat : \A i \in DOMAIN items : items[i].id \in Nat /\ items[i].id <= b
    /\ \A i, j \in DOMAIN items : i # j =>
          items[i].id # items[j].id /\ items[i].iri # items[j].iri /\ items[i].name # items[j].name

Sound(c) ==
    /\ c = [classes |-> c.classes, properties |-> c.properties, graphs |-> c.graphs, indexes |-> c.indexes]
    /\ Listed(c.classes) /\ Listed(c.properties) /\ Listed(c.graphs) /\ Listed(c.indexes)
    /\ \A i \in DOMAIN c.classes :
          c.classes[i] = ClassDef(c.classes[i].id, c.classes[i].iri, c.classes[i].name, c.classes[i].supers)
    /\ \A i \in DOMAIN c.graphs : c.graphs[i].iri = c.graphs[i].name
    /\ \A i \in DOMAIN c.indexes : c.indexes[i].iri = c.indexes[i].name

Has(classes, iri, name) == \E i \in DOMAIN classes : classes[i].iri = iri /\ classes[i].name = name

(* While no definition was lost, the one open handle has the classes of the    *)
(* file, and they include the classes of all node stores.                      *)
CatInv ==
    /\ Sound(file) /\ \A h \in Handles : Opened(h) => Sound(cat[h])
    /\ cat = [h \in Handles |-> cat[h]] /\ owner = [n \in Names |-> owner[n]] /\ lossy \in BOOLEAN
    /\ ~lossy => /\ \A g, h \in Handles : Opened(g) /\ Opened(h) => g = h
                 /\ \A h \in Handles : Opened(h) => cat[h].classes = file.classes
                 /\ \A n \in Names : owner[n] # None => Has(file.classes, owner[n], n)

LEMMA FirstIn ==
    ASSUME NEW S \in SUBSET Nat, S # {}
    PROVE  First(S) \in S
<1>1. \E n \in S : \A m \in S : n <= m
    BY Least
<1> QED BY <1>1 DEF First, Min

LEMMA NextIdAbove ==
    ASSUME NEW items, NEW b \in Nat, \A i \in DOMAIN items : items[i].id \in Nat /\ items[i].id <= b
    PROVE  NextId(items) \in Nat /\ NextId(items) <= b + 1 /\ \A i \in DOMAIN items : items[i].id < NextId(items)
<1> DEFINE S == {items[i].id : i \in DOMAIN items} \cup {0}
           U == {b - s : s \in S}
<1>1. S \in SUBSET Nat /\ 0 \in S /\ \A s \in S : s <= b
    OBVIOUS
<1>2. \A i \in DOMAIN items : items[i].id \in S
    OBVIOUS
<1>3. NextId(items) = Max(S) + 1
    BY DEF NextId
<1> HIDE DEF S
<1>4. U \in SUBSET Nat /\ U # {}
    BY <1>1
<1>5. PICK u \in U : \A v \in U : u <= v
    BY <1>4, Least
<1>6. PICK n \in S : u = b - n
    BY <1>5
<1>7. \A s \in S : b - n <= b - s
    BY <1>5, <1>6
<1>8. \A s \in S : n >= s
    BY <1>1, <1>7
<1>9. Max(S) \in S /\ \A s \in S : Max(S) >= s
    BY <1>8 DEF Max
<1> DEFINE t == Max(S)
<1>10. t \in S /\ (\A s \in S : t >= s) /\ NextId(items) = t + 1
    BY <1>3, <1>9
<1> HIDE DEF t
<1>11. t \in Nat /\ t <= b
    BY <1>1, <1>10
<1>12. \A s \in S : s < t + 1
    BY <1>1, <1>10, <1>11
<1> QED BY <1>2, <1>10, <1>11, <1>12

(* A new item of a free IRI and name.                                          *)
LEMMA ItemAdded ==
    ASSUME NEW items, Listed(items), NEW x, x.id = NextId(items),
           ByIri(items, x.iri) = {}, ByName(items, x.name) = {}
    PROVE  /\ Listed(Append(items, x))
           /\ \A i \in DOMAIN items : i \in DOMAIN Append(items, x) /\ Append(items, x)[i] = items[i]
           /\ \A i \in DOMAIN Append(items, x) : i \in DOMAIN items \/ Append(items, x)[i] = x
<1> DEFINE new == Append(items, x)
<1>1. PICK b \in Nat : \A i \in DOMAIN items : items[i].id \in Nat /\ items[i].id <= b
    BY DEF Listed
<1>2. x.id \in Nat /\ x.id <= b + 1 /\ \A i \in DOMAIN items : items[i].id < x.id
    BY <1>1, NextIdAbove
<1>3. \A i \in DOMAIN items : items[i].iri # x.iri /\ items[i].name # x.name
    BY DEF ByIri, ByName
<1> DEFINE X == Range(items) \cup {x}
<1>4. items \in Seq(X) /\ x \in X
    <2>1. PICK n \in Nat : items \in [1..n -> Range(items)]
        BY DEF Listed
    <2>2. items \in [1..n -> X]
        BY <2>1
    <2> QED BY <2>2
<1> HIDE DEF X
<1>5. PICK n \in Nat : n = Len(items) /\ DOMAIN items = 1..n
    BY <1>4
<1>6. DOMAIN new = 1..(n + 1) /\ new[n + 1] = x /\ \A i \in 1..n : new[i] = items[i]
    BY <1>4, <1>5
<1>7. new \in [1..(n + 1) -> Range(new)]
    <2>1. new \in Seq(X)
        BY <1>4
    <2> HIDE DEF new
    <2>2. PICK m \in Nat : new \in [1..m -> X]
        BY <2>1
    <2>3. new \in [1..(n + 1) -> X]
        BY <1>6, <2>2
    <2>4. \A i \in DOMAIN new : new[i] \in Range(new)
        BY DEF Range
    <2> QED BY <1>6, <2>3, <2>4
<1>8. \A i \in 1..(n + 1) : i \in 1..n \/ i = n + 1
    BY <1>5
<1>9. \A i \in 1..n : i \in 1..(n + 1)
    BY <1>5
<1> HIDE DEF new
<1>10. new \in Seq(Range(new))
    BY <1>7
<1>11. b + 1 \in Nat /\ \A i \in DOMAIN new : new[i].id \in Nat /\ new[i].id <= b + 1
    <2> SUFFICES ASSUME NEW i \in 1..(n + 1) PROVE new[i].id \in Nat /\ new[i].id <= b + 1
        BY <1>6
    <2>1. CASE i \in 1..n
        <3>1. items[i].id \in Nat /\ items[i].id <= b
            BY <1>1, <1>5, <2>1
        <3> QED BY <1>6, <2>1, <3>1
    <2>2. CASE i = n + 1
        BY <1>2, <1>6, <2>2
    <2> QED BY <1>8, <2>1, <2>2
<1>12. ASSUME NEW i \in 1..n PROVE items[i].id # x.id
    <2>1. items[i].id \in Nat /\ items[i].id < x.id
        BY <1>1, <1>2, <1>5
    <2> QED BY <1>2, <2>1
<1>13. ASSUME NEW i \in 1..(n + 1), NEW j \in 1..(n + 1), i # j
       PROVE  new[i].id # new[j].id /\ new[i].iri # new[j].iri /\ new[i].name # new[j].name
    <2>1. CASE i \in 1..n /\ j \in 1..n
        BY <1>5, <1>6, <1>13, <2>1 DEF Listed
    <2>2. CASE i \in 1..n /\ j = n + 1
        BY <1>3, <1>5, <1>6, <1>12, <2>2
    <2>3. CASE i = n + 1 /\ j \in 1..n
        BY <1>3, <1>5, <1>6, <1>12, <2>3
    <2> QED BY <1>8, <1>13, <2>1, <2>2, <2>3
<1>14. Listed(new)
    BY <1>6, <1>10, <1>11, <1>13 DEF Listed
<1> QED BY <1>5, <1>6, <1>8, <1>9, <1>14 DEF new

LEMMA SeqFrom ==
    ASSUME NEW R, NEW n \in Nat, NEW f \in [1..n -> R]
    PROVE  f \in Seq(R)
OBVIOUS

LEMMA SomeOf ==
    ASSUME NEW items, Listed(items), NEW S \in SUBSET DOMAIN items, S # {}
    PROVE  First(S) \in S /\ First(S) # 0
<1>1. PICK n \in Nat : items \in [1..n -> Range(items)]
    BY DEF Listed
<1>2. DOMAIN items = 1..n /\ S \in SUBSET Nat /\ 0 \notin S
    BY <1>1
<1>3. First(S) \in S
    BY <1>2, FirstIn
<1> QED BY <1>2, <1>3

(* _merge_class changes no id, IRI or local name.                              *)
Merged(items, k, s) == [items EXCEPT ![k].supers = s]

LEMMA SupersChanged ==
    ASSUME NEW items, Listed(items), NEW k \in DOMAIN items, NEW s,
           \A i \in DOMAIN items : items[i] = ClassDef(items[i].id, items[i].iri, items[i].name, items[i].supers),
           NEW new, new = Merged(items, k, s)
    PROVE  /\ Listed(new) /\ DOMAIN new = DOMAIN items
           /\ \A i \in DOMAIN items : /\ new[i].iri = items[i].iri /\ new[i].name = items[i].name
                                      /\ new[i] = ClassDef(new[i].id, new[i].iri, new[i].name, new[i].supers)
<1>1. PICK n \in Nat : items \in [1..n -> Range(items)]
    BY DEF Listed
<1>2. DOMAIN items = 1..n /\ DOMAIN new = 1..n
    BY <1>1 DEF Merged
<1>3. ASSUME NEW i \in 1..n
      PROVE  /\ new[i].id = items[i].id /\ new[i].iri = items[i].iri /\ new[i].name = items[i].name
             /\ new[i] = ClassDef(new[i].id, new[i].iri, new[i].name, new[i].supers)
    <2>1. items[i] = [id |-> items[i].id, iri |-> items[i].iri, name |-> items[i].name, supers |-> items[i].supers]
        BY <1>2 DEF ClassDef
    <2>2. new[i] = IF i = k THEN [items[i] EXCEPT !.supers = s] ELSE items[i]
        BY <1>2 DEF Merged
    <2>3. CASE i = k
        <3>1. new[i] = [id |-> items[i].id, iri |-> items[i].iri, name |-> items[i].name, supers |-> s]
            BY <2>1, <2>2, <2>3
        <3> QED BY <3>1 DEF ClassDef
    <2>4. CASE i # k
        BY <2>1, <2>2, <2>4 DEF ClassDef
    <2> QED BY <2>3, <2>4
<1>4. new \in Seq(Range(new))
    <2>1. \A i \in DOMAIN new : new[i] \in Range(new)
        BY DEF Range
    <2>2. new = [i \in 1..n |-> new[i]]
        BY <1>1 DEF Merged
    <2>3. new \in [1..n -> Range(new)]
        BY <1>2, <2>1, <2>2
    <2> QED BY <2>3, SeqFrom
<1>5. PICK b \in Nat : \A i \in DOMAIN items : items[i].id \in Nat /\ items[i].id <= b
    BY DEF Listed
<1>6. \A i \in DOMAIN new : new[i].id \in Nat /\ new[i].id <= b
    BY <1>2, <1>3, <1>5
<1>7. \A i, j \in DOMAIN new : i # j =>
          new[i].id # new[j].id /\ new[i].iri # new[j].iri /\ new[i].name # new[j].name
    BY <1>2, <1>3 DEF Listed
<1> QED BY <1>2, <1>3, <1>4, <1>6, <1>7 DEF Listed

(* define_class keeps the catalog sound and every class in its place.          *)
LEMMA DefinedIn ==
    ASSUME NEW c, Sound(c), NEW d
    PROVE  /\ Sound(DefineIn(c, d))
           /\ \A iri, name : Has(c.classes, iri, name) => Has(DefineIn(c, d).classes, iri, name)
<1> DEFINE new == DefineIn(c, d)
           k == IF ByIri(c.classes, d.iri) # {} THEN First(ByIri(c.classes, d.iri))
                ELSE IF ByName(c.classes, d.name) # {} THEN First(ByName(c.classes, d.name)) ELSE 0
<1>1. Listed(c.classes)
    BY DEF Sound
<1>2. ByIri(c.classes, d.iri) \in SUBSET DOMAIN c.classes /\ ByName(c.classes, d.name) \in SUBSET DOMAIN c.classes
    BY DEF ByIri, ByName
<1>3. c = [classes |-> c.classes, properties |-> c.properties, graphs |-> c.graphs, indexes |-> c.indexes]
    BY DEF Sound
<1>4. CASE k # 0
    <2>1. k \in DOMAIN c.classes
        BY <1>1, <1>2, <1>4, SomeOf
    <2>2. new = MergeClass(c, k, d.supers)
        BY <1>4 DEF DefineIn
    <2> HIDE DEF new, k
    <2>3. PICK s : new = [c EXCEPT !.classes = [@ EXCEPT ![k].supers = s]]
        <3> DEFINE s == Dedup(c.classes[k].supers \o d.supers)
        <3>1. new = [c EXCEPT !.classes[k].supers = s]
            BY <2>2 DEF MergeClass
        <3> HIDE DEF s
        <3>2. new = [c EXCEPT !.classes = [@ EXCEPT ![k].supers = s]]
            BY <3>1
        <3> QED BY <3>2
    <2> DEFINE cls == [c.classes EXCEPT ![k].supers = s]
    <2>4. new = [classes |-> cls, properties |-> c.properties, graphs |-> c.graphs, indexes |-> c.indexes]
        BY <1>3, <2>3
    <2>5. /\ Listed(cls) /\ DOMAIN cls = DOMAIN c.classes
          /\ \A i \in DOMAIN c.classes : /\ cls[i].iri = c.classes[i].iri /\ cls[i].name = c.classes[i].name
                                         /\ cls[i] = ClassDef(cls[i].id, cls[i].iri, cls[i].name, cls[i].supers)
        <3>1. \A i \in DOMAIN c.classes :
                 c.classes[i] = ClassDef(c.classes[i].id, c.classes[i].iri, c.classes[i].name, c.classes[i].supers)
            BY DEF Sound
        <3>2. cls = Merged(c.classes, k, s)
            BY DEF Merged
        <3> HIDE DEF cls
        <3> QED BY <1>1, <2>1, <3>1, <3>2, SupersChanged
    <2> HIDE DEF cls
    <2>6. new.classes = cls /\ new.properties = c.properties /\ new.graphs = c.graphs /\ new.indexes = c.indexes
        BY <2>4
    <2>7. Sound(new)
        BY <2>4, <2>5, <2>6 DEF Sound
    <2>8. \A iri, name : Has(c.classes, iri, name) => Has(new.classes, iri, name)
        BY <2>5, <2>6 DEF Has
    <2> QED BY <2>7, <2>8 DEF new
<1>5. CASE k = 0
    <2>1. ByIri(c.classes, d.iri) = {} /\ ByName(c.classes, d.name) = {}
        BY <1>1, <1>2, <1>5, SomeOf
    <2> DEFINE x == ClassDef(NextId(c.classes), d.iri, d.name, d.supers)
               cls == Append(c.classes, x)
    <2>2. new = RegisterClass(c, d.iri, d.name, d.supers)
        BY <1>5 DEF DefineIn
    <2>3. new = [classes |-> cls, properties |-> c.properties, graphs |-> c.graphs, indexes |-> c.indexes]
        BY <1>3, <2>2 DEF RegisterClass
    <2> HIDE DEF new, k
    <2>4. x.id = NextId(c.classes) /\ x.iri = d.iri /\ x.name = d.name /\ x = ClassDef(x.id, x.iri, x.name, x.supers)
        BY DEF ClassDef
    <2> HIDE DEF x
    <2>5. /\ Listed(cls)
          /\ \A i \in DOMAIN c.classes : i \in DOMAIN cls /\ cls[i] = c.classes[i]
          /\ \A i \in DOMAIN cls : i \in DOMAIN c.classes \/ cls[i] = x
        BY <1>1, <2>1, <2>4, ItemAdded
    <2> HIDE DEF cls
    <2>6. new.classes = cls /\ new.properties = c.properties /\ new.graphs = c.graphs /\ new.indexes = c.indexes
        BY <2>3
    <2>7. \A i \in DOMAIN cls : cls[i] = ClassDef(cls[i].id, cls[i].iri, cls[i].name, cls[i].supers)
        <3> SUFFICES ASSUME NEW i \in DOMAIN cls
                     PROVE  cls[i] = ClassDef(cls[i].id, cls[i].iri, cls[i].name, cls[i].supers)
            OBVIOUS
        <3>1. CASE i \in DOMAIN c.classes
            BY <2>5, <3>1 DEF Sound
        <3>2. CASE cls[i] = x
            BY <2>4, <3>2
        <3> QED BY <2>5, <3>1, <3>2
    <2>8. Sound(new)
        BY <2>3, <2>5, <2>6, <2>7 DEF Sound
    <2>9. \A iri, name : Has(c.classes, iri, name) => Has(new.classes, iri, name)
        BY <2>5, <2>6 DEF Has
    <2> QED BY <2>8, <2>9 DEF new
<1> QED BY <1>4, <1>5

(* register_property, register_graph and register_index: the name is free.     *)
LEMMA PropertyAdded ==
    ASSUME NEW c, Sound(c), NEW iri, NEW name, ByIri(c.properties, iri) = {}, ByName(c.properties, name) = {}
    PROVE  Sound(RegisterProperty(c, iri, name)) /\ RegisterProperty(c, iri, name).classes = c.classes
<1> DEFINE new == RegisterProperty(c, iri, name)
           x == PropertyDef(NextId(c.properties), iri, name)
           items == Append(c.properties, x)
<1>1. x.id = NextId(c.properties) /\ x.iri = iri /\ x.name = name
    BY DEF PropertyDef
<1>2. c = [classes |-> c.classes, properties |-> c.properties, graphs |-> c.graphs, indexes |-> c.indexes]
    BY DEF Sound
<1>3. new = [classes |-> c.classes, properties |-> items, graphs |-> c.graphs, indexes |-> c.indexes]
    BY <1>2 DEF RegisterProperty
<1> HIDE DEF new, x
<1>4. Listed(c.properties)
    BY DEF Sound
<1>5. Listed(items)
    BY <1>1, <1>4, ItemAdded
<1> HIDE DEF items
<1>6. new.classes = c.classes /\ new.properties = items /\ new.graphs = c.graphs /\ new.indexes = c.indexes
    BY <1>3
<1>7. Sound(new)
    BY <1>3, <1>5, <1>6 DEF Sound
<1> QED BY <1>6, <1>7 DEF new

LEMMA GraphAdded ==
    ASSUME NEW c, Sound(c), NEW name, ByName(c.graphs, name) = {}
    PROVE  Sound(RegisterGraph(c, name)) /\ RegisterGraph(c, name).classes = c.classes
<1> DEFINE new == RegisterGraph(c, name)
           x == GraphDef(NextId(c.graphs), name)
           items == Append(c.graphs, x)
<1>1. x.id = NextId(c.graphs) /\ x.iri = name /\ x.name = name
    BY DEF GraphDef
<1>2. c = [classes |-> c.classes, properties |-> c.properties, graphs |-> c.graphs, indexes |-> c.indexes]
    BY DEF Sound
<1>3. new = [classes |-> c.classes, properties |-> c.properties, graphs |-> items, indexes |-> c.indexes]
    BY <1>2 DEF RegisterGraph
<1> HIDE DEF new, x
<1>4. Listed(c.graphs) /\ \A i \in DOMAIN c.graphs : c.graphs[i].iri = c.graphs[i].name
    BY DEF Sound
<1>5. ByIri(c.graphs, x.iri) = {} /\ ByName(c.graphs, x.name) = {}
    BY <1>1, <1>4 DEF ByIri, ByName
<1>6. /\ Listed(items)
      /\ \A i \in DOMAIN c.graphs : i \in DOMAIN items /\ items[i] = c.graphs[i]
      /\ \A i \in DOMAIN items : i \in DOMAIN c.graphs \/ items[i] = x
    BY <1>1, <1>4, <1>5, ItemAdded
<1> HIDE DEF items
<1>7. \A i \in DOMAIN items : items[i].iri = items[i].name
    BY <1>1, <1>4, <1>6
<1>8. new.classes = c.classes /\ new.properties = c.properties /\ new.graphs = items /\ new.indexes = c.indexes
    BY <1>3
<1>9. Sound(new)
    BY <1>3, <1>6, <1>7, <1>8 DEF Sound
<1> QED BY <1>8, <1>9 DEF new

LEMMA IndexAdded ==
    ASSUME NEW c, Sound(c), NEW name, ByName(c.indexes, name) = {}
    PROVE  Sound(RegisterIndex(c, name)) /\ RegisterIndex(c, name).classes = c.classes
<1> DEFINE new == RegisterIndex(c, name)
           x == IndexDef(NextId(c.indexes), name)
           items == Append(c.indexes, x)
<1>1. x.id = NextId(c.indexes) /\ x.iri = name /\ x.name = name
    BY DEF IndexDef
<1>2. c = [classes |-> c.classes, properties |-> c.properties, graphs |-> c.graphs, indexes |-> c.indexes]
    BY DEF Sound
<1>3. new = [classes |-> c.classes, properties |-> c.properties, graphs |-> c.graphs, indexes |-> items]
    BY <1>2 DEF RegisterIndex
<1> HIDE DEF new, x
<1>4. Listed(c.indexes) /\ \A i \in DOMAIN c.indexes : c.indexes[i].iri = c.indexes[i].name
    BY DEF Sound
<1>5. ByIri(c.indexes, x.iri) = {} /\ ByName(c.indexes, x.name) = {}
    BY <1>1, <1>4 DEF ByIri, ByName
<1>6. /\ Listed(items)
      /\ \A i \in DOMAIN c.indexes : i \in DOMAIN items /\ items[i] = c.indexes[i]
      /\ \A i \in DOMAIN items : i \in DOMAIN c.indexes \/ items[i] = x
    BY <1>1, <1>4, <1>5, ItemAdded
<1> HIDE DEF items
<1>7. \A i \in DOMAIN items : items[i].iri = items[i].name
    BY <1>1, <1>4, <1>6
<1>8. new.classes = c.classes /\ new.properties = c.properties /\ new.graphs = c.graphs /\ new.indexes = items
    BY <1>3
<1>9. Sound(new)
    BY <1>3, <1>6, <1>7, <1>8 DEF Sound
<1> QED BY <1>8, <1>9 DEF new

(* A sound catalog saved by the handle that is open: file and copy agree, and  *)
(* no class went away.                                                         *)
LEMMA CatalogSaved ==
    ASSUME CatInv, NEW h \in Handles, Opened(h), NEW c, Sound(c),
           \A iri, name : Has(cat[h].classes, iri, name) => Has(c.classes, iri, name),
           Saved(h, c), UNCHANGED <<owner, lossy>>
    PROVE  CatInv'
<1>1. file' = c /\ cat' = [cat EXCEPT ![h] = c]
    BY DEF Saved
<1>2. cat' = [g \in Handles |-> cat'[g]] /\ \A g \in Handles : cat'[g] = IF g = h THEN c ELSE cat[g]
    BY <1>1 DEF CatInv
<1>3. \A g \in Handles : Opened(g)' => Sound(cat[g])'
    BY <1>2 DEF CatInv, Opened, Sound
<1>4. ASSUME ~lossy
      PROVE  /\ \A f, g \in Handles : Opened(f)' /\ Opened(g)' => f = g
             /\ \A g \in Handles : Opened(g)' => cat'[g].classes = file'.classes
             /\ \A n \in Names : owner[n] # None => Has(file'.classes, owner[n], n)
    <2>1. /\ \A f, g \in Handles : cat[f] # None /\ cat[g] # None => f = g
          /\ cat[h] # None /\ cat[h].classes = file.classes
          /\ \A n \in Names : owner[n] # None => Has(file.classes, owner[n], n)
        BY <1>4 DEF CatInv, Opened
    <2>2. \A g \in Handles : cat'[g] # None => g = h
        BY <1>2, <2>1
    <2>3. \A f, g \in Handles : Opened(f)' /\ Opened(g)' => f = g
        BY <2>2 DEF Opened
    <2>4. \A g \in Handles : Opened(g)' => cat'[g].classes = file'.classes
        BY <1>1, <1>2, <2>2 DEF Opened
    <2>5. \A n \in Names : owner[n] # None => Has(file'.classes, owner[n], n)
        BY <1>1, <2>1
    <2> QED BY <2>3, <2>4, <2>5
<1>5. Sound(file)'
    BY <1>1 DEF Sound
<1>6. owner' = owner /\ lossy' = lossy /\ lossy \in BOOLEAN /\ owner = [n \in Names |-> owner[n]]
    BY DEF CatInv
<1> QED BY <1>2, <1>3, <1>4, <1>5, <1>6 DEF CatInv, Has, Opened

LEMMA CatInitInv == CatInit => CatInv
<1> SUFFICES ASSUME CatInit PROVE CatInv
    OBVIOUS
<1>1. Listed(<<>>)
    <2>1. <<>> \in Seq(Range(<<>>)) /\ DOMAIN <<>> = {}
        OBVIOUS
    <2>2. \E b \in Nat : \A i \in {} : <<>>[i].id \in Nat /\ <<>>[i].id <= b
        OBVIOUS
    <2> QED BY <2>1, <2>2 DEF Listed
<1>2. file = Empty /\ Empty.classes = <<>> /\ Empty.properties = <<>> /\ Empty.graphs = <<>> /\ Empty.indexes = <<>>
    BY DEF CatInit, Empty
<1>3. Empty = [classes |-> Empty.classes, properties |-> Empty.properties,
               graphs |-> Empty.graphs, indexes |-> Empty.indexes]
    BY DEF Empty
<1>4. DOMAIN <<>> = {}
    OBVIOUS
<1>5. Sound(file)
    BY <1>1, <1>2, <1>3, <1>4 DEF Sound
<1>6. \A h \in Handles : ~Opened(h)
    BY DEF CatInit, Opened
<1>7. \A n \in Names : owner[n] = None
    BY DEF CatInit
<1> QED BY <1>5, <1>6, <1>7 DEF CatInit, CatInv

LEMMA OpenInv == ASSUME CatInv, NEW h \in Handles, Open(h) PROVE CatInv'
<1>1. cat' = [g \in Handles |-> IF g = h THEN file ELSE cat[g]]
    BY DEF CatInv, Open
<1>2. file' = file /\ owner' = owner /\ lossy' = (lossy \/ \E o \in Handles : Opened(o))
    BY DEF Open
<1>3. Sound(file)' /\ \A g \in Handles : Opened(g)' => Sound(cat[g])'
    BY <1>1, <1>2 DEF CatInv, Opened, Sound
<1>4. ASSUME ~lossy'
      PROVE  /\ \A f, g \in Handles : Opened(f)' /\ Opened(g)' => f = g
             /\ \A g \in Handles : Opened(g)' => cat'[g].classes = file'.classes
             /\ \A n \in Names : owner[n] # None => Has(file.classes, owner[n], n)
    <2>1. \A o \in Handles : cat[o] = None
        BY <1>2, <1>4 DEF Opened
    <2>2. \A g \in Handles : cat'[g] # None => g = h
        BY <1>1, <2>1
    <2>3. \A g \in Handles : Opened(g)' => cat'[g].classes = file'.classes
        BY <1>1, <1>2, <2>2 DEF Opened
    <2> QED BY <1>2, <1>4, <2>2, <2>3 DEF CatInv, Opened
<1>5. lossy' \in BOOLEAN /\ owner' = [n \in Names |-> owner'[n]] /\ cat' = [g \in Handles |-> cat'[g]]
    BY <1>1, <1>2 DEF CatInv
<1> QED BY <1>2, <1>3, <1>4, <1>5 DEF CatInv, Has, Opened

LEMMA EndInv == ASSUME CatInv, NEW h \in Handles, End(h) PROVE CatInv'
<1>1. cat' = [g \in Handles |-> IF g = h THEN None ELSE cat[g]]
    BY DEF CatInv, End
<1>2. file' = file /\ owner' = owner /\ lossy' = (lossy \/ cat[h] # file)
    BY DEF End
<1>3. \A g \in Handles : Opened(g)' => Opened(g) /\ cat'[g] = cat[g]
    BY <1>1 DEF Opened
<1>4. Sound(file)' /\ \A g \in Handles : Opened(g)' => Sound(cat[g])'
    BY <1>2, <1>3 DEF CatInv, Sound
<1>5. ~lossy' => ~lossy
    BY <1>2 DEF CatInv
<1>6. ~lossy' => /\ \A f, g \in Handles : Opened(f)' /\ Opened(g)' => f = g
                 /\ \A g \in Handles : Opened(g)' => cat'[g].classes = file'.classes
                 /\ \A n \in Names : owner[n] # None => Has(file.classes, owner[n], n)
    BY <1>2, <1>3, <1>5 DEF CatInv
<1>7. lossy' \in BOOLEAN /\ owner' = [n \in Names |-> owner'[n]] /\ cat' = [g \in Handles |-> cat'[g]]
    BY <1>1, <1>2 DEF CatInv
<1> QED BY <1>2, <1>4, <1>6, <1>7 DEF CatInv, Has, Opened

(* Steps that change neither a catalog nor an owner.                           *)
LEMMA CatalogsKept == ASSUME CatInv, UNCHANGED <<file, cat, owner, lossy>> PROVE CatInv'
<1>1. file' = file /\ cat' = cat /\ owner' = owner /\ lossy' = lossy
    OBVIOUS
<1>2. Sound(file)' /\ \A g \in Handles : Opened(g)' => Sound(cat[g])'
    BY <1>1 DEF CatInv, Opened, Sound
<1> QED BY <1>1, <1>2 DEF CatInv, Opened, Has

LEMMA DefineClassInv ==
    ASSUME CatInv, NEW h \in Handles, NEW d \in Defs, DefineClass(h, d)
    PROVE  CatInv'
<1> DEFINE c == DefineIn(cat[h], d)
<1>1. Opened(h) /\ Sound(cat[h]) /\ UNCHANGED <<owner, lossy>>
    BY DEF DefineClass, CatInv
<1>2. Sound(c) /\ \A iri, name : Has(cat[h].classes, iri, name) => Has(c.classes, iri, name)
    BY <1>1, DefinedIn
<1>3. UNCHANGED <<cat, file>> \/ Saved(h, c)
    BY DEF DefineClass
<1> HIDE DEF c
<1>4. CASE UNCHANGED <<cat, file>>
    BY <1>1, <1>4, CatalogsKept
<1>5. CASE Saved(h, c)
    BY <1>1, <1>2, <1>5, CatalogSaved
<1> QED BY <1>3, <1>4, <1>5

LEMMA DefinePropertyInv ==
    ASSUME CatInv, NEW h \in Handles, NEW d \in PropDefs, DefineProperty(h, d)
    PROVE  CatInv'
<1> DEFINE c == RegisterProperty(cat[h], d.iri, d.name)
<1>1. Opened(h) /\ Sound(cat[h]) /\ UNCHANGED <<owner, lossy>>
    BY DEF DefineProperty, CatInv
<1>2. CASE ByIri(cat[h].properties, d.iri) # {} \/ ByName(cat[h].properties, d.name) # {}
    <2>1. UNCHANGED <<cat, file>>
        BY <1>2 DEF DefineProperty
    <2> QED BY <1>1, <2>1, CatalogsKept
<1>3. CASE ~(ByIri(cat[h].properties, d.iri) # {} \/ ByName(cat[h].properties, d.name) # {})
    <2>1. Saved(h, c)
        BY <1>3 DEF DefineProperty
    <2>2. Sound(c) /\ c.classes = cat[h].classes
        BY <1>1, <1>3, PropertyAdded
    <2> HIDE DEF c
    <2>3. \A iri, name : Has(cat[h].classes, iri, name) => Has(c.classes, iri, name)
        BY <2>2
    <2> QED BY <1>1, <2>1, <2>2, <2>3, CatalogSaved
<1> QED BY <1>2, <1>3

LEMMA RegisterInv ==
    ASSUME CatInv, NEW h \in Handles, NEW r \in Others, Register(h, r)
    PROVE  CatInv'
<1> DEFINE c == IF r.kind = "graph" THEN RegisterGraph(cat[h], r.name) ELSE RegisterIndex(cat[h], r.name)
<1>1. Opened(h) /\ Sound(cat[h]) /\ UNCHANGED <<file, owner, lossy>>
    BY DEF Register, CatInv
<1>2. Sound(c) /\ c.classes = cat[h].classes
    <2>1. CASE r.kind = "graph"
        <3>1. ByName(cat[h].graphs, r.name) = {}
            BY <2>1 DEF Register
        <3> QED BY <1>1, <2>1, <3>1, GraphAdded
    <2>2. CASE r.kind # "graph"
        <3>1. ByName(cat[h].indexes, r.name) = {}
            BY <2>2 DEF Register
        <3> QED BY <1>1, <2>2, <3>1, IndexAdded
    <2> QED BY <2>1, <2>2
<1>3. cat' = [g \in Handles |-> IF g = h THEN c ELSE cat[g]]
    BY DEF Register, CatInv
<1> HIDE DEF c
<1>4. Sound(file)' /\ \A g \in Handles : Opened(g)' => Sound(cat[g])'
    BY <1>1, <1>2, <1>3 DEF CatInv, Opened, Sound
<1>5. \A g \in Handles : Opened(g)' => Opened(g) /\ cat'[g].classes = cat[g].classes
    BY <1>1, <1>2, <1>3 DEF Opened
<1>6. ~lossy => /\ \A f, g \in Handles : Opened(f)' /\ Opened(g)' => f = g
                /\ \A g \in Handles : Opened(g)' => cat'[g].classes = file'.classes
                /\ \A n \in Names : owner[n] # None => Has(file.classes, owner[n], n)
    BY <1>1, <1>5 DEF CatInv
<1>7. lossy' \in BOOLEAN /\ owner' = [n \in Names |-> owner'[n]] /\ cat' = [g \in Handles |-> cat'[g]]
    BY <1>1, <1>3 DEF CatInv
<1> QED BY <1>1, <1>4, <1>6, <1>7 DEF CatInv, Has, Opened

(* A store is made for a class that the handle knows, and the handle knows the *)
(* classes of the file.                                                        *)
LEMMA InsertNodesInv ==
    ASSUME CatInv, NEW h \in Handles, NEW w \in Iris \cup Names, InsertNodes(h, w)
    PROVE  CatInv'
<1> DEFINE k == Find(cat[h].classes, w)
           items == cat[h].classes
<1>1. Opened(h) /\ k # 0 /\ UNCHANGED <<file, cat, lossy>> /\ owner' = StoreOf(k, h)
    BY DEF InsertNodes
<1>2. Listed(items)
    BY <1>1 DEF CatInv, Sound
<1>3. ByIri(items, w) \in SUBSET DOMAIN items /\ ByName(items, w) \in SUBSET DOMAIN items
    BY DEF ByIri, ByName
<1>4. k \in DOMAIN items
    BY <1>1, <1>2, <1>3, SomeOf DEF Find
<1> HIDE DEF k
<1> DEFINE cls == items[k]
<1>5. \A n \in Names : owner'[n] = owner[n] \/ (n = cls.name /\ owner'[n] = cls.iri)
    BY <1>1 DEF StoreOf, CatInv
<1>6. owner' = [n \in Names |-> owner'[n]]
    BY <1>1 DEF StoreOf, CatInv
<1>7. Has(items, cls.iri, cls.name)
    BY <1>4 DEF Has
<1>8. ~lossy => /\ \A n \in Names : owner[n] # None => Has(file.classes, owner[n], n)
                /\ items = file.classes
    BY <1>1 DEF CatInv
<1> HIDE DEF cls, items
<1>9. ~lossy => \A n \in Names : owner'[n] # None => Has(file.classes, owner'[n], n)
    BY <1>5, <1>7, <1>8
<1>10. file' = file /\ cat' = cat /\ lossy' = lossy
    BY <1>1
<1>11. Sound(file)' /\ \A g \in Handles : Opened(g)' => Sound(cat[g])'
    BY <1>10 DEF CatInv, Opened, Sound
<1>12. ~lossy => /\ \A f, g \in Handles : Opened(f)' /\ Opened(g)' => f = g
                 /\ \A g \in Handles : Opened(g)' => cat'[g].classes = file'.classes
    BY <1>10 DEF CatInv, Opened
<1> QED BY <1>6, <1>9, <1>10, <1>11, <1>12 DEF CatInv, Has, Opened

LEMMA CatNextInv == CatInv /\ [CatNext]_catVars => CatInv'
<1> SUFFICES ASSUME CatInv, [CatNext]_catVars PROVE CatInv'
    OBVIOUS
<1>1. CASE UNCHANGED catVars
    BY <1>1, CatalogsKept DEF catVars
<1>2. CASE CatNext
    <2> SUFFICES ASSUME NEW h \in Handles,
                        Sessions(h) \/ Definitions(h) \/ OtherDefinitions(h) \/ Inserts(h) \/ Closures(h)
                 PROVE  CatInv'
        BY <1>2 DEF CatNext
    <2>1. CASE Sessions(h)
        BY <2>1, OpenInv, EndInv DEF Sessions
    <2>2. CASE Definitions(h)
        BY <2>2, DefineClassInv DEF Definitions
    <2>3. CASE OtherDefinitions(h)
        BY <2>3, DefinePropertyInv, RegisterInv DEF OtherDefinitions
    <2>4. CASE Inserts(h)
        BY <2>4, InsertNodesInv DEF Inserts
    <2>5. CASE Closures(h)
        <3>1. UNCHANGED <<file, cat, owner, lossy>>
            BY <2>5 DEF Closures, BuildClosure, LoadClosure, SaveClosure, AskClosure, Invalidate
        <3> QED BY <3>1, CatalogsKept
    <2> QED BY <2>1, <2>2, <2>3, <2>4, <2>5
<1> QED BY <1>1, <1>2

LEMMA CatInvKnown == CatInv => StoresKnown
<1> SUFFICES ASSUME CatInv PROVE StoresKnown
    OBVIOUS
<1>1. \A c \in Catalogs : Sound(c)
    BY DEF CatInv, Catalogs
<1>2. \A c \in Catalogs : \A items \in {c.classes, c.properties, c.graphs, c.indexes} :
          \A i, j \in DOMAIN items : i # j =>
              items[i].id # items[j].id /\ items[i].iri # items[j].iri /\ items[i].name # items[j].name
    <2> SUFFICES ASSUME NEW c \in Catalogs, NEW items \in {c.classes, c.properties, c.graphs, c.indexes}
                 PROVE  \A i, j \in DOMAIN items : i # j =>
                            items[i].id # items[j].id /\ items[i].iri # items[j].iri
                            /\ items[i].name # items[j].name
        OBVIOUS
    <2>1. Listed(items)
        BY <1>1 DEF Sound
    <2> QED BY <2>1 DEF Listed
<1>3. ~lossy => \A n \in Names : owner[n] # None => Has(file.classes, owner[n], n)
    BY DEF CatInv
<1> QED BY <1>2, <1>3 DEF StoresKnown, Has

(* In every catalog no two definitions of a kind share an id, an IRI or a      *)
(* local name, and while no definition was lost every node store belongs to a  *)
(* class of the catalog file (define_class, _define_property, register_graph,  *)
(* register_index, insert_nodes, connect and close), whatever handles, classes *)
(* and names there are.                                                        *)
THEOREM StoresAlwaysKnown == CatSpec => []StoresKnown
<1>1. CatSpec => []CatInv
    BY CatInitInv, CatNextInv, PTL DEF CatSpec
<1> QED BY <1>1, CatInvKnown, PTL

=============================================================================
