-------------------------------- MODULE Wal --------------------------------
(***************************************************************************)
(* The write-ahead log of caracaldb/storage/wal.py: a directory of segment *)
(* files holding records with dense LSNs, written through one Python file  *)
(* object (a user-space buffer) and rolled at a size limit.                *)
(*                                                                         *)
(* Three places hold a record: the Python buffer (`buf`), the operating    *)
(* system's view of the file (`segs[i].recs`), and the part of the file    *)
(* that fsync made durable (the first `segs[i].synced` records).  A killed *)
(* process loses the buffer; a power failure also loses an unsynced suffix *)
(* of every file and may cut a record in two.                              *)
(*                                                                         *)
(* Sizes are in abstract units; the file header is not counted.  The file  *)
(* name of a segment is its position in `segs` (the code sorts names).     *)
(***************************************************************************)
EXTENDS Integers, Sequences, SequencesExt

CONSTANTS
    Kinds,       \* the record kinds callers append
    Size,        \* encoded size of a record of each kind
    RollSize,    \* roll_size, the size at which a segment is closed
    Sync,        \* SyncMode: "on", "group" or "off"
    CrashModes,  \* the crashes considered, a subset of CrashKinds
    Wants,       \* how many more units a cut record may make the reader ask for
    MaxLsn       \* bound on the LSNs appended

ASSUME KindsAssumption == Size \in [Kinds -> Nat \ {0}]
ASSUME BoundsAssumption == RollSize \in Nat \ {0} /\ MaxLsn \in Nat /\ Wants \subseteq Nat \ {0}

(* kill: the process dies.  power: files lose whole records never synced.      *)
(* tear: a record never synced may be cut.  header: the same for the header of *)
(* a file just created.  fsync: no crash, but a flush may fail (CDB-7051).     *)
CrashKinds == {"kill", "power", "tear", "header", "fsync"}

ASSUME ModeAssumption == Sync \in {"on", "group", "off"} /\ CrashModes \subseteq CrashKinds

VARIABLES
    segs,     \* the segment files, oldest first
    buf,      \* records written to the open file object and not yet to the OS
    open,     \* self._segment is not None (the open segment is the last one)
    lastLsn,  \* self._last_lsn
    status,   \* "up": a Wal object exists; "down": none; "failed": its constructor raised
    fresh,    \* records appended and not flushed; under sync "on", those of appends still running
    promised  \* history: records a returned flush() (or sync "on" append) covered

walVars == <<segs, buf, open, lastLsn, status, fresh, promised>>

(* An entry of a file.  want = 0: a whole record.  want > 0: the first bytes *)
(* of a record cut by a crash; the reader asks for `want` more units.        *)
Entry == [lsn : Nat, kind : Kinds, want : Nat]
Segment == [hdr : BOOLEAN, recs : Seq(Entry), synced : Nat]

Record(lsn, kind) == [lsn |-> lsn, kind |-> kind, want |-> 0]

EntrySize(e) == IF e.want = 0 THEN Size[e.kind] ELSE 1
SizeOf(es) == FoldSeq(LAMBDA e, n : n + EntrySize(e), 0, es)

----------------------------------------------------------------------------
(* Reading: iter_segment_records, iter_all_records.                          *)

(* Position of the first cut record, or one past the end.                    *)
CutAt(es) == LET i == SelectInSeq(es, LAMBDA e : e.want > 0)
             IN  IF i = 0 THEN Len(es) + 1 ELSE i

(* The records _read_record yields before it meets a cut record.             *)
SegRecords(s) == SubSeq(s.recs, 1, CutAt(s.recs) - 1)

(* A missing header raises CDB-7053.  A cut record is a clean end of the      *)
(* segment while fewer bytes follow than its length fields ask for; once      *)
(* enough follow, the bytes are read as one record and its CRC fails          *)
(* (CDB-7052).                                                               *)
SegRaises(s) ==
    \/ ~s.hdr
    \/ LET i == CutAt(s.recs)
       IN  /\ i <= Len(s.recs)
           /\ SizeOf(SubSeq(s.recs, i + 1, Len(s.recs))) >= s.recs[i].want

ReadRaises(ss) == \E i \in DOMAIN ss : SegRaises(ss[i])
ReadAll(ss) == FlattenSeq([i \in DOMAIN ss |-> SegRecords(ss[i])])
Lsns(es) == {es[i].lsn : i \in DOMAIN es}

MaxLsnOf(es) == IF es = <<>> THEN 0 ELSE Max(Lsns(es))

----------------------------------------------------------------------------
(* Writing: helpers on the files, as pure functions of a writer state         *)
(* w = [segs, buf, open].                                                    *)

writer == [segs |-> segs, buf |-> buf, open |-> open]

(* file.flush(): the buffer reaches the operating system, nothing is synced.  *)
OsFlush(w) ==
    IF w.open
    THEN [w EXCEPT !.segs[Len(w.segs)].recs = @ \o w.buf, !.buf = <<>>]
    ELSE w

(* Mutant: fsync without file.flush() first.                                   *)
MutFlushSegment(w) == [w EXCEPT !.segs[Len(w.segs)].synced = Len(w.segs[Len(w.segs)].recs)]

(* _flush_segment: file.flush() and fsync of the open segment only.           *)
FlushSegment(w) ==
    LET f == OsFlush(w)
    IN  [f EXCEPT !.segs[Len(f.segs)].synced = Len(f.segs[Len(f.segs)].recs)]

(* _Segment.close(): flush and close, no fsync.                              *)
CloseSegment(w) == [OsFlush(w) EXCEPT !.open = FALSE]

CreateNewSegment(w) ==
    [w EXCEPT !.segs = Append(@, [hdr |-> TRUE, recs |-> <<>>, synced |-> 0]), !.open = TRUE]

ResumeOrCreate(w) ==
    IF w.segs # <<>> /\ SizeOf(Last(w.segs).recs) < RollSize
    THEN [w EXCEPT !.open = TRUE]
    ELSE CreateNewSegment(w)

(* Whether _ensure_segment rolls: the size it tracks counts buffered bytes.   *)
MustRoll(w, extra) == SizeOf(Last(w.segs).recs) + SizeOf(w.buf) + extra > RollSize

EnsureSegment(w, extra) ==
    LET r == IF w.open THEN w ELSE ResumeOrCreate(w)
    IN  IF MustRoll(r, extra) THEN CreateNewSegment(CloseSegment(r)) ELSE r

(* append(kind) up to its write: the record gets last_lsn + 1 and goes to the *)
(* buffer of the segment _ensure_segment provides.                            *)
AppendRecord(w, last, kind) ==
    LET e == EnsureSegment(w, Size[kind])
    IN  [e EXCEPT !.buf = Append(@, Record(last + 1, kind))]

(* flush(): nothing to do without an open segment or under sync "off".        *)
Flushed(w) == IF ~w.open \/ Sync = "off" THEN w ELSE FlushSegment(w)

(* truncate_before(n): delete every segment but the open one whose last       *)
(* record has an LSN at or below n.  A segment without records stays, and so  *)
(* does everything from the first segment the reader raises on.               *)
TruncateBefore(w, n) ==
    LET dead(i) == /\ ~(w.open /\ i = Len(w.segs))
                   /\ \A j \in 1..i : ~SegRaises(w.segs[j])
                   /\ SegRecords(w.segs[i]) # <<>>
                   /\ Last(SegRecords(w.segs[i])).lsn <= n
        left[i \in 0..Len(w.segs)] ==
            IF i = 0 THEN <<>> ELSE IF dead(i) THEN left[i - 1] ELSE Append(left[i - 1], w.segs[i])
    IN  [w EXCEPT !.segs = left[Len(w.segs)]]

----------------------------------------------------------------------------
(* The operations of a Wal object, as actions.                                *)

Install(w) == segs' = w.segs /\ buf' = w.buf /\ open' = w.open

WalInit ==
    /\ segs = <<>> /\ buf = <<>> /\ open = FALSE
    /\ lastLsn = 0 /\ status = "down" /\ fresh = {} /\ promised = {}

(* Wal(directory): last_lsn is the highest LSN the reader yields; a reader    *)
(* error escapes the constructor.                                            *)
WalOpen ==
    /\ status = "down"
    /\ IF ReadRaises(segs)
       THEN status' = "failed" /\ UNCHANGED lastLsn
       ELSE status' = "up" /\ lastLsn' = MaxLsnOf(ReadAll(segs))
    /\ UNCHANGED <<segs, buf, open, fresh, promised>>

(* Under sync "on" an append is two steps, the write and the flush, and ends   *)
(* with the second.  Appends do not overlap: their callers hold a lock, or are *)
(* the one thread that has the Wal.                                            *)
Settled == Sync = "on" => fresh = {}

WalAppend(kind) ==
    /\ status = "up" /\ lastLsn < MaxLsn /\ Settled
    /\ Install(AppendRecord(writer, lastLsn, kind))
    /\ lastLsn' = lastLsn + 1
    /\ fresh' = fresh \cup {Record(lastLsn + 1, kind)}
    /\ UNCHANGED <<status, promised>>

(* After flush() has fsynced, the caller takes every appended record for       *)
(* durable.                                                                    *)
WalFlush ==
    /\ status = "up"
    /\ Install(Flushed(writer))
    /\ IF Sync = "off" \/ ~open
       THEN UNCHANGED <<fresh, promised>>
       ELSE promised' = promised \cup fresh /\ fresh' = {}
    /\ UNCHANGED <<lastLsn, status>>

(* The flush that ends an append under sync "on".  Its first half, the         *)
(* file.flush(), may have come before it, as a WalOsFlush: a crash may find    *)
(* the record in the file and not synced.                                      *)
WalSync == Sync = "on" /\ fresh # {} /\ WalFlush

(* The fsync, or the write before it, fails: CDB-7051 leaves append() after    *)
(* _last_lsn has moved, and the record stays where it is.                      *)
WalSyncFails ==
    /\ "fsync" \in CrashModes /\ status = "up" /\ Sync = "on" /\ fresh # {}
    /\ fresh' = {}
    /\ UNCHANGED <<segs, buf, open, lastLsn, status, promised>>

(* The buffer reaches the operating system: the first half of a flush,         *)
(* iter_since(), or a later write that finds the Python buffer full (whole     *)
(* records: CPython empties the buffer before it takes one that does not fit). *)
WalOsFlush ==
    /\ status = "up" /\ buf # <<>>
    /\ Install(OsFlush(writer))
    /\ UNCHANGED <<lastLsn, status, fresh, promised>>

WalClose ==
    /\ status = "up" /\ open /\ Settled
    /\ Install(CloseSegment(writer))
    /\ UNCHANGED <<lastLsn, status, fresh, promised>>

----------------------------------------------------------------------------
(* Crashes.                                                                  *)

GoDown == /\ status' = "down" /\ buf' = <<>> /\ open' = FALSE
          /\ lastLsn' = 0 /\ fresh' = {} /\ UNCHANGED promised

(* The process dies: the Python buffer is lost, the files stay.               *)
Kill == /\ "kill" \in CrashModes /\ status = "up"
        /\ GoDown
        /\ UNCHANGED segs

(* The process dies in _create_new_segment between opening the file and        *)
(* flushing its header, on behalf of append(kind).                            *)
KillInCreate(kind) ==
    /\ "header" \in CrashModes /\ status = "up" /\ lastLsn < MaxLsn /\ Settled
    /\ LET after == EnsureSegment(writer, Size[kind])
       IN  /\ Len(after.segs) > Len(segs)
           /\ segs' = [after.segs EXCEPT ![Len(after.segs)].hdr = FALSE]
    /\ GoDown

(* What a power failure may leave of a segment: at least what was synced,      *)
(* possibly followed by the first bytes of the next record; a file never       *)
(* synced may even lose its header.                                            *)
Remains(s) ==
    LET cut(k, want) == Append(SubSeq(s.recs, 1, k), [s.recs[k + 1] EXCEPT !.want = want])
        whole == {SubSeq(s.recs, 1, k) :
                     k \in (IF "power" \in CrashModes THEN s.synced ELSE Len(s.recs))..Len(s.recs)}
        torn == {cut(k, want) : k \in s.synced..(Len(s.recs) - 1),
                                want \in IF "tear" \in CrashModes THEN Wants ELSE {}}
        durable(rs) == [hdr |-> s.hdr, recs |-> rs, synced |-> Len(rs)]
    IN  {durable(rs) : rs \in whole \cup torn}
        \cup {[hdr |-> FALSE, recs |-> <<>>, synced |-> 0] :
                  m \in {x \in CrashModes : x = "header" /\ s.synced = 0}}

(* The machine fails, whether the program runs or not.                         *)
PowerLoss ==
    /\ {"power", "tear"} \cap CrashModes # {} /\ status \in {"up", "down"}
    /\ \E left \in [DOMAIN segs -> UNION {Remains(segs[i]) : i \in DOMAIN segs}] :
          /\ \A i \in DOMAIN segs : left[i] \in Remains(segs[i])
          /\ segs' = left
    /\ GoDown

----------------------------------------------------------------------------
(* What a WAL must provide; module Recovery composes these actions.           *)

WalTypeOK ==
    /\ segs \in Seq(Segment) /\ buf \in Seq(Entry)
    /\ open \in BOOLEAN /\ lastLsn \in Nat
    /\ fresh \subseteq Entry /\ promised \subseteq Entry
    /\ status \in {"up", "down", "failed"}

(* Everything a reader of the directory would get now.                        *)
OnDisk == ReadAll(segs)

(* A record covered by a flush() that returned is read back, unchanged,       *)
(* whatever crash, reopening, roll or close came in between.                  *)
FlushedReadable == promised \subseteq ToSet(OnDisk)

(* What the reader yields is gap-free and in LSN order (a fresh Wal() reopen   *)
(* continues "without LSN gaps from the recovered tail").                     *)
LogContiguous ==
    LET log == OnDisk IN \A i \in 1..(Len(log) - 1) : log[i + 1].lsn = log[i].lsn + 1

(* After any crash the log can be opened again.                               *)
Reopens == status # "failed"
=============================================================================
