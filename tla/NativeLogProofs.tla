-------------------------- MODULE NativeLogProofs --------------------------
(***************************************************************************)
(* What the Rust core's log and its stores give back, for any records,     *)
(* batches and bounds.  Through failed and torn writes, restarts and       *)
(* checkpoints the log reads a prefix of what was appended, and truncation *)
(* removes only what the manifest covers.  A store that appends died in at *)
(* any step shows exactly the rows of the appends that were saved.         *)
(***************************************************************************)
EXTENDS NativeStore, SequenceTheorems, WellFoundedInduction, TLAPS

(* The first n items of a segment are whole records.                           *)
Intact(items, n) == \A i \in 1..n : ~items[i].torn

LEMMA Least ==
    ASSUME NEW T \in SUBSET Nat, T # {}
    PROVE  \E n \in T : \A m \in T : n <= m
<1>1. IsWellFoundedOn(OpToRel(<, Nat), Nat)
    BY NatLessThanWellFounded
<1>2. PICK x \in T : \A y \in T : ~(<<y, x>> \in OpToRel(<, Nat))
    BY <1>1, WFMin
<1>3. \A y \in T : y < x => <<y, x>> \in OpToRel(<, Nat)
    BY DEF OpToRel
<1>4. \A y \in T : ~(y < x)
    BY <1>2, <1>3
<1> QED BY <1>4

(* The reader stops at the first record that was cut short.                    *)
LEMMA WholePart ==
    ASSUME NEW items \in Seq(Item)
    PROVE  \E n \in 0..Len(items) :
              /\ WholeRecords(items) = SubSeq(items, 1, n) /\ Intact(items, n)
              /\ n < Len(items) => items[n + 1].torn
<1> DEFINE s == items \o <<Torn>>
           I == {i \in 1..Len(s) : s[i].torn}
<1>1. /\ Len(items) \in Nat /\ Len(s) = Len(items) + 1 /\ s[Len(items) + 1] = Torn
      /\ \A i \in 1..Len(items) : s[i] = items[i]
    BY DEF Item
<1> HIDE DEF s
<1>2. I \in SUBSET Nat /\ Len(items) + 1 \in I
    BY <1>1 DEF Torn
<1>3. SelectInSeq(s, LAMBDA r : r.torn) = Min(I)
    BY <1>2 DEF SelectInSeq
<1>4. Min(I) \in I /\ \A i \in I : Min(I) <= i
    <2> HIDE DEF I
    <2>1. \E n \in I : \A m \in I : n <= m
        BY <1>2, Least
    <2> QED BY <2>1 DEF Min
<1> DEFINE m == Min(I)
<1>5. m \in 1..Len(s) /\ s[m].torn /\ \A i \in 1..Len(s) : s[i].torn => m <= i
    BY <1>4
<1> HIDE DEF m
<1>6. WholeRecords(items) = SubSeq(items, 1, m - 1)
    BY <1>3 DEF WholeRecords, s, m
<1>7. m - 1 \in 0..Len(items) /\ m - 1 + 1 = m
    BY <1>1, <1>5
<1>8. Intact(items, m - 1)
    BY <1>1, <1>5 DEF Intact
<1>9. m - 1 < Len(items) => items[m].torn
    BY <1>1, <1>5
<1> QED BY <1>6, <1>7, <1>8, <1>9

(* What a read returns, if it returns: the intact items, all of those there    *)
(* are before the first cut, and all of them when nothing was cut.             *)
LEMMA ReadsOf ==
    ASSUME segment \in SegmentFile, NEW r \in Reads(segment), r.ok
    PROVE  /\ r.records = <<>> \/ segment.head
           /\ \E n \in 0..Len(segment.items) :
                 /\ r.records = SubSeq(segment.items, 1, n) /\ Intact(segment.items, n)
                 /\ segment.head /\ n < Len(segment.items) => segment.items[n + 1].torn
<1>1. segment # Null /\ segment.items \in Seq(Item) /\ segment.head \in BOOLEAN /\ Len(segment.items) \in Nat
    BY NativeLogAssumption DEF SegmentFile
<1>2. CASE ~segment.head
    <2>1. r = Read(<<>>)
        BY <1>1, <1>2 DEF Reads, Broken
    <2>2. r.records = <<>> /\ SubSeq(segment.items, 1, 0) = <<>> /\ Intact(segment.items, 0)
        BY <1>1, <2>1 DEF Read, Intact
    <2> QED BY <1>1, <1>2, <2>2
<1>3. CASE segment.head
    <2>1. r = Read(WholeRecords(segment.items))
        BY <1>1, <1>3 DEF Reads, Broken
    <2>2. r.records = WholeRecords(segment.items)
        BY <2>1 DEF Read
    <2> QED BY <1>1, <1>3, <2>2, WholePart
<1> QED BY <1>1, <1>2, <1>3

LEMMA WholeRead ==
    ASSUME segment \in SegmentFile, Whole, NEW r \in Reads(segment)
    PROVE  r.ok /\ r.records = segment.items
<1>1. segment # Null /\ segment.head /\ segment.items \in Seq(Item) /\ Len(segment.items) \in Nat
      /\ \A i \in 1..Len(segment.items) : ~segment.items[i].torn
    BY NativeLogAssumption DEF SegmentFile, Whole
<1> DEFINE items == segment.items
<1>2. PICK n \in 0..Len(items) : /\ WholeRecords(items) = SubSeq(items, 1, n)
                                 /\ n < Len(items) => items[n + 1].torn
    BY <1>1, WholePart
<1>3. n = Len(items)
    BY <1>1, <1>2
<1>4. WholeRecords(items) = items
    BY <1>1, <1>2, <1>3
<1>5. Reads(segment) = {Read(items)}
    <2>1. ~(Len(items) + 1 < Len(items))
        BY <1>1
    <2> QED BY <1>1, <1>4, <2>1 DEF Reads
<1> QED BY <1>5 DEF Read
-----------------------------------------------------------------------------
(* As far as the segment is intact it is what was appended, record after       *)
(* record, and the open log knows the last one; a checkpoint that has saved    *)
(* its manifest truncates at what it saved.                                    *)
Types ==
    /\ segment = Null \/ segment \in SegmentFile
    /\ written \in Seq(Item)
    /\ wal # Null => wal \in Nat
Matches ==
    segment # Null /\ segment.head =>
        /\ \A n \in 1..Len(segment.items) :
              Intact(segment.items, n) => /\ n <= Len(written) /\ segment.items[n] = written[n]
                                          /\ written[n].lsn = written[n].prev_lsn + 1
                                          /\ n > 1 => written[n].prev_lsn = written[n - 1].lsn
        /\ Intact(segment.items, Len(segment.items)) => Len(written) = Len(segment.items)
LastKnown ==
    wal # Null /\ segment # Null /\ segment.items # <<>> /\ segment.head
        /\ Intact(segment.items, Len(segment.items))
        => wal = segment.items[Len(segment.items)].lsn
Saved ==
    cp # Null => /\ cp = [pc |-> cp.pc, lsn |-> cp.lsn]
                 /\ cp.pc = "truncate" => manifest.checkpoint_lsn = cp.lsn
LInv == Types /\ Matches /\ LastKnown /\ Saved

(* A record or a torn one is added behind the others.                          *)
Old == IF segment = Null THEN <<>> ELSE written

LEMMA ItemAppended ==
    ASSUME LInv, NEW x \in Item, segment' = With(x), wal # Null,
           \/ /\ x = NextRecord(x.kind) /\ wal' = wal + 1
              /\ written' = Append(Old, x)
           \/ x = Torn /\ wal' = wal /\ written' = Old
    PROVE  Types' /\ Matches' /\ LastKnown'
<1> DEFINE items == File.items
           old == Old
<1>1. File \in SegmentFile /\ items \in Seq(Item) /\ old \in Seq(Item) /\ Len(items) \in Nat /\ Len(old) \in Nat
      /\ wal \in Nat
    <2>1. [head |-> TRUE, items |-> <<>>] \in SegmentFile
        BY DEF SegmentFile
    <2>2. File \in SegmentFile
        BY <2>1 DEF File, LInv, Types
    <2>3. items \in Seq(Item)
        BY <2>2 DEF SegmentFile
    <2> QED BY <2>2, <2>3 DEF LInv, Types, Old
<1>2. File.head => \A n \in 1..Len(items) : Intact(items, n) =>
          /\ n <= Len(old) /\ items[n] = old[n] /\ old[n].lsn = old[n].prev_lsn + 1
          /\ n > 1 => old[n].prev_lsn = old[n - 1].lsn
    BY DEF File, LInv, Matches, Old
<1>3. File.head /\ Intact(items, Len(items)) => Len(old) = Len(items)
    BY DEF File, LInv, Matches, Old
<1>4. items # <<>> /\ File.head /\ Intact(items, Len(items)) => wal = items[Len(items)].lsn
    BY DEF File, LInv, LastKnown
<1>5. segment' = [head |-> File.head, items |-> Append(items, x)]
    BY <1>1 DEF With, SegmentFile
<1>6. \/ written' = Append(old, x) /\ wal' = wal + 1
      \/ written' = old /\ wal' = wal /\ x = Torn
    OBVIOUS
<1>7. x = Torn \/ /\ x.torn = FALSE /\ x.lsn = wal + 1 /\ x.prev_lsn = wal
    BY DEF NextRecord, Record
<1> HIDE DEF items, old
<1>8. /\ segment'.items \in Seq(Item) /\ Len(segment'.items) = Len(items) + 1
      /\ segment'.items[Len(items) + 1] = x /\ \A n \in 1..Len(items) : segment'.items[n] = items[n]
      /\ segment'.head = File.head /\ File.head \in BOOLEAN
    BY <1>1, <1>5 DEF SegmentFile
<1>9. /\ Append(old, x) \in Seq(Item) /\ Len(Append(old, x)) = Len(old) + 1 /\ Append(old, x)[Len(old) + 1] = x
      /\ \A n \in 1..Len(old) : Append(old, x)[n] = old[n]
    BY <1>1
<1>10. Types'
    <2>1. segment' \in SegmentFile
        BY <1>5, <1>8 DEF SegmentFile
    <2>2. written' \in Seq(Item)
        BY <1>1, <1>6, <1>9
    <2>3. wal' \in Nat
        BY <1>1, <1>6
    <2> QED BY <2>1, <2>2, <2>3 DEF Types
<1>11. \A n \in 1..Len(items) : Intact(segment'.items, n) => Intact(items, n)
    BY <1>1, <1>8 DEF Intact
<1>12. Intact(segment'.items, Len(items) + 1) => /\ Intact(items, Len(items)) /\ x # Torn
    <2> SUFFICES ASSUME Intact(segment'.items, Len(items) + 1) PROVE Intact(items, Len(items)) /\ x # Torn
        OBVIOUS
    <2>1. ~x.torn
        BY <1>1, <1>8 DEF Intact
    <2>2. x # Torn
        BY <2>1 DEF Torn
    <2>3. \A i \in 1..Len(items) : i \in 1..(Len(items) + 1)
        BY <1>1
    <2>4. \A i \in 1..Len(items) : ~items[i].torn
        BY <1>8, <2>3 DEF Intact
    <2> QED BY <2>2, <2>4 DEF Intact
<1>13. Matches'
    <2>1. ASSUME NEW n \in 1..Len(items), Intact(segment'.items, n), File.head
          PROVE  /\ n <= Len(written') /\ segment'.items[n] = written'[n]
                 /\ written'[n].lsn = written'[n].prev_lsn + 1
                 /\ n > 1 => written'[n].prev_lsn = written'[n - 1].lsn
        <3>1. /\ n <= Len(old) /\ items[n] = old[n] /\ old[n].lsn = old[n].prev_lsn + 1
              /\ n > 1 => old[n].prev_lsn = old[n - 1].lsn
            BY <1>2, <1>11, <2>1
        <3>2. Len(written') >= Len(old) /\ \A m \in 1..Len(old) : written'[m] = old[m]
            <4>1. CASE written' = Append(old, x)
                <5>1. Len(written') = Len(old) + 1 /\ Len(old) \in Nat
                    BY <1>1, <1>9, <4>1
                <5>2. \A m \in 1..Len(old) : written'[m] = old[m]
                    BY <1>9, <4>1
                <5> QED BY <5>1, <5>2
            <4>2. CASE written' = old
                BY <1>1, <4>2
            <4> QED BY <1>6, <4>1, <4>2
        <3>3. n \in 1..Len(old) /\ (n > 1 => n - 1 \in 1..Len(old))
            BY <1>1, <3>1
        <3>4. n <= Len(written')
            BY <1>1, <1>6, <1>9, <3>1
        <3> QED BY <1>8, <3>1, <3>2, <3>3, <3>4
    <2>2. ASSUME Intact(segment'.items, Len(items) + 1), File.head
          PROVE  /\ Len(written') = Len(items) + 1 /\ segment'.items[Len(items) + 1] = written'[Len(items) + 1]
                 /\ written'[Len(items) + 1].lsn = written'[Len(items) + 1].prev_lsn + 1
                 /\ Len(items) + 1 > 1 => written'[Len(items) + 1].prev_lsn = written'[Len(items)].lsn
        <3>1. x # Torn /\ Len(old) = Len(items) /\ Intact(items, Len(items))
            BY <1>3, <1>12, <2>2
        <3>2. written' = Append(old, x) /\ x.lsn = x.prev_lsn + 1 /\ x.prev_lsn = wal
            BY <1>6, <1>7, <3>1
        <3>3. ASSUME Len(items) + 1 > 1 PROVE wal = items[Len(items)].lsn
            <4>1. items # <<>>
                <5>1. Len(items) # 0
                    BY <1>1, <3>3
                <5> QED BY <5>1
            <4> QED BY <1>4, <2>2, <3>1, <4>1
        <3>4. written'[Len(items) + 1] = x /\ Len(written') = Len(items) + 1
            BY <1>9, <3>1, <3>2
        <3>5. ASSUME Len(items) + 1 > 1 PROVE written'[Len(items)] = items[Len(items)]
            <4>1. Len(items) \in 1..Len(items) /\ Len(items) \in 1..Len(old)
                BY <1>1, <3>1, <3>5
            <4>2. items[Len(items)] = old[Len(items)]
                BY <1>2, <2>2, <3>1, <4>1
            <4> QED BY <1>9, <3>2, <4>1, <4>2
        <3> QED BY <1>8, <3>2, <3>3, <3>4, <3>5
    <2> SUFFICES ASSUME File.head, NEW n \in 1..(Len(items) + 1), Intact(segment'.items, n)
                 PROVE  /\ n <= Len(written') /\ segment'.items[n] = written'[n]
                        /\ written'[n].lsn = written'[n].prev_lsn + 1
                        /\ n > 1 => written'[n].prev_lsn = written'[n - 1].lsn
        BY <1>8, <2>2 DEF Matches
    <2>3. CASE n \in 1..Len(items)
        BY <2>1, <2>3
    <2>4. CASE n = Len(items) + 1
        <3>1. n - 1 = Len(items)
            BY <1>1, <2>4
        <3> QED BY <1>1, <2>2, <2>4, <3>1
    <2> QED BY <1>1, <2>3, <2>4
<1>14. LastKnown'
    <2> SUFFICES ASSUME Intact(segment'.items, Len(items) + 1) PROVE wal' = segment'.items[Len(items) + 1].lsn
        BY <1>8 DEF LastKnown
    <2>1. x # Torn
        BY <1>12
    <2> QED BY <1>6, <1>7, <1>8, <2>1
<1> QED BY <1>10, <1>13, <1>14

LEMMA AppendStep ==
    ASSUME LInv, NEW kind, kind \in Kinds \cup {"CHECKPOINT"}, wal # Null, Appended(kind) \/ AppendFailed
    PROVE  Types' /\ Matches' /\ LastKnown'
<1>1. wal \in Nat /\ Types
    BY DEF LInv, Types
<1>2. CASE Appended(kind)
    <2> DEFINE x == NextRecord(kind)
    <2>1. x \in Item /\ x.kind = kind
        BY <1>1 DEF NextRecord, Record, Item
    <2>2. segment' = With(x) /\ wal' = wal + 1 /\ written' = Append(Old, x) /\ x = NextRecord(x.kind)
        BY <1>2, <2>1 DEF Appended, Old
    <2> HIDE DEF x
    <2> QED BY <2>1, <2>2, ItemAppended
<1>3. CASE AppendFailed
    <2>1. written' = Old /\ wal' = wal /\ Torn \in Item
        BY <1>3 DEF AppendFailed, Old, Item
    <2>2. CASE segment' = With(Torn)
        BY <2>1, <2>2, ItemAppended
    <2>3. CASE segment' = segment
        <3>1. segment # Null => written' = written
            BY <2>1 DEF Old
        <3>2. written' \in Seq(Item)
            BY <1>1, <2>1 DEF Old, Types
        <3> QED BY <2>1, <2>3, <3>1, <3>2 DEF LInv, Types, Matches, LastKnown
    <2>4. CASE segment = Null /\ segment' = [head |-> FALSE, items |-> <<>>]
        <3>1. segment' \in SegmentFile /\ ~segment'.head
            BY <2>4 DEF SegmentFile
        <3>2. written' \in Seq(Item)
            BY <2>1, <2>4 DEF Old
        <3> QED BY <1>1, <2>1, <3>1, <3>2 DEF Types, Matches, LastKnown
    <2> QED BY <1>3, <2>2, <2>3, <2>4 DEF AppendFailed
<1> QED BY <1>2, <1>3

LEMMA OpenStep == LInv /\ WalOpen => LInv'
<1> SUFFICES ASSUME LInv, WalOpen PROVE LInv'
    OBVIOUS
<1>1. UNCHANGED <<segment, written, cp, manifest>>
    BY DEF WalOpen
<1>2. PICK r \in Reads(segment) : r.ok /\ wal' = LastLsn(r.records)
    BY DEF WalOpen
<1>3. CASE segment = Null
    <2>1. r = Read(<<>>)
        BY <1>2, <1>3 DEF Reads
    <2>2. wal' = 0
        BY <1>2, <2>1 DEF LastLsn, Read
    <2> QED BY <1>1, <1>3, <2>2 DEF LInv, Types, Matches, LastKnown, Saved
<1>4. CASE segment # Null
    <2> DEFINE items == segment.items
    <2>1. segment \in SegmentFile /\ items \in Seq(Item) /\ Len(items) \in Nat
        BY <1>4 DEF LInv, Types, SegmentFile
    <2>2. PICK n \in 0..Len(items) : r.records = SubSeq(items, 1, n) /\ Intact(items, n)
        BY <1>2, <2>1, ReadsOf
    <2>3. wal' \in Nat
        <3>1. CASE n = 0
            <4>1. r.records = <<>>
                BY <2>1, <2>2, <3>1
            <4> QED BY <1>2, <4>1 DEF LastLsn
        <3>2. CASE n # 0
            <4>1. n \in 1..n /\ n \in 1..Len(items) /\ items[n] \in Item
                BY <2>1, <3>2
            <4>2. r.records # <<>> /\ Last(r.records) = items[n]
                BY <2>1, <2>2, <4>1 DEF Last
            <4>3. ~items[n].torn
                BY <2>2, <4>1 DEF Intact
            <4>4. items[n].lsn \in Nat
                <5> DEFINE y == items[n]
                <5>1. y = Torn \/ y \in [torn : {FALSE}, lsn : Nat, prev_lsn : Nat, kind : Kinds \cup {"CHECKPOINT"}]
                    BY <4>1 DEF Item
                <5>2. Torn.torn = TRUE
                    BY DEF Torn
                <5> HIDE DEF y
                <5>3. y # Torn => y.lsn \in Nat
                    BY <5>1
                <5>4. y # Torn
                    BY <4>3, <5>2 DEF y
                <5> QED BY <5>3, <5>4 DEF y
            <4> QED BY <1>2, <4>2, <4>4 DEF LastLsn
        <3> QED BY <3>1, <3>2
    <2>4. ASSUME items # <<>>, segment.head, Intact(items, Len(items)) PROVE wal' = items[Len(items)].lsn
        <3>1. Whole
            BY <2>1, <2>4 DEF Whole, Intact
        <3>2. r.records = items
            BY <2>1, <3>1, WholeRead
        <3> QED BY <1>2, <2>1, <2>4, <3>2 DEF LastLsn, Last
    <2> QED BY <1>1, <2>3, <2>4 DEF LInv, Types, Matches, LastKnown, Saved
<1> QED BY <1>3, <1>4

LEMMA InitL == LogInit => LInv
BY DEF LogInit, LInv, Types, Matches, LastKnown, Saved

LEMMA StepL == LInv /\ [LogNext]_logVars => LInv'
<1> SUFFICES ASSUME LInv, [LogNext]_logVars PROVE LInv'
    OBVIOUS
<1>1. ASSUME NEW exist_ok \in BOOLEAN, CreateBundle(exist_ok) PROVE LInv'
    <2>1. cp = Null /\ UNCHANGED <<segment, wal, cp, written>>
        BY <1>1 DEF CreateBundle, Idle
    <2> QED BY <2>1 DEF LInv, Types, Matches, LastKnown, Saved
<1>2. CASE OpenBundle \/ ReloadManifest \/ UNCHANGED logVars
    <2>1. UNCHANGED <<segment, wal, cp, written, manifest>>
        BY <1>2 DEF OpenBundle, ReloadManifest, logVars
    <2> QED BY <2>1 DEF LInv, Types, Matches, LastKnown, Saved
<1>3. CASE WalOpen
    BY <1>3, OpenStep
<1>4. ASSUME NEW kind \in Kinds, WalAppend(kind) PROVE LInv'
    <2>1. wal # Null /\ (Appended(kind) \/ AppendFailed) /\ UNCHANGED <<manifest, cp>>
        BY <1>4 DEF WalAppend
    <2>2. Types' /\ Matches' /\ LastKnown'
        BY <2>1, AppendStep
    <2> QED BY <2>1, <2>2 DEF LInv, Saved
<1>5. CASE CheckpointMark
    <2>1. wal # Null /\ (Appended("CHECKPOINT") \/ AppendFailed) /\ UNCHANGED manifest
        BY <1>5 DEF CheckpointMark
    <2>2. Types' /\ Matches' /\ LastKnown'
        BY <2>1, AppendStep
    <2>3. cp' = [pc |-> "save", lsn |-> wal + 1] \/ cp' = cp
        BY <1>5 DEF CheckpointMark
    <2>4. Saved'
        BY <2>1, <2>3 DEF LInv, Saved
    <2> QED BY <2>2, <2>4 DEF LInv
<1>6. CASE CheckpointSave
    <2>1. cp # Null /\ UNCHANGED <<segment, wal, written>>
        BY <1>6 DEF CheckpointSave
    <2>2. cp' = Null \/ (manifest' = Manifest(cp.lsn) /\ cp' = [cp EXCEPT !.pc = "truncate"])
        BY <1>6 DEF CheckpointSave
    <2>3. cp = [pc |-> cp.pc, lsn |-> cp.lsn]
        BY <2>1 DEF LInv, Saved
    <2>4. cp' = Null \/ (manifest' = Manifest(cp.lsn) /\ cp' = [pc |-> "truncate", lsn |-> cp.lsn])
        BY <2>2, <2>3
    <2>5. Saved'
        BY <2>4 DEF Saved, Manifest
    <2> QED BY <2>1, <2>5 DEF LInv, Types, Matches, LastKnown
<1>7. CASE TruncateBefore
    <2>1. cp' = Null /\ UNCHANGED <<wal, written>> /\ (segment' = Null \/ segment' = segment)
        BY <1>7 DEF TruncateBefore
    <2> QED BY <2>1 DEF LInv, Types, Matches, LastKnown, Saved
<1>8. CASE Die
    <2>1. cp' = Null /\ wal' = Null /\ UNCHANGED <<segment, written>>
        BY <1>8 DEF Die
    <2> QED BY <2>1 DEF LInv, Types, Matches, LastKnown, Saved
<1> QED BY <1>1, <1>2, <1>3, <1>4, <1>5, <1>6, <1>7, <1>8 DEF LogNext

LEMMA SpecL == LogSpec => []LInv
BY InitL, StepL, PTL DEF LogSpec
-----------------------------------------------------------------------------
(* iter_all_records returns records that were appended, in their order, each   *)
(* naming its predecessor, and all of them unless a write was cut short.       *)
THEOREM LogReadsBack == LogSpec => []ReadsBack
<1>1. LInv => ReadsBack
    <2> SUFFICES ASSUME LInv, segment # Null, NEW r \in Reads(segment)
                 PROVE  /\ r.ok => IsPrefix(r.records, written)
                        /\ Whole => r.ok /\ r.records = written
                        /\ \A i \in DOMAIN r.records :
                              /\ r.records[i].lsn = r.records[i].prev_lsn + 1
                              /\ i > 1 => r.records[i].prev_lsn = r.records[i - 1].lsn
        BY DEF ReadsBack
    <2> DEFINE items == segment.items
    <2>1. segment \in SegmentFile /\ items \in Seq(Item) /\ Len(items) \in Nat
          /\ written \in Seq(Item) /\ Len(written) \in Nat
        BY DEF LInv, Types, SegmentFile
    <2>2. ASSUME r.ok, r.records # <<>>
          PROVE  \E n \in 0..Len(items) :
                    /\ r.records = SubSeq(items, 1, n) /\ n <= Len(written)
                    /\ \A i \in 1..n : /\ items[i] = written[i] /\ items[i].lsn = items[i].prev_lsn + 1
                                       /\ i > 1 => items[i].prev_lsn = items[i - 1].lsn
        <3>1. PICK n \in 0..Len(items) : r.records = SubSeq(items, 1, n) /\ Intact(items, n)
            BY <2>1, <2>2, ReadsOf
        <3>2. segment.head
            BY <2>1, <2>2, ReadsOf
        <3>3. \A i \in 1..n : i \in 1..Len(items) /\ Intact(items, i)
            BY <2>1, <3>1 DEF Intact
        <3>4. ASSUME NEW i \in 1..n
              PROVE  /\ i <= Len(written) /\ items[i] = written[i] /\ written[i].lsn = written[i].prev_lsn + 1
                     /\ i > 1 => written[i].prev_lsn = written[i - 1].lsn
            BY <3>2, <3>3 DEF LInv, Matches
        <3>5. n <= Len(written)
            BY <2>1, <3>4
        <3>6. \A i \in 1..n : i > 1 => i - 1 \in 1..n
            OBVIOUS
        <3> QED BY <3>1, <3>4, <3>5, <3>6
    <2>3. ASSUME r.ok, r.records = <<>> PROVE IsPrefix(r.records, written)
        BY <2>1, <2>3 DEF IsPrefix
    <2>4. ASSUME r.ok, r.records # <<>>
          PROVE  /\ IsPrefix(r.records, written)
                 /\ \A i \in DOMAIN r.records :
                       /\ r.records[i].lsn = r.records[i].prev_lsn + 1
                       /\ i > 1 => r.records[i].prev_lsn = r.records[i - 1].lsn
        <3>1. PICK n \in 0..Len(items) :
                    /\ r.records = SubSeq(items, 1, n) /\ n <= Len(written)
                    /\ \A i \in 1..n : /\ items[i] = written[i] /\ items[i].lsn = items[i].prev_lsn + 1
                                       /\ i > 1 => items[i].prev_lsn = items[i - 1].lsn
            BY <2>2, <2>4
        <3> DEFINE s == r.records
        <3>2. s \in Seq(Item) /\ Len(s) = n /\ DOMAIN s = 1..n /\ \A i \in 1..n : s[i] = items[i]
            BY <2>1, <3>1
        <3> HIDE DEF s
        <3>3. SubSeq(s, 1, n) = SubSeq(written, 1, n)
            BY <2>1, <3>1, <3>2
        <3>4. IsPrefix(s, written)
            BY <3>1, <3>2, <3>3 DEF IsPrefix
        <3>5. \A i \in 1..n : i > 1 => i - 1 \in 1..n
            OBVIOUS
        <3> QED BY <3>1, <3>2, <3>4, <3>5 DEF s
    <2>5. ASSUME Whole PROVE r.ok /\ r.records = written
        <3>1. r.ok /\ r.records = items /\ segment.head /\ \A i \in 1..Len(items) : ~items[i].torn
            BY <2>1, <2>5, WholeRead DEF Whole
        <3>2. \A i \in 1..Len(items) : Intact(items, i)
            BY <2>1, <3>1 DEF Intact
        <3>3. Intact(items, Len(items))
            BY <3>1 DEF Intact
        <3>4. Len(written) = Len(items) /\ \A i \in 1..Len(items) : items[i] = written[i]
            BY <3>1, <3>2, <3>3 DEF LInv, Matches
        <3>5. items = written
            BY <2>1, <3>4
        <3> QED BY <3>1, <3>5
    <2>6. ~r.ok => r.records = <<>>
        BY <2>1, NativeLogAssumption DEF Reads, Broken, Read
    <2> QED BY <2>3, <2>4, <2>5, <2>6
<1> QED BY <1>1, SpecL, PTL

(* truncate_before removes a segment only when the manifest that checkpoint()  *)
(* saved before covers every record a reader gets from it.                     *)
THEOREM PrunedOnlyCovered == LogSpec => PrunedCovered
<1>1. LInv /\ LInv' /\ [LogNext]_logVars /\ segment # Null /\ segment' = Null =>
          /\ segment.items # <<>>
          /\ \A r \in Reads(segment) : r.ok => LastLsn(r.records) <= manifest.checkpoint_lsn
    <2> SUFFICES ASSUME LInv, [LogNext]_logVars, segment # Null, segment' = Null
                 PROVE  /\ segment.items # <<>>
                        /\ \A r \in Reads(segment) : r.ok => LastLsn(r.records) <= manifest.checkpoint_lsn
        OBVIOUS
    <2>1. segment \in SegmentFile /\ segment' \notin SegmentFile
        BY NativeLogAssumption DEF LInv, Types
    <2>2. ASSUME NEW x \in Item PROVE With(x) \in SegmentFile
        BY <2>1, <2>2 DEF With, File, SegmentFile
    <2>3. ASSUME NEW kind, kind \in Kinds \cup {"CHECKPOINT"}, wal # Null, Appended(kind) \/ AppendFailed PROVE FALSE
        <3>1. NextRecord(kind) \in Item /\ Torn \in Item
            BY <2>3 DEF LInv, Types, NextRecord, Record, Item
        <3>2. segment' \in {segment, With(Torn), With(NextRecord(kind))}
            BY <2>3 DEF Appended, AppendFailed
        <3> QED BY <2>1, <2>2, <3>1, <3>2
    <2>4. TruncateBefore
        <3>1. ASSUME NEW exist_ok \in BOOLEAN, CreateBundle(exist_ok) PROVE FALSE
            BY <3>1 DEF CreateBundle
        <3>2. ASSUME NEW kind \in Kinds, WalAppend(kind) PROVE FALSE
            BY <2>3, <3>2 DEF WalAppend
        <3>3. CheckpointMark => FALSE
            BY <2>3 DEF CheckpointMark
        <3>4. OpenBundle \/ ReloadManifest \/ WalOpen \/ CheckpointSave \/ Die \/ UNCHANGED logVars => FALSE
            BY DEF OpenBundle, ReloadManifest, WalOpen, CheckpointSave, Die, logVars
        <3> QED BY <3>1, <3>2, <3>3, <3>4 DEF LogNext
    <2>5. cp # Null /\ cp.pc = "truncate" /\ manifest.checkpoint_lsn = cp.lsn
        BY <2>4 DEF TruncateBefore, LInv, Saved
    <2>6. PICK r \in Reads(segment) : r.ok /\ Removable(r.records, cp.lsn)
        BY <2>4 DEF TruncateBefore
    <2>7. r.records # <<>> /\ LastLsn(r.records) <= cp.lsn
        BY <2>6 DEF Removable
    <2>8. segment.head
        BY <2>1, <2>6, <2>7, ReadsOf
    <2>9. r.records = WholeRecords(segment.items)
        BY <2>6, <2>8 DEF Reads, Read, Broken
    <2>10. ASSUME NEW q \in Reads(segment), q.ok PROVE q.records = r.records
        BY <2>8, <2>9, <2>10 DEF Reads, Read, Broken
    <2>11. segment.items # <<>>
        <3> SUFFICES ASSUME segment.items = <<>> PROVE FALSE
            OBVIOUS
        <3>1. PICK n \in 0..Len(segment.items) : r.records = SubSeq(segment.items, 1, n)
            BY <2>1, <2>6, ReadsOf
        <3>2. r.records = <<>>
            BY <3>1
        <3> QED BY <2>7, <3>2
    <2> QED BY <2>5, <2>7, <2>10, <2>11
<1> QED BY <1>1, SpecL, StepL, PTL DEF LogSpec, PrunedCovered
LEMMA Induct ==
    ASSUME NEW P, 0 \in P, \A i \in Nat : i \in P => i + 1 \in P
    PROVE  \A n \in Nat : n \in P
<1> DEFINE T == {n \in Nat : n \notin P}
<1> SUFFICES ASSUME T # {} PROVE FALSE
    OBVIOUS
<1>1. T \in SUBSET Nat
    OBVIOUS
<1>2. PICK n \in T : \A m \in T : n <= m
    BY <1>1, Least
<1>3. n \in Nat /\ n # 0
    OBVIOUS
<1>4. n - 1 \in Nat /\ ~(n <= n - 1) /\ n - 1 + 1 = n
    BY <1>3
<1>5. n - 1 \in P
    BY <1>2, <1>4
<1> QED BY <1>4, <1>5

(* f starts with b and goes on by the steps g.                                 *)
Steps(f, n, S, b, g) == f \in [0..n -> S] /\ f[0] = b /\ \A i \in 1..n : f[i] = g[i][f[i - 1]]

LEMMA Recursion ==
    ASSUME NEW n \in Nat, NEW S, NEW b \in S, NEW g \in [1..n -> [S -> S]]
    PROVE  \E f : Steps(f, n, S, b, g)
<1> DEFINE Upto(m, f) == f \in [0..m -> S] /\ f[0] = b /\ \A i \in 1..m : f[i] = g[i][f[i - 1]]
           P == {m \in Nat : m <= n => \E f : Upto(m, f)}
<1>1. 0 \in P
    <2>1. Upto(0, [i \in 0..0 |-> b])
        OBVIOUS
    <2> QED BY <2>1
<1>2. ASSUME NEW m \in Nat, m \in P PROVE m + 1 \in P
    <2> SUFFICES ASSUME m + 1 <= n PROVE \E f : Upto(m + 1, f)
        OBVIOUS
    <2>1. PICK f : Upto(m, f)
        BY <1>2
    <2> DEFINE h == [i \in 0..(m + 1) |-> IF i = m + 1 THEN g[m + 1][f[m]] ELSE f[i]]
    <2>2. f[m] \in S /\ m + 1 \in 1..n
        BY <2>1
    <2>3. g[m + 1][f[m]] \in S
        BY <2>2
    <2>4. h \in [0..(m + 1) -> S] /\ h[0] = b
        BY <2>1, <2>3
    <2>5. ASSUME NEW i \in 1..(m + 1) PROVE h[i] = g[i][h[i - 1]]
        <3>1. CASE i = m + 1
            <4>1. i - 1 = m /\ m \in 0..(m + 1) /\ m # m + 1
                BY <3>1
            <4>2. h[i - 1] = f[m]
                BY <4>1
            <4>3. h[i] = g[i][f[m]]
                BY <3>1
            <4> QED BY <4>2, <4>3
        <3>2. CASE i # m + 1
            <4>1. i \in 1..m /\ i - 1 \in 0..m /\ i - 1 # m + 1 /\ i - 1 \in 0..(m + 1)
                BY <3>2
            <4> QED BY <2>1, <3>2, <4>1
        <3> QED BY <3>1, <3>2
    <2> QED BY <2>4, <2>5
<1> HIDE DEF P
<1>3. n \in P
    BY <1>1, <1>2, Induct
<1> QED BY <1>3 DEF P, Steps

(* Sequences are built by Append.                                              *)
LEMMA SeqInduct ==
    ASSUME NEW X, NEW P, <<>> \in P,
           \A s \in Seq(X) : \A x \in X : s \in P => Append(s, x) \in P
    PROVE  \A s \in Seq(X) : s \in P
<1> DEFINE Q == {n \in Nat : \A s \in Seq(X) : Len(s) = n => s \in P}
<1>1. 0 \in Q
    <2>1. \A s \in Seq(X) : Len(s) = 0 => s = <<>>
        OBVIOUS
    <2> QED BY <2>1
<1>2. ASSUME NEW n \in Nat, n \in Q PROVE n + 1 \in Q
    <2> SUFFICES ASSUME NEW s \in Seq(X), Len(s) = n + 1 PROVE s \in P
        OBVIOUS
    <2> DEFINE t == [i \in 1..n |-> s[i]]
    <2>1. \A i \in 1..(n + 1) : s[i] \in X
        OBVIOUS
    <2>2. t \in Seq(X) /\ Len(t) = n
        BY <2>1
    <2>3. Append(t, s[n + 1]) = s
        OBVIOUS
    <2>4. s[n + 1] \in X
        BY <2>1
    <2> HIDE DEF t
    <2>5. t \in P
        BY <1>2, <2>2
    <2> QED BY <2>2, <2>3, <2>4, <2>5
<1> HIDE DEF Q
<1>3. \A n \in Nat : n \in Q
    BY <1>1, <1>2, Induct
<1>4. \A s \in Seq(X) : Len(s) \in Nat
    OBVIOUS
<1> QED BY <1>3, <1>4 DEF Q

LEMMA CatAppend ==
    ASSUME NEW X, NEW s \in Seq(X), NEW t \in Seq(X), NEW x \in X
    PROVE  s \o Append(t, x) = Append(s \o t, x) /\ s \o t \in Seq(X) /\ s \o <<>> = s /\ <<>> \o s = s
OBVIOUS

LEMMA OneMore ==
    ASSUME NEW X, NEW s \in Seq(X), NEW x \in X
    PROVE  /\ Append(s, x) \in Seq(X) /\ Len(s) \in Nat /\ DOMAIN s = 1..Len(s)
           /\ Len(Append(s, x)) = Len(s) + 1 /\ DOMAIN Append(s, x) = 1..(Len(s) + 1)
           /\ Append(s, x)[Len(s) + 1] = x /\ \A i \in 1..Len(s) : Append(s, x)[i] = s[i]
OBVIOUS

LEMMA AppendIs ==
    ASSUME NEW X, NEW s \in Seq(X), NEW x \in X
    PROVE  Append(s, x) = [i \in 1..(Len(s) + 1) |-> IF i = Len(s) + 1 THEN x ELSE s[i]]
<1> DEFINE u == Append(s, x)
<1>1. PICK n \in Nat : n = Len(s) /\ DOMAIN u = 1..(n + 1) /\ u[n + 1] = x /\ \A i \in 1..n : u[i] = s[i]
    <2>1. Len(s) \in Nat
        OBVIOUS
    <2> QED BY <2>1, OneMore
<1>2. u \in Seq(X)
    BY OneMore
<1> HIDE DEF u
<1>3. u = [i \in 1..(n + 1) |-> u[i]]
    BY <1>1, <1>2
<1>4. \A i \in 1..(n + 1) : i # n + 1 => i \in 1..n
    BY <1>1
<1> QED BY <1>1, <1>3, <1>4 DEF u

(* Only, by recursion on the sequence.                                        *)
OnlyBy(f, X, s, T) ==
    /\ f \in [0..Len(s) -> Seq(X)] /\ f[0] = <<>> /\ Only(s, T) = f[Len(s)]
    /\ \A i \in 1..Len(s) : f[i] = IF s[i] \in T THEN Append(f[i - 1], s[i]) ELSE f[i - 1]

LEMMA OnlyRec ==
    ASSUME NEW X, NEW s \in Seq(X), NEW T
    PROVE  \E f : OnlyBy(f, X, s, T)
<1>1. PICK n \in Nat : n = Len(s)
    OBVIOUS
<1> DEFINE g == [i \in 1..n |-> [t \in Seq(X) |-> IF s[i] \in T THEN Append(t, s[i]) ELSE t]]
           Body(f, i) == IF i = 0 THEN <<>> ELSE IF s[i] \in T THEN Append(f[i - 1], s[i]) ELSE f[i - 1]
           Fix(f) == f = [i \in 0..n |-> Body(f, i)]
<1>2. g \in [1..n -> [Seq(X) -> Seq(X)]]
    <2>1. ASSUME NEW i \in 1..n, NEW t \in Seq(X) PROVE (IF s[i] \in T THEN Append(t, s[i]) ELSE t) \in Seq(X)
        BY <1>1
    <2> QED BY <2>1
<1>3. \A i \in 1..n : \A t \in Seq(X) : g[i][t] = IF s[i] \in T THEN Append(t, s[i]) ELSE t
    OBVIOUS
<1> HIDE DEF g
<1>4. PICK f \in [0..n -> Seq(X)] : f[0] = <<>> /\ \A i \in 1..n : f[i] = g[i][f[i - 1]]
    <2>1. <<>> \in Seq(X)
        OBVIOUS
    <2>2. PICK f : Steps(f, n, Seq(X), <<>>, g)
        BY <1>2, <2>1, Recursion
    <2> QED BY <2>2 DEF Steps
<1>5. ASSUME NEW i \in 1..n PROVE f[i] = IF s[i] \in T THEN Append(f[i - 1], s[i]) ELSE f[i - 1]
    <2>1. i - 1 \in 0..n
        OBVIOUS
    <2>2. f[i - 1] \in Seq(X)
        BY <1>4, <2>1
    <2>3. g[i][f[i - 1]] = IF s[i] \in T THEN Append(f[i - 1], s[i]) ELSE f[i - 1]
        BY <1>3, <2>2
    <2> QED BY <1>4, <2>3
<1>6. \A e : Body(e, 0) = <<>>
    OBVIOUS
<1>7. \A e : \A i \in 1..n : Body(e, i) = IF s[i] \in T THEN Append(e[i - 1], s[i]) ELSE e[i - 1]
    OBVIOUS
<1>8. Only(s, T) = (CHOOSE e : Fix(e))[n]
    BY <1>1 DEF Only
<1> HIDE DEF Body
<1>9. Fix(f)
    <2>1. f = [i \in 0..n |-> f[i]]
        BY <1>4
    <2>2. ASSUME NEW i \in 0..n PROVE f[i] = Body(f, i)
        <3>1. CASE i = 0
            BY <1>4, <1>6, <3>1
        <3>2. CASE i \in 1..n
            BY <1>5, <1>7, <3>2
        <3> QED BY <3>1, <3>2
    <2> QED BY <2>1, <2>2
<1> DEFINE h == CHOOSE e : Fix(e)
<1>10. Fix(h)
    <2> HIDE DEF Fix
    <2> QED BY <1>9
<1> HIDE DEF h
<1>11. \A i \in 0..n : h[i] = Body(h, i)
    BY <1>10
<1>12. h[0] = <<>>
    BY <1>6, <1>11
<1>13. \A i \in 1..n : h[i] = IF s[i] \in T THEN Append(h[i - 1], s[i]) ELSE h[i - 1]
    <2>1. \A i \in 1..n : i \in 0..n
        OBVIOUS
    <2> QED BY <1>7, <1>11, <2>1
<1> DEFINE P == {i \in Nat : i <= n => h[i] \in Seq(X)}
<1>14. 0 \in P
    <2>1. <<>> \in Seq(X)
        OBVIOUS
    <2> QED BY <1>12, <2>1
<1>15. ASSUME NEW i \in Nat, i \in P PROVE i + 1 \in P
    <2> SUFFICES ASSUME i + 1 <= n PROVE h[i + 1] \in Seq(X)
        OBVIOUS
    <2>1. h[i] \in Seq(X) /\ i + 1 \in 1..n /\ i + 1 - 1 = i
        BY <1>15
    <2>2. s[i + 1] \in X
        BY <1>1, <2>1
    <2>3. h[i + 1] = IF s[i + 1] \in T THEN Append(h[i], s[i + 1]) ELSE h[i]
        BY <1>13, <2>1
    <2> QED BY <2>1, <2>2, <2>3
<1> HIDE DEF P
<1>16. \A i \in Nat : i \in P
    BY <1>14, <1>15, Induct
<1>17. h \in [0..n -> Seq(X)]
    <2>1. \A i \in 0..n : h[i] \in Seq(X)
        BY <1>16 DEF P
    <2>2. h = [i \in 0..n |-> h[i]]
        BY <1>10
    <2> QED BY <2>1, <2>2
<1>18. OnlyBy(h, X, s, T)
    BY <1>1, <1>8, <1>12, <1>13, <1>17 DEF h, OnlyBy
<1> QED BY <1>18

LEMMA OnlyAppend ==
    ASSUME NEW X, NEW s \in Seq(X), NEW x \in X, NEW T
    PROVE  /\ Only(<<>>, T) = <<>> /\ Only(s, T) \in Seq(X)
           /\ Only(Append(s, x), T) = IF x \in T THEN Append(Only(s, T), x) ELSE Only(s, T)
<1> DEFINE u == Append(s, x)
<1>1. PICK n \in Nat : /\ n = Len(s) /\ Len(u) = n + 1 /\ u \in Seq(X) /\ u[n + 1] = x
                       /\ \A i \in 1..n : u[i] = s[i]
    BY OneMore
<1> HIDE DEF u
<1>2. PICK f : OnlyBy(f, X, s, T)
    BY OnlyRec
<1>3. PICK g : OnlyBy(g, X, u, T)
    BY <1>1, OnlyRec
<1>4. /\ f \in [0..n -> Seq(X)] /\ f[0] = <<>> /\ Only(s, T) = f[n]
      /\ \A i \in 1..n : f[i] = IF s[i] \in T THEN Append(f[i - 1], s[i]) ELSE f[i - 1]
    BY <1>1, <1>2 DEF OnlyBy
<1>5. /\ g[0] = <<>> /\ Only(u, T) = g[n + 1]
      /\ \A i \in 1..(n + 1) : g[i] = IF u[i] \in T THEN Append(g[i - 1], u[i]) ELSE g[i - 1]
    BY <1>1, <1>3 DEF OnlyBy
<1> DEFINE P == {m \in Nat : m <= n => g[m] = f[m]}
<1>6. 0 \in P
    BY <1>4, <1>5
<1>7. ASSUME NEW m \in Nat, m \in P PROVE m + 1 \in P
    <2> SUFFICES ASSUME m + 1 <= n PROVE g[m + 1] = f[m + 1]
        OBVIOUS
    <2>1. g[m] = f[m] /\ m + 1 \in 1..n /\ m + 1 \in 1..(n + 1) /\ m + 1 - 1 = m
        BY <1>7
    <2>2. u[m + 1] = s[m + 1]
        BY <1>1, <2>1
    <2>3. f[m + 1] = IF s[m + 1] \in T THEN Append(f[m], s[m + 1]) ELSE f[m]
        BY <1>4, <2>1
    <2>4. g[m + 1] = IF u[m + 1] \in T THEN Append(g[m], u[m + 1]) ELSE g[m]
        BY <1>5, <2>1
    <2> QED BY <2>1, <2>2, <2>3, <2>4
<1> HIDE DEF P
<1>8. n \in P
    BY <1>6, <1>7, Induct
<1>9. g[n] = f[n]
    BY <1>8 DEF P
<1>10. g[n + 1] = IF u[n + 1] \in T THEN Append(g[n], u[n + 1]) ELSE g[n]
    <2>1. n + 1 \in 1..(n + 1) /\ n + 1 - 1 = n
        BY <1>1
    <2> QED BY <1>5, <2>1
<1>11. Only(u, T) = IF x \in T THEN Append(Only(s, T), x) ELSE Only(s, T)
    BY <1>1, <1>4, <1>5, <1>9, <1>10
<1>12. f[n] \in Seq(X)
    BY <1>4
<1>13. Only(<<>>, T) = <<>>
    <2>1. <<>> \in Seq(X) /\ Len(<<>>) = 0
        OBVIOUS
    <2>2. PICK e : OnlyBy(e, X, <<>>, T)
        BY <2>1, OnlyRec
    <2> QED BY <2>1, <2>2 DEF OnlyBy
<1> QED BY <1>4, <1>11, <1>12, <1>13 DEF u

LEMMA OnlyOf ==
    ASSUME NEW X, NEW s \in Seq(X), NEW T
    PROVE  Only(s, T) \in Seq(X) /\ Only(<<>>, T) = <<>>
<1>1. PICK f : OnlyBy(f, X, s, T)
    BY OnlyRec
<1>2. Len(s) \in 0..Len(s)
    OBVIOUS
<1>3. Only(s, T) \in Seq(X)
    BY <1>1, <1>2 DEF OnlyBy
<1>4. <<>> \in Seq(X) /\ Len(<<>>) = 0
    OBVIOUS
<1>5. PICK e : OnlyBy(e, X, <<>>, T)
    BY <1>4, OnlyRec
<1>6. Only(<<>>, T) = <<>>
    BY <1>4, <1>5 DEF OnlyBy
<1> QED BY <1>3, <1>6

LEMMA OnlyCat ==
    ASSUME NEW X, NEW s \in Seq(X), NEW T
    PROVE  \A t \in Seq(X) : Only(s \o t, T) = Only(s, T) \o Only(t, T)
<1> DEFINE P == {t \in Seq(X) : Only(s \o t, T) = Only(s, T) \o Only(t, T)}
<1>1. <<>> \in P
    <2>1. Only(s, T) \in Seq(X) /\ Only(<<>>, T) = <<>>
        BY OnlyOf
    <2>2. s \o <<>> = s /\ Only(s, T) \o <<>> = Only(s, T) /\ <<>> \in Seq(X)
        BY <2>1
    <2> QED BY <2>1, <2>2
<1>2. ASSUME NEW t \in Seq(X), NEW x \in X, t \in P PROVE Append(t, x) \in P
    <2>1. s \o Append(t, x) = Append(s \o t, x) /\ s \o t \in Seq(X) /\ Append(t, x) \in Seq(X)
        BY CatAppend, OneMore
    <2>2. Only(s, T) \in Seq(X) /\ Only(t, T) \in Seq(X)
        BY OnlyOf
    <2>3. Only(s \o t, T) = Only(s, T) \o Only(t, T)
        BY <1>2
    <2>4. Only(Append(t, x), T) = IF x \in T THEN Append(Only(t, T), x) ELSE Only(t, T)
        BY OnlyAppend
    <2>5. Only(Append(s \o t, x), T) = IF x \in T THEN Append(Only(s \o t, T), x) ELSE Only(s \o t, T)
        <3>1. PICK q \in Seq(X) : q = s \o t
            BY <2>1
        <3>2. Only(Append(q, x), T) = IF x \in T THEN Append(Only(q, T), x) ELSE Only(q, T)
            BY OnlyAppend
        <3> QED BY <3>1, <3>2
    <2>6. Only(s, T) \o Append(Only(t, T), x) = Append(Only(s, T) \o Only(t, T), x)
        BY <2>2, CatAppend
    <2> QED BY <2>1, <2>3, <2>4, <2>5, <2>6
<1> HIDE DEF P
<1>3. \A t \in Seq(X) : t \in P
    BY <1>1, <1>2, SeqInduct
<1> QED BY <1>3 DEF P

LEMMA OnlyJoin ==
    ASSUME NEW X, NEW s \in Seq(X), NEW t \in Seq(X), NEW T
    PROVE  Only(s \o t, T) = Only(s, T) \o Only(t, T)
BY OnlyCat

(* What Only keeps depends on the elements of s alone.                         *)
LEMMA OnlyAgree ==
    ASSUME NEW X, NEW T, NEW U
    PROVE  \A s \in Seq(X) : (\A x \in Range(s) : x \in T <=> x \in U) => Only(s, T) = Only(s, U)
<1> DEFINE P == {s \in Seq(X) : (\A x \in Range(s) : x \in T <=> x \in U) => Only(s, T) = Only(s, U)}
<1>1. <<>> \in P
    <2>1. <<>> \in Seq(X)
        OBVIOUS
    <2> QED BY <2>1, OnlyOf
<1>2. ASSUME NEW s \in Seq(X), NEW x \in X, s \in P PROVE Append(s, x) \in P
    <2>1. Append(s, x) \in Seq(X)
        BY OneMore
    <2>2. ASSUME \A y \in Range(Append(s, x)) : y \in T <=> y \in U
          PROVE  Only(Append(s, x), T) = Only(Append(s, x), U)
        <3>1. x \in Range(Append(s, x)) /\ Range(s) \subseteq Range(Append(s, x))
            <4>1. /\ DOMAIN s = 1..Len(s) /\ Len(s) \in Nat /\ DOMAIN Append(s, x) = 1..(Len(s) + 1)
                  /\ Append(s, x)[Len(s) + 1] = x /\ \A i \in 1..Len(s) : Append(s, x)[i] = s[i]
                BY OneMore
            <4>2. Len(s) + 1 \in 1..(Len(s) + 1) /\ \A i \in 1..Len(s) : i \in 1..(Len(s) + 1)
                BY <4>1
            <4> QED BY <4>1, <4>2 DEF Range
        <3>2. x \in T <=> x \in U
            BY <2>2, <3>1
        <3>3. \A y \in Range(s) : y \in T <=> y \in U
            BY <2>2, <3>1
        <3>4. Only(s, T) = Only(s, U)
            BY <1>2, <3>3
        <3>5. Only(Append(s, x), T) = IF x \in T THEN Append(Only(s, T), x) ELSE Only(s, T)
            BY OnlyAppend
        <3>6. Only(Append(s, x), U) = IF x \in U THEN Append(Only(s, U), x) ELSE Only(s, U)
            BY OnlyAppend
        <3> QED BY <3>2, <3>4, <3>5, <3>6
    <2> QED BY <2>1, <2>2
<1> HIDE DEF P
<1>3. \A s \in Seq(X) : s \in P
    BY <1>1, <1>2, SeqInduct
<1> QED BY <1>3 DEF P

FlatBy(f, X, ss) ==
    /\ \A i \in 1..Len(ss) : f[i] \in Seq(X)
    /\ f[1] = ss[1] /\ \A i \in 2..Len(ss) : f[i] = f[i - 1] \o ss[i]
    /\ FlattenSeq(ss) = f[Len(ss)]

LEMMA FlattenRec ==
    ASSUME NEW X, NEW ss \in Seq(Seq(X)), ss # <<>>
    PROVE  \E f : FlatBy(f, X, ss)
<1>1. PICK n \in Nat : n = Len(ss) /\ n # 0 /\ \A i \in 1..n : ss[i] \in Seq(X)
    OBVIOUS
<1> DEFINE g == [i \in 1..n |-> [t \in Seq(X) |-> IF i = 1 THEN ss[i] ELSE t \o ss[i]]]
           Body(f, i) == IF i = 1 THEN ss[i] ELSE f[i - 1] \o ss[i]
           Fix(f) == f = [i \in 1..n |-> Body(f, i)]
<1>2. g \in [1..n -> [Seq(X) -> Seq(X)]]
    <2>1. ASSUME NEW i \in 1..n, NEW t \in Seq(X) PROVE (IF i = 1 THEN ss[i] ELSE t \o ss[i]) \in Seq(X)
        BY <1>1
    <2> QED BY <2>1
<1>3. \A i \in 1..n : \A t \in Seq(X) : g[i][t] = IF i = 1 THEN ss[i] ELSE t \o ss[i]
    OBVIOUS
<1>4. \A e : Body(e, 1) = ss[1]
    OBVIOUS
<1>5. ASSUME NEW e, NEW i \in 2..n PROVE Body(e, i) = e[i - 1] \o ss[i]
    <2>1. i # 1
        OBVIOUS
    <2> QED BY <2>1, Zenon
<1>6. FlattenSeq(ss) = (CHOOSE e : Fix(e))[n]
    BY <1>1 DEF FlattenSeq
<1> HIDE DEF g, Body
<1>7. PICK f \in [0..n -> Seq(X)] : f[0] = <<>> /\ \A i \in 1..n : f[i] = g[i][f[i - 1]]
    <2>1. <<>> \in Seq(X)
        OBVIOUS
    <2>2. PICK f : Steps(f, n, Seq(X), <<>>, g)
        BY <1>2, <2>1, Recursion
    <2> QED BY <2>2 DEF Steps
<1> DEFINE e0 == [i \in 1..n |-> f[i]]
<1>8. Fix(e0)
    <2>1. ASSUME NEW i \in 1..n PROVE f[i] = Body(e0, i)
        <3>1. f[i - 1] \in Seq(X)
            BY <1>7
        <3>2. f[i] = IF i = 1 THEN ss[i] ELSE f[i - 1] \o ss[i]
            BY <1>3, <1>7, <3>1
        <3>3. CASE i = 1
            BY <1>4, <3>2, <3>3
        <3>4. CASE i # 1
            <4>1. i \in 2..n /\ i - 1 \in 1..n
                BY <3>4
            <4>2. e0[i - 1] = f[i - 1]
                BY <4>1
            <4>3. Body(e0, i) = e0[i - 1] \o ss[i]
                BY <1>5, <4>1
            <4> QED BY <3>2, <3>4, <4>2, <4>3
        <3> QED BY <3>3, <3>4
    <2> QED BY <2>1
<1> DEFINE h == CHOOSE e : Fix(e)
<1>9. Fix(h)
    <2> HIDE DEF Fix, e0
    <2> QED BY <1>8
<1> HIDE DEF h
<1>10. \A i \in 1..n : h[i] = Body(h, i)
    BY <1>9
<1>11. h[1] = ss[1]
    BY <1>1, <1>4, <1>10
<1>12. \A i \in 2..n : h[i] = h[i - 1] \o ss[i]
    <2>1. \A i \in 2..n : i \in 1..n
        OBVIOUS
    <2> QED BY <1>5, <1>10, <2>1
<1> DEFINE P == {i \in Nat : i + 1 <= n => h[i + 1] \in Seq(X)}
<1>13. 0 \in P
    BY <1>1, <1>11
<1>14. ASSUME NEW i \in Nat, i \in P PROVE i + 1 \in P
    <2> SUFFICES ASSUME i + 1 + 1 <= n PROVE h[i + 1 + 1] \in Seq(X)
        OBVIOUS
    <2>1. h[i + 1] \in Seq(X) /\ i + 1 + 1 \in 2..n /\ i + 1 + 1 - 1 = i + 1 /\ i + 1 + 1 \in 1..n
        BY <1>14
    <2>2. ss[i + 1 + 1] \in Seq(X)
        BY <1>1, <2>1
    <2>3. h[i + 1 + 1] = h[i + 1] \o ss[i + 1 + 1]
        <3>1. PICK k \in 2..n : k = i + 1 + 1 /\ k - 1 = i + 1
            BY <2>1
        <3>2. h[k] = h[k - 1] \o ss[k]
            BY <1>12
        <3> QED BY <3>1, <3>2, Zenon
    <2> QED BY <2>1, <2>2, <2>3
<1> HIDE DEF P
<1>15. \A i \in Nat : i \in P
    BY <1>13, <1>14, Induct
<1>16. \A i \in 1..n : h[i] \in Seq(X)
    <2> SUFFICES ASSUME NEW i \in 1..n PROVE h[i] \in Seq(X)
        OBVIOUS
    <2>1. i - 1 \in Nat /\ i - 1 + 1 = i
        OBVIOUS
    <2>2. i - 1 \in P
        BY <1>15, <2>1
    <2> QED BY <2>1, <2>2 DEF P
<1>17. FlatBy(h, X, ss)
    BY <1>1, <1>6, <1>11, <1>12, <1>16 DEF h, FlatBy
<1> QED BY <1>17

LEMMA FlattenAppend ==
    ASSUME NEW X, NEW ss \in Seq(Seq(X)), NEW t \in Seq(X)
    PROVE  /\ FlattenSeq(<<>>) = <<>> /\ FlattenSeq(ss) \in Seq(X)
           /\ FlattenSeq(Append(ss, t)) = FlattenSeq(ss) \o t
<1> DEFINE us == Append(ss, t)
<1>1. PICK n \in Nat : /\ n = Len(ss) /\ Len(us) = n + 1 /\ us \in Seq(Seq(X)) /\ us[n + 1] = t
                       /\ \A i \in 1..n : us[i] = ss[i]
    <2>1. \E n \in Nat : n = Len(ss)
        OBVIOUS
    <2> QED BY <2>1, OneMore
<1> HIDE DEF us
<1>2. us # <<>>
    <2>1. Len(<<>>) = 0 /\ n + 1 # 0
        BY <1>1
    <2> QED BY <1>1, <2>1
<1>3. FlattenSeq(<<>>) = <<>>
    BY DEF FlattenSeq
<1>4. PICK g : FlatBy(g, X, us)
    BY <1>1, <1>2, FlattenRec
<1>5. g[1] = us[1] /\ FlattenSeq(us) = g[n + 1] /\ \A i \in 2..(n + 1) : g[i] = g[i - 1] \o us[i]
    BY <1>1, <1>4 DEF FlatBy
<1>6. CASE ss = <<>>
    <2>1. n = 0
        BY <1>1, <1>6
    <2>2. FlattenSeq(us) = t
        BY <1>1, <1>5, <2>1
    <2>3. <<>> \o t = t /\ <<>> \in Seq(X)
        OBVIOUS
    <2> QED BY <1>3, <1>6, <2>2, <2>3 DEF us
<1>7. CASE ss # <<>>
    <2>1. n # 0
        BY <1>1, <1>7
    <2>2. PICK f : FlatBy(f, X, ss)
        BY <1>7, FlattenRec
    <2>3. /\ \A i \in 1..n : f[i] \in Seq(X)
          /\ f[1] = ss[1] /\ FlattenSeq(ss) = f[n] /\ \A i \in 2..n : f[i] = f[i - 1] \o ss[i]
        BY <1>1, <2>2 DEF FlatBy
    <2> DEFINE P == {m \in Nat : m + 1 <= n => g[m + 1] = f[m + 1]}
    <2>4. 0 \in P
        <3>1. 1 \in 1..n
            BY <2>1
        <3> QED BY <1>1, <1>5, <2>3, <3>1
    <2>5. ASSUME NEW m \in Nat, m \in P PROVE m + 1 \in P
        <3> SUFFICES ASSUME m + 1 + 1 <= n PROVE g[m + 1 + 1] = f[m + 1 + 1]
            OBVIOUS
        <3>1. PICK k \in 2..n : k = m + 1 + 1 /\ k - 1 = m + 1 /\ k \in 1..n /\ k \in 2..(n + 1)
            BY <1>1
        <3>2. g[k - 1] = f[k - 1]
            BY <2>5, <3>1
        <3>3. g[k] = g[k - 1] \o us[k] /\ us[k] = ss[k]
            BY <1>1, <1>5, <3>1
        <3>4. f[k] = f[k - 1] \o ss[k]
            BY <2>3, <3>1
        <3>5. g[k] = f[k]
            BY <3>2, <3>3, <3>4
        <3> QED BY <3>1, <3>5
    <2> HIDE DEF P
    <2>6. PICK m \in Nat : m + 1 = n
        <3>1. n - 1 \in Nat /\ n - 1 + 1 = n
            BY <1>1, <2>1
        <3> QED BY <3>1
    <2>7. m \in P
        BY <2>4, <2>5, Induct
    <2>8. g[n] = f[n]
        BY <2>6, <2>7 DEF P
    <2>9. g[n + 1] = g[n] \o us[n + 1]
        <3>1. PICK k \in 2..(n + 1) : k = n + 1 /\ k - 1 = n
            BY <1>1, <2>1
        <3>2. g[k] = g[k - 1] \o us[k]
            BY <1>5
        <3> QED BY <3>1, <3>2
    <2>10. FlattenSeq(us) = FlattenSeq(ss) \o t
        BY <1>1, <1>5, <2>3, <2>8, <2>9
    <2>11. f[n] \in Seq(X)
        <3>1. n \in 1..n
            BY <1>1, <2>1
        <3> QED BY <2>3, <3>1
    <2> QED BY <1>3, <2>3, <2>10, <2>11 DEF us
<1> QED BY <1>6, <1>7

LEMMA FlattenOf ==
    ASSUME NEW X, NEW ss \in Seq(Seq(X))
    PROVE  FlattenSeq(<<>>) = <<>> /\ FlattenSeq(ss) \in Seq(X)
<1>1. <<>> \in Seq(X)
    OBVIOUS
<1> QED BY <1>1, FlattenAppend

(* Filtering the parts is filtering the whole.                                 *)
OnlyEach(ss, T) == [i \in DOMAIN ss |-> Only(ss[i], T)]

LEMMA OnlyFlatten ==
    ASSUME NEW X, NEW T
    PROVE  \A ss \in Seq(Seq(X)) : /\ OnlyEach(ss, T) \in Seq(Seq(X))
                                    /\ FlattenSeq(OnlyEach(ss, T)) = Only(FlattenSeq(ss), T)
<1> DEFINE Y == Seq(X)
           P == {ss \in Seq(Y) : /\ OnlyEach(ss, T) \in Seq(Y)
                                 /\ FlattenSeq(OnlyEach(ss, T)) = Only(FlattenSeq(ss), T)}
<1>1. <<>> \in P
    <2>1. OnlyEach(<<>>, T) = <<>> /\ <<>> \in Seq(Y) /\ <<>> \in Seq(X)
        BY DEF OnlyEach
    <2>2. FlattenSeq(<<>>) = <<>>
        BY <2>1, FlattenOf
    <2>3. Only(<<>>, T) = <<>>
        BY <2>1, OnlyOf
    <2> QED BY <2>1, <2>2, <2>3
<1>2. ASSUME NEW ss \in Seq(Y), NEW t \in Y, ss \in P PROVE Append(ss, t) \in P
    <2> DEFINE e == OnlyEach(ss, T)
    <2>1. e \in Seq(Y) /\ FlattenSeq(e) = Only(FlattenSeq(ss), T)
        BY <1>2
    <2>2. Only(t, T) \in Seq(X)
        BY OnlyOf
    <2>3. OnlyEach(Append(ss, t), T) = Append(e, Only(t, T))
        <3>1. /\ Len(ss) \in Nat /\ DOMAIN ss = 1..Len(ss) /\ DOMAIN Append(ss, t) = 1..(Len(ss) + 1)
              /\ Append(ss, t)[Len(ss) + 1] = t /\ \A i \in 1..Len(ss) : Append(ss, t)[i] = ss[i]
            BY OneMore
        <3>2. DOMAIN e = 1..Len(ss) /\ \A i \in 1..Len(ss) : e[i] = Only(ss[i], T)
            BY <3>1 DEF OnlyEach
        <3>3. OnlyEach(Append(ss, t), T)
                = [i \in 1..(Len(ss) + 1) |-> IF i = Len(ss) + 1 THEN Only(t, T) ELSE Only(ss[i], T)]
            BY <3>1 DEF OnlyEach
        <3> HIDE DEF e
        <3>4. Len(e) = Len(ss)
            BY <2>1, <3>1, <3>2
        <3>5. Append(e, Only(t, T))
                = [i \in 1..(Len(ss) + 1) |-> IF i = Len(ss) + 1 THEN Only(t, T) ELSE e[i]]
            <4>1. PICK o \in Y : o = Only(t, T)
                BY <2>2
            <4> HIDE DEF Y
            <4>2. Append(e, o) = [i \in 1..(Len(e) + 1) |-> IF i = Len(e) + 1 THEN o ELSE e[i]]
                BY <2>1, AppendIs
            <4> QED BY <3>4, <4>1, <4>2
        <3>6. \A i \in 1..(Len(ss) + 1) : i # Len(ss) + 1 => i \in 1..Len(ss)
            BY <3>1
        <3> QED BY <3>2, <3>3, <3>5, <3>6
    <2> HIDE DEF e
    <2>4. FlattenSeq(Append(ss, t)) = FlattenSeq(ss) \o t /\ FlattenSeq(ss) \in Seq(X)
        BY FlattenAppend
    <2>5. FlattenSeq(Append(e, Only(t, T))) = FlattenSeq(e) \o Only(t, T)
        BY <2>1, <2>2, FlattenAppend
    <2>6. Only(FlattenSeq(ss) \o t, T) = Only(FlattenSeq(ss), T) \o Only(t, T)
        BY <2>4, OnlyCat
    <2>7. Append(ss, t) \in Seq(Y) /\ Append(e, Only(t, T)) \in Seq(Y)
        BY <2>1, <2>2, OneMore
    <2> QED BY <2>1, <2>3, <2>4, <2>5, <2>6, <2>7
<1> HIDE DEF P, Y
<1>3. \A ss \in Seq(Y) : ss \in P
    BY <1>1, <1>2, SeqInduct
<1> QED BY <1>3 DEF P, Y

(* Filtering the images is taking the images of what is kept.                  *)
Image(s, g) == [i \in DOMAIN s |-> g[s[i]]]

LEMMA ImageAppend ==
    ASSUME NEW X, NEW Y, NEW g \in [X -> Y], NEW s \in Seq(X), NEW x \in X
    PROVE  /\ Image(s, g) \in Seq(Y) /\ Len(Image(s, g)) = Len(s) /\ Image(<<>>, g) = <<>>
           /\ Image(Append(s, x), g) = Append(Image(s, g), g[x])
<1>1. /\ Len(s) \in Nat /\ DOMAIN s = 1..Len(s) /\ DOMAIN Append(s, x) = 1..(Len(s) + 1)
      /\ Append(s, x)[Len(s) + 1] = x /\ \A i \in 1..Len(s) : Append(s, x)[i] = s[i] /\ s[i] \in X
    BY OneMore
<1> DEFINE e == Image(s, g)
<1>2. e = [i \in 1..Len(s) |-> g[s[i]]] /\ \A i \in 1..Len(s) : g[s[i]] \in Y
    BY <1>1 DEF Image
<1>3. e \in Seq(Y) /\ Len(e) = Len(s) /\ \A i \in 1..Len(s) : e[i] = g[s[i]]
    BY <1>1, <1>2
<1>4. Image(Append(s, x), g) = [i \in 1..(Len(s) + 1) |-> IF i = Len(s) + 1 THEN g[x] ELSE g[s[i]]]
    BY <1>1 DEF Image
<1> HIDE DEF e
<1>5. g[x] \in Y
    OBVIOUS
<1>6. Append(e, g[x]) = [i \in 1..(Len(s) + 1) |-> IF i = Len(s) + 1 THEN g[x] ELSE e[i]]
    BY <1>3, <1>5
<1>7. \A i \in 1..(Len(s) + 1) : i # Len(s) + 1 => i \in 1..Len(s)
    BY <1>1
<1>8. Image(Append(s, x), g) = Append(e, g[x])
    BY <1>3, <1>4, <1>6, <1>7
<1>9. Image(<<>>, g) = <<>>
    BY DEF Image
<1> QED BY <1>3, <1>8, <1>9 DEF e

LEMMA OnlyNext ==
    ASSUME NEW X, NEW s \in Seq(X), NEW x \in X, NEW T
    PROVE  Only(Append(s, x), T) = IF x \in T THEN Append(Only(s, T), x) ELSE Only(s, T)
BY OnlyAppend

LEMMA OnlyImage ==
    ASSUME NEW X, NEW Y, NEW g \in [X -> Y], NEW T, NEW U, \A x \in X : x \in T <=> g[x] \in U
    PROVE  \A s \in Seq(X) : Only(Image(s, g), U) = Image(Only(s, T), g)
<1> DEFINE P == {s \in Seq(X) : Only(Image(s, g), U) = Image(Only(s, T), g)}
<1>1. <<>> \in P
    <2>1. Image(<<>>, g) = <<>> /\ <<>> \in Seq(X) /\ <<>> \in Seq(Y)
        BY DEF Image
    <2>2. Only(<<>>, U) = <<>>
        BY <2>1, OnlyOf
    <2>3. Only(<<>>, T) = <<>>
        BY <2>1, OnlyOf
    <2> QED BY <2>1, <2>2, <2>3
<1>2. ASSUME NEW s \in Seq(X), NEW x \in X, s \in P PROVE Append(s, x) \in P
    <2> DEFINE e == Image(s, g)
               o == Only(s, T)
    <2>1. Only(e, U) = Image(o, g)
        BY <1>2
    <2>2. Image(Append(s, x), g) = Append(e, g[x]) /\ e \in Seq(Y) /\ g[x] \in Y
        BY ImageAppend
    <2>3. Only(Append(s, x), T) = (IF x \in T THEN Append(o, x) ELSE o) /\ o \in Seq(X)
        BY OnlyAppend
    <2> HIDE DEF e, o
    <2>4. Only(Append(e, g[x]), U) = IF g[x] \in U THEN Append(Only(e, U), g[x]) ELSE Only(e, U)
        <3>1. PICK y \in Y : y = g[x]
            BY <2>2
        <3>2. e \in Seq(Y)
            BY <2>2
        <3>3. Only(Append(e, y), U) = IF y \in U THEN Append(Only(e, U), y) ELSE Only(e, U)
            BY <3>2, OnlyNext, Zenon
        <3> QED BY <3>1, <3>3
    <2>5. Image(Append(o, x), g) = Append(Image(o, g), g[x])
        <3>1. o \in Seq(X)
            BY <2>3
        <3> QED BY <3>1, ImageAppend
    <2>6. x \in T <=> g[x] \in U
        OBVIOUS
    <2>7. Append(s, x) \in Seq(X)
        BY OneMore
    <2> QED BY <2>1, <2>2, <2>3, <2>4, <2>5, <2>6, <2>7
<1> HIDE DEF P
<1>3. \A s \in Seq(X) : s \in P
    BY <1>1, <1>2, SeqInduct
<1> QED BY <1>3 DEF P

-----------------------------------------------------------------------------
(* Rows, numbered on from a given id.                                          *)
Numbered(q, start) == \A k \in 1..Len(q) : q[k].id = start + k - 1

LEMMA NumberedCat ==
    ASSUME NEW q \in Seq(StoredRow), NEW r \in Seq(StoredRow), NEW a \in Nat, NEW b \in Nat,
           b = a + Len(q), Numbered(q, a), Numbered(r, b)
    PROVE  q \o r \in Seq(StoredRow) /\ Len(q \o r) = Len(q) + Len(r) /\ Numbered(q \o r, a)
<1>1. /\ q \o r \in Seq(StoredRow) /\ Len(q \o r) = Len(q) + Len(r) /\ Len(q) \in Nat /\ Len(r) \in Nat
      /\ \A i \in 1..Len(q) : (q \o r)[i] = q[i]
      /\ \A i \in 1..Len(r) : (q \o r)[Len(q) + i] = r[i]
    BY ConcatProperties
<1>2. ASSUME NEW k \in 1..(Len(q) + Len(r)) PROVE (q \o r)[k].id = a + k - 1
    <2>1. CASE k <= Len(q)
        <3>1. k \in 1..Len(q)
            BY <1>1, <2>1
        <3> QED BY <1>1, <3>1 DEF Numbered
    <2>2. CASE ~(k <= Len(q))
        <3>1. PICK i \in 1..Len(r) : k = Len(q) + i
            <4>1. k - Len(q) \in 1..Len(r) /\ k = Len(q) + (k - Len(q))
                BY <1>1, <2>2
            <4> QED BY <4>1
        <3>2. (q \o r)[k] = r[i]
            BY <1>1, <3>1
        <3>3. r[i].id = b + i - 1
            BY DEF Numbered
        <3> QED BY <1>1, <3>1, <3>2, <3>3
    <2> QED BY <2>1, <2>2
<1> QED BY <1>1, <1>2 DEF Numbered

(* add_store_columns on one record batch, and on all of them.                  *)
Stamp(part, start, lsn) ==
    [i \in DOMAIN part |-> [id |-> start + i - 1, val |-> part[i], created |-> lsn]]
Stamped(parts, start, lsn) ==
    [p \in DOMAIN parts |-> Stamp(parts[p], start + Len(Rows(SubSeq(parts, 1, p - 1))), lsn)]

LEMMA StampOf ==
    ASSUME NEW part \in Seq(Values), NEW start \in Nat, NEW lsn \in Lsns
    PROVE  /\ Stamp(part, start, lsn) \in Seq(StoredRow) /\ Len(Stamp(part, start, lsn)) = Len(part)
           /\ Numbered(Stamp(part, start, lsn), start)
<1>1. PICK n \in Nat : n = Len(part) /\ DOMAIN part = 1..n /\ \A i \in 1..n : part[i] \in Values
    OBVIOUS
<1> DEFINE s == Stamp(part, start, lsn)
<1>2. /\ DOMAIN s = 1..n /\ s = [i \in 1..n |-> s[i]]
      /\ \A i \in 1..n : s[i] = [id |-> start + i - 1, val |-> part[i], created |-> lsn]
    BY <1>1 DEF Stamp
<1> HIDE DEF s
<1>3. \A i \in 1..n : s[i] \in StoredRow /\ s[i].id = start + i - 1
    BY <1>1, <1>2 DEF StoredRow
<1>4. s \in [1..n -> StoredRow]
    BY <1>2, <1>3
<1>5. s \in Seq(StoredRow) /\ Len(s) = n
    BY <1>2, <1>4
<1> QED BY <1>1, <1>3, <1>5 DEF s, Numbered

LEMMA StampedRows ==
    ASSUME NEW start \in Nat, NEW lsn \in Lsns
    PROVE  \A parts \in Seq(Seq(Values)) :
              /\ Stamped(parts, start, lsn) \in Seq(Seq(StoredRow))
              /\ Len(Rows(parts)) \in Nat
              /\ Len(Rows(Stamped(parts, start, lsn))) = Len(Rows(parts))
              /\ Numbered(Rows(Stamped(parts, start, lsn)), start)
<1> DEFINE Y == Seq(Values)
           Z == Seq(StoredRow)
           St(parts) == Stamped(parts, start, lsn)
           P == {parts \in Seq(Y) :
                    /\ St(parts) \in Seq(Z) /\ Len(Rows(parts)) \in Nat
                    /\ Len(Rows(St(parts))) = Len(Rows(parts)) /\ Numbered(Rows(St(parts)), start)}
<1>1. <<>> \in P
    <2>1. St(<<>>) = <<>> /\ <<>> \in Seq(Y) /\ <<>> \in Seq(Z) /\ <<>> \in Seq(Seq(Values)) /\ Len(<<>>) = 0
        BY DEF Stamped
    <2>2. Rows(<<>>) = <<>>
        BY <2>1, FlattenOf DEF Rows
    <2>3. Numbered(<<>>, start)
        BY <2>1 DEF Numbered
    <2> HIDE DEF St
    <2> QED BY <2>1, <2>2, <2>3
<1>2. ASSUME NEW ss \in Seq(Y), NEW t \in Y, ss \in P PROVE Append(ss, t) \in P
    <2> DEFINE u == Append(ss, t)
               e == St(ss)
               b == start + Len(Rows(ss))
               last == Stamp(t, b, lsn)
    <2>1. /\ e \in Seq(Z) /\ Len(Rows(ss)) \in Nat
          /\ Len(Rows(e)) = Len(Rows(ss)) /\ Numbered(Rows(e), start)
        BY <1>2
    <2>2. b \in Nat
        BY <2>1
    <2> HIDE DEF b
    <2>3. last \in Z /\ Len(last) = Len(t) /\ Numbered(last, b)
        BY <2>2, StampOf
    <2>4. PICK n \in Nat : /\ n = Len(ss) /\ DOMAIN ss = 1..n /\ DOMAIN u = 1..(n + 1)
                           /\ u[n + 1] = t /\ (\A i \in 1..n : u[i] = ss[i]) /\ u \in Seq(Y) /\ Len(u) = n + 1
        <3>1. Len(ss) \in Nat
            OBVIOUS
        <3> QED BY <3>1, OneMore
    <2>5. ASSUME NEW p \in 1..(n + 1) PROVE SubSeq(u, 1, p - 1) = SubSeq(ss, 1, p - 1)
        <3> HIDE DEF u, e, last
        <3>1. \A i \in 1..(p - 1) : i \in 1..n
            BY <2>4
        <3>2. SubSeq(u, 1, p - 1) = [i \in 1..(p - 1) |-> u[i]] /\ SubSeq(ss, 1, p - 1) = [i \in 1..(p - 1) |-> ss[i]]
            BY <2>4
        <3> QED BY <2>4, <3>1, <3>2
    <2>6. SubSeq(ss, 1, n + 1 - 1) = ss
        BY <2>4
    <2>7. /\ e = [p \in 1..n |-> Stamp(ss[p], start + Len(Rows(SubSeq(ss, 1, p - 1))), lsn)]
          /\ St(u) = [p \in 1..(n + 1) |-> Stamp(u[p], start + Len(Rows(SubSeq(u, 1, p - 1))), lsn)]
        BY <2>4 DEF Stamped
    <2> HIDE DEF u, e, last
    <2>8. Len(e) = n
        BY <2>1, <2>4, <2>7
    <2>9. Append(e, last) = [p \in 1..(n + 1) |-> IF p = n + 1 THEN last ELSE e[p]]
        <3>1. e \in Seq(Z) /\ last \in Z
            BY <2>1, <2>3
        <3> HIDE DEF Z
        <3>2. Append(e, last) = [p \in 1..(Len(e) + 1) |-> IF p = Len(e) + 1 THEN last ELSE e[p]]
            BY <3>1, AppendIs
        <3> QED BY <2>8, <3>2
    <2>10. \A p \in 1..(n + 1) : St(u)[p] = IF p = n + 1 THEN last ELSE e[p]
        <3> SUFFICES ASSUME NEW p \in 1..(n + 1) PROVE St(u)[p] = IF p = n + 1 THEN last ELSE e[p]
            OBVIOUS
        <3>1. St(u)[p] = Stamp(u[p], start + Len(Rows(SubSeq(ss, 1, p - 1))), lsn)
            BY <2>5, <2>7
        <3> HIDE DEF St
        <3>2. CASE p = n + 1
            <4>1. SubSeq(ss, 1, p - 1) = ss /\ u[p] = t
                BY <2>4, <2>6, <3>2
            <4> QED BY <3>1, <3>2, <4>1 DEF last, b
        <3>3. CASE p # n + 1
            <4>1. p \in 1..n
                BY <3>3
            <4>2. e[p] = Stamp(ss[p], start + Len(Rows(SubSeq(ss, 1, p - 1))), lsn)
                BY <2>7, <4>1
            <4> QED BY <2>4, <3>1, <3>3, <4>1, <4>2
        <3> QED BY <3>2, <3>3
    <2>11. St(u) = [p \in 1..(n + 1) |-> St(u)[p]]
        BY <2>7
    <2> HIDE DEF St
    <2>12. St(u) = Append(e, last)
        BY <2>9, <2>10, <2>11
    <2>13. Rows(St(u)) = Rows(e) \o last /\ Rows(e) \in Z
        BY <2>1, <2>3, <2>12, FlattenAppend DEF Rows
    <2>14. Rows(u) = Rows(ss) \o t /\ Rows(ss) \in Y
        BY FlattenAppend DEF Rows, u
    <2>15. Len(Rows(u)) = Len(Rows(ss)) + Len(t) /\ Len(t) \in Nat
        BY <2>14, ConcatProperties
    <2>16. b = start + Len(Rows(e))
        BY <2>1 DEF b
    <2>17. PICK q \in Z : q = Rows(e)
        BY <2>13
    <2>18. q \o last \in Z /\ Len(q \o last) = Len(q) + Len(last) /\ Numbered(q \o last, start)
        BY <2>1, <2>2, <2>3, <2>16, <2>17, NumberedCat
    <2>19. St(u) \in Seq(Z)
        BY <2>1, <2>3, <2>12, OneMore
    <2>20. Rows(St(u)) = q \o last
        BY <2>13, <2>17
    <2>21. Len(Rows(St(u))) = Len(Rows(u))
        BY <2>1, <2>3, <2>15, <2>17, <2>18, <2>20
    <2>22. Len(Rows(u)) \in Nat
        BY <2>1, <2>15
    <2>23. Numbered(Rows(St(u)), start)
        BY <2>18, <2>20
    <2>24. u \in P
        BY <2>4, <2>19, <2>21, <2>22, <2>23
    <2> QED BY <2>24 DEF u
<1> HIDE DEF P, Y, Z, St
<1>3. \A parts \in Seq(Y) : parts \in P
    BY <1>1, <1>2, SeqInduct
<1> QED BY <1>3 DEF P, Y, Z, St

-----------------------------------------------------------------------------
(* Columns: what an append adds to the schema is what a comparison leaves out. *)
Admitted(b) == b \in Batches /\ Reserved \cap Range(b.schema) = {}

LEMMA OnlyAll ==
    ASSUME NEW X, NEW T
    PROVE  \A s \in Seq(X) : Range(s) \subseteq T => Only(s, T) = s
<1> DEFINE P == {s \in Seq(X) : Range(s) \subseteq T => Only(s, T) = s}
<1>1. <<>> \in P
    <2>1. <<>> \in Seq(X)
        OBVIOUS
    <2> QED BY <2>1, OnlyOf
<1>2. ASSUME NEW s \in Seq(X), NEW x \in X, s \in P PROVE Append(s, x) \in P
    <2>1. Append(s, x) \in Seq(X)
        BY OneMore
    <2>2. ASSUME Range(Append(s, x)) \subseteq T PROVE Only(Append(s, x), T) = Append(s, x)
        <3>1. x \in Range(Append(s, x)) /\ Range(s) \subseteq Range(Append(s, x))
            <4>1. /\ DOMAIN s = 1..Len(s) /\ Len(s) \in Nat /\ DOMAIN Append(s, x) = 1..(Len(s) + 1)
                  /\ Append(s, x)[Len(s) + 1] = x /\ \A i \in 1..Len(s) : Append(s, x)[i] = s[i]
                BY OneMore
            <4>2. Len(s) + 1 \in 1..(Len(s) + 1) /\ \A i \in 1..Len(s) : i \in 1..(Len(s) + 1)
                BY <4>1
            <4> QED BY <4>1, <4>2 DEF Range
        <3>2. x \in T /\ Only(s, T) = s
            BY <1>2, <2>2, <3>1
        <3>3. Only(Append(s, x), T) = IF x \in T THEN Append(Only(s, T), x) ELSE Only(s, T)
            BY OnlyAppend
        <3> QED BY <3>2, <3>3
    <2> QED BY <2>1, <2>2
<1> HIDE DEF P
<1>3. \A s \in Seq(X) : s \in P
    BY <1>1, <1>2, SeqInduct
<1> QED BY <1>3 DEF P

LEMMA WithoutIs ==
    ASSUME NEW X, NEW s \in Seq(X), NEW S
    PROVE  Without(s, S) = Only(s, X \ S)
<1>1. Range(s) \subseteq X
    BY DEF Range
<1>2. \A x \in Range(s) : x \in Range(s) \ S <=> x \in X \ S
    BY <1>1
<1> QED BY <1>2, OnlyAgree DEF Without

LEMMA OnlyOne ==
    ASSUME NEW X, NEW x \in X, NEW S, NEW one \in Seq(X), one = <<x>>
    PROVE  Only(one, S) = IF x \in S THEN one ELSE <<>>
<1>1. PICK none \in Seq(X) : none = <<>>
    <2>1. <<>> \in Seq(X)
        OBVIOUS
    <2> QED BY <2>1
<1>2. one = Append(none, x)
    BY <1>1
<1>3. Only(Append(none, x), S) = IF x \in S THEN Append(Only(none, S), x) ELSE Only(none, S)
    BY OnlyNext
<1>4. Only(none, S) = none
    BY <1>1, OnlyOf
<1> QED BY <1>1, <1>2, <1>3, <1>4

LEMMA PublicBack ==
    ASSUME NEW b, Admitted(b)
    PROVE  /\ StoreSchema(b) \in Seq(Columns) /\ Public(b.schema) = b.schema
           /\ Without(Public(StoreSchema(b)), {"id"}) = b.schema
<1>1. PICK s \in Seq(Columns) : s = b.schema
    BY NativeStoreAssumption DEF Admitted
<1> DEFINE c == "_created_lsn"
           d == "_deleted_lsn"
           T == Columns \ {c, d}
           U == Columns \ {"id"}
<1>2. "id" \in Columns /\ c \in Columns /\ d \in Columns /\ "id" # c /\ "id" # d /\ c # d
    <2>1. "id" \in Columns /\ c \in Columns /\ d \in Columns
        <3> DEFINE A == UNION {Range(a.schema) : a \in Batches}
        <3>1. Columns = A \cup {"id", "_created_lsn", "_deleted_lsn"}
            BY DEF Columns
        <3> HIDE DEF A
        <3> QED BY <3>1
    <2>2. "id" # "_created_lsn" /\ "id" # "_deleted_lsn" /\ "_created_lsn" # "_deleted_lsn"
        OBVIOUS
    <2> QED BY <2>1, <2>2
<1>3. Range(s) \subseteq T /\ Range(s) \subseteq U
    <2>1. Range(s) \subseteq Columns
        BY DEF Range
    <2> QED BY <1>1, <2>1 DEF Admitted, Reserved
<1> HIDE DEF c, d, T, U
<1>4. <<"id">> \in Seq(Columns) /\ <<c, d>> \in Seq(Columns) /\ <<>> \in Seq(Columns) /\ <<c>> \in Seq(Columns)
    BY <1>2
<1>5. <<"id">> \o s \in Seq(Columns) /\ StoreSchema(b) = (<<"id">> \o s) \o <<c, d>>
    BY <1>1, <1>4 DEF StoreSchema, c, d
<1>6. StoreSchema(b) \in Seq(Columns)
    BY <1>4, <1>5
<1>7. Only(s, T) = s /\ Only(s, U) = s
    <2>1. Only(s, T) = s
        BY <1>1, <1>3, OnlyAll
    <2>2. Only(s, U) = s
        BY <1>1, <1>3, OnlyAll
    <2> QED BY <2>1, <2>2
<1>8. PICK x \in Columns : x = "id"
    BY <1>2
<1>9. PICK i \in Seq(Columns) : i = <<"id">>
    BY <1>4
<1>10. PICK e \in Seq(Columns) : e = <<c>>
    BY <1>4
<1>11. PICK g \in Seq(Columns) : g = <<c, d>>
    BY <1>4
<1>12. PICK q \in Seq(Columns) : q = i \o s
    BY <1>5, <1>9
<1>13. StoreSchema(b) = q \o g
    BY <1>5, <1>9, <1>11, <1>12
<1>14. Only(i, T) = i /\ Only(i, U) = <<>>
    <2>0. i = <<x>>
        BY <1>8, <1>9
    <2>1. Only(i, T) = IF x \in T THEN i ELSE <<>>
        BY <2>0, OnlyOne
    <2>2. Only(i, U) = IF x \in U THEN i ELSE <<>>
        BY <2>0, OnlyOne
    <2>3. x \in T /\ x \notin U
        BY <1>2, <1>8 DEF T, U
    <2> QED BY <2>1, <2>2, <2>3
<1>15. Only(g, T) = <<>>
    <2>1. g = Append(e, d)
        BY <1>10, <1>11
    <2>2. Only(Append(e, d), T) = IF d \in T THEN Append(Only(e, T), d) ELSE Only(e, T)
        BY <1>2, OnlyNext, Zenon
    <2>3. Only(e, T) = IF c \in T THEN e ELSE <<>>
        BY <1>2, <1>10, OnlyOne
    <2>4. c \notin T /\ d \notin T
        BY DEF T
    <2> QED BY <2>1, <2>2, <2>3, <2>4
<1>16. Only(q, T) = q /\ Only(q, U) = s
    <2>1. Only(i \o s, T) = Only(i, T) \o Only(s, T)
        BY SMTT(40), OnlyJoin
    <2>2. Only(i \o s, U) = Only(i, U) \o Only(s, U)
        BY SMTT(40), OnlyJoin
    <2>3. <<>> \o s = s
        BY <1>1
    <2> QED BY <1>7, <1>12, <1>14, <2>1, <2>2, <2>3
<1>17. Only(StoreSchema(b), T) = q
    <2>1. Only(q \o g, T) = Only(q, T) \o Only(g, T)
        BY SMTT(40), OnlyJoin
    <2>2. q \o <<>> = q
        OBVIOUS
    <2> QED BY <1>13, <1>15, <1>16, <2>1, <2>2
<1>18. Public(StoreSchema(b)) = q
    BY <1>6, <1>17, WithoutIs DEF Public, T, c, d
<1>19. Public(s) = s
    BY <1>1, <1>7, WithoutIs DEF Public, T, c, d
<1>20. Without(q, {"id"}) = Only(q, U)
    BY WithoutIs DEF U
<1> QED BY <1>6, <1>16, <1>18, <1>19, <1>20, <1>1

-----------------------------------------------------------------------------
(* A store: its manifest m, its chunk files fs, the rows k of the appends that *)
(* were saved.                                                                 *)
KeptRow == [val : Values, created : Lsns]

GoodFile(f, start) ==
    /\ f \in SegmentType /\ Decodes(f) /\ Numbered(Rows(f.parts), start)
    /\ \E b \in Batches : Admitted(b) /\ f.schema = StoreSchema(b)

Contents(m, fs) == FlattenSeq([i \in DOMAIN m.chunks |-> Rows(fs[m.chunks[i].path].parts)])
WithIds(k) == [i \in 1..Len(k) |-> [id |-> i - 1, val |-> k[i].val, created |-> k[i].created]]
Bare(q) == [i \in DOMAIN q |-> [val |-> q[i].val, created |-> q[i].created]]

ChunkOK(m, fs, i) ==
    /\ m.chunks[i].path = i /\ GoodFile(fs[i], m.chunks[i].start)
    /\ m.chunks[i].start = IF i = 1 THEN 0 ELSE m.chunks[i - 1].end
    /\ m.chunks[i].end = m.chunks[i].start + Len(Rows(fs[i].parts))
    /\ fs[i].schema = fs[1].schema

StoreOK(m, fs, k) ==
    /\ m \in StoreManifest /\ Len(m.chunks) <= MaxChunks
    /\ \A i \in 1..Len(m.chunks) : ChunkOK(m, fs, i)
    /\ m.next = IF Len(m.chunks) = 0 THEN 0 ELSE m.chunks[Len(m.chunks)].end
    /\ k \in Seq(KeptRow) /\ Len(k) = m.next
    /\ Contents(m, fs) = WithIds(k)

LEMMA CatOf ==
    ASSUME NEW X, NEW s \in Seq(X), NEW t \in Seq(X)
    PROVE  /\ s \o t \in Seq(X) /\ Len(s \o t) = Len(s) + Len(t)
           /\ \A i \in 1..Len(s) : (s \o t)[i] = s[i]
           /\ \A i \in 1..Len(t) : (s \o t)[Len(s) + i] = t[i]
BY ConcatProperties

LEMMA RowsOf ==
    ASSUME NEW f \in SegmentType
    PROVE  Rows(f.parts) \in Seq(StoredRow) /\ Len(Rows(f.parts)) \in Nat
<1>1. f.parts \in Seq(Seq(StoredRow))
    BY DEF SegmentType
<1>2. Rows(f.parts) \in Seq(StoredRow)
    BY <1>1, FlattenOf DEF Rows
<1> QED BY <1>2

LEMMA BareOf ==
    ASSUME NEW q \in Seq(StoredRow)
    PROVE  Bare(q) \in Seq(KeptRow) /\ Len(Bare(q)) = Len(q) /\ \A i \in 1..Len(q) : Bare(q)[i] = [val |-> q[i].val, created |-> q[i].created]
<1>1. PICK n \in Nat : n = Len(q) /\ DOMAIN q = 1..n /\ \A i \in 1..n : q[i] \in StoredRow
    OBVIOUS
<1>2. \A i \in 1..n : [val |-> q[i].val, created |-> q[i].created] \in KeptRow
    BY <1>1 DEF StoredRow, KeptRow
<1>3. Bare(q) = [i \in 1..n |-> [val |-> q[i].val, created |-> q[i].created]]
    BY <1>1 DEF Bare
<1> DEFINE r == Bare(q)
<1>4. r \in [1..n -> KeptRow] /\ \A i \in 1..n : r[i] = [val |-> q[i].val, created |-> q[i].created]
    BY <1>2, <1>3
<1> HIDE DEF r
<1>5. r \in Seq(KeptRow) /\ Len(r) = n
    BY <1>4
<1> QED BY <1>1, <1>4, <1>5 DEF r

(* The rows of an append follow the rows that were kept.                       *)
LEMMA WithIdsCat ==
    ASSUME NEW k \in Seq(KeptRow), NEW q \in Seq(StoredRow), Numbered(q, Len(k))
    PROVE  /\ k \o Bare(q) \in Seq(KeptRow) /\ Len(k \o Bare(q)) = Len(k) + Len(q)
           /\ WithIds(k \o Bare(q)) = WithIds(k) \o q /\ WithIds(k) \in Seq(StoredRow)
<1>1. PICK n \in Nat : n = Len(k) /\ \A i \in 1..n : k[i] \in KeptRow
    OBVIOUS
<1>2. PICK l \in Nat : l = Len(q) /\ \A i \in 1..l : q[i] \in StoredRow /\ q[i].id = n + i - 1
    BY <1>1 DEF Numbered
<1>3. PICK r \in Seq(KeptRow) : /\ r = Bare(q) /\ Len(r) = l
                               /\ \A i \in 1..l : r[i] = [val |-> q[i].val, created |-> q[i].created]
    BY <1>2, BareOf
<1> DEFINE w == WithIds(k)
           kr == k \o r
<1>4. /\ kr \in Seq(KeptRow) /\ Len(kr) = n + l /\ \A i \in 1..n : kr[i] = k[i]
      /\ \A i \in 1..l : kr[n + i] = r[i]
    <2>1. /\ k \o r \in Seq(KeptRow) /\ Len(k \o r) = Len(k) + Len(r)
          /\ \A i \in 1..Len(k) : (k \o r)[i] = k[i]
          /\ \A i \in 1..Len(r) : (k \o r)[Len(k) + i] = r[i]
        BY CatOf
    <2> QED BY <1>1, <1>3, <2>1 DEF kr
<1> HIDE DEF kr
<1>5. w = [i \in 1..n |-> [id |-> i - 1, val |-> k[i].val, created |-> k[i].created]]
    BY <1>1 DEF WithIds
<1>6. \A i \in 1..n : w[i] = [id |-> i - 1, val |-> k[i].val, created |-> k[i].created] /\ w[i] \in StoredRow
    BY <1>1, <1>5 DEF KeptRow, StoredRow
<1>7. w \in Seq(StoredRow) /\ Len(w) = n
    <2>1. w \in [1..n -> StoredRow]
        BY <1>5, <1>6
    <2> QED BY <1>5, <2>1
<1> HIDE DEF w
<1>8. /\ w \o q \in Seq(StoredRow) /\ Len(w \o q) = n + l /\ \A i \in 1..n : (w \o q)[i] = w[i]
      /\ \A i \in 1..l : (w \o q)[n + i] = q[i]
    <2>0. w \in Seq(StoredRow)
        BY <1>7
    <2>1. /\ w \o q \in Seq(StoredRow) /\ Len(w \o q) = Len(w) + Len(q)
          /\ \A i \in 1..Len(w) : (w \o q)[i] = w[i]
          /\ \A i \in 1..Len(q) : (w \o q)[Len(w) + i] = q[i]
        BY <2>0, CatOf
    <2> QED BY <1>2, <1>7, <2>1
<1> DEFINE v == w \o q
           z == WithIds(kr)
<1>9. v = [i \in 1..(n + l) |-> v[i]]
    <2>1. v \in Seq(StoredRow) /\ Len(v) = n + l
        BY <1>8
    <2> HIDE DEF v
    <2> QED BY <2>1
<1>10. z = [i \in 1..(n + l) |-> [id |-> i - 1, val |-> kr[i].val, created |-> kr[i].created]]
    BY <1>4 DEF WithIds
<1>11. ASSUME NEW i \in 1..(n + l) PROVE v[i] = [id |-> i - 1, val |-> kr[i].val, created |-> kr[i].created]
    <2>1. CASE i <= n
        <3>1. i \in 1..n
            BY <2>1
        <3>2. v[i] = w[i] /\ kr[i] = k[i]
            BY <1>4, <1>8, <3>1
        <3> QED BY <1>6, <3>1, <3>2
    <2>2. CASE ~(i <= n)
        <3>1. PICK j \in 1..l : i = n + j
            <4>1. i - n \in 1..l /\ i = n + (i - n)
                BY <2>2
            <4> QED BY <4>1
        <3>2. v[i] = q[j] /\ kr[i] = r[j]
            BY <1>4, <1>8, <3>1
        <3>3. q[j] = [id |-> q[j].id, val |-> q[j].val, created |-> q[j].created] /\ q[j].id = n + j - 1
            BY <1>2 DEF StoredRow
        <3>4. kr[i].val = q[j].val /\ kr[i].created = q[j].created
            BY <1>3, <3>2
        <3> QED BY <3>1, <3>2, <3>3, <3>4
    <2> QED BY <2>1, <2>2
<1> HIDE DEF v, z
<1>12. z = v
    BY <1>9, <1>10, <1>11
<1> QED BY <1>1, <1>2, <1>3, <1>4, <1>7, <1>12 DEF z, v, w, kr

(* A file that no chunk of the manifest names may change.                      *)
LEMMA OtherFile ==
    ASSUME NEW m, NEW fs, NEW k, StoreOK(m, fs, k), NEW gs, \A i \in 1..Len(m.chunks) : gs[i] = fs[i]
    PROVE  StoreOK(m, gs, k)
<1>1. PICK n \in Nat : /\ n = Len(m.chunks) /\ DOMAIN m.chunks = 1..n
                       /\ \A i \in 1..n : ChunkOK(m, fs, i) /\ gs[i] = fs[i]
    <2>1. m.chunks \in Seq(Ref)
        BY DEF StoreOK, StoreManifest
    <2>2. Len(m.chunks) \in Nat /\ DOMAIN m.chunks = 1..Len(m.chunks)
        BY <2>1
    <2> QED BY <2>2 DEF StoreOK
<1>2. \A i \in 1..n : ChunkOK(m, gs, i)
    <2>1. \A i \in 1..n : 1 \in 1..n
        BY <1>1
    <2> QED BY <1>1, <2>1 DEF ChunkOK
<1>3. Contents(m, gs) = Contents(m, fs)
    <2>1. \A i \in 1..n : gs[m.chunks[i].path] = fs[m.chunks[i].path]
        BY <1>1 DEF ChunkOK
    <2>2. [i \in 1..n |-> Rows(gs[m.chunks[i].path].parts)] = [i \in 1..n |-> Rows(fs[m.chunks[i].path].parts)]
        BY <2>1
    <2> QED BY <1>1, <2>2 DEF Contents
<1> QED BY <1>1, <1>2, <1>3 DEF StoreOK

(* A saved append.                                                             *)
Grown(m, f) ==
    [iri |-> m.iri, next |-> m.next + f.row_count,
     chunks |-> Append(m.chunks, [path |-> Len(m.chunks) + 1, row_count |-> f.row_count,
                                  start |-> m.next, end |-> m.next + f.row_count])]

LEMMA StoreGrows ==
    ASSUME NEW m, NEW fs, NEW k, StoreOK(m, fs, k), Len(m.chunks) < MaxChunks,
           NEW f, GoodFile(f, m.next), fs[Len(m.chunks) + 1] = f,
           Len(m.chunks) # 0 => f.schema = fs[1].schema
    PROVE  StoreOK(Grown(m, f), fs, k \o Bare(Rows(f.parts)))
<1>1. /\ m.iri \in Iris /\ m.next \in Nat
      /\ m.chunks \in Seq(Ref) /\ k \in Seq(KeptRow) /\ Len(k) = m.next /\ Contents(m, fs) = WithIds(k)
      /\ m.next = IF Len(m.chunks) = 0 THEN 0 ELSE m.chunks[Len(m.chunks)].end
    BY DEF StoreOK, StoreManifest
<1>2. PICK n \in Nat : /\ n = Len(m.chunks) /\ DOMAIN m.chunks = 1..n
                       /\ \A i \in 1..n : ChunkOK(m, fs, i)
    <2>1. Len(m.chunks) \in Nat /\ DOMAIN m.chunks = 1..Len(m.chunks)
        BY <1>1
    <2> QED BY <2>1 DEF StoreOK
<1> DEFINE q == Rows(f.parts)
<1>3. f \in SegmentType /\ f.row_count = Len(q) /\ Numbered(q, m.next)
    BY DEF GoodFile, Decodes
<1>4. q \in Seq(StoredRow) /\ Len(q) \in Nat
    BY <1>3, RowsOf
<1> HIDE DEF q
<1> DEFINE ref == [path |-> n + 1, row_count |-> Len(q), start |-> m.next, end |-> m.next + Len(q)]
           chunks == Append(m.chunks, ref)
           new == [iri |-> m.iri, next |-> m.next + Len(q), chunks |-> chunks]
<1>5. Grown(m, f) = new
    BY <1>2, <1>3 DEF Grown
<1>6. ref \in Ref
    <2>1. m.next \in Nat /\ Len(q) \in Nat /\ n + 1 \in Nat /\ m.next + Len(q) \in Nat
        BY <1>1, <1>2, <1>4
    <2> QED BY <2>1 DEF Ref
<1>7. ref.path = n + 1 /\ ref.start = m.next /\ ref.end = m.next + Len(q)
    OBVIOUS
<1> HIDE DEF ref
<1>8. /\ chunks \in Seq(Ref) /\ Len(chunks) = n + 1 /\ DOMAIN chunks = 1..(n + 1)
      /\ chunks[n + 1] = ref /\ \A i \in 1..n : chunks[i] = m.chunks[i]
    BY <1>1, <1>2, <1>6, OneMore
<1> HIDE DEF chunks
<1>9. new.iri = m.iri /\ new.next = m.next + Len(q) /\ new.chunks = chunks
    OBVIOUS
<1>10. new \in StoreManifest
    BY <1>1, <1>4, <1>8 DEF StoreManifest
<1> HIDE DEF new
<1>11. ASSUME NEW i \in 1..(n + 1) PROVE ChunkOK(new, fs, i)
    <2>1. CASE i \in 1..n
        <3>1. ChunkOK(m, fs, i) /\ chunks[i] = m.chunks[i]
            BY <1>2, <1>8, <2>1
        <3>2. i # 1 => i - 1 \in 1..n
            BY <2>1
        <3>3. i # 1 => chunks[i - 1] = m.chunks[i - 1]
            BY <1>8, <3>2
        <3> QED BY <1>9, <3>1, <3>3 DEF ChunkOK
    <2>2. CASE i = n + 1
        <3>1. chunks[i] = ref /\ fs[i] = f
            BY <1>2, <1>8, <2>2
        <3>2. ref.start = IF i = 1 THEN 0 ELSE chunks[i - 1].end
            <4>1. CASE n = 0
                BY <1>1, <1>2, <1>7, <2>2, <4>1
            <4>2. CASE n # 0
                <5>1. n \in 1..n /\ i - 1 = n /\ i # 1
                    BY <1>2, <2>2, <4>2
                <5> QED BY <1>1, <1>2, <1>7, <1>8, <4>2, <5>1
            <4> QED BY <4>1, <4>2
        <3>3. fs[i].schema = fs[1].schema
            BY <1>2, <2>2, <3>1
        <3>4. ref.end = ref.start + Len(Rows(fs[i].parts))
            BY <1>7, <3>1 DEF q
        <3>5. GoodFile(fs[i], ref.start)
            BY <1>7, <3>1
        <3> QED BY <1>7, <1>9, <2>2, <3>1, <3>2, <3>3, <3>4, <3>5 DEF ChunkOK
    <2>3. i \in 1..n \/ i = n + 1
        OBVIOUS
    <2> QED BY <2>1, <2>2, <2>3
<1> DEFINE ss == [i \in 1..n |-> Rows(fs[m.chunks[i].path].parts)]
           k2 == k \o Bare(q)
<1>12. Contents(new, fs) = Contents(m, fs) \o q
    <2>1. Contents(m, fs) = FlattenSeq(ss)
        BY <1>2 DEF Contents
    <2>2. \A i \in 1..n : ss[i] \in Seq(StoredRow)
        <3> SUFFICES ASSUME NEW i \in 1..n PROVE ss[i] \in Seq(StoredRow)
            OBVIOUS
        <3>1. m.chunks[i].path = i /\ fs[i] \in SegmentType
            BY <1>2 DEF ChunkOK, GoodFile
        <3> QED BY <3>1, RowsOf
    <2>3. ss \in [1..n -> Seq(StoredRow)]
        BY <2>2
    <2>4. ss \in Seq(Seq(StoredRow)) /\ Len(ss) = n
        <3> HIDE DEF ss
        <3>1. DOMAIN ss = 1..n
            BY <2>3
        <3> QED BY <2>3, <3>1
    <2>5. Contents(new, fs) = FlattenSeq([i \in 1..(n + 1) |-> Rows(fs[chunks[i].path].parts)])
        BY <1>8, <1>9 DEF Contents
    <2>6. \A i \in 1..(n + 1) : Rows(fs[chunks[i].path].parts) = IF i = n + 1 THEN q ELSE ss[i]
        <3> SUFFICES ASSUME NEW i \in 1..(n + 1)
                     PROVE  Rows(fs[chunks[i].path].parts) = IF i = n + 1 THEN q ELSE ss[i]
            OBVIOUS
        <3>1. CASE i = n + 1
            BY <1>2, <1>7, <1>8, <3>1 DEF q
        <3>2. CASE i # n + 1
            <4>1. i \in 1..n
                BY <3>2
            <4>2. chunks[i] = m.chunks[i]
                BY <1>8, <4>1
            <4> QED BY <3>2, <4>1, <4>2
        <3> QED BY <3>1, <3>2
    <2> HIDE DEF ss
    <2> DEFINE Y == Seq(StoredRow)
    <2>7. ss \in Seq(Y) /\ q \in Y
        BY <1>4, <2>4
    <2> HIDE DEF Y
    <2>8. Append(ss, q) = [i \in 1..(Len(ss) + 1) |-> IF i = Len(ss) + 1 THEN q ELSE ss[i]]
        BY <2>7, AppendIs
    <2>9. Append(ss, q) = [i \in 1..(n + 1) |-> Rows(fs[chunks[i].path].parts)]
        BY <2>4, <2>6, <2>8
    <2>10. FlattenSeq(Append(ss, q)) = FlattenSeq(ss) \o q
        BY <1>4, <2>4, FlattenAppend
    <2> QED BY <2>1, <2>5, <2>9, <2>10
<1>13. Numbered(q, Len(k))
    BY <1>1, <1>3
<1>14. k2 \in Seq(KeptRow) /\ Len(k2) = Len(k) + Len(q) /\ WithIds(k2) = WithIds(k) \o q
    BY <1>1, <1>4, <1>13, WithIdsCat
<1> HIDE DEF k2
<1>15. new.next \in Nat /\ Len(new.chunks) <= MaxChunks /\ Len(new.chunks) # 0 /\ new.next = new.chunks[Len(new.chunks)].end
    <2>1. m.next \in Nat /\ Len(q) \in Nat /\ n + 1 \in 1..(n + 1) /\ n < MaxChunks /\ MaxChunks \in Nat
        BY <1>1, <1>2, <1>4, NativeStoreAssumption
    <2>2. new.next = m.next + Len(q) /\ Len(new.chunks) = n + 1 /\ new.chunks[n + 1] = ref
        BY <1>8, <1>9
    <2> QED BY <1>7, <2>1, <2>2
<1>16. StoreOK(new, fs, k2)
    BY <1>1, <1>8, <1>9, <1>10, <1>11, <1>12, <1>14, <1>15 DEF StoreOK
<1> QED BY <1>5, <1>16 DEF k2, q

-----------------------------------------------------------------------------
(* What scans and summaries make of such a store.                              *)
LEMMA RowsHold ==
    ASSUME NEW s, StoreOK(meta[s], files[s], kept[s])
    PROVE  /\ Scans(s) /\ Len(kept[s]) = meta[s].next
           /\ AllStored(s) = WithIds(kept[s])
<1>1. DOMAIN meta[s].chunks = 1..Len(meta[s].chunks)
    <2>1. meta[s].chunks \in Seq(Ref)
        BY DEF StoreOK, StoreManifest
    <2> QED BY <2>1
<1>2. ASSUME NEW i \in DOMAIN ScanRefs(s) PROVE Decodes(ScanFile(s, i))
    <2>1. i \in 1..Len(meta[s].chunks)
        BY <1>1 DEF ScanRefs
    <2>2. ChunkOK(meta[s], files[s], i)
        BY <2>1 DEF StoreOK
    <2> QED BY <2>2 DEF ChunkOK, GoodFile, ScanRefs, ScanFile
<1>3. Len(kept[s]) = meta[s].next /\ AllStored(s) = WithIds(kept[s])
    BY DEF StoreOK, Contents, AllStored, ScanRefs, ScanFile
<1> QED BY <1>2, <1>3 DEF Scans

LEMMA ImageBack ==
    ASSUME NEW k \in Seq(KeptRow), NEW g, g = [r \in StoredRow |-> [val |-> r.val, created |-> r.created]]
    PROVE  WithIds(k) \in Seq(StoredRow) /\ Image(WithIds(k), g) = k
<1>1. PICK n \in Nat : n = Len(k) /\ DOMAIN k = 1..n /\ \A i \in 1..n : k[i] \in KeptRow
    OBVIOUS
<1> DEFINE w == WithIds(k)
<1>2. w = [i \in 1..n |-> [id |-> i - 1, val |-> k[i].val, created |-> k[i].created]]
    BY <1>1 DEF WithIds
<1>3. \A i \in 1..n : w[i] \in StoredRow /\ w[i].val = k[i].val /\ w[i].created = k[i].created
    BY <1>1, <1>2 DEF KeptRow, StoredRow
<1>4. w \in Seq(StoredRow) /\ DOMAIN w = 1..n
    <2>1. w \in [1..n -> StoredRow]
        BY <1>2, <1>3
    <2> QED BY <1>2, <2>1
<1> HIDE DEF w
<1>5. Image(w, g) = [i \in 1..n |-> g[w[i]]]
    BY <1>4 DEF Image
<1>6. \A i \in 1..n : g[w[i]] = k[i]
    BY <1>1, <1>3 DEF KeptRow
<1>7. k = [i \in 1..n |-> k[i]]
    BY <1>1
<1> QED BY <1>4, <1>5, <1>6, <1>7 DEF w

Selects(g, X, Y, T, U) == g \in [X -> Y] /\ \A x \in X : x \in T <=> g[x] \in U

LEMMA OnlySelects ==
    ASSUME NEW g, NEW X, NEW Y, NEW T, NEW U, Selects(g, X, Y, T, U)
    PROVE  \A s \in Seq(X) : Only(Image(s, g), U) = Image(Only(s, T), g)
BY OnlyImage DEF Selects

LEMMA AsOfHolds ==
    ASSUME NEW s, StoreOK(meta[s], files[s], kept[s]), NEW l \in Lsns
    PROVE  LET seen == ScanAsOf(s, l)
           IN  [i \in DOMAIN seen |-> [val |-> seen[i].val, created |-> seen[i].created]]
               = Only(kept[s], {r \in Range(kept[s]) : r.created <= l})
<1> DEFINE m == meta[s]
           fs == files[s]
           T == {r \in StoredRow : r.created <= l}
           U == {r \in KeptRow : r.created <= l}
<1>1. PICK n \in Nat : n = Len(m.chunks) /\ DOMAIN m.chunks = 1..n /\ \A i \in 1..n : ChunkOK(m, fs, i)
    <2>1. m.chunks \in Seq(Ref)
        BY DEF StoreOK, StoreManifest
    <2>2. Len(m.chunks) \in Nat /\ DOMAIN m.chunks = 1..Len(m.chunks)
        BY <2>1
    <2> QED BY <2>2 DEF StoreOK
<1>2. PICK k \in Seq(KeptRow) : k = kept[s] /\ Contents(m, fs) = WithIds(k)
    BY DEF StoreOK
<1>3. PICK g : g = [r \in StoredRow |-> [val |-> r.val, created |-> r.created]]
    OBVIOUS
<1>4. g \in [StoredRow -> KeptRow] /\ \A r \in StoredRow : r \in T <=> g[r] \in U
    BY <1>3 DEF StoredRow, KeptRow
<1>5. PICK q \in Seq(StoredRow) : q = WithIds(k) /\ Image(q, g) = k
    BY <1>3, ImageBack
<1> DEFINE parts(i) == fs[m.chunks[i].path].parts
           Stream(i) == [p \in DOMAIN parts(i) |-> Only(parts(i)[p], {r \in Range(parts(i)[p]) : r.created <= l})]
<1>6. \A i \in 1..n : parts(i) \in Seq(Seq(StoredRow))
    BY <1>1 DEF ChunkOK, GoodFile, SegmentType
<1>7. ScanAsOf(s, l) = FlattenSeq([i \in 1..n |-> Rows(Stream(i))])
    BY <1>1 DEF ScanAsOf, Visible, ScanRefs, ScanFile
<1>8. ASSUME NEW i \in 1..n PROVE Rows(Stream(i)) = Only(Rows(parts(i)), T)
    <2>1. PICK u \in Seq(Seq(StoredRow)) : u = parts(i)
        BY <1>6
    <2>2. ASSUME NEW p \in DOMAIN u PROVE Only(u[p], {r \in Range(u[p]) : r.created <= l}) = Only(u[p], T)
        <3>1. PICK t \in Seq(StoredRow) : t = u[p]
            OBVIOUS
        <3>2. Range(t) \subseteq StoredRow
            BY DEF Range
        <3>3. \A x \in Range(t) : x \in {r \in Range(t) : r.created <= l} <=> x \in T
            BY <3>2
        <3> HIDE DEF T
        <3>4. Only(t, {r \in Range(t) : r.created <= l}) = Only(t, T)
            BY <3>3, OnlyAgree
        <3> QED BY <3>1, <3>4
    <2>3. Stream(i) = OnlyEach(u, T)
        BY <2>1, <2>2 DEF OnlyEach
    <2> HIDE DEF Stream, parts, T
    <2>4. FlattenSeq(OnlyEach(u, T)) = Only(FlattenSeq(u), T)
        BY OnlyFlatten
    <2> QED BY <2>1, <2>3, <2>4 DEF Rows
<1> HIDE DEF Stream
<1> DEFINE ss == [i \in 1..n |-> Rows(parts(i))]
<1>9. ss \in Seq(Seq(StoredRow)) /\ DOMAIN ss = 1..n /\ \A i \in 1..n : ss[i] = Rows(parts(i))
    <2>1. ASSUME NEW i \in 1..n PROVE Rows(parts(i)) \in Seq(StoredRow)
        <3>1. PICK u \in Seq(Seq(StoredRow)) : u = parts(i)
            BY <1>6
        <3>2. FlattenSeq(u) \in Seq(StoredRow)
            BY FlattenOf
        <3> QED BY <3>1, <3>2 DEF Rows
    <2> HIDE DEF parts
    <2> DEFINE Y == Seq(StoredRow)
    <2>2. \A i \in 1..n : Rows(parts(i)) \in Y
        BY <2>1
    <2> HIDE DEF Y
    <2>3. ss \in Seq(Y)
        BY <2>2
    <2> QED BY <2>3 DEF Y
<1>10. FlattenSeq(ss) = q
    BY <1>1, <1>2, <1>5 DEF Contents
<1> HIDE DEF parts, ss, T, U
<1>11. [i \in 1..n |-> Rows(Stream(i))] = OnlyEach(ss, T)
    <2>1. \A i \in 1..n : Rows(Stream(i)) = Only(ss[i], T)
        BY <1>8, <1>9
    <2> QED BY <1>9, <2>1 DEF OnlyEach
<1>12. ScanAsOf(s, l) = Only(q, T)
    <2>1. FlattenSeq(OnlyEach(ss, T)) = Only(FlattenSeq(ss), T)
        BY <1>9, OnlyFlatten
    <2> QED BY <1>7, <1>10, <1>11, <2>1
<1>13. PICK seen \in Seq(StoredRow) : seen = Only(q, T)
    BY OnlyOf
<1>14. Image(seen, g) = Only(k, U)
    <2>1. \A y \in Seq(StoredRow) : Only(Image(y, g), U) = Image(Only(y, T), g)
        <3>1. Selects(g, StoredRow, KeptRow, T, U)
            BY <1>4 DEF Selects
        <3> QED BY <3>1, OnlySelects
    <2> QED BY <1>5, <1>13, <2>1
<1>15. Only(k, U) = Only(k, {r \in Range(k) : r.created <= l})
    <2>1. Range(k) \subseteq KeptRow
        BY DEF Range
    <2>2. \A x \in Range(k) : x \in U <=> x \in {r \in Range(k) : r.created <= l}
        BY <2>1 DEF U
    <2> QED BY <2>2, OnlyAgree
<1>16. [i \in DOMAIN seen |-> [val |-> seen[i].val, created |-> seen[i].created]] = Image(seen, g)
    <2>1. \A i \in DOMAIN seen : seen[i] \in StoredRow
        OBVIOUS
    <2> QED BY <1>3, <2>1 DEF Image
<1> QED BY <1>2, <1>12, <1>13, <1>14, <1>15, <1>16

LEMMA SummaryHolds ==
    ASSUME NEW s, StoreOK(meta[s], files[s], kept[s])
    PROVE  /\ ~Summary(s).drift /\ Summary(s).row_count = meta[s].next
           /\ \A i \in DOMAIN meta[s].chunks :
                 meta[s].chunks[i].start = IF i = 1 THEN 0 ELSE meta[s].chunks[i - 1].end
<1> DEFINE m == meta[s]
           fs == files[s]
<1>1. PICK n \in Nat : /\ n = Len(m.chunks) /\ DOMAIN m.chunks = 1..n
                       /\ \A i \in 1..n : ChunkOK(m, fs, i) /\ m.chunks[i] \in Ref
    <2>1. m.chunks \in Seq(Ref)
        BY DEF StoreOK, StoreManifest
    <2>2. Len(m.chunks) \in Nat /\ DOMAIN m.chunks = 1..Len(m.chunks) /\ \A i \in 1..Len(m.chunks) : m.chunks[i] \in Ref
        BY <2>1
    <2> QED BY <2>2 DEF StoreOK
<1>2. \A i \in 1..n : m.chunks[i].start = IF i = 1 THEN 0 ELSE m.chunks[i - 1].end
    BY <1>1 DEF ChunkOK
<1>3. ~Summary(s).drift
    <2>1. \A i \in 1..n : ScanFile(s, i).schema = fs[1].schema
        BY <1>1 DEF ChunkOK, ScanFile, ScanRefs
    <2>2. \A x, y \in {ScanFile(s, i).schema : i \in 1..n} : x = y
        BY <2>1
    <2>3. DOMAIN ScanRefs(s) = 1..n
        BY <1>1 DEF ScanRefs
    <2> QED BY <2>2, <2>3 DEF Summary
<1> DEFINE size(i) == Len(Rows(ScanFile(s, i).parts))
           Body(e, i) == IF i = 0 THEN 0 ELSE e[i - 1] + size(i)
           Fix(e) == e = [i \in 0..n |-> Body(e, i)]
           f == [i \in 0..n |-> IF i = 0 THEN 0 ELSE m.chunks[i].end]
<1>4. \A i \in 1..n : m.chunks[i].end \in Nat /\ m.chunks[i].end = m.chunks[i].start + size(i)
    BY <1>1 DEF Ref, ChunkOK, ScanFile, ScanRefs
<1>5. Summary(s).row_count = (CHOOSE e : Fix(e))[n]
    BY <1>1 DEF Summary, ScanRefs
<1> HIDE DEF size
<1>6. \A e : Body(e, 0) = 0 /\ \A i \in 1..n : Body(e, i) = e[i - 1] + size(i)
    OBVIOUS
<1>7. f[0] = 0 /\ \A i \in 1..n : f[i] = f[i - 1] + size(i)
    <2>1. ASSUME NEW i \in 1..n PROVE f[i] = f[i - 1] + size(i)
        <3>1. f[i] = m.chunks[i].start + size(i)
            BY <1>4
        <3>2. m.chunks[i].start = f[i - 1]
            BY <1>2
        <3> QED BY <3>1, <3>2
    <2>2. 0 \in 0..n
        OBVIOUS
    <2>3. f[0] = 0
        BY <2>2
    <2> HIDE DEF f
    <2> QED BY <2>1, <2>3
<1> HIDE DEF Body
<1>8. Fix(f)
    <2>1. f = [i \in 0..n |-> f[i]]
        OBVIOUS
    <2>2. \A i \in 0..n : f[i] = Body(f, i)
        <3> HIDE DEF f
        <3>1. \A i \in 0..n : i = 0 \/ i \in 1..n
            OBVIOUS
        <3> QED BY <1>6, <1>7, <3>1
    <2> HIDE DEF f
    <2> QED BY <2>1, <2>2
<1> DEFINE h == CHOOSE e : Fix(e)
<1>9. Fix(h)
    <2> HIDE DEF Fix, f
    <2> QED BY <1>8
<1> HIDE DEF h
<1>10. \A i \in 0..n : h[i] = Body(h, i)
    BY <1>9
<1> HIDE DEF Fix, f
<1> DEFINE P == {i \in Nat : i <= n => h[i] = f[i]}
<1>11. 0 \in P
    BY <1>6, <1>7, <1>10
<1>12. ASSUME NEW i \in Nat, i \in P PROVE i + 1 \in P
    <2> SUFFICES ASSUME i + 1 <= n PROVE h[i + 1] = f[i + 1]
        OBVIOUS
    <2>1. h[i] = f[i] /\ i + 1 \in 1..n /\ i + 1 \in 0..n /\ (i + 1) - 1 = i
        BY <1>12
    <2>2. h[i + 1] = Body(h, i + 1)
        BY <1>10, <2>1
    <2>3. Body(h, i + 1) = h[i] + size(i + 1)
        BY <1>6, <2>1
    <2>4. f[i + 1] = f[i] + size(i + 1)
        BY <1>7, <2>1
    <2> QED BY <2>1, <2>2, <2>3, <2>4
<1> HIDE DEF P
<1>13. n \in P
    BY <1>11, <1>12, Induct
<1>14. h[n] = f[n]
    BY <1>13 DEF P
<1>15. f[n] = m.next
    <2>1. m.next = IF Len(m.chunks) = 0 THEN 0 ELSE m.chunks[Len(m.chunks)].end
        BY DEF StoreOK
    <2>2. n \in 0..n
        OBVIOUS
    <2> QED BY <1>1, <2>1, <2>2 DEF f
<1> QED BY <1>1, <1>2, <1>3, <1>5, <1>14, <1>15 DEF h

-----------------------------------------------------------------------------
(* What an append is going to write.                                           *)
LEMMA ChunkGood ==
    ASSUME NEW s \in Stores, NEW b \in Batches, NEW lsn \in Lsns, ValidInput(s, b), meta[s].next \in Nat
    PROVE  Admitted(b) /\ GoodFile(Chunk(s, b, lsn), meta[s].next) /\ Chunk(s, b, lsn).schema = StoreSchema(b)
<1>1. Admitted(b)
    BY DEF ValidInput, Admitted
<1>2. StoreSchema(b) \in Seq(Columns)
    BY <1>1, PublicBack
<1>3. PICK start \in Nat : start = meta[s].next
    OBVIOUS
<1>4. PICK parts \in Seq(Seq(Values)) : parts = b.parts
    BY NativeStoreAssumption
<1>5. AddStoreColumns(b, start, lsn) = Stamped(parts, start, lsn)
    BY <1>4 DEF AddStoreColumns, Stamped, Stamp
<1>6. /\ Stamped(parts, start, lsn) \in Seq(Seq(StoredRow))
      /\ Numbered(Rows(Stamped(parts, start, lsn)), start)
    BY StampedRows
<1>7. PICK ps \in Seq(Seq(StoredRow)) : ps = Stamped(parts, start, lsn)
    BY <1>6
<1>8. Chunk(s, b, lsn) = Segment(StoreSchema(b), ps)
    BY <1>3, <1>5, <1>7 DEF Chunk
<1>9. Rows(ps) \in Seq(StoredRow)
    BY FlattenOf DEF Rows
<1>10. PICK f : f = Segment(StoreSchema(b), ps)
    OBVIOUS
<1>11. Len(ps) \in Nat /\ Len(Rows(ps)) \in Nat
    BY <1>9
<1>12. /\ f.schema = StoreSchema(b) /\ f.parts = ps /\ f.row_count = Len(Rows(ps))
       /\ f.batch_count = Len(ps) /\ f \in SegmentType
    BY <1>2, <1>10, <1>11 DEF Segment, SegmentType
<1>13. Decodes(f)
    BY <1>12, NativeStoreAssumption DEF Decodes
<1> QED BY <1>1, <1>3, <1>6, <1>7, <1>8, <1>10, <1>12, <1>13 DEF GoodFile

(* What passes the comparison has the columns of the first chunk.              *)
LEMMA SameColumns ==
    ASSUME NEW s \in Stores, NEW b, Admitted(b), StoreOK(meta[s], files[s], kept[s]),
           Compatible(s, b), Len(meta[s].chunks) # 0
    PROVE  StoreSchema(b) = files[s][1].schema
<1>1. meta[s].chunks \in Seq(Ref)
    BY DEF StoreOK, StoreManifest
<1>2. meta[s].chunks # <<>> /\ 1 \in 1..Len(meta[s].chunks)
    BY <1>1
<1>3. ChunkOK(meta[s], files[s], 1)
    BY <1>2 DEF StoreOK
<1>4. FirstChunk(s) = files[s][1]
    BY <1>3 DEF ChunkOK, FirstChunk
<1>5. PICK c : Admitted(c) /\ files[s][1].schema = StoreSchema(c)
    BY <1>3 DEF ChunkOK, GoodFile
<1>6. Without(Public(StoreSchema(c)), {"id"}) = Public(b.schema)
    BY <1>2, <1>4, <1>5 DEF Compatible
<1>7. c.schema = b.schema
    BY <1>5, <1>6, PublicBack
<1> QED BY <1>5, <1>7 DEF StoreSchema

(* A store that was just created.                                              *)
LEMMA NewStore ==
    ASSUME NEW iri \in Iris, NEW fs
    PROVE  StoreOK([iri |-> iri, next |-> 0, chunks |-> <<>>], fs, <<>>)
<1>1. PICK none : none = <<>>
    OBVIOUS
<1>2. none \in Seq(Ref) /\ none \in Seq(KeptRow) /\ Len(none) = 0 /\ DOMAIN none = 1..0 /\ 1..0 = {}
    BY <1>1
<1> DEFINE m == [iri |-> iri, next |-> 0, chunks |-> none]
<1>3. m \in StoreManifest /\ m.chunks = none /\ m.next = 0
    BY <1>2 DEF StoreManifest
<1> HIDE DEF m
<1>4. Contents(m, fs) = none
    <2>1. Contents(m, fs) = FlattenSeq([i \in 1..0 |-> Rows(fs[m.chunks[i].path].parts)])
        BY <1>2, <1>3 DEF Contents
    <2>2. [i \in 1..0 |-> Rows(fs[m.chunks[i].path].parts)] = <<>>
        OBVIOUS
    <2>3. FlattenSeq(<<>>) = <<>>
        <3>1. <<>> \in Seq(Seq(StoredRow))
            OBVIOUS
        <3> QED BY <3>1, FlattenOf
    <2> QED BY <1>1, <2>1, <2>2, <2>3
<1>5. WithIds(none) = none
    <2>1. WithIds(none) = [i \in 1..0 |-> [id |-> i - 1, val |-> none[i].val, created |-> none[i].created]]
        BY <1>2 DEF WithIds
    <2>2. [i \in 1..0 |-> [id |-> i - 1, val |-> none[i].val, created |-> none[i].created]] = <<>>
        OBVIOUS
    <2> QED BY <1>1, <2>1, <2>2
<1>6. StoreOK(m, fs, none)
    BY <1>2, <1>3, <1>4, <1>5, NativeStoreAssumption DEF StoreOK
<1> QED BY <1>1, <1>6 DEF m

-----------------------------------------------------------------------------
(* The inductive invariant: every store is as its manifest says, and the       *)
(* append in progress is about to extend one of them.                          *)
Tables ==
    /\ DOMAIN meta = Stores /\ DOMAIN files = Stores /\ DOMAIN kept = Stores
    /\ \A s \in Stores : DOMAIN files[s] = 1..MaxChunks

StoresOK ==
    \A s \in Stores : IF meta[s] = Null THEN kept[s] = <<>>
                      ELSE s \in storeDirs /\ StoreOK(meta[s], files[s], kept[s])

CallFields == {"store", "pc", "file", "path", "meta"}
CallOK ==
    call # Null =>
        /\ DOMAIN call = CallFields /\ call.store \in Stores /\ meta[call.store] # Null
        /\ Len(meta[call.store].chunks) < MaxChunks /\ call.path = Len(meta[call.store].chunks) + 1
        /\ GoodFile(call.file, meta[call.store].next)
        /\ call.meta = Grown(meta[call.store], call.file)
        /\ Len(meta[call.store].chunks) # 0 => call.file.schema = files[call.store][1].schema
        /\ call.pc = "meta" => files[call.store][call.path] = call.file

SInv == Tables /\ StoresOK /\ CallOK

LEMMA InitS == StoreInit => SInv
BY DEF StoreInit, SInv, Tables, StoresOK, CallOK

LEMMA CreateKeeps ==
    ASSUME NEW s \in Stores, NEW iri \in Iris, SInv, CreateStore(s, iri)
    PROVE  SInv'
<1>1. call' = Null /\ files' = files /\ kept' = kept /\ storeDirs' = storeDirs \cup {s} /\ meta[s] = Null
    BY DEF CreateStore
<1>2. CASE meta' = [meta EXCEPT ![s] = [iri |-> iri, next |-> 0, chunks |-> <<>>]]
    <2> DEFINE new == [iri |-> iri, next |-> 0, chunks |-> <<>>]
    <2>1. StoreOK(new, files[s], <<>>)
        BY NewStore
    <2> HIDE DEF new
    <2>2. meta' = [meta EXCEPT ![s] = new]
        BY <1>2 DEF new
    <2>3. Tables'
        BY <1>1, <2>2 DEF SInv, Tables
    <2>4. kept[s] = <<>>
        BY <1>1 DEF SInv, StoresOK
    <2>5. ASSUME NEW t \in Stores
          PROVE  IF meta'[t] = Null THEN kept'[t] = <<>>
                 ELSE t \in storeDirs' /\ StoreOK(meta'[t], files'[t], kept'[t])
        <3>1. CASE t = s
            <4>1. meta'[t] = new
                BY <2>2, <3>1 DEF SInv, Tables
            <4> QED BY <1>1, <2>1, <2>4, <3>1, <4>1
        <3>2. CASE t # s
            <4>1. meta'[t] = meta[t]
                BY <2>2, <3>2 DEF SInv, Tables
            <4> QED BY <1>1, <4>1 DEF SInv, StoresOK
        <3> QED BY <3>1, <3>2
    <2> QED BY <1>1, <2>3, <2>5 DEF SInv, StoresOK, CallOK
<1>3. CASE meta' = meta
    <2>1. Tables' /\ CallOK'
        BY <1>1, <1>3 DEF SInv, Tables, CallOK
    <2>2. StoresOK'
        BY <1>1, <1>3 DEF SInv, StoresOK
    <2> QED BY <2>1, <2>2 DEF SInv
<1> QED BY <1>2, <1>3 DEF CreateStore

LEMMA BeginKeeps ==
    ASSUME NEW s \in Stores, NEW iri \in Iris, NEW b \in Batches, NEW lsn \in Lsns, SInv, BeginAppend(s, iri, b, lsn)
    PROVE  SInv'
<1>1. /\ meta[s] # Null /\ Len(meta[s].chunks) < MaxChunks /\ ValidInput(s, b) /\ Compatible(s, b)
      /\ call' = [store |-> s, pc |-> "chunk", file |-> Chunk(s, b, lsn), path |-> ChunkPath(s),
                  meta |-> Extended(s, Chunk(s, b, lsn))]
      /\ meta' = meta /\ files' = files /\ kept' = kept /\ storeDirs' = storeDirs
    BY DEF BeginAppend, AppendCall, Opens
<1>2. StoreOK(meta[s], files[s], kept[s])
    BY <1>1 DEF SInv, StoresOK
<1>3. meta[s].next \in Nat
    BY <1>2 DEF StoreOK, StoreManifest
<1>4. Admitted(b) /\ GoodFile(Chunk(s, b, lsn), meta[s].next) /\ Chunk(s, b, lsn).schema = StoreSchema(b)
    BY <1>1, <1>3, ChunkGood
<1>5. PICK f : f = Chunk(s, b, lsn)
    OBVIOUS
<1>6. Len(meta[s].chunks) # 0 => f.schema = files[s][1].schema
    BY <1>1, <1>2, <1>4, <1>5, SameColumns
<1>7. Extended(s, f) = Grown(meta[s], f)
    BY DEF Extended, ChunkRef, ChunkPath, Grown
<1>8. Tables' /\ StoresOK'
    BY <1>1 DEF SInv, Tables, StoresOK
<1>9. /\ DOMAIN call' = CallFields /\ call'.store = s /\ call'.pc = "chunk" /\ call'.file = f
      /\ call'.path = Len(meta[s].chunks) + 1 /\ call'.meta = Grown(meta[s], f)
    BY <1>1, <1>5, <1>7 DEF CallFields, ChunkPath
<1>10. CallOK'
    BY <1>1, <1>4, <1>5, <1>6, <1>9 DEF CallOK
<1> QED BY <1>8, <1>10 DEF SInv

LEMMA WriteKeeps == SInv /\ WriteChunk => SInv'
<1> SUFFICES ASSUME SInv, WriteChunk PROVE SInv'
    OBVIOUS
<1>1. PICK s \in Stores : s = call.store
    BY DEF SInv, CallOK, WriteChunk
<1>2. PICK m : m = meta[s]
    OBVIOUS
<1>3. /\ call # Null /\ DOMAIN call = CallFields /\ m # Null /\ Len(m.chunks) < MaxChunks
      /\ call.path = Len(m.chunks) + 1 /\ GoodFile(call.file, m.next)
      /\ call.meta = Grown(m, call.file)
      /\ Len(m.chunks) # 0 => call.file.schema = files[s][1].schema
    BY <1>1, <1>2 DEF SInv, CallOK, WriteChunk
<1>4. StoreOK(m, files[s], kept[s])
    BY <1>2, <1>3 DEF SInv, StoresOK
<1>5. PICK n \in Nat : n = Len(m.chunks)
    <2>1. m.chunks \in Seq(Ref)
        BY <1>4 DEF StoreOK, StoreManifest
    <2> QED BY <2>1
<1>6. PICK p \in 1..MaxChunks : p = call.path /\ p = n + 1
    BY <1>3, <1>5, NativeStoreAssumption
<1>7. PICK gs : gs = [files[s] EXCEPT ![p] = call.file]
    OBVIOUS
<1>8. files' = [files EXCEPT ![s] = gs]
    BY <1>1, <1>6, <1>7 DEF WriteChunk
<1>9. meta' = meta /\ kept' = kept /\ storeDirs' = storeDirs /\ call' = [call EXCEPT !.pc = "meta"]
    BY DEF WriteChunk
<1>10. DOMAIN gs = 1..MaxChunks /\ gs[p] = call.file /\ \A i \in 1..n : gs[i] = files[s][i]
    <2>1. DOMAIN files[s] = 1..MaxChunks
        BY DEF SInv, Tables
    <2>2. \A i \in 1..n : i \in 1..MaxChunks /\ i # p
        BY <1>6, NativeStoreAssumption
    <2> QED BY <1>7, <2>1, <2>2
<1>11. files'[s] = gs /\ \A t \in Stores : t # s => files'[t] = files[t]
    BY <1>8 DEF SInv, Tables
<1>12. Tables'
    BY <1>8, <1>9, <1>10, <1>11 DEF SInv, Tables
<1>13. StoreOK(m, gs, kept[s])
    BY <1>4, <1>5, <1>10, OtherFile
<1>14. StoresOK'
    <2> SUFFICES ASSUME NEW t \in Stores
                 PROVE  IF meta'[t] = Null THEN kept'[t] = <<>>
                        ELSE t \in storeDirs' /\ StoreOK(meta'[t], files'[t], kept'[t])
        BY DEF StoresOK
    <2>1. CASE t = s
        BY <1>2, <1>3, <1>9, <1>11, <1>13, <2>1 DEF SInv, StoresOK
    <2>2. CASE t # s
        BY <1>9, <1>11, <2>2 DEF SInv, StoresOK
    <2> QED BY <2>1, <2>2
<1>15. /\ DOMAIN call' = CallFields /\ call'.store = s /\ call'.file = call.file /\ call'.path = p
       /\ call'.meta = call.meta
    BY <1>1, <1>3, <1>6, <1>9 DEF CallFields
<1>16. n # 0 => gs[1] = files[s][1]
    BY <1>10
<1>17. CallOK'
    <2>1. meta'[s] = m /\ files'[s] = gs
        BY <1>2, <1>9, <1>11
    <2>2. Len(m.chunks) # 0 => call'.file.schema = files'[s][1].schema
        BY <1>3, <1>5, <1>15, <1>16, <2>1
    <2>3. files'[s][call'.path] = call'.file
        BY <1>10, <1>15, <2>1
    <2>4. GoodFile(call'.file, m.next) /\ call'.meta = Grown(m, call'.file) /\ call'.path = Len(m.chunks) + 1
        BY <1>3, <1>5, <1>6, <1>15
    <2> QED BY <1>3, <1>15, <2>1, <2>2, <2>3, <2>4 DEF CallOK
<1> QED BY <1>12, <1>14, <1>17 DEF SInv

LEMMA SaveKeeps == SInv /\ SaveMeta => SInv'
<1> SUFFICES ASSUME SInv, SaveMeta PROVE SInv'
    OBVIOUS
<1>1. PICK s \in Stores : s = call.store
    BY DEF SInv, CallOK, SaveMeta
<1>2. PICK m : m = meta[s]
    OBVIOUS
<1>3. PICK f : f = call.file
    OBVIOUS
<1>4. /\ call # Null /\ m # Null /\ Len(m.chunks) < MaxChunks
      /\ call.path = Len(m.chunks) + 1 /\ GoodFile(f, m.next) /\ call.meta = Grown(m, f)
      /\ Len(m.chunks) # 0 => f.schema = files[s][1].schema
      /\ files[s][Len(m.chunks) + 1] = f
    BY <1>1, <1>2, <1>3 DEF SInv, CallOK, SaveMeta
<1>5. s \in storeDirs /\ StoreOK(m, files[s], kept[s])
    BY <1>2, <1>4 DEF SInv, StoresOK
<1>6. PICK k : k = kept[s] \o Bare(Rows(f.parts))
    OBVIOUS
<1>7. StoreOK(Grown(m, f), files[s], k)
    BY <1>4, <1>5, <1>6, StoreGrows
<1>8. /\ meta' = [meta EXCEPT ![s] = Grown(m, f)] /\ kept' = [kept EXCEPT ![s] = k]
      /\ call' = Null /\ files' = files /\ storeDirs' = storeDirs
    BY <1>1, <1>3, <1>4, <1>6 DEF SaveMeta, Bare
<1>9. Grown(m, f) # Null
    BY <1>7, NativeStoreAssumption DEF StoreOK
<1>10. /\ meta'[s] = Grown(m, f) /\ kept'[s] = k
       /\ \A t \in Stores : t # s => meta'[t] = meta[t] /\ kept'[t] = kept[t]
    BY <1>8 DEF SInv, Tables
<1>11. Tables'
    BY <1>8 DEF SInv, Tables
<1>12. StoresOK'
    <2> SUFFICES ASSUME NEW t \in Stores
                 PROVE  IF meta'[t] = Null THEN kept'[t] = <<>>
                        ELSE t \in storeDirs' /\ StoreOK(meta'[t], files'[t], kept'[t])
        BY DEF StoresOK
    <2>1. CASE t = s
        BY <1>5, <1>7, <1>8, <1>9, <1>10, <2>1
    <2>2. CASE t # s
        BY <1>8, <1>10, <2>2 DEF SInv, StoresOK
    <2> QED BY <2>1, <2>2
<1> QED BY <1>8, <1>11, <1>12 DEF SInv, CallOK

LEMMA StepS == SInv /\ [StoreNext]_storeVars => SInv'
<1> SUFFICES ASSUME SInv, [StoreNext]_storeVars PROVE SInv'
    OBVIOUS
<1>1. ASSUME NEW s \in Stores, NEW iri \in Iris, CreateStore(s, iri) PROVE SInv'
    BY <1>1, CreateKeeps
<1>2. ASSUME NEW s \in Stores, NEW iri \in Iris, NEW b \in Batches, NEW lsn \in Lsns, BeginAppend(s, iri, b, lsn)
      PROVE  SInv'
    BY <1>2, BeginKeeps
<1>3. CASE WriteChunk
    BY <1>3, WriteKeeps
<1>4. CASE SaveMeta
    BY <1>4, SaveKeeps
<1>5. CASE AppendStops
    BY <1>5 DEF AppendStops, SInv, Tables, StoresOK, CallOK
<1>6. CASE UNCHANGED storeVars
    BY <1>6 DEF storeVars, SInv, Tables, StoresOK, CallOK
<1> QED BY <1>1, <1>2, <1>3, <1>4, <1>5, <1>6 DEF StoreNext

(* The Rust core's stores: whatever append died at whichever of its writes,    *)
(* a store holds exactly the rows of the appends whose manifest was saved,     *)
(* numbered from 0, a scan at a snapshot shows exactly those written by then,  *)
(* and a summary counts them.                                                  *)
THEOREM StoreAlwaysExact == StoreSpec => []StoreExact
<1>1. SInv => StoreExact
    <2> SUFFICES ASSUME SInv PROVE StoreExact
        OBVIOUS
    <2>1. ASSUME NEW s \in Stores, meta[s] # Null PROVE s \in storeDirs /\ StoreOK(meta[s], files[s], kept[s])
        BY <2>1 DEF SInv, StoresOK
    <2>2. RowsExact
        BY <2>1, RowsHold DEF RowsExact, Listed, WithIds
    <2>3. AsOfExact
        BY <2>1, AsOfHolds DEF AsOfExact
    <2>4. SummaryExact
        BY <2>1, SummaryHolds DEF SummaryExact
    <2> QED BY <2>2, <2>3, <2>4 DEF StoreExact
<1> QED BY <1>1, InitS, StepS, PTL DEF StoreSpec
=============================================================================
