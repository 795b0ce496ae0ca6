-------------------------- MODULE BufferPoolProofs --------------------------
(* Proofs about BufferPool for every finite set of pages and of guards, every  *)
(* capacity and every LRU depth.                                               *)
EXTENDS BufferPool, FiniteSetTheorems, SequenceTheorems, TLAPS

(* A guard with an unreported change still holds its page.  Together with the  *)
(* properties of the module this is inductive: an unpinned frame has no        *)
(* holder, hence no unreported change, and may be evicted.                     *)
TouchedHeld == \A g \in touched : holds[g] # None

IInv == TypeOK /\ PinsAccounted /\ NoLostUpdate /\ WithinCapacity /\ TouchedHeld

LEMMA HoldersFinite == \A p : IsFiniteSet(Holders(p)) /\ Cardinality(Holders(p)) \in Nat
<1> SUFFICES ASSUME NEW p PROVE IsFiniteSet(Holders(p)) /\ Cardinality(Holders(p)) \in Nat
  OBVIOUS
<1>1. Holders(p) \in SUBSET Guards
  BY DEF Holders
<1>2. IsFiniteSet(Guards)
  BY ConstantsAssumption
<1>3. IsFiniteSet(Holders(p))
  BY <1>1, <1>2, FS_Subset
<1>4. QED
  BY <1>3, FS_CardinalityType

LEMMA ResidentFinite == TypeOK => IsFiniteSet(resident) /\ Cardinality(resident) \in Nat
<1> SUFFICES ASSUME TypeOK PROVE IsFiniteSet(resident) /\ Cardinality(resident) \in Nat
  OBVIOUS
<1>1. resident \in SUBSET Pages /\ IsFiniteSet(Pages)
  BY ConstantsAssumption DEF TypeOK
<1>2. IsFiniteSet(resident)
  BY <1>1, FS_Subset
<1>3. QED
  BY <1>2, FS_CardinalityType

(* A page no guard holds, and only such a page, has no pins.                   *)
LEMMA UnpinnedUnheld ==
  ASSUME IInv, NEW p \in Pages
  PROVE  /\ pin[p] = 0 => \A g \in Guards : holds[g] # p
         /\ p \notin resident => pin[p] = 0 /\ Holders(p) = {}
<1>1. pin[p] = Cardinality(Holders(p)) /\ IsFiniteSet(Holders(p))
  BY HoldersFinite DEF IInv, PinsAccounted
<1>2. pin[p] = 0 <=> Holders(p) = {}
  BY <1>1, FS_EmptySet
<1>3. ASSUME p \notin resident PROVE Holders(p) = {}
  BY <1>3, ConstantsAssumption DEF IInv, PinsAccounted, Holders
<1>4. QED
  BY <1>2, <1>3 DEF Holders

(* What _ensure_capacity may evict: an unpinned frame, which leaves room for   *)
(* one page, and whose contents are on disk after the flush.                   *)
LEMMA EvictionFacts ==
  ASSUME IInv, NEW E \in Evictions
  PROVE  /\ E \subseteq resident
         /\ \A v \in E : pin[v] = 0 /\ \A g \in Guards : holds[g] # v
         /\ \A v \in E : DiskAfterFlush(E)[v] = written[v]
         /\ \A q \in Pages \ E : DiskAfterFlush(E)[q] = disk[q]
         /\ DiskAfterFlush(E) \in [Pages -> Values]
         /\ Cardinality(resident \ E) < Capacity
         /\ IsFiniteSet(resident \ E)
<1>0. TypeOK /\ IsFiniteSet(resident) /\ Cardinality(resident) \in Nat /\ Capacity \in Nat
  BY ResidentFinite, ConstantsAssumption DEF IInv
<1>1. (E = {} /\ Cardinality(resident) < Capacity) \/ \E v \in Victims : E = {v}
  BY DEF Evictions
<1>2. Victims \subseteq resident /\ \A v \in Victims : pin[v] = 0
  BY DEF Victims, Candidates
<1>3. E \subseteq resident /\ \A v \in E : pin[v] = 0
  BY <1>1, <1>2
<1>4. \A v \in E : \A g \in Guards : holds[g] # v
  <2> TAKE v \in E
  <2>1. v \in Pages /\ pin[v] = 0
    BY <1>0, <1>3 DEF TypeOK
  <2>2. QED
    BY <2>1, UnpinnedUnheld
<1>5. \A v \in E : DiskAfterFlush(E)[v] = written[v]
  <2> TAKE v \in E
  <2>1. v \in Pages /\ v \in resident
    BY <1>0, <1>3 DEF TypeOK
  <2>2. ~ \E g \in touched : holds[g] = v
    BY <1>0, <1>4 DEF TypeOK
  <2>3. data[v] = written[v] /\ (disk[v] = written[v] \/ v \in dirty)
    BY <2>1, <2>2 DEF IInv, NoLostUpdate
  <2>4. QED
    BY <2>1, <2>3 DEF DiskAfterFlush
<1>6. \A q \in Pages \ E : DiskAfterFlush(E)[q] = disk[q]
  BY DEF DiskAfterFlush
<1>7. DiskAfterFlush(E) \in [Pages -> Values]
  BY <1>0 DEF DiskAfterFlush, TypeOK
<1>8. Cardinality(resident \ E) < Capacity /\ IsFiniteSet(resident \ E)
  <2>1. CASE E = {} /\ Cardinality(resident) < Capacity
    <3>1. resident \ E = resident
      BY <2>1
    <3>2. QED
      BY <1>0, <2>1, <3>1
  <2>2. ASSUME NEW v \in Victims, E = {v}
        PROVE  Cardinality(resident \ E) < Capacity /\ IsFiniteSet(resident \ E)
    <3>1. v \in resident
      BY <1>2
    <3>2. IsFiniteSet(resident \ {v}) /\ Cardinality(resident \ {v}) = Cardinality(resident) - 1
      BY <1>0, <3>1, FS_RemoveElement
    <3>3. Cardinality(resident) <= Capacity
      BY DEF IInv, WithinCapacity
    <3>4. QED
      BY <1>0, <2>2, <3>2, <3>3
  <2>3. QED
    BY <1>1, <2>1, <2>2
<1>9. QED
  BY <1>3, <1>4, <1>5, <1>6, <1>7, <1>8

(* A free guard takes a page, or a guard gives its page back.                  *)
LEMMA GuardTakes ==
  ASSUME TypeOK, NEW g \in Guards, NEW p \in Pages,
         holds[g] = None, holds' = [holds EXCEPT ![g] = p]
  PROVE  /\ holds' \in [Guards -> Pages \cup {None}]
         /\ \A h \in Guards : holds'[h] = IF h = g THEN p ELSE holds[h]
         /\ Cardinality(Holders(p))' = Cardinality(Holders(p)) + 1
         /\ \A q \in Pages : q # p => Holders(q)' = Holders(q)
<1>1. holds' \in [Guards -> Pages \cup {None}]
      /\ \A h \in Guards : holds'[h] = IF h = g THEN p ELSE holds[h]
  BY DEF TypeOK
<1>2. Holders(p)' = Holders(p) \cup {g} /\ g \notin Holders(p)
  BY <1>1, ConstantsAssumption DEF Holders
<1>3. Cardinality(Holders(p))' = Cardinality(Holders(p)) + 1
  BY <1>2, HoldersFinite, FS_AddElement
<1>4. \A q \in Pages : q # p => Holders(q)' = Holders(q)
  BY <1>1, ConstantsAssumption DEF Holders
<1>5. QED
  BY <1>1, <1>3, <1>4

LEMMA GuardGives ==
  ASSUME TypeOK, NEW g \in Guards, NEW p \in Pages,
         holds[g] = p, holds' = [holds EXCEPT ![g] = None]
  PROVE  /\ holds' \in [Guards -> Pages \cup {None}]
         /\ \A h \in Guards : holds'[h] = IF h = g THEN None ELSE holds[h]
         /\ Cardinality(Holders(p))' = Cardinality(Holders(p)) - 1
         /\ \A q \in Pages : q # p => Holders(q)' = Holders(q)
<1>1. holds' \in [Guards -> Pages \cup {None}]
      /\ \A h \in Guards : holds'[h] = IF h = g THEN None ELSE holds[h]
  BY DEF TypeOK
<1>2. Holders(p)' = Holders(p) \ {g} /\ g \in Holders(p)
  BY <1>1, ConstantsAssumption DEF Holders
<1>3. Cardinality(Holders(p))' = Cardinality(Holders(p)) - 1
  BY <1>2, HoldersFinite, FS_RemoveElement
<1>4. \A q \in Pages : q # p => Holders(q)' = Holders(q)
  BY <1>1, ConstantsAssumption DEF Holders
<1>5. QED
  BY <1>1, <1>3, <1>4

(* The two ways a frame comes to hold a pin: loaded into a free place, or      *)
(* pinned where it is.  v is its contents afterwards.                          *)
LEMMA LoadStep ==
  ASSUME IInv, NEW g \in Guards, NEW p \in Pages, NEW v \in Values, NEW E \in Evictions,
         p \notin resident, holds[g] = None, holds' = [holds EXCEPT ![g] = p],
         Load(p, v, E), disk' = DiskAfterFlush(E), UNCHANGED touched,
         dirty' \in {dirty \ E, (dirty \ E) \cup {p}},
         written' = [written EXCEPT ![p] = v],
         disk'[p] = v \/ p \in dirty'
  PROVE  IInv'
<1> USE DEF IInv
<1>1. /\ E \subseteq resident
      /\ \A q \in E : pin[q] = 0 /\ \A h \in Guards : holds[h] # q
      /\ \A q \in E : disk'[q] = written[q]
      /\ \A q \in Pages \ E : disk'[q] = disk[q]
      /\ disk' \in [Pages -> Values]
      /\ Cardinality(resident \ E) < Capacity
      /\ IsFiniteSet(resident \ E)
  BY EvictionFacts
<1>2. /\ holds' \in [Guards -> Pages \cup {None}]
      /\ \A h \in Guards : holds'[h] = IF h = g THEN p ELSE holds[h]
      /\ Cardinality(Holders(p))' = Cardinality(Holders(p)) + 1
      /\ \A q \in Pages : q # p => Holders(q)' = Holders(q)
  BY GuardTakes
<1>3. Holders(p) = {} /\ pin[p] = 0
  BY UnpinnedUnheld
<1>4. TypeOK'
  <2>1. access' \in [Pages -> Seq(Nat)] /\ clock' \in Nat
    BY DEF TypeOK, Load
  <2>2. data' \in [Pages -> Values] /\ pin' \in [Pages -> Nat] /\ written' \in [Pages -> Values]
    BY ConstantsAssumption DEF TypeOK, Load
  <2>3. resident' \subseteq Pages /\ dirty' \subseteq resident' /\ touched' \subseteq Guards
    BY DEF TypeOK, Load
  <2>4. QED
    BY <1>1, <1>2, <2>1, <2>2, <2>3 DEF TypeOK
<1>5. PinsAccounted'
  <2>1. \A q \in Pages : pin'[q] = Cardinality(Holders(q)')
    <3>1. pin'[p] = Cardinality(Holders(p)')
      BY <1>2, <1>3, FS_EmptySet DEF Load, TypeOK
    <3>2. ASSUME NEW q \in Pages, q # p PROVE pin'[q] = Cardinality(Holders(q)')
      <4>1. pin'[q] = pin[q]
        BY <1>1, <3>2 DEF Load, TypeOK
      <4>2. QED
        BY <1>2, <3>2, <4>1 DEF PinsAccounted
    <3>3. QED
      BY <3>1, <3>2
  <2>2. \A h \in Guards : holds'[h] # None => holds'[h] \in resident'
    BY <1>1, <1>2 DEF Load, PinsAccounted
  <2>3. QED
    BY <2>1, <2>2 DEF PinsAccounted
<1>6. NoLostUpdate'
  <2> SUFFICES ASSUME NEW q \in Pages
               PROVE  IF q \in resident'
                      THEN /\ data'[q] = written'[q]
                           /\ \/ disk'[q] = written'[q]
                              \/ q \in dirty'
                              \/ \E h \in touched' : holds'[h] = q
                      ELSE disk'[q] = written'[q]
    BY DEF NoLostUpdate
  <2>1. CASE q = p
    BY <2>1 DEF Load, TypeOK
  <2>2. CASE q \in E
    <3>1. q # p /\ q \notin resident' /\ written'[q] = written[q]
      BY <1>1, <2>2 DEF Load, TypeOK
    <3>2. QED
      BY <1>1, <2>2, <3>1
  <2>3. CASE q # p /\ q \notin E
    <3>1. /\ written'[q] = written[q] /\ data'[q] = data[q] /\ disk'[q] = disk[q]
          /\ (q \in resident' <=> q \in resident) /\ (q \in dirty => q \in dirty')
      BY <1>1, <2>3 DEF Load, TypeOK
    <3>2. ASSUME NEW h \in touched, holds[h] = q PROVE holds'[h] = q
      BY <1>2, <3>2, ConstantsAssumption DEF TypeOK
    <3>3. QED
      BY <3>1, <3>2 DEF NoLostUpdate
  <2>4. QED
    BY <2>1, <2>2, <2>3
<1>7. WithinCapacity'
  <2>1. resident' = (resident \ E) \cup {p} /\ p \notin resident \ E
    BY DEF Load
  <2>2. Cardinality(resident') = Cardinality(resident \ E) + 1
    BY <1>1, <2>1, FS_AddElement
  <2>3. Cardinality(resident \ E) \in Nat /\ Capacity \in Nat
    BY <1>1, FS_CardinalityType, ConstantsAssumption
  <2>4. QED
    BY <1>1, <2>2, <2>3 DEF WithinCapacity
<1>8. TouchedHeld'
  BY <1>2, ConstantsAssumption DEF TouchedHeld, TypeOK
<1>9. QED
  BY <1>4, <1>5, <1>6, <1>7, <1>8

(* _record_access keeps a sequence of clock readings.                          *)
LEMMA KeepType == ASSUME NEW h \in Seq(Nat) PROVE Keep(h) \in Seq(Nat)
<1>1. Len(h) \in Nat /\ LruK \in Nat
  BY ConstantsAssumption
<1>2. CASE Len(h) > LruK
  <2>1. \A i \in (Len(h) - LruK + 1)..Len(h) : h[i] \in Nat
    BY <1>1, <1>2, ElementOfSeq
  <2>2. SubSeq(h, Len(h) - LruK + 1, Len(h)) \in Seq(Nat)
    BY <1>1, <2>1, SubSeqProperties
  <2>3. QED
    BY <1>2, <2>2 DEF Keep
<1>3. CASE ~(Len(h) > LruK)
  BY <1>3 DEF Keep
<1>4. QED
  BY <1>2, <1>3

LEMMA PinStep ==
  ASSUME IInv, NEW g \in Guards, NEW p \in Pages, NEW v \in Values,
         p \in resident, holds[g] = None, holds' = [holds EXCEPT ![g] = p],
         Pin(p), UNCHANGED <<touched, disk>>,
         data' = [data EXCEPT ![p] = v], written' = [written EXCEPT ![p] = v],
         \/ dirty' = dirty /\ v = written[p]
         \/ dirty' = dirty \cup {p}
  PROVE  IInv'
<1> USE DEF IInv
<1>2. /\ holds' \in [Guards -> Pages \cup {None}]
      /\ \A h \in Guards : holds'[h] = IF h = g THEN p ELSE holds[h]
      /\ Cardinality(Holders(p))' = Cardinality(Holders(p)) + 1
      /\ \A q \in Pages : q # p => Holders(q)' = Holders(q)
  BY GuardTakes
<1>4. TypeOK'
  <2>1. access[p] \in Seq(Nat) /\ clock + 1 \in Nat
    BY DEF TypeOK
  <2>2. Keep(Append(access[p], clock + 1)) \in Seq(Nat)
    BY <2>1, AppendProperties, KeepType
  <2>3. access' \in [Pages -> Seq(Nat)] /\ clock' \in Nat
    BY <2>2 DEF TypeOK, Pin
  <2>4. data' \in [Pages -> Values] /\ pin' \in [Pages -> Nat] /\ written' \in [Pages -> Values]
    BY DEF TypeOK, Pin
  <2>5. resident' = resident /\ dirty' \subseteq resident'
    BY DEF TypeOK, Pin
  <2>6. QED
    BY <1>2, <2>3, <2>4, <2>5 DEF TypeOK
<1>5. PinsAccounted'
  <2>1. \A q \in Pages : pin'[q] = Cardinality(Holders(q)')
    BY <1>2 DEF Pin, TypeOK, PinsAccounted
  <2>2. \A h \in Guards : holds'[h] # None => holds'[h] \in resident'
    BY <1>2 DEF Pin, PinsAccounted
  <2>3. QED
    BY <2>1, <2>2 DEF PinsAccounted
<1>6. NoLostUpdate'
  <2> SUFFICES ASSUME NEW q \in Pages
               PROVE  IF q \in resident'
                      THEN /\ data'[q] = written'[q]
                           /\ \/ disk'[q] = written'[q]
                              \/ q \in dirty'
                              \/ \E h \in touched' : holds'[h] = q
                      ELSE disk'[q] = written'[q]
    BY DEF NoLostUpdate
  <2>1. \A h \in touched : holds'[h] = holds[h]
    BY <1>2 DEF TouchedHeld, TypeOK
  <2>2. CASE q = p
    BY <2>1, <2>2 DEF Pin, TypeOK, NoLostUpdate
  <2>3. CASE q # p
    BY <2>1, <2>3 DEF Pin, TypeOK, NoLostUpdate
  <2>4. QED
    BY <2>2, <2>3
<1>7. WithinCapacity'
  BY DEF WithinCapacity, Pin
<1>8. TouchedHeld'
  BY <1>2, ConstantsAssumption DEF TouchedHeld, TypeOK
<1>9. QED
  BY <1>4, <1>5, <1>6, <1>7, <1>8

----------------------------------------------------------------------------
(* One lemma per action.                                                       *)

LEMMA FetchPreserves == ASSUME IInv, NEW g \in Guards, NEW p \in Pages, Fetch(g, p) PROVE IInv'
<1>0. written[p] \in Values /\ written' = [written EXCEPT ![p] = written[p]] /\ UNCHANGED touched
  BY DEF Fetch, IInv, TypeOK
<1>1. CASE p \in resident
  <2>1. data' = [data EXCEPT ![p] = written[p]]
    BY <1>1 DEF Fetch, IInv, TypeOK, NoLostUpdate
  <2>2. holds[g] = None /\ holds' = [holds EXCEPT ![g] = p] /\ Pin(p) /\ UNCHANGED <<dirty, disk>>
    BY <1>1 DEF Fetch
  <2>3. QED
    BY <1>0, <1>1, <2>1, <2>2, PinStep
<1>2. CASE p \notin resident
  <2>1. holds[g] = None /\ holds' = [holds EXCEPT ![g] = p]
    BY DEF Fetch
  <2>2. PICK E \in Evictions : disk' = DiskAfterFlush(E) /\ dirty' = dirty \ E /\ Load(p, disk'[p], E)
    BY <1>2 DEF Fetch
  <2>3. E \subseteq resident /\ \A q \in Pages \ E : DiskAfterFlush(E)[q] = disk[q]
    BY EvictionFacts
  <2>4. disk'[p] = written[p]
    BY <1>2, <2>2, <2>3 DEF IInv, NoLostUpdate
  <2>5. Load(p, written[p], E)
    BY <2>2, <2>4
  <2>6. QED
    BY <1>0, <1>2, <2>1, <2>2, <2>4, <2>5, LoadStep
<1>3. QED
  BY <1>1, <1>2

LEMMA NewPagePreserves == ASSUME IInv, NEW g \in Guards, NEW p \in Pages, NewPage(g, p) PROVE IInv'
<1>0. /\ Zero \in Values /\ written' = [written EXCEPT ![p] = Zero] /\ UNCHANGED touched
      /\ holds[g] = None /\ holds' = [holds EXCEPT ![g] = p]
  BY ConstantsAssumption DEF NewPage
<1>1. CASE p \in resident
  <2>1. Pin(p) /\ data' = [data EXCEPT ![p] = Zero] /\ dirty' = dirty \cup {p} /\ UNCHANGED disk
    BY <1>1 DEF NewPage
  <2>2. QED
    BY <1>0, <1>1, <2>1, PinStep
<1>2. CASE p \notin resident
  <2>1. PICK E \in Evictions :
          disk' = DiskAfterFlush(E) /\ dirty' = (dirty \ E) \cup {p} /\ Load(p, Zero, E)
    BY <1>2 DEF NewPage
  <2>2. QED
    BY <1>0, <1>2, <2>1, LoadStep
<1>3. QED
  BY <1>1, <1>2

LEMMA FetchReadFailsPreserves == ASSUME IInv, NEW p \in Pages, FetchReadFails(p) PROVE IInv'
<1> USE DEF IInv
<1>1. PICK E \in Evictions :
        /\ disk' = DiskAfterFlush(E) /\ dirty' = dirty \ E /\ resident' = resident \ E
        /\ data' = [q \in Pages |-> IF q \in E THEN Zero ELSE data[q]]
        /\ access' = [q \in Pages |-> IF q \in E THEN <<>> ELSE access[q]]
  BY DEF FetchReadFails
<1>2. /\ E \subseteq resident
      /\ \A q \in E : \A h \in Guards : holds[h] # q
      /\ \A q \in E : disk'[q] = written[q]
      /\ \A q \in Pages \ E : disk'[q] = disk[q]
      /\ disk' \in [Pages -> Values]
      /\ Cardinality(resident \ E) < Capacity
      /\ IsFiniteSet(resident \ E)
  BY <1>1, EvictionFacts
<1>3. UNCHANGED <<pin, clock, holds, touched, written>>
  BY DEF FetchReadFails
<1>4. TypeOK'
  BY <1>1, <1>2, <1>3, ConstantsAssumption DEF TypeOK
<1>5. PinsAccounted'
  BY <1>1, <1>2, <1>3 DEF PinsAccounted, Holders
<1>6. NoLostUpdate'
  BY <1>1, <1>2, <1>3 DEF NoLostUpdate
<1>7. WithinCapacity'
  <2>1. Cardinality(resident \ E) \in Nat /\ Capacity \in Nat
    BY <1>2, FS_CardinalityType, ConstantsAssumption
  <2>2. QED
    BY <1>1, <1>2, <2>1 DEF WithinCapacity
<1>8. TouchedHeld'
  BY <1>3 DEF TouchedHeld
<1>9. QED
  BY <1>4, <1>5, <1>6, <1>7, <1>8

LEMMA WritePreserves == ASSUME IInv, NEW g \in Guards, NEW v \in Values, Write(g, v) PROVE IInv'
<1> USE DEF IInv
<1>1. holds[g] \in Pages /\ holds[g] \in resident
  BY DEF Write, TypeOK, PinsAccounted
<1>2. TypeOK'
  BY <1>1 DEF TypeOK, Write
<1>3. PinsAccounted'
  BY DEF PinsAccounted, Holders, Write
<1>4. NoLostUpdate'
  BY <1>1 DEF NoLostUpdate, Write, TypeOK
<1>5. WithinCapacity'
  BY DEF WithinCapacity, Write
<1>6. TouchedHeld'
  BY DEF TouchedHeld, Write
<1>7. QED
  BY <1>2, <1>3, <1>4, <1>5, <1>6

LEMMA MarkDirtyPreserves == ASSUME IInv, NEW g \in Guards, MarkDirty(g) PROVE IInv'
<1> USE DEF IInv
<1>1. TypeOK'
  BY DEF TypeOK, MarkDirty
<1>2. PinsAccounted'
  BY DEF PinsAccounted, Holders, MarkDirty
<1>3. NoLostUpdate'
  BY DEF NoLostUpdate, MarkDirty, TypeOK
<1>4. WithinCapacity' /\ TouchedHeld'
  BY DEF WithinCapacity, TouchedHeld, MarkDirty
<1>5. QED
  BY <1>1, <1>2, <1>3, <1>4

LEMMA ReleasePreserves ==
  ASSUME IInv, NEW g \in Guards, NEW b \in BOOLEAN, Release(g, b) PROVE IInv'
<1> USE DEF IInv
<1> DEFINE p == holds[g]
<1>1. p \in Pages /\ p \in resident /\ pin[p] > 0
  BY DEF Release, TypeOK
<1>2. /\ holds' \in [Guards -> Pages \cup {None}]
      /\ \A h \in Guards : holds'[h] = IF h = g THEN None ELSE holds[h]
      /\ \A q \in Pages : q = p => Cardinality(Holders(q)') = Cardinality(Holders(q)) - 1
      /\ \A q \in Pages : q # p => Holders(q)' = Holders(q)
  BY <1>1, GuardGives DEF Release
<1>3. TypeOK'
  BY <1>1, <1>2 DEF TypeOK, Release
<1>4. PinsAccounted'
  <2>1. \A q \in Pages : pin'[q] = Cardinality(Holders(q)')
    BY <1>1, <1>2 DEF Release, TypeOK, PinsAccounted
  <2>2. \A h \in Guards : holds'[h] # None => holds'[h] \in resident'
    BY <1>2 DEF Release, PinsAccounted
  <2>3. QED
    BY <2>1, <2>2 DEF PinsAccounted
<1>5. NoLostUpdate'
  <2>1. \A q \in Pages : q # p => \A h \in touched : holds[h] = q => h \in touched' /\ holds'[h] = q
    BY <1>2 DEF Release, TypeOK
  <2>2. (\E h \in touched : holds[h] = p) => p \in dirty' \/ \E h \in touched' : holds'[h] = p
    BY <1>1, <1>2 DEF Release, TypeOK
  <2>3. \A q \in Pages : q \in dirty => q \in dirty'
    BY DEF Release
  <2>4. UNCHANGED <<resident, data, disk, written>>
    BY DEF Release
  <2> HIDE DEF p
  <2>5. QED
    BY <2>1, <2>2, <2>3, <2>4 DEF NoLostUpdate
<1>6. WithinCapacity'
  BY DEF WithinCapacity, Release
<1>7. TouchedHeld'
  BY <1>2 DEF TouchedHeld, Release, TypeOK
<1>8. QED
  BY <1>3, <1>4, <1>5, <1>6, <1>7

LEMMA FlushPreserves == ASSUME IInv, NEW S, Flush(S) PROVE IInv'
<1> USE DEF IInv
<1>1. TypeOK'
  BY DEF TypeOK, Flush, DiskAfterFlush
<1>2. PinsAccounted'
  BY DEF PinsAccounted, Holders, Flush
<1>3. NoLostUpdate'
  BY DEF NoLostUpdate, Flush, TypeOK, DiskAfterFlush
<1>4. WithinCapacity' /\ TouchedHeld'
  BY DEF WithinCapacity, TouchedHeld, Flush
<1>5. QED
  BY <1>1, <1>2, <1>3, <1>4

----------------------------------------------------------------------------
LEMMA InitInv == Init => IInv
<1> SUFFICES ASSUME Init PROVE IInv
  OBVIOUS
<1>1. TypeOK
  BY ConstantsAssumption DEF Init, TypeOK
<1>2. PinsAccounted
  <2>1. \A p \in Pages : Holders(p) = {}
    BY ConstantsAssumption DEF Init, Holders
  <2>2. QED
    BY <2>1, FS_EmptySet DEF Init, PinsAccounted
<1>3. NoLostUpdate /\ TouchedHeld
  BY DEF Init, NoLostUpdate, TouchedHeld
<1>4. WithinCapacity
  BY FS_EmptySet, ConstantsAssumption DEF Init, WithinCapacity
<1>5. QED
  BY <1>1, <1>2, <1>3, <1>4 DEF IInv

LEMMA NextInv == IInv /\ [Next]_vars => IInv'
<1> SUFFICES ASSUME IInv, [Next]_vars PROVE IInv'
  OBVIOUS
<1>1. CASE UNCHANGED vars
  BY <1>1 DEF vars, IInv, TypeOK, PinsAccounted, Holders, NoLostUpdate, WithinCapacity, TouchedHeld
<1>2. ASSUME NEW g \in Guards, NEW p \in Pages, Fetch(g, p) PROVE IInv'
  BY <1>2, FetchPreserves
<1>3. ASSUME NEW g \in Guards, NEW p \in Pages, NewPage(g, p) PROVE IInv'
  BY <1>3, NewPagePreserves
<1>4. ASSUME NEW g \in Guards, NEW v \in Values, Write(g, v) PROVE IInv'
  BY <1>4, WritePreserves
<1>5. ASSUME NEW g \in Guards, MarkDirty(g) PROVE IInv'
  BY <1>5, MarkDirtyPreserves
<1>6. ASSUME NEW g \in Guards, NEW b \in BOOLEAN, Release(g, b) PROVE IInv'
  BY <1>6, ReleasePreserves
<1>7. ASSUME NEW p \in Pages, FetchReadFails(p) PROVE IInv'
  BY <1>7, FetchReadFailsPreserves
<1>8. ASSUME NEW S, Flush(S) PROVE IInv'
  BY <1>8, FlushPreserves
<1>9. QED
  BY <1>1, <1>2, <1>3, <1>4, <1>5, <1>6, <1>7, <1>8 DEF Next

LEMMA InvAlways == Spec => []IInv
  BY InitInv, NextInv, PTL DEF Spec

(* Type correctness of the buffer pool of storage/buffer_pool.py.              *)
THEOREM TypeCorrect == Spec => []TypeOK
  BY InvAlways, PTL DEF IInv

(* The pin counts of _pin, unpin_page and new_page always agree with the       *)
(* guards in use, and _ensure_capacity never evicts a page in use.             *)
THEOREM PinsAlwaysAccounted == Spec => []PinsAccounted
  BY InvAlways, PTL DEF IInv

(* Eviction, flushing and failing reads never lose an update that its user     *)
(* reported before giving the guard back.                                      *)
THEOREM UpdatesNeverLost == Spec => []NoLostUpdate
  BY InvAlways, PTL DEF IInv

(* _ensure_capacity keeps the pool within capacity_pages frames.               *)
THEOREM CapacityRespected == Spec => []WithinCapacity
  BY InvAlways, PTL DEF IInv
=============================================================================
