----------------------------- MODULE BufferPool -----------------------------
(***************************************************************************)
(* caracaldb/storage/buffer_pool.py: a fixed number of page frames over a  *)
(* page file reached through the read_page/write_page callbacks, with pin  *)
(* counts, dirty flags and LRU-K eviction.  Pages are used through         *)
(* PageGuard objects, each of which owns one pin and gives it back once.   *)
(* A user changes a page while its guard holds it and reports the change   *)
(* (mark_dirty, or release(dirty=True)) before giving the guard back.      *)
(***************************************************************************)
EXTENDS Integers, Sequences, FiniteSets

CONSTANTS
    Pages,     \* page ids
    Guards,    \* PageGuard objects
    Values,    \* page contents
    Zero,      \* the contents of a page never written
    None,      \* "no page"
    Capacity,  \* capacity_pages
    LruK,      \* lru_k
    MaxClock   \* bound on the accesses counted by _clock

ASSUME ConstantsAssumption ==
    /\ Zero \in Values /\ None \notin Pages
    /\ IsFiniteSet(Pages) /\ IsFiniteSet(Guards)
    /\ Capacity \in Nat \ {0} /\ LruK \in Nat \ {0} /\ MaxClock \in Nat

VARIABLES
    resident,  \* keys of _frames
    data,      \* contents of the frames
    pin,       \* pin_count of the frames
    dirty,     \* pages whose frame is dirty
    access,    \* access_history of the frames
    clock,     \* _clock
    disk,      \* the page file behind the callbacks
    holds,     \* the page a guard has pinned, or None (released)
    touched,   \* guards whose user changed the page and has not reported it yet
    written    \* history: the last contents given to each page

vars == <<resident, data, pin, dirty, access, clock, disk, holds, touched, written>>

Init ==
    /\ resident = {} /\ dirty = {} /\ touched = {} /\ clock = 0
    /\ data = [p \in Pages |-> Zero] /\ disk = data /\ written = data
    /\ pin = [p \in Pages |-> 0]
    /\ access = [p \in Pages |-> <<>>]
    /\ holds = [g \in Guards |-> None]

----------------------------------------------------------------------------
(* _record_access: the clock ticks and the frame keeps its last LruK readings. *)
Keep(h) == IF Len(h) > LruK THEN SubSeq(h, Len(h) - LruK + 1, Len(h)) ELSE h

(* _choose_victim: among the unpinned frames, the smallest (k-th last access,  *)
(* last access), a frame with fewer than LruK accesses counting as -1.         *)
KthAccess(p) == IF Len(access[p]) >= LruK THEN access[p][1] ELSE -1
LastAccess(p) == IF access[p] = <<>> THEN -1 ELSE access[p][Len(access[p])]
Older(p, q) == \/ KthAccess(p) < KthAccess(q)
               \/ KthAccess(p) = KthAccess(q) /\ LastAccess(p) <= LastAccess(q)
(* Mutant: pinned frames are candidates too.                                   *)
MutCandidates == resident

Candidates == {p \in resident : pin[p] = 0}
Victims == {p \in Candidates : \A q \in Candidates : Older(p, q)}

(* Mutant: off by one, a full pool is not yet full.                            *)
MutEvictions == IF Cardinality(resident) <= Capacity THEN {{}} ELSE {{v} : v \in Victims}

(* _ensure_capacity: nothing to evict, or one victim; no victim raises         *)
(* CDB-7005 and the caller's operation does not happen.                        *)
Evictions == IF Cardinality(resident) < Capacity THEN {{}} ELSE {{v} : v \in Victims}

(* Mutant: frames in use are skipped, although their dirty flag is cleared.     *)
MutDiskAfterFlush(S) ==
    [p \in Pages |-> IF p \in S \cap dirty /\ pin[p] = 0 THEN data[p] ELSE disk[p]]

(* _flush_frame on a set of frames: dirty ones are written out.                *)
DiskAfterFlush(S) == [p \in Pages |-> IF p \in S \cap dirty THEN data[p] ELSE disk[p]]

(* The frames after evicting E and loading page p with contents v, pinned once. *)
Load(p, v, E) ==
    /\ resident' = (resident \ E) \cup {p}
    /\ data' = [q \in Pages |-> IF q = p THEN v ELSE IF q \in E THEN Zero ELSE data[q]]
    /\ pin' = [q \in Pages |-> IF q = p THEN 1 ELSE IF q \in E THEN 0 ELSE pin[q]]
    /\ clock' = clock + 1
    /\ access' = [q \in Pages |-> IF q = p THEN <<clock + 1>> ELSE IF q \in E THEN <<>> ELSE access[q]]

(* _pin: one more pin on a resident frame.                                     *)
Pin(p) ==
    /\ pin' = [pin EXCEPT ![p] = @ + 1]
    /\ clock' = clock + 1
    /\ access' = [access EXCEPT ![p] = Keep(Append(@, clock + 1))]
    /\ UNCHANGED resident

----------------------------------------------------------------------------
(* guard_page / fetch_page / pin_page by a free guard.                         *)
Fetch(g, p) ==
    /\ holds[g] = None /\ clock < MaxClock
    /\ holds' = [holds EXCEPT ![g] = p]
    /\ UNCHANGED <<touched, written>>
    /\ \/ /\ p \in resident
          /\ Pin(p)
          /\ UNCHANGED <<data, dirty, disk>>
       \/ /\ p \notin resident
          /\ \E E \in Evictions :
                /\ disk' = DiskAfterFlush(E)
                /\ dirty' = dirty \ E
                /\ Load(p, disk'[p], E)

(* read_page raises on a miss: the victim is already gone.                     *)
FetchReadFails(p) ==
    /\ p \notin resident
    /\ \E E \in Evictions \ {{}} :
          /\ disk' = DiskAfterFlush(E)
          /\ dirty' = dirty \ E
          /\ resident' = resident \ E
          /\ data' = [q \in Pages |-> IF q \in E THEN Zero ELSE data[q]]
          /\ access' = [q \in Pages |-> IF q \in E THEN <<>> ELSE access[q]]
    /\ UNCHANGED <<pin, clock, holds, touched, written>>

(* new_page: a zeroed, dirty frame; a resident one is zeroed in place.         *)
NewPage(g, p) ==
    /\ holds[g] = None /\ clock < MaxClock
    /\ holds' = [holds EXCEPT ![g] = p]
    /\ written' = [written EXCEPT ![p] = Zero]
    /\ UNCHANGED touched
    /\ \/ /\ p \in resident
          /\ Pin(p)
          /\ data' = [data EXCEPT ![p] = Zero]
          /\ dirty' = dirty \cup {p}
          /\ UNCHANGED disk
       \/ /\ p \notin resident
          /\ \E E \in Evictions :
                /\ disk' = DiskAfterFlush(E)
                /\ dirty' = (dirty \ E) \cup {p}
                /\ Load(p, Zero, E)

(* The user assigns to guard.data.                                             *)
Write(g, v) ==
    /\ holds[g] # None
    /\ data' = [data EXCEPT ![holds[g]] = v]
    /\ written' = [written EXCEPT ![holds[g]] = v]
    /\ touched' = touched \cup {g}
    /\ UNCHANGED <<resident, pin, dirty, access, clock, disk, holds>>

MarkDirty(g) ==
    /\ holds[g] \in resident
    /\ dirty' = dirty \cup {holds[g]}
    /\ touched' = touched \ {g}
    /\ UNCHANGED <<resident, data, pin, access, clock, disk, holds, written>>

(* release / unpin_page(dirty): refused when the page is not resident or not   *)
(* pinned.                                                                     *)
Release(g, isDirty) ==
    /\ holds[g] # None /\ (g \in touched => isDirty)
    /\ holds[g] \in resident /\ pin[holds[g]] > 0
    /\ pin' = [pin EXCEPT ![holds[g]] = @ - 1]
    /\ dirty' = IF isDirty THEN dirty \cup {holds[g]} ELSE dirty
    /\ touched' = touched \ {g}
    /\ holds' = [holds EXCEPT ![g] = None]
    /\ UNCHANGED <<resident, data, access, clock, disk, written>>

(* flush_page, flush_all: pinned frames are written too.                       *)
Flush(S) ==
    /\ S \subseteq resident
    /\ disk' = DiskAfterFlush(S)
    /\ dirty' = dirty \ S
    /\ UNCHANGED <<resident, data, pin, access, clock, holds, touched, written>>

Next ==
    \/ \E g \in Guards :
          \/ \E p \in Pages : Fetch(g, p) \/ NewPage(g, p)
          \/ \E v \in Values : Write(g, v)
          \/ MarkDirty(g)
          \/ \E b \in BOOLEAN : Release(g, b)
    \/ \E p \in Pages : FetchReadFails(p) \/ Flush({p})
    \/ Flush(resident)

Spec == Init /\ [][Next]_vars

----------------------------------------------------------------------------
TypeOK ==
    /\ resident \subseteq Pages /\ dirty \subseteq resident /\ touched \subseteq Guards
    /\ data \in [Pages -> Values] /\ disk \in [Pages -> Values] /\ written \in [Pages -> Values]
    /\ pin \in [Pages -> Nat] /\ clock \in Nat
    /\ access \in [Pages -> Seq(Nat)]
    /\ holds \in [Guards -> Pages \cup {None}]

Holders(p) == {g \in Guards : holds[g] = p}

(* The pin count of a page is the number of guards that hold it, and a page    *)
(* that is held is resident: no eviction takes a page from under its users.    *)
PinsAccounted ==
    /\ \A p \in Pages : pin[p] = Cardinality(Holders(p))
    /\ \A g \in Guards : holds[g] # None => holds[g] \in resident

(* No update is lost: what was last given to a page is in its frame or, when   *)
(* it has none, in the page file; and a frame that differs from the file will  *)
(* be written out, being dirty or in the hands of a user about to report it.   *)
NoLostUpdate ==
    \A p \in Pages :
        IF p \in resident
        THEN /\ data[p] = written[p]
             /\ \/ disk[p] = written[p]
                \/ p \in dirty
                \/ \E g \in touched : holds[g] = p
        ELSE disk[p] = written[p]

(* The pool never holds more pages than its capacity.                          *)
WithinCapacity == Cardinality(resident) <= Capacity
=============================================================================
