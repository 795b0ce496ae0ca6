-------------------------- MODULE SnapshotsProofs --------------------------
(***************************************************************************)
(* What the clock, the stores and the snapshot registry keep through every *)
(* interruption, for any number of keys, values, classes and snapshots.    *)
(*                                                                         *)
(* The rows that reads see depend on the listed chunks only, so the lemmas *)
(* speak of the set of these: removing a store takes chunks away, writing  *)
(* a chunk file changes nothing, listing it adds a chunk.                  *)
(***************************************************************************)
EXTENDS Snapshots, SequenceTheorems, WellFoundedInduction, TLAPS

(* The listed chunks of stores with chunk files f, of which l are listed.      *)
Listed(f, l) == {x \in Chunk : \E c \in Class : \E i \in 1..l[c] : x = f[c][i]}
Stores(f, l) == /\ f \in [Class -> Seq(Chunk)] /\ l \in [Class -> Nat]
                /\ \A c \in Class : l[c] <= Len(f[c])

LEMMA StoreChunks ==
    ASSUME NEW f, NEW l, Stores(f, l), NEW c \in Class
    PROVE  /\ l[c] \in Nat /\ Len(f[c]) \in Nat /\ f[c] \in Seq(Chunk)
           /\ \A i \in 1..l[c] : f[c][i] \in Chunk
           /\ SubSeq(f[c], 1, l[c]) \in Seq(Chunk) /\ Len(SubSeq(f[c], 1, l[c])) = l[c]
           /\ \A i \in 1..l[c] : SubSeq(f[c], 1, l[c])[i] = f[c][i]
<1> DEFINE s == f[c]
           n == l[c]
<1>1. s \in Seq(Chunk) /\ n \in Nat /\ n <= Len(s) /\ Len(s) \in Nat
    BY DEF Stores
<1> HIDE DEF s, n
<1>2. \A i \in 1..n : i \in 1..Len(s) /\ s[i] \in Chunk
    BY <1>1, ElementOfSeq
<1>3. /\ SubSeq(s, 1, n) \in Seq(Chunk) /\ Len(SubSeq(s, 1, n)) = n
      /\ \A i \in 1..n : SubSeq(s, 1, n)[i] = s[i]
    <2>1. \A i \in 1..n : s[i] \in Chunk
        BY <1>2
    <2>2. 1 \in Int /\ n \in Int
        BY <1>1
    <2>3. /\ SubSeq(s, 1, n) \in Seq(Chunk)
          /\ Len(SubSeq(s, 1, n)) = IF 1 <= n THEN n - 1 + 1 ELSE 0
          /\ \A i \in 1..(n - 1 + 1) : SubSeq(s, 1, n)[i] = s[1 + i - 1]
        BY <2>1, <2>2, SubSeqProperties
    <2> QED BY <1>1, <2>3
<1> QED BY <1>1, <1>2, <1>3 DEF s, n

LEMMA ChunksOfStore ==
    ASSUME NEW f, NEW l, Stores(f, l), NEW c \in Class
    PROVE  ToSet(SubSeq(f[c], 1, l[c])) = {x \in Chunk : \E i \in 1..l[c] : x = f[c][i]}
<1> DEFINE s == SubSeq(f[c], 1, l[c])
<1>1. s \in Seq(Chunk) /\ Len(s) = l[c] /\ \A i \in 1..l[c] : s[i] = f[c][i] /\ f[c][i] \in Chunk
    BY StoreChunks
<1> HIDE DEF s
<1>2. DOMAIN s = 1..l[c]
    BY <1>1
<1>3. ToSet(s) = {x \in Chunk : \E i \in 1..l[c] : x = f[c][i]}
    BY <1>1, <1>2 DEF ToSet
<1> QED BY <1>3 DEF s

LEMMA ListedChunks ==
    ASSUME NEW f, NEW l, Stores(f, l)
    PROVE  UNION {ToSet(SubSeq(f[c], 1, l[c])) : c \in Class} = Listed(f, l)
<1>1. \A c \in Class : ToSet(SubSeq(f[c], 1, l[c])) = {x \in Chunk : \E i \in 1..l[c] : x = f[c][i]}
    BY ChunksOfStore
<1> QED BY <1>1 DEF Listed

(* The reads, in terms of the listed chunks.                                   *)
LEMMA Reads ==
    ASSUME Stores(files, listed)
    PROVE  /\ AllRows = UNION {x.rows : x \in Listed(files, listed)}
           /\ \A n : VisibleAt(n) = UNION {x.rows : x \in {y \in Listed(files, listed) : y.created <= n}}
BY ListedChunks DEF AllRows, VisibleAt, Chunks

(* Removing a store.                                                           *)
LEMMA Removed ==
    ASSUME NEW f, NEW l, Stores(f, l), NEW c \in Class
    PROVE  /\ Stores([f EXCEPT ![c] = <<>>], [l EXCEPT ![c] = 0])
           /\ Listed([f EXCEPT ![c] = <<>>], [l EXCEPT ![c] = 0]) \subseteq Listed(f, l)
<1> DEFINE g == [f EXCEPT ![c] = <<>>]
           m == [l EXCEPT ![c] = 0]
<1>1. g \in [Class -> Seq(Chunk)] /\ m \in [Class -> Nat]
    BY DEF Stores
<1>2. \A d \in Class : (d = c => m[d] = 0 /\ g[d] = <<>>) /\ (d # c => m[d] = l[d] /\ g[d] = f[d])
    BY DEF Stores
<1> HIDE DEF g, m
<1>3. \A d \in Class : m[d] <= Len(g[d])
    BY <1>2 DEF Stores
<1>4. \A x \in Listed(g, m) : x \in Listed(f, l)
    <2> SUFFICES ASSUME NEW x \in Listed(g, m) PROVE x \in Listed(f, l)
        OBVIOUS
    <2>1. PICK d \in Class : \E i \in 1..m[d] : x = g[d][i]
        BY DEF Listed
    <2>2. PICK i \in 1..m[d] : x = g[d][i]
        BY <2>1
    <2>3. d # c
        BY <1>2, <2>2
    <2> QED BY <1>2, <2>2, <2>3 DEF Listed
<1> QED BY <1>1, <1>3, <1>4 DEF Stores, g, m

(* Writing a chunk file behind the listed ones.                                *)
Put(f, l, c, x) == [f EXCEPT ![c] = Append(SubSeq(f[c], 1, l[c]), x)]

LEMMA Written ==
    ASSUME NEW f, NEW l, Stores(f, l), NEW c \in Class, NEW x \in Chunk
    PROVE  /\ Stores(Put(f, l, c, x), l) /\ Listed(Put(f, l, c, x), l) = Listed(f, l)
           /\ Len(Put(f, l, c, x)[c]) = l[c] + 1 /\ Put(f, l, c, x)[c][l[c] + 1] = x
           /\ \A d \in Class : \A i \in 1..l[d] : Put(f, l, c, x)[d][i] = f[d][i]
<1> DEFINE s == SubSeq(f[c], 1, l[c])
           g == Put(f, l, c, x)
<1>1. s \in Seq(Chunk) /\ Len(s) = l[c] /\ l[c] \in Nat /\ \A i \in 1..l[c] : s[i] = f[c][i]
    BY StoreChunks
<1> HIDE DEF s
<1>2. /\ Append(s, x) \in Seq(Chunk) /\ Len(Append(s, x)) = l[c] + 1 /\ Append(s, x)[l[c] + 1] = x
      /\ \A i \in 1..l[c] : Append(s, x)[i] = f[c][i]
    BY <1>1
<1>3. g \in [Class -> Seq(Chunk)] /\ g[c] = Append(s, x) /\ \A d \in Class : d # c => g[d] = f[d]
    BY <1>2 DEF Stores, s, Put
<1> HIDE DEF g
<1>4. \A d \in Class : \A i \in 1..l[d] : g[d][i] = f[d][i]
    BY <1>2, <1>3
<1>5. Listed(g, l) = Listed(f, l)
    BY <1>4 DEF Listed
<1>6. ASSUME NEW d \in Class PROVE l[d] <= Len(g[d])
    <2>1. CASE d = c
        BY <1>1, <1>2, <1>3, <2>1
    <2>2. CASE d # c
        BY <1>3, <2>2 DEF Stores
    <2> QED BY <2>1, <2>2
<1>7. Stores(g, l)
    BY <1>3, <1>6 DEF Stores
<1> QED BY <1>2, <1>3, <1>4, <1>5, <1>7 DEF g

(* Listing it.                                                                 *)
Plus(l, c) == [l EXCEPT ![c] = @ + 1]

LEMMA Shown ==
    ASSUME NEW f, NEW l, Stores(f, l), NEW c \in Class, Len(f[c]) = l[c] + 1
    PROVE  /\ Stores(f, Plus(l, c)) /\ f[c][l[c] + 1] \in Chunk
           /\ Listed(f, Plus(l, c)) = Listed(f, l) \cup {f[c][l[c] + 1]}
<1> DEFINE m == Plus(l, c)
<1>1. m \in [Class -> Nat] /\ m[c] = l[c] + 1 /\ l[c] \in Nat /\ \A d \in Class : d # c => m[d] = l[d]
    BY DEF Stores, Plus
<1> HIDE DEF m
<1>2. ASSUME NEW d \in Class PROVE m[d] <= Len(f[d])
    <2>1. CASE d = c
        BY <1>1, <2>1
    <2>2. CASE d # c
        BY <1>1, <2>2 DEF Stores
    <2> QED BY <2>1, <2>2
<1>3. Stores(f, m)
    BY <1>1, <1>2 DEF Stores
<1>4. \A d \in Class : \A i \in 1..m[d] : i \in 1..l[d] \/ (d = c /\ i = l[c] + 1)
    BY <1>1 DEF Stores
<1>5. ASSUME NEW d \in Class PROVE \A i \in 1..l[d] : i \in 1..m[d]
    <2>1. l[d] \in Nat /\ m[d] \in Nat
        BY <1>1 DEF Stores
    <2>2. l[d] <= m[d]
        BY <1>1, <2>1
    <2> QED BY <2>1, <2>2
<1>6. l[c] + 1 \in 1..m[c]
    BY <1>1
<1>7. f[c][l[c] + 1] \in Chunk
    BY <1>3, <1>6, StoreChunks
<1>8. Listed(f, m) = Listed(f, l) \cup {f[c][l[c] + 1]}
    BY <1>4, <1>5, <1>6, <1>7 DEF Listed
<1> QED BY <1>3, <1>7, <1>8 DEF m
-----------------------------------------------------------------------------
(* A call that writes to a store knows the store; only an upsert removes       *)
(* stores and has more than one to do, and every snapshot there is has then    *)
(* been moved; a chunk file about to be listed is the one the call wrote.      *)
JobShape ==
    /\ job.phase \in {"clock", "chunk", "list"} => job.cls \in Class
    /\ job.phase = "remove" => job.upsert
    /\ ~job.upsert => job.todo = {}
    /\ job.upsert => DOMAIN registry \subseteq moved
    /\ job.phase = "list" =>
          /\ Len(files[job.cls]) = listed[job.cls] + 1
          /\ files[job.cls][listed[job.cls] + 1] = [rows |-> job.rows, created |-> job.lsn]

(* The clock is ahead of everything stamped with it; the stamp of the write in *)
(* progress is ahead of everything else.                                       *)
Clocks ==
    /\ mem = manifest
    /\ \A n \in DOMAIN registry : registry[n].lsn <= mem.last
    /\ \A x \in Listed(files, listed) : x.created <= mem.last
    /\ job.phase \in {"chunk", "list"} =>
          /\ job.lsn <= mem.last
          /\ \A n \in DOMAIN registry : registry[n].lsn < job.lsn
          /\ \A x \in Listed(files, listed) : x.created < job.lsn

(* SnapshotFixed, chunk by chunk.                                              *)
Fixed ==
    \A n \in DOMAIN registry :
        /\ \A x \in Listed(files, listed) : x.created <= registry[n].lsn => x.rows \subseteq taken[n]
        /\ n \notin moved => \A r \in taken[n] : \E x \in Listed(files, listed) : x.created <= registry[n].lsn /\ r \in x.rows

SInv == TypeOK /\ JobShape /\ Clocks /\ OneWritePerLsn /\ Fixed /\ MirrorExact

LEMMA Types ==
    ASSUME TypeOK
    PROVE  /\ Stores(files, listed) /\ mem.last \in Nat /\ mem \in Manifest /\ manifest \in Manifest
           /\ \A n \in DOMAIN registry : registry[n].lsn \in Nat /\ registry[n].ref \in Nat \ {0}
           /\ job \in Job /\ job.phase \in Phases /\ job.cls \in Class \cup {""} /\ job.rows \subseteq Row
           /\ job.todo \subseteq Work /\ job.lsn \in Nat /\ job.upsert \in BOOLEAN /\ job.keys \subseteq Keys
           /\ \A x \in Listed(files, listed) : x \in Chunk /\ x.created \in Nat /\ x.rows \subseteq Row
<1>1. Stores(files, listed) /\ mem.last \in Nat /\ mem \in Manifest /\ manifest \in Manifest
    BY DEF TypeOK, Stores, Manifest
<1>2. \A n \in DOMAIN registry : registry[n].lsn \in Nat /\ registry[n].ref \in Nat \ {0}
    BY DEF TypeOK
<1>3. /\ job \in Job /\ job.phase \in Phases /\ job.cls \in Class \cup {""} /\ job.rows \subseteq Row
      /\ job.todo \subseteq Work /\ job.lsn \in Nat /\ job.upsert \in BOOLEAN /\ job.keys \subseteq Keys
    BY DEF TypeOK, Job
<1>4. \A x \in Listed(files, listed) : x \in Chunk /\ x.created \in Nat /\ x.rows \subseteq Row
    BY DEF Listed, Chunk
<1> QED BY <1>1, <1>2, <1>3, <1>4

LEMMA IdleJob ==
    /\ Idle \in Job /\ Idle.phase = "idle" /\ Idle.cls = "" /\ Idle.rows = {} /\ Idle.todo = {}
    /\ Idle.lsn = 0 /\ Idle.upsert = FALSE /\ Idle.keys = {}
BY DEF Idle, Job, Phases

(* A step that moves the call on, and no store, clock or snapshot.             *)
LEMMA CallStep ==
    ASSUME SInv, UNCHANGED <<manifest, mem, registry, files, listed, taken>>,
           job' \in Job, job' = job \/ job'.phase \notin {"chunk", "list"},
           moved \subseteq moved', moved' \subseteq Names, acked' \subseteq Keys, up' \in BOOLEAN,
           damaged' \in BOOLEAN, unmirrored' \in BOOLEAN, JobShape', MirrorExact'
    PROVE  SInv'
<1>1. TypeOK'
    BY DEF SInv, TypeOK
<1>2. Clocks'
    BY DEF SInv, Clocks
<1>3. OneWritePerLsn'
    BY DEF SInv, OneWritePerLsn
<1>4. Fixed'
    BY DEF SInv, Fixed
<1> QED BY <1>1, <1>2, <1>3, <1>4 DEF SInv

LEMMA OpenStep == SInv /\ Open => SInv'
<1> SUFFICES ASSUME SInv, Open PROVE SInv'
    OBVIOUS
<1>1. mem' = mem /\ up' = TRUE /\ UNCHANGED <<manifest, registry, files, listed, job, taken, moved, acked, damaged, unmirrored>>
    BY DEF Open, SInv, Clocks
<1>2. JobShape' /\ MirrorExact'
    BY <1>1 DEF SInv, JobShape, MirrorExact
<1>3. job' \in Job /\ moved' \subseteq Names /\ acked' \subseteq Keys /\ damaged' \in BOOLEAN /\ unmirrored' \in BOOLEAN
    BY <1>1 DEF SInv, TypeOK
<1> QED BY <1>1, <1>2, <1>3, CallStep

LEMMA InsertStep ==
    ASSUME SInv, NEW c \in Class, NEW k \in Keys, NEW v \in Values, Insert(c, k, v)
    PROVE  SInv'
<1>1. /\ job' = [phase |-> "clock", cls |-> c, rows |-> {[cls |-> c, key |-> k, val |-> v]}, todo |-> {},
                 lsn |-> 0, upsert |-> FALSE, keys |-> {k}]
      /\ job = Idle /\ UNCHANGED <<manifest, mem, up, registry, files, listed, taken, moved, acked, damaged, unmirrored>>
    BY DEF Insert
<1>2. job' \in Job
    <2>1. [cls |-> c, key |-> k, val |-> v] \in Row
        BY DEF Row
    <2> DEFINE rows == {[cls |-> c, key |-> k, val |-> v]}
    <2>2. rows \in SUBSET Row /\ {k} \in SUBSET Keys /\ {} \in SUBSET Work /\ c \in Class \cup {""} /\ "clock" \in Phases
        BY <2>1 DEF Phases
    <2> HIDE DEF rows
    <2>3. [phase |-> "clock", cls |-> c, rows |-> rows, todo |-> {}, lsn |-> 0, upsert |-> FALSE, keys |-> {k}] \in Job
        BY <2>2 DEF Job
    <2> QED BY <1>1, <2>3 DEF rows
<1>3. job'.phase = "clock" /\ job'.cls = c /\ ~job'.upsert /\ job'.todo = {}
    BY <1>1
<1>4. JobShape'
    BY <1>3 DEF JobShape
<1>5. MirrorExact'
    <2>1. job.phase = "idle" /\ UNCHANGED <<manifest, registry, unmirrored>>
        BY <1>1, IdleJob
    <2> QED BY <2>1 DEF SInv, MirrorExact
<1>6. moved' \subseteq Names /\ acked' \subseteq Keys /\ damaged' \in BOOLEAN /\ unmirrored' \in BOOLEAN /\ up' \in BOOLEAN
    BY <1>1 DEF SInv, TypeOK
<1> QED BY <1>1, <1>2, <1>3, <1>4, <1>5, <1>6, CallStep

(* What an upsert has to write are rows of the stores.                         *)
LEMMA RewritesRows ==
    ASSUME TypeOK, NEW row \in Row, NEW update \in BOOLEAN
    PROVE  Existing \subseteq AllRows /\ AllRows \subseteq Row /\ Rewrites(row, update) \subseteq Work
<1>1. Stores(files, listed)
    BY Types
<1>2. AllRows = UNION {x.rows : x \in Listed(files, listed)}
    BY <1>1, Reads
<1>3. AllRows \subseteq Row
    BY <1>2, Types
<1>4. \A p \in Places : RowsAt(p) \subseteq AllRows
    <2> SUFFICES ASSUME NEW p \in Places PROVE RowsAt(p) \subseteq AllRows
        OBVIOUS
    <2>1. PICK i \in DOMAIN Classes : \E j \in 1..listed[Classes[i]] : p = <<i, j>>
        BY DEF Places
    <2>2. PICK j \in 1..listed[Classes[i]] : p = <<i, j>>
        BY <2>1
    <2>3. Classes[i] \in Class
        BY <2>1 DEF Class, ToSet
    <2>4. files[Classes[i]][j] \in Listed(files, listed)
        BY <1>1, <2>2, <2>3, StoreChunks DEF Listed
    <2>5. RowsAt(p) = files[Classes[i]][j].rows
        BY <2>2 DEF RowsAt
    <2> QED BY <1>2, <2>4, <2>5
<1>5. Existing \subseteq AllRows
    BY <1>4 DEF Existing
<1>6. Final(row, update) \subseteq Row
    BY <1>3, <1>5 DEF Final
<1>7. Rewrites(row, update) \subseteq Work
    BY <1>6 DEF Rewrites, Work
<1> QED BY <1>3, <1>5, <1>7

LEMMA UpsertStep ==
    ASSUME SInv, NEW c \in Class, NEW k \in Keys, NEW v \in Values, NEW update \in BOOLEAN, Upsert(c, k, v, update)
    PROVE  SInv'
<1> DEFINE row == [cls |-> c, key |-> k, val |-> v]
           todo == Rewrites(row, update)
<1>1. row \in Row
    BY DEF Row
<1>2. todo \subseteq Work
    BY <1>1, RewritesRows DEF SInv
<1>3. /\ job = Idle /\ job' = [Idle EXCEPT !.phase = "remove", !.upsert = TRUE, !.keys = {k}, !.todo = todo]
      /\ moved' = moved \cup DOMAIN registry
      /\ UNCHANGED <<manifest, mem, up, registry, files, listed, taken, acked, damaged, unmirrored>>
    BY DEF Upsert
<1> HIDE DEF todo
<1>4. job' \in Job /\ job'.phase = "remove" /\ job'.upsert = TRUE /\ job'.todo = todo
    BY <1>2, <1>3 DEF Idle, Job, Phases
<1>5. JobShape'
    BY <1>3, <1>4 DEF JobShape
<1>6. MirrorExact'
    BY <1>3, <1>4, IdleJob DEF SInv, MirrorExact
<1>7. moved' \subseteq Names /\ acked' \subseteq Keys /\ damaged' \in BOOLEAN /\ unmirrored' \in BOOLEAN /\ up' \in BOOLEAN
    BY <1>3 DEF SInv, TypeOK
<1> QED BY <1>3, <1>4, <1>5, <1>6, <1>7, CallStep

(* A call that ends, or is cut short.                                          *)
LEMMA StopStep ==
    ASSUME SInv, Stop \/ AppendFails \/ RewriteFails
    PROVE  SInv'
<1>1. /\ job' = Idle /\ UNCHANGED <<manifest, mem, registry, files, listed, taken, moved, acked>>
      /\ up' \in BOOLEAN /\ damaged' \in BOOLEAN /\ unmirrored' \in BOOLEAN
      /\ job.phase = "mirror" => unmirrored'
      /\ unmirrored => unmirrored'
    BY Types DEF Stop, AppendFails, RewriteFails, SInv, TypeOK
<1>2. JobShape'
    BY <1>1, IdleJob DEF JobShape
<1>3. MirrorExact'
    BY <1>1 DEF SInv, MirrorExact
<1>4. moved' \subseteq Names /\ acked' \subseteq Keys
    BY <1>1 DEF SInv, TypeOK
<1> QED BY <1>1, <1>2, <1>3, <1>4, IdleJob, CallStep
-----------------------------------------------------------------------------
(* The steps of a write.                                                       *)
LEMMA Done ==
    ASSUME TypeOK, NEW left \in SUBSET job.todo, StoreDone(left)
    PROVE  /\ job' \in Job /\ acked' \subseteq Keys /\ (left # {} => acked' = acked)
           /\ left = {} => job' = Idle /\ acked' = acked \cup job.keys
           /\ left # {} => /\ job'.phase = "remove" /\ job'.todo = left /\ job'.upsert = job.upsert
                           /\ job'.keys = job.keys
<1>1. job \in Job /\ job.keys \subseteq Keys /\ job.todo \subseteq Work /\ acked \subseteq Keys
    BY Types DEF TypeOK
<1>2. CASE left = {}
    BY <1>1, <1>2, IdleJob DEF StoreDone
<1>3. CASE left # {}
    <2>1. job' = [job EXCEPT !.phase = "remove", !.todo = left] /\ acked' = acked
        BY <1>3 DEF StoreDone
    <2>2. "remove" \in Phases /\ left \in SUBSET Work
        BY <1>1 DEF Phases
    <2>3. job' \in Job
        BY <1>1, <2>1, <2>2 DEF Job
    <2> QED BY <1>1, <1>3, <2>1, <2>3 DEF Job
<1> QED BY <1>2, <1>3

(* The invariant, when the listed chunks do not grow and the call is not       *)
(* between the clock and the listing.                                          *)
LEMMA StoreStep ==
    ASSUME SInv, UNCHANGED <<manifest, mem, up, registry, taken, moved, damaged, unmirrored>>,
           Stores(files', listed'), Listed(files', listed') \subseteq Listed(files, listed),
           OneWritePerLsn', job.upsert, job' \in Job, acked' \subseteq Keys,
           job'.phase \in {"idle", "remove", "clock"}, JobShape', job.phase = "remove"
    PROVE  SInv'
<1>1. TypeOK'
    BY DEF SInv, TypeOK, Stores
<1>2. Clocks'
    BY DEF SInv, Clocks
<1>3. Fixed'
    BY DEF SInv, Fixed, JobShape
<1>4. MirrorExact'
    BY DEF SInv, MirrorExact
<1> QED BY <1>1, <1>2, <1>3, <1>4 DEF SInv

LEMMA RemoveStep == SInv /\ RemoveStore => SInv'
<1> SUFFICES ASSUME SInv, RemoveStore PROVE SInv'
    OBVIOUS
<1>1. PICK w \in job.todo :
          /\ files' = [files EXCEPT ![w.cls] = <<>>]
          /\ listed' = [listed EXCEPT ![w.cls] = 0]
          /\ IF w.rows = {} THEN StoreDone(job.todo \ {w})
             ELSE /\ job' = [job EXCEPT !.phase = "clock", !.cls = w.cls, !.rows = w.rows, !.todo = @ \ {w}]
                  /\ UNCHANGED acked
    BY DEF RemoveStore
<1>2. job.phase = "remove" /\ UNCHANGED <<manifest, mem, up, registry, taken, moved, damaged, unmirrored>>
    BY DEF RemoveStore
<1>3. TypeOK /\ job \in Job /\ job.upsert /\ w \in Work /\ w.cls \in Class /\ w.rows \subseteq Row /\ Stores(files, listed)
      /\ job.todo \subseteq Work /\ DOMAIN registry \subseteq moved /\ acked \subseteq Keys
    BY <1>2, Types DEF SInv, JobShape, Work, TypeOK
<1>4. Stores(files', listed') /\ Listed(files', listed') \subseteq Listed(files, listed)
    BY <1>1, <1>3, Removed
<1>5. OneWritePerLsn'
    <2>1. \A d \in Class : (d = w.cls => listed'[d] = 0) /\ (d # w.cls => listed'[d] = listed[d] /\ files'[d] = files[d])
        BY <1>1, <1>3 DEF Stores
    <2>2. \A d \in Class : \A i \in 1..listed'[d] : d # w.cls /\ i \in 1..listed[d]
        BY <2>1
    <2> QED BY <2>1, <2>2 DEF SInv, OneWritePerLsn
<1>6. /\ job' \in Job /\ acked' \subseteq Keys /\ job'.phase \in {"idle", "remove", "clock"}
      /\ job'.phase = "clock" => job'.cls \in Class
      /\ job'.phase = "remove" => job'.upsert
      /\ ~job'.upsert => job'.todo = {}
    <2>1. CASE w.rows = {}
        <3>1. (job.todo \ {w}) \in SUBSET job.todo /\ StoreDone(job.todo \ {w})
            BY <1>1, <2>1
        <3> QED BY <1>3, <3>1, Done, IdleJob
    <2>2. CASE w.rows # {}
        <3>1. job' = [job EXCEPT !.phase = "clock", !.cls = w.cls, !.rows = w.rows, !.todo = @ \ {w}] /\ acked' = acked
            BY <1>1, <2>2
        <3>2. "clock" \in Phases /\ w.cls \in Class \cup {""} /\ (job.todo \ {w}) \in SUBSET Work
            BY <1>3 DEF Phases
        <3>3. job' \in Job
            BY <1>3, <3>1, <3>2 DEF Job
        <3> QED BY <1>3, <3>1, <3>3 DEF Job
    <2> QED BY <2>1, <2>2
<1>7. JobShape'
    BY <1>2, <1>3, <1>6 DEF JobShape
<1> QED BY <1>2, <1>3, <1>4, <1>5, <1>6, <1>7, StoreStep

LEMMA ClockStep == SInv /\ Clock => SInv'
<1> SUFFICES ASSUME SInv, Clock PROVE SInv'
    OBVIOUS
<1>1. /\ job.phase = "clock" /\ mem' = [mem EXCEPT !.last = @ + 1] /\ manifest' = mem'
      /\ job' = [job EXCEPT !.phase = "chunk", !.lsn = mem.last + 1]
      /\ UNCHANGED <<up, registry, files, listed, taken, moved, acked, damaged, unmirrored>>
    BY DEF Clock
<1>2. TypeOK /\ job \in Job /\ mem \in Manifest /\ mem.last \in Nat /\ mem = manifest
      /\ \A n \in DOMAIN registry : registry[n].lsn \in Nat
      /\ \A x \in Listed(files, listed) : x.created \in Nat
    BY Types DEF SInv, Clocks
<1>3. mem' \in Manifest /\ mem'.last = mem.last + 1 /\ mem'.snaps = mem.snaps
    BY <1>1, <1>2 DEF Manifest
<1>4. /\ job' \in Job /\ job'.phase = "chunk" /\ job'.lsn = mem.last + 1 /\ job'.cls = job.cls
      /\ job'.upsert = job.upsert /\ job'.todo = job.todo
    <2>1. "chunk" \in Phases /\ mem.last + 1 \in Nat
        BY <1>2 DEF Phases
    <2>2. job' \in Job
        BY <1>1, <1>2, <2>1 DEF Job
    <2> QED BY <1>1, <1>2, <2>2 DEF Job
<1>5. TypeOK'
    BY <1>1, <1>3, <1>4 DEF SInv, TypeOK
<1>6. JobShape'
    BY <1>1, <1>4 DEF SInv, JobShape
<1>7. Clocks'
    <2>1. \A n \in DOMAIN registry : registry[n].lsn <= mem.last
        BY DEF SInv, Clocks
    <2>2. \A x \in Listed(files, listed) : x.created <= mem.last
        BY DEF SInv, Clocks
    <2>3. registry' = registry /\ Listed(files', listed') = Listed(files, listed) /\ mem' = manifest'
        BY <1>1
    <2>4. \A n \in DOMAIN registry : registry[n].lsn < mem.last + 1
        BY <1>2, <2>1
    <2>5. \A x \in Listed(files, listed) : x.created < mem.last + 1 /\ x.created <= mem.last + 1
        <3> SUFFICES ASSUME NEW x \in Listed(files, listed)
                     PROVE  x.created < mem.last + 1 /\ x.created <= mem.last + 1
            OBVIOUS
        <3>1. x.created \in Nat /\ mem.last \in Nat
            BY Types DEF SInv
        <3>2. x.created <= mem.last
            BY <2>2
        <3> QED BY <3>1, <3>2
    <2>6. \A n \in DOMAIN registry : registry[n].lsn <= mem.last + 1
        BY <1>2, <2>1
    <2>7. \A x \in Listed(files', listed') : x.created <= mem'.last /\ x.created < job'.lsn
        BY <1>3, <1>4, <2>3, <2>5
    <2>8. \A n \in DOMAIN registry' : registry'[n].lsn <= mem'.last /\ registry'[n].lsn < job'.lsn
        BY <1>3, <1>4, <2>3, <2>4, <2>6
    <2>9. job'.lsn <= mem'.last
        BY <1>2, <1>3, <1>4
    <2> QED BY <2>3, <2>7, <2>8, <2>9 DEF Clocks
<1>8. OneWritePerLsn' /\ Fixed'
    BY <1>1 DEF SInv, OneWritePerLsn, Fixed
<1>9. MirrorExact'
    BY <1>1, <1>2, <1>3 DEF SInv, MirrorExact
<1> QED BY <1>5, <1>6, <1>7, <1>8, <1>9 DEF SInv

LEMMA WriteStep == SInv /\ WriteChunk => SInv'
<1> SUFFICES ASSUME SInv, WriteChunk PROVE SInv'
    OBVIOUS
<1> DEFINE x == [rows |-> job.rows, created |-> job.lsn]
           c == job.cls
<1>1. /\ job.phase = "chunk" /\ files' = [files EXCEPT ![c] = Append(SubSeq(files[c], 1, listed[c]), x)]
      /\ job' = [job EXCEPT !.phase = "list"]
      /\ UNCHANGED <<manifest, mem, up, registry, listed, taken, moved, acked, damaged, unmirrored>>
    BY DEF WriteChunk, Chunks
<1>2. /\ TypeOK /\ job \in Job /\ job.rows \subseteq Row /\ job.lsn \in Nat /\ Stores(files, listed) /\ c \in Class
    BY <1>1, Types DEF SInv, JobShape
<1>3. x \in Chunk
    BY <1>2 DEF Chunk
<1>4. /\ job' \in Job /\ job'.phase = "list" /\ job'.lsn = job.lsn /\ job'.cls = c /\ job'.rows = job.rows
      /\ job'.upsert = job.upsert /\ job'.todo = job.todo
    BY <1>1, <1>2 DEF Job, Phases
<1> HIDE DEF x, c
<1>5. /\ Stores(files', listed) /\ Listed(files', listed) = Listed(files, listed)
      /\ Len(files'[c]) = listed[c] + 1 /\ files'[c][listed[c] + 1] = x
      /\ \A d \in Class : \A i \in 1..listed[d] : files'[d][i] = files[d][i]
    <2>1. Stores(files, listed) /\ c \in Class /\ files' = Put(files, listed, c, x)
        BY <1>1, <1>2 DEF Put
    <2> QED BY <1>3, <2>1, Written
<1>6. TypeOK'
    BY <1>1, <1>4, <1>5 DEF SInv, TypeOK, Stores
<1>7. JobShape'
    BY <1>1, <1>2, <1>4, <1>5 DEF SInv, JobShape, x
<1>8. Clocks'
    <2>1. registry' = registry /\ Listed(files', listed') = Listed(files, listed) /\ mem' = mem /\ manifest' = manifest
        BY <1>1, <1>5
    <2>2. Clocks /\ job.phase = "chunk"
        BY <1>1 DEF SInv
    <2> QED BY <1>4, <2>1, <2>2 DEF Clocks
<1>9. OneWritePerLsn'
    <2>1. listed' = listed /\ \A d \in Class : \A i \in 1..listed[d] : files'[d][i] = files[d][i]
        BY <1>1, <1>5
    <2> QED BY <2>1 DEF SInv, OneWritePerLsn
<1>10. Fixed'
    BY <1>1, <1>5 DEF SInv, Fixed
<1>11. MirrorExact'
    BY <1>1 DEF SInv, MirrorExact
<1> QED BY <1>6, <1>7, <1>8, <1>9, <1>10, <1>11 DEF SInv
LEMMA ListStep == SInv /\ ListChunk => SInv'
<1> SUFFICES ASSUME SInv, ListChunk PROVE SInv'
    OBVIOUS
<1> DEFINE c == job.cls
           x == files[c][listed[c] + 1]
<1>1. /\ job.phase = "list" /\ listed' = [listed EXCEPT ![c] = @ + 1] /\ StoreDone(job.todo)
      /\ UNCHANGED <<manifest, mem, up, registry, files, taken, moved, damaged, unmirrored>>
    BY DEF ListChunk
<1>2. TypeOK /\ Stores(files, listed) /\ c \in Class /\ job.lsn \in Nat
    BY <1>1, Types DEF SInv, JobShape
<1>3. Len(files[c]) = listed[c] + 1 /\ x = [rows |-> job.rows, created |-> job.lsn]
    BY <1>1 DEF SInv, JobShape
<1>4. x.created = job.lsn /\ x.rows = job.rows
    BY <1>3
<1>5. /\ job' \in Job /\ acked' \subseteq Keys /\ job'.phase \in {"idle", "remove"}
      /\ job'.phase = "remove" => job'.upsert
      /\ ~job'.upsert => job'.todo = {}
      /\ job'.upsert => job.upsert
    BY <1>1, <1>2, Done, IdleJob DEF SInv, JobShape
<1> HIDE DEF c, x
<1>6. listed' = Plus(listed, c)
    BY <1>1 DEF Plus
<1>7. Stores(files, listed') /\ Listed(files, listed') = Listed(files, listed) \cup {x}
    BY <1>2, <1>3, <1>6, Shown DEF x
<1>8. /\ listed'[c] = listed[c] + 1 /\ \A d \in Class : d # c => listed'[d] = listed[d]
      /\ \A d \in Class : listed[d] \in Nat
    BY <1>1, <1>2 DEF Stores
<1>9. TypeOK'
    BY <1>1, <1>5, <1>7 DEF SInv, TypeOK, Stores
<1>10. JobShape'
    BY <1>1, <1>5 DEF SInv, JobShape
<1>11. Clocks'
    <2>1. Clocks /\ job.phase = "list" /\ mem' = mem /\ manifest' = manifest /\ registry' = registry
        BY <1>1 DEF SInv
    <2>2. Listed(files', listed') = Listed(files, listed) \cup {x}
        BY <1>1, <1>7
    <2>3. \A y \in Listed(files', listed') : y.created <= mem'.last
        BY <1>4, <2>1, <2>2 DEF Clocks
    <2> QED BY <1>5, <2>1, <2>3 DEF Clocks
<1>12. OneWritePerLsn'
    <2>1. \A d \in Class : \A i \in 1..listed'[d] : i \in 1..listed[d] \/ (d = c /\ i = listed[c] + 1)
        BY <1>8
    <2>2. \A d \in Class : \A i \in 1..listed[d] : files[d][i].created < job.lsn /\ files[d][i].created \in Nat
        <3> SUFFICES ASSUME NEW d \in Class, NEW i \in 1..listed[d]
                     PROVE  files[d][i].created < job.lsn /\ files[d][i].created \in Nat
            OBVIOUS
        <3>1. files[d][i] \in Listed(files, listed)
            BY <1>2, StoreChunks DEF Listed
        <3>2. files[d][i].created < job.lsn
            BY <1>1, <3>1 DEF SInv, Clocks
        <3> QED BY <1>2, <3>1, <3>2, Types
    <2>3. files[c][listed[c] + 1].created = job.lsn
        BY <1>4 DEF x
    <2> SUFFICES ASSUME NEW d \in Class, NEW e \in Class, NEW i \in 1..listed'[d], NEW j \in 1..listed'[e],
                        files[d][i].created = files[e][j].created
                 PROVE  d = e /\ i = j
        BY <1>1 DEF OneWritePerLsn
    <2>4. CASE i \in 1..listed[d] /\ j \in 1..listed[e]
        BY <2>4 DEF SInv, OneWritePerLsn
    <2>5. CASE i \in 1..listed[d] /\ e = c /\ j = listed[c] + 1
        BY <1>2, <2>2, <2>3, <2>5
    <2>6. CASE d = c /\ i = listed[c] + 1 /\ j \in 1..listed[e]
        BY <1>2, <2>2, <2>3, <2>6
    <2> QED BY <2>1, <2>4, <2>5, <2>6
<1>13. Fixed'
    <2>1. registry' = registry /\ taken' = taken /\ moved' = moved /\ Listed(files', listed') = Listed(files, listed) \cup {x}
        BY <1>1, <1>7
    <2> SUFFICES ASSUME NEW n \in DOMAIN registry
                 PROVE  /\ \A y \in Listed(files', listed') : y.created <= registry[n].lsn => y.rows \subseteq taken[n]
                        /\ n \notin moved => \A r \in taken[n] : \E y \in Listed(files', listed') :
                                                 y.created <= registry[n].lsn /\ r \in y.rows
        BY <2>1 DEF Fixed
    <2>2. registry[n].lsn < job.lsn /\ registry[n].lsn \in Nat
        BY <1>1, <1>2, Types DEF SInv, Clocks
    <2>3. ~(x.created <= registry[n].lsn)
        BY <1>2, <1>4, <2>2
    <2>4. \A y \in Listed(files, listed) : y.created <= registry[n].lsn => y.rows \subseteq taken[n]
        BY DEF SInv, Fixed
    <2>5. n \notin moved => \A r \in taken[n] : \E y \in Listed(files, listed) : y.created <= registry[n].lsn /\ r \in y.rows
        BY DEF SInv, Fixed
    <2> QED BY <2>1, <2>3, <2>4, <2>5
<1>14. MirrorExact'
    BY <1>1 DEF SInv, MirrorExact
<1> QED BY <1>9, <1>10, <1>11, <1>12, <1>13, <1>14 DEF SInv

-----------------------------------------------------------------------------
(* The steps of the snapshot calls.                                            *)
LEMMA MirrorJob ==
    LET j == [Idle EXCEPT !.phase = "mirror"]
    IN  j \in Job /\ j.phase = "mirror" /\ j.upsert = FALSE /\ j.todo = {}
BY DEF Idle, Job, Phases

(* A step that changes the registry, and no store and no clock.                *)
LEMMA RegistryStep ==
    ASSUME SInv, UNCHANGED <<up, files, listed, acked, damaged>>,
           mem' = manifest', mem' \in Manifest, mem'.last = mem.last, job = Idle \/ job.phase = "mirror",
           job' = Idle \/ job' = [Idle EXCEPT !.phase = "mirror"], unmirrored' \in BOOLEAN,
           DOMAIN registry' \subseteq Names, registry' \in [DOMAIN registry' -> [lsn : Nat, ref : Nat \ {0}]],
           taken' \in [Names -> SUBSET Row], moved' \subseteq Names,
           \A n \in DOMAIN registry' : registry'[n].lsn <= mem.last,
           Fixed', MirrorExact'
    PROVE  SInv'
<1>1. job' \in Job /\ job'.phase \in {"idle", "mirror"} /\ ~job'.upsert /\ job'.todo = {}
    BY IdleJob, MirrorJob
<1>2. TypeOK'
    BY <1>1 DEF SInv, TypeOK
<1>3. JobShape'
    BY <1>1 DEF JobShape
<1>4. Clocks'
    BY <1>1 DEF SInv, Clocks
<1>5. OneWritePerLsn'
    BY DEF SInv, OneWritePerLsn
<1> QED BY <1>2, <1>3, <1>4, <1>5 DEF SInv

LEMMA CreateStep ==
    ASSUME SInv, NEW n \in Names, CreateSnapshot(n)
    PROVE  SInv'
<1>1. /\ job = Idle /\ n \notin DOMAIN registry
      /\ registry' = [m \in DOMAIN registry \cup {n} |-> IF m = n THEN [lsn |-> mem.last, ref |-> 1] ELSE registry[m]]
      /\ taken' = [taken EXCEPT ![n] = AllRows] /\ job' = [Idle EXCEPT !.phase = "mirror"]
      /\ UNCHANGED <<manifest, mem, up, files, listed, moved, acked, damaged, unmirrored>>
    BY DEF CreateSnapshot
<1>2. /\ TypeOK /\ Stores(files, listed) /\ mem \in Manifest /\ mem.last \in Nat /\ mem = manifest
      /\ DOMAIN registry \subseteq Names /\ taken \in [Names -> SUBSET Row] /\ moved \subseteq Names /\ unmirrored \in BOOLEAN
      /\ registry \in [DOMAIN registry -> [lsn : Nat, ref : Nat \ {0}]]
    BY Types DEF SInv, TypeOK, Clocks
<1>3. AllRows = UNION {x.rows : x \in Listed(files, listed)}
    BY <1>2, Reads
<1>4. AllRows \subseteq Row
    BY <1>2, <1>3, Types
<1>5. /\ DOMAIN registry' = DOMAIN registry \cup {n} /\ registry'[n] = [lsn |-> mem.last, ref |-> 1]
      /\ \A m \in DOMAIN registry : m # n /\ registry'[m] = registry[m]
    BY <1>1
<1>6. registry' \in [DOMAIN registry' -> [lsn : Nat, ref : Nat \ {0}]] /\ DOMAIN registry' \subseteq Names
    <2>1. [lsn |-> mem.last, ref |-> 1] \in [lsn : Nat, ref : Nat \ {0}]
        BY <1>2
    <2> QED BY <1>1, <1>2, <2>1
<1>7. taken' \in [Names -> SUBSET Row] /\ taken'[n] = AllRows /\ \A m \in Names : m # n => taken'[m] = taken[m]
    BY <1>1, <1>2, <1>4
<1>8. registry'[n].lsn = mem.last
    BY <1>5
<1>9. \A m \in DOMAIN registry' : registry'[m].lsn <= mem.last
    BY <1>2, <1>5, <1>8 DEF SInv, Clocks
<1>10. Fixed'
    <2>1. files' = files /\ listed' = listed /\ moved' = moved
        BY <1>1
    <2> SUFFICES ASSUME NEW m \in DOMAIN registry'
                 PROVE  /\ \A x \in Listed(files, listed) : x.created <= registry'[m].lsn => x.rows \subseteq taken'[m]
                        /\ m \notin moved => \A r \in taken'[m] : \E x \in Listed(files, listed) :
                                                 x.created <= registry'[m].lsn /\ r \in x.rows
        BY <2>1 DEF Fixed
    <2>2. CASE m = n
        <3>1. \A x \in Listed(files, listed) : x.created <= mem.last
            BY DEF SInv, Clocks
        <3> QED BY <1>3, <1>7, <1>8, <2>2, <3>1
    <2>3. CASE m \in DOMAIN registry
        <3>1. registry'[m] = registry[m] /\ taken'[m] = taken[m]
            BY <1>2, <1>5, <1>7, <2>3
        <3> QED BY <2>3, <3>1 DEF SInv, Fixed
    <2> QED BY <1>5, <2>2, <2>3
<1>11. MirrorExact'
    BY <1>1, MirrorJob DEF MirrorExact
<1>12. mem' = manifest' /\ mem' \in Manifest /\ mem'.last = mem.last /\ moved' \subseteq Names /\ unmirrored' \in BOOLEAN
    BY <1>1, <1>2
<1> QED BY <1>1, <1>6, <1>7, <1>9, <1>10, <1>11, <1>12, RegistryStep

LEMMA OpenSnapshotStep ==
    ASSUME SInv, NEW n \in Names, OpenSnapshot(n)
    PROVE  SInv'
<1>1. /\ job = Idle /\ n \in DOMAIN registry /\ registry' = [registry EXCEPT ![n].ref = @ + 1]
      /\ UNCHANGED <<manifest, mem, up, files, listed, job, taken, moved, acked, damaged, unmirrored>>
    BY DEF OpenSnapshot
<1>2. /\ TypeOK /\ mem \in Manifest /\ mem = manifest /\ mem.last \in Nat
      /\ DOMAIN registry \subseteq Names /\ taken \in [Names -> SUBSET Row] /\ moved \subseteq Names /\ unmirrored \in BOOLEAN
      /\ registry \in [DOMAIN registry -> [lsn : Nat, ref : Nat \ {0}]]
    BY Types DEF SInv, TypeOK, Clocks
<1> DEFINE e == [registry[n] EXCEPT !.ref = @ + 1]
<1>3. e \in [lsn : Nat, ref : Nat \ {0}] /\ e.lsn = registry[n].lsn
    BY <1>1, <1>2
<1>4. registry' = [registry EXCEPT ![n] = e]
    BY <1>1
<1> HIDE DEF e
<1>5. DOMAIN registry' = DOMAIN registry /\ \A m \in DOMAIN registry : registry'[m].lsn = registry[m].lsn
    BY <1>1, <1>2, <1>3, <1>4
<1>6. registry' \in [DOMAIN registry' -> [lsn : Nat, ref : Nat \ {0}]]
    BY <1>2, <1>3, <1>4, <1>5
<1>7. Fixed'
    BY <1>1, <1>5 DEF SInv, Fixed
<1>8. MirrorExact'
    BY <1>1, <1>5 DEF SInv, MirrorExact
<1>9. \A m \in DOMAIN registry' : registry'[m].lsn <= mem.last
    BY <1>5 DEF SInv, Clocks
<1>10. mem' = manifest' /\ mem' \in Manifest /\ mem'.last = mem.last /\ moved' \subseteq Names
       /\ unmirrored' \in BOOLEAN /\ taken' \in [Names -> SUBSET Row] /\ job' = Idle /\ DOMAIN registry' \subseteq Names
    BY <1>1, <1>2, <1>5
<1> QED BY <1>1, <1>6, <1>7, <1>8, <1>9, <1>10, RegistryStep

LEMMA ReleaseStep ==
    ASSUME SInv, NEW n \in Names, ReleaseSnapshot(n)
    PROVE  SInv'
<1>1. /\ job = Idle /\ n \in DOMAIN registry
      /\ UNCHANGED <<manifest, mem, up, files, listed, acked, damaged, unmirrored>>
    BY DEF ReleaseSnapshot
<1>2. /\ TypeOK /\ mem \in Manifest /\ mem = manifest /\ mem.last \in Nat /\ registry[n].ref \in Nat
      /\ DOMAIN registry \subseteq Names /\ taken \in [Names -> SUBSET Row] /\ moved \subseteq Names /\ unmirrored \in BOOLEAN
      /\ registry \in [DOMAIN registry -> [lsn : Nat, ref : Nat \ {0}]]
    BY <1>1, Types DEF SInv, TypeOK, Clocks
<1>3. mem' = manifest' /\ mem' \in Manifest /\ mem'.last = mem.last /\ unmirrored' \in BOOLEAN
    BY <1>1, <1>2
<1>4. CASE registry[n].ref > 1
    <2>1. registry' = [registry EXCEPT ![n].ref = @ - 1] /\ job' = job /\ taken' = taken /\ moved' = moved
        BY <1>4 DEF ReleaseSnapshot
    <2> DEFINE e == [registry[n] EXCEPT !.ref = @ - 1]
    <2>2. e \in [lsn : Nat, ref : Nat \ {0}] /\ e.lsn = registry[n].lsn
        <3>1. registry[n] \in [lsn : Nat, ref : Nat \ {0}]
            BY <1>1, <1>2
        <3>2. registry[n].ref - 1 \in Nat \ {0}
            BY <1>2, <1>4
        <3> QED BY <3>1, <3>2
    <2>3. registry' = [registry EXCEPT ![n] = e]
        BY <2>1
    <2> HIDE DEF e
    <2>4. DOMAIN registry' = DOMAIN registry /\ \A m \in DOMAIN registry : registry'[m].lsn = registry[m].lsn
        BY <1>1, <1>2, <2>2, <2>3
    <2>5. registry' \in [DOMAIN registry' -> [lsn : Nat, ref : Nat \ {0}]]
        BY <1>2, <2>2, <2>3, <2>4
    <2>6. Fixed'
        BY <1>1, <2>1, <2>4 DEF SInv, Fixed
    <2>7. MirrorExact'
        BY <1>1, <2>1, <2>4 DEF SInv, MirrorExact
    <2>8. \A m \in DOMAIN registry' : registry'[m].lsn <= mem.last
        BY <2>4 DEF SInv, Clocks
    <2>9. moved' \subseteq Names /\ taken' \in [Names -> SUBSET Row] /\ job' = Idle /\ DOMAIN registry' \subseteq Names
        BY <1>1, <1>2, <2>1, <2>4
    <2> QED BY <1>1, <1>3, <2>5, <2>6, <2>7, <2>8, <2>9, RegistryStep
<1>5. CASE ~(registry[n].ref > 1)
    <2>1. /\ registry' = [m \in DOMAIN registry \ {n} |-> registry[m]] /\ job' = [Idle EXCEPT !.phase = "mirror"]
          /\ taken' = [taken EXCEPT ![n] = {}] /\ moved' = moved \ {n}
        BY <1>5 DEF ReleaseSnapshot
    <2>2. DOMAIN registry' = DOMAIN registry \ {n} /\ \A m \in DOMAIN registry' : registry'[m] = registry[m] /\ m # n
        BY <2>1
    <2>3. registry' \in [DOMAIN registry' -> [lsn : Nat, ref : Nat \ {0}]] /\ DOMAIN registry' \subseteq Names
        BY <1>2, <2>1, <2>2
    <2>4. taken' \in [Names -> SUBSET Row] /\ \A m \in Names : m # n => taken'[m] = taken[m]
        BY <1>2, <2>1
    <2>5. Fixed'
        <3>1. \A m \in DOMAIN registry' : m \in DOMAIN registry /\ registry'[m] = registry[m] /\ taken'[m] = taken[m]
                                           /\ (m \notin moved' => m \notin moved)
            BY <1>2, <2>1, <2>2, <2>4
        <3>2. Listed(files', listed') = Listed(files, listed)
            BY <1>1
        <3> QED BY <3>1, <3>2 DEF SInv, Fixed
    <2>6. MirrorExact'
        BY <2>1, MirrorJob DEF MirrorExact
    <2>7. \A m \in DOMAIN registry' : registry'[m].lsn <= mem.last
        BY <2>2 DEF SInv, Clocks
    <2>8. moved' \subseteq Names
        BY <1>2, <2>1
    <2> QED BY <1>1, <1>3, <2>1, <2>3, <2>4, <2>5, <2>6, <2>7, <2>8, RegistryStep
<1> QED BY <1>4, <1>5

LEMMA MirrorStep == SInv /\ Mirror => SInv'
<1> SUFFICES ASSUME SInv, Mirror PROVE SInv'
    OBVIOUS
<1>1. /\ job.phase = "mirror" /\ mem' = [mem EXCEPT !.snaps = DOMAIN registry] /\ manifest' = mem'
      /\ job' = Idle /\ unmirrored' = FALSE
      /\ UNCHANGED <<up, registry, files, listed, taken, moved, acked, damaged>>
    BY DEF Mirror
<1>2. /\ mem \in Manifest /\ DOMAIN registry \subseteq Names /\ taken \in [Names -> SUBSET Row] /\ moved \subseteq Names
      /\ registry \in [DOMAIN registry -> [lsn : Nat, ref : Nat \ {0}]]
    BY DEF SInv, TypeOK
<1>3. mem' \in Manifest /\ mem'.last = mem.last /\ mem'.snaps = DOMAIN registry
    BY <1>1, <1>2 DEF Manifest
<1>4. MirrorExact'
    BY <1>1, <1>3 DEF MirrorExact
<1>5. Fixed'
    BY <1>1 DEF SInv, Fixed
<1>6. \A m \in DOMAIN registry' : registry'[m].lsn <= mem.last
    BY <1>1 DEF SInv, Clocks
<1>7. /\ mem' = manifest' /\ moved' \subseteq Names /\ taken' \in [Names -> SUBSET Row] /\ unmirrored' \in BOOLEAN
      /\ DOMAIN registry' \subseteq Names /\ registry' \in [DOMAIN registry' -> [lsn : Nat, ref : Nat \ {0}]]
    BY <1>1, <1>2
<1> QED BY <1>1, <1>3, <1>4, <1>5, <1>6, <1>7, RegistryStep
-----------------------------------------------------------------------------
LEMMA InitSInv == Init => SInv
<1> SUFFICES ASSUME Init PROVE SInv
    OBVIOUS
<1>1. /\ manifest = [last |-> 0, snaps |-> {}] /\ mem = manifest /\ up = FALSE
      /\ registry = [n \in {} |-> [lsn |-> 0, ref |-> 0]]
      /\ files = [c \in Class |-> <<>>] /\ listed = [c \in Class |-> 0] /\ job = Idle
      /\ taken = [n \in Names |-> {}] /\ moved = {} /\ acked = {} /\ damaged = FALSE /\ unmirrored = FALSE
    BY DEF Init
<1>2. DOMAIN registry = {} /\ registry \in [DOMAIN registry -> [lsn : Nat, ref : Nat \ {0}]]
    BY <1>1
<1>3. manifest \in Manifest /\ manifest.last = 0 /\ manifest.snaps = {}
    BY <1>1 DEF Manifest
<1>4. files \in [Class -> Seq(Chunk)] /\ listed \in [Class -> Nat] /\ \A c \in Class : listed[c] <= Len(files[c])
    BY <1>1
<1>5. TypeOK
    BY <1>1, <1>2, <1>3, <1>4, IdleJob DEF TypeOK
<1>6. \A c \in Class : 1..listed[c] = {}
    BY <1>1
<1>7. Listed(files, listed) = {}
    BY <1>6 DEF Listed
<1>8. JobShape
    BY <1>1, IdleJob DEF JobShape
<1>9. Clocks /\ Fixed /\ MirrorExact
    BY <1>1, <1>2, <1>3, <1>7, IdleJob DEF Clocks, Fixed, MirrorExact
<1>10. OneWritePerLsn
    BY <1>6 DEF OneWritePerLsn
<1> QED BY <1>5, <1>8, <1>9, <1>10 DEF SInv

LEMMA NextSInv == SInv /\ [Next]_vars => SInv'
<1> SUFFICES ASSUME SInv, [Next]_vars PROVE SInv'
    OBVIOUS
<1>1. CASE UNCHANGED vars
    BY <1>1 DEF vars, SInv, TypeOK, JobShape, Clocks, OneWritePerLsn, Fixed, MirrorExact
<1>2. ASSUME NEW c \in Class, NEW k \in Keys, NEW v \in Values,
             Insert(c, k, v) \/ \E update \in BOOLEAN : Upsert(c, k, v, update)
      PROVE  SInv'
    BY <1>2, InsertStep, UpsertStep
<1>3. ASSUME NEW n \in Names, CreateSnapshot(n) \/ OpenSnapshot(n) \/ ReleaseSnapshot(n)
      PROVE  SInv'
    BY <1>3, CreateStep, OpenSnapshotStep, ReleaseStep
<1>4. CASE Open \/ Stop \/ RemoveStore \/ Clock \/ WriteChunk \/ ListChunk \/ AppendFails \/ RewriteFails \/ Mirror
    BY <1>4, OpenStep, StopStep, RemoveStep, ClockStep, WriteStep, ListStep, MirrorStep
<1> QED BY <1>1, <1>2, <1>3, <1>4 DEF Next

LEMMA SpecSInv == Spec => []SInv
BY InitSInv, NextSInv, PTL DEF Spec

(* Named snapshots, stores, clock and registry are well typed.                 *)
THEOREM TypeCorrect == Spec => []TypeOK
<1>1. SInv => TypeOK
    BY DEF SInv
<1> QED BY <1>1, SpecSInv, PTL

(* A read AS OF a snapshot shows nothing written after create_snapshot, and    *)
(* until an upsert exactly what there was, whatever stops and restarts.        *)
THEOREM SnapshotsFixed == Spec => []SnapshotFixed
<1>1. SInv => SnapshotFixed
    <2> SUFFICES ASSUME SInv, NEW n \in DOMAIN registry
                 PROVE  /\ VisibleAt(registry[n].lsn) \subseteq taken[n]
                        /\ n \notin moved => VisibleAt(registry[n].lsn) = taken[n]
        BY DEF SnapshotFixed
    <2>1. Stores(files, listed)
        BY Types DEF SInv
    <2>2. VisibleAt(registry[n].lsn) = UNION {x.rows : x \in {y \in Listed(files, listed) : y.created <= registry[n].lsn}}
        BY <2>1, Reads
    <2>3. \A x \in Listed(files, listed) : x.created <= registry[n].lsn => x.rows \subseteq taken[n]
        BY DEF SInv, Fixed
    <2>4. n \notin moved => \A r \in taken[n] : \E x \in Listed(files, listed) : x.created <= registry[n].lsn /\ r \in x.rows
        BY DEF SInv, Fixed
    <2> QED BY <2>2, <2>3, <2>4
<1> QED BY <1>1, SpecSInv, PTL

(* _next_lsn never gives an LSN twice, through failed and interrupted writes,  *)
(* upserts and restarts: no two listed chunks carry the same one.              *)
THEOREM LsnsUnique == Spec => []OneWritePerLsn
<1>1. SInv => OneWritePerLsn
    BY DEF SInv
<1> QED BY <1>1, SpecSInv, PTL

(* The MANIFEST lists exactly the snapshots of the registry between calls,     *)
(* unless a snapshot call was cut short, and then from the next one on.        *)
THEOREM MirrorIsExact == Spec => []MirrorExact
<1>1. SInv => MirrorExact
    BY DEF SInv
<1> QED BY <1>1, SpecSInv, PTL

-----------------------------------------------------------------------------
(* That upserts lose no key needs that of several rows of a key one is the     *)
(* last: chunks are finitely many, and bounded sets of numbers have a maximum. *)
LEMMA Least ==
    ASSUME NEW T \in SUBSET Nat, T # {}
    PROVE  \E n \in T : \A m \in T : n <= m
<1>1. IsWellFoundedOn(OpToRel(<, Nat), Nat)
    BY NatLessThanWellFounded
<1>2. PICK x \in T : \A y \in T : ~(<<y, x>> \in OpToRel(<, Nat))
    BY <1>1, WFMin
<1>3. \A y \in T : y < x => <<y, x>> \in OpToRel(<, Nat)
    BY DEF OpToRel
<1>4. \A y \in T : ~(y < x)
    BY <1>2, <1>3
<1> QED BY <1>4

LEMMA Greatest ==
    ASSUME NEW T \in SUBSET Nat, T # {}, NEW b \in Nat, \A t \in T : t <= b
    PROVE  \E n \in T : \A m \in T : m <= n
<1> DEFINE U == {b - t : t \in T}
<1>1. U \in SUBSET Nat /\ U # {}
    <2>1. \A t \in T : b - t \in Nat
        OBVIOUS
    <2>2. PICK t \in T : TRUE
        OBVIOUS
    <2>3. b - t \in U
        BY <2>2
    <2> QED BY <2>1, <2>3
<1>2. PICK u \in U : \A v \in U : u <= v
    BY <1>1, Least
<1>3. PICK n \in T : u = b - n
    BY <1>2
<1>4. \A m \in T : b - n <= b - m
    BY <1>2, <1>3
<1>5. \A m \in T : m <= n
    BY <1>4
<1> QED BY <1>5

LEMMA PlaceOf ==
    ASSUME TypeOK, NEW i \in DOMAIN Classes, NEW j \in 1..listed[Classes[i]]
    PROVE  /\ <<i, j>> \in Places /\ RowsAt(<<i, j>>) = files[Classes[i]][j].rows
           /\ Classes[i] \in Class /\ i \in 1..Len(Classes) /\ i \in Nat /\ j \in Nat
<1>1. Classes[i] \in Class
    BY DEF Class, ToSet
<1>2. i \in 1..Len(Classes) /\ Len(Classes) \in Nat
    BY ConstantsAssumption
<1>3. listed[Classes[i]] \in Nat
    BY <1>1 DEF TypeOK
<1> QED BY <1>1, <1>2, <1>3 DEF Places, RowsAt

(* The rows an upsert collects hold every key there is.                        *)
LEMMA ExistingKeys ==
    ASSUME TypeOK, NEW c \in Class, NEW i \in 1..listed[c], NEW r \in files[c][i].rows
    PROVE  \E s \in Existing : s.key = r.key
<1> DEFINE Has(a, n) == \E s \in files[Classes[a]][n].rows : s.key = r.key
           I == {a \in DOMAIN Classes : \E n \in 1..listed[Classes[a]] : Has(a, n)}
<1>1. DOMAIN Classes = 1..Len(Classes) /\ Len(Classes) \in Nat
    BY ConstantsAssumption
<1>2. PICK a \in DOMAIN Classes : Classes[a] = c
    BY DEF Class, ToSet
<1>3. a \in I
    BY <1>2
<1>4. I \in SUBSET Nat /\ I # {} /\ \A b \in I : b <= Len(Classes)
    BY <1>1, <1>3
<1> HIDE DEF I
<1>5. PICK x \in I : \A b \in I : b <= x
    BY <1>1, <1>4, Greatest
<1>6. x \in DOMAIN Classes /\ (\E n \in 1..listed[Classes[x]] : Has(x, n)) /\ Classes[x] \in Class /\ x \in Nat
    BY <1>1, <1>5 DEF I, Class, ToSet
<1> DEFINE J == {n \in 1..listed[Classes[x]] : Has(x, n)}
<1>7. listed[Classes[x]] \in Nat
    BY <1>6 DEF TypeOK
<1>8. J \in SUBSET Nat /\ J # {} /\ \A n \in J : n <= listed[Classes[x]]
    BY <1>6, <1>7
<1> HIDE DEF J
<1>9. PICK y \in J : \A n \in J : n <= y
    BY <1>7, <1>8, Greatest
<1>10. y \in 1..listed[Classes[x]] /\ Has(x, y) /\ y \in Nat
    BY <1>7, <1>9 DEF J
<1>11. PICK s \in files[Classes[x]][y].rows : s.key = r.key
    BY <1>10
<1>12. <<x, y>> \in Places /\ RowsAt(<<x, y>>) = files[Classes[x]][y].rows
    BY <1>6, <1>10, PlaceOf
<1>13. ASSUME NEW q \in Places, After(q, <<x, y>>), NEW t \in RowsAt(q), t.key = s.key
       PROVE  FALSE
    <2>1. PICK b \in DOMAIN Classes : \E n \in 1..listed[Classes[b]] : q = <<b, n>>
        BY DEF Places
    <2>2. PICK n \in 1..listed[Classes[b]] : q = <<b, n>>
        BY <2>1
    <2>3. RowsAt(q) = files[Classes[b]][n].rows /\ b \in Nat /\ n \in Nat
        BY <2>2, PlaceOf
    <2>4. Has(b, n)
        BY <1>11, <1>13, <2>3
    <2>5. b \in I
        BY <2>2, <2>4 DEF I
    <2>6. b <= x
        BY <1>5, <2>5
    <2>7. b > x \/ (b = x /\ n > y)
        BY <1>13, <2>2 DEF After
    <2>8. b = x /\ n > y
        BY <1>6, <2>3, <2>6, <2>7
    <2>9. n \in J
        BY <2>2, <2>4, <2>8 DEF J
    <2> QED BY <1>9, <1>10, <2>3, <2>8, <2>9
<1>14. s \in Existing
    BY <1>11, <1>12, <1>13 DEF Existing
<1> QED BY <1>11, <1>14
-----------------------------------------------------------------------------
(* Where a row is that the call in progress will leave behind: in a store it   *)
(* is done with or will not touch, in the rows it still has to write, or in    *)
(* those it is writing.                                                        *)
Left == {w.cls : w \in job.todo}
Writing == job.phase \in {"clock", "chunk", "list"}
Safe(r) ==
    \/ \E c \in Class \ Left : \E i \in 1..listed[c] : r \in files[c][i].rows
    \/ \E w \in job.todo : r \in w.rows
    \/ job.upsert /\ Writing /\ r \in job.rows

(* The keys of a call are as good as acknowledged for an upsert, whose rows    *)
(* are safe from the start; an insert has its key in the rows it writes.       *)
Promised == IF job.upsert THEN acked \cup job.keys ELSE acked
KeyShape ==
    /\ \A v, w \in job.todo : v.cls = w.cls => v = w
    /\ job.upsert /\ Writing => job.cls \notin Left /\ listed[job.cls] = 0
    /\ ~job.upsert /\ Writing => \A k \in job.keys : \E r \in job.rows : r.key = k
    /\ job.phase \in {"idle", "mirror"} => ~job.upsert
KInv == SInv /\ KeyShape /\ (~damaged => \A k \in Promised : \E r \in Row : Safe(r) /\ r.key = k)

(* A call that has ended.                                                      *)
LEMMA EndedCall ==
    ASSUME SInv', UNCHANGED <<files, listed>>, ~job'.upsert, job'.todo = {}, acked' = acked,
           job'.phase \in {"clock", "chunk", "list"} => \A k \in job'.keys : \E r \in job'.rows : r.key = k,
           KInv, ~damaged' => ~damaged /\ ~job.upsert
    PROVE  KInv'
<1>1. KeyShape'
    BY DEF KeyShape, Writing
<1>2. ASSUME ~damaged', NEW k \in Promised' PROVE \E r \in Row : Safe(r)' /\ r.key = k
    <2>1. k \in acked /\ ~damaged /\ ~job.upsert
        BY <1>2 DEF Promised
    <2>2. PICK r \in Row : Safe(r) /\ r.key = k
        BY <2>1 DEF KInv, Promised
    <2>3. job.todo = {}
        BY <2>1 DEF KInv, SInv, JobShape
    <2>4. \E c \in Class : \E i \in 1..listed[c] : r \in files[c][i].rows
        BY <2>1, <2>2, <2>3 DEF Safe
    <2>5. Safe(r)'
        BY <2>4 DEF Safe, Left
    <2> QED BY <2>2, <2>5
<1> QED BY <1>1, <1>2 DEF KInv

LEMMA EndedJobs ==
    /\ Idle.todo = {} /\ ~Idle.upsert /\ Idle.phase = "idle"
    /\ [Idle EXCEPT !.phase = "mirror"].todo = {} /\ ~[Idle EXCEPT !.phase = "mirror"].upsert
    /\ [Idle EXCEPT !.phase = "mirror"].phase = "mirror"
BY DEF Idle

LEMMA CallKeys ==
    ASSUME KInv, SInv',
           \/ \E c \in Class, k \in Keys, v \in Values : Insert(c, k, v)
           \/ \E n \in Names : CreateSnapshot(n) \/ OpenSnapshot(n) \/ ReleaseSnapshot(n)
           \/ Mirror \/ Stop \/ AppendFails \/ RewriteFails
    PROVE  KInv'
<1>1. ASSUME NEW c \in Class, NEW k \in Keys, NEW v \in Values, Insert(c, k, v) PROVE KInv'
    <2>1. /\ job = Idle /\ UNCHANGED <<files, listed, acked, damaged>>
          /\ job' = [phase |-> "clock", cls |-> c, rows |-> {[cls |-> c, key |-> k, val |-> v]}, todo |-> {},
                     lsn |-> 0, upsert |-> FALSE, keys |-> {k}]
        BY <1>1 DEF Insert
    <2>2. ~job'.upsert /\ job'.todo = {} /\ job'.keys = {k} /\ job'.rows = {[cls |-> c, key |-> k, val |-> v]}
        BY <2>1
    <2>3. \A l \in job'.keys : \E r \in job'.rows : r.key = l
        BY <2>2
    <2> QED BY <2>1, <2>2, <2>3, EndedCall, EndedJobs
<1>2. ASSUME NEW n \in Names, CreateSnapshot(n) \/ OpenSnapshot(n) \/ ReleaseSnapshot(n) PROVE KInv'
    <2>1. /\ job = Idle /\ UNCHANGED <<files, listed, acked, damaged>>
          /\ job' = Idle \/ job' = [Idle EXCEPT !.phase = "mirror"]
        BY <1>2 DEF CreateSnapshot, OpenSnapshot, ReleaseSnapshot
    <2>2. ~job'.upsert /\ job'.todo = {} /\ job'.phase \notin {"clock", "chunk", "list"} /\ ~job.upsert
        BY <2>1, EndedJobs
    <2> QED BY <2>1, <2>2, EndedCall
<1>3. CASE Mirror \/ RewriteFails \/ Stop
    <2>1. UNCHANGED <<files, listed, acked>> /\ job' = Idle
        BY <1>3 DEF Mirror, RewriteFails, Stop
    <2>2. ~damaged' => ~damaged /\ ~job.upsert
        BY <1>3 DEF Mirror, RewriteFails, Stop, KInv, KeyShape, SInv, TypeOK
    <2>3. ~job'.upsert /\ job'.todo = {} /\ job'.phase \notin {"clock", "chunk", "list"}
        BY <2>1, EndedJobs
    <2> QED BY <2>1, <2>2, <2>3, EndedCall
<1>4. CASE AppendFails
    <2>1. UNCHANGED <<files, listed, acked, damaged>> /\ job' = Idle /\ job.phase = "chunk" /\ ~Fits(job.cls, job.rows)
        BY <1>4 DEF AppendFails
    <2>2. ~job.upsert
        <3> SUFFICES ASSUME job.upsert PROVE FALSE
            OBVIOUS
        <3>1. listed[job.cls] = 0 /\ job.cls \in Class /\ Stores(files, listed)
            BY <2>1, Types DEF KInv, KeyShape, Writing, SInv, JobShape
        <3>2. SubSeq(files[job.cls], 1, listed[job.cls]) \in Seq(Chunk) /\ Len(SubSeq(files[job.cls], 1, listed[job.cls])) = 0
            BY <3>1, StoreChunks
        <3>3. Chunks(job.cls) = <<>>
            BY <3>2 DEF Chunks
        <3> QED BY <2>1, <3>3 DEF Fits
    <2>3. ~job'.upsert /\ job'.todo = {} /\ job'.phase \notin {"clock", "chunk", "list"}
        BY <2>1, EndedJobs
    <2> QED BY <2>1, <2>2, <2>3, EndedCall
<1> QED BY <1>1, <1>2, <1>3, <1>4

LEMMA UpsertKeys ==
    ASSUME KInv, SInv', NEW c \in Class, NEW k \in Keys, NEW v \in Values, NEW update \in BOOLEAN, Upsert(c, k, v, update)
    PROVE  KInv'
<1> DEFINE row == [cls |-> c, key |-> k, val |-> v]
           todo == Rewrites(row, update)
           final == Final(row, update)
           touched == {d \in Class : d = row.cls \/ \E r \in AllRows : r.cls = d}
<1>1. row \in Row /\ row.cls = c /\ row.key = k
    BY DEF Row
<1>2. /\ job = Idle /\ job' = [Idle EXCEPT !.phase = "remove", !.upsert = TRUE, !.keys = {k}, !.todo = todo]
      /\ UNCHANGED <<files, listed, acked, damaged>>
    BY DEF Upsert
<1>3. TypeOK /\ Existing \subseteq AllRows /\ AllRows \subseteq Row /\ Stores(files, listed)
    BY <1>1, RewritesRows, Types DEF KInv, SInv
<1>4. todo = {[cls |-> d, rows |-> {r \in final : r.cls = d}] : d \in touched}
    BY DEF Rewrites
<1> HIDE DEF todo
<1>5. job'.phase = "remove" /\ job'.todo = todo /\ job'.upsert = TRUE /\ job'.keys = {k}
    BY <1>2 DEF Idle
<1>6. final \subseteq Existing \cup {row}
    BY DEF Final
<1>7. \A l : (l = k \/ \E r \in Existing : r.key = l) => \E r \in final : r.key = l
    BY <1>1 DEF Final
<1> HIDE DEF final, row
<1>8. \A r \in final : r \in Row /\ r.cls \in touched
    <2> SUFFICES ASSUME NEW r \in final PROVE r \in Row /\ r.cls \in touched
        OBVIOUS
    <2>1. r \in Row /\ r.cls \in Class
        BY <1>1, <1>3, <1>6 DEF Row
    <2>2. r = row \/ r \in AllRows
        BY <1>3, <1>6
    <2> QED BY <2>1, <2>2
<1> HIDE DEF touched
<1>9. \A r \in final : \E w \in todo : r \in w.rows
    <2> SUFFICES ASSUME NEW r \in final PROVE \E w \in todo : r \in w.rows
        OBVIOUS
    <2> DEFINE w == [cls |-> r.cls, rows |-> {q \in final : q.cls = r.cls}]
    <2>1. w \in todo
        BY <1>4, <1>8
    <2>2. r \in w.rows
        OBVIOUS
    <2> QED BY <2>1, <2>2
<1>10. KeyShape'
    <2>1. \A u, w \in todo : u.cls = w.cls => u = w
        BY <1>4
    <2> QED BY <1>5, <2>1 DEF KeyShape, Writing
<1>11. ASSUME ~damaged', NEW l \in Promised' PROVE \E r \in Row : Safe(r)' /\ r.key = l
    <2>1. l = k \/ l \in acked
        BY <1>2, <1>5 DEF Promised
    <2>2. ASSUME l \in acked PROVE \E s \in Existing : s.key = l
        <3>1. ~job.upsert /\ job.todo = {} /\ ~damaged
            BY <1>2, <1>11, EndedJobs
        <3>2. PICK q \in Row : Safe(q) /\ q.key = l
            BY <2>2, <3>1 DEF KInv, Promised
        <3>3. PICK d \in Class : \E i \in 1..listed[d] : q \in files[d][i].rows
            BY <3>1, <3>2 DEF Safe
        <3>4. PICK i \in 1..listed[d] : q \in files[d][i].rows
            BY <3>3
        <3> QED BY <1>3, <3>2, <3>4, ExistingKeys
    <2>3. PICK r \in final : r.key = l
        <3>1. l = k \/ \E r \in Existing : r.key = l
            BY <2>1, <2>2
        <3> QED BY <1>7, <3>1
    <2>4. Safe(r)'
        BY <1>5, <1>9 DEF Safe
    <2> QED BY <1>8, <2>3, <2>4
<1> QED BY <1>10, <1>11 DEF KInv

(* A step of a write before the listing.                                       *)
LEMMA WriteKeys ==
    ASSUME KInv, SInv', job.phase \in {"clock", "chunk"}, job'.phase \in {"chunk", "list"},
           job'.cls = job.cls, job'.rows = job.rows, job'.todo = job.todo, job'.upsert = job.upsert,
           job'.keys = job.keys, UNCHANGED <<listed, acked, damaged>>,
           \A c \in Class : \A i \in 1..listed[c] : files'[c][i] = files[c][i]
    PROVE  KInv'
<1>1. KeyShape'
    BY DEF KInv, KeyShape, Writing, Left
<1>2. ASSUME ~damaged', NEW k \in Promised' PROVE \E r \in Row : Safe(r)' /\ r.key = k
    <2>1. PICK r \in Row : Safe(r) /\ r.key = k
        BY <1>2 DEF KInv, Promised
    <2>2. Left' = Left
        BY DEF Left
    <2>3. ASSUME NEW c \in Class \ Left, NEW i \in 1..listed[c], r \in files[c][i].rows PROVE Safe(r)'
        <3>1. i \in 1..listed'[c] /\ r \in files'[c][i].rows /\ c \in Class \ Left'
            BY <2>2, <2>3
        <3> QED BY <3>1 DEF Safe
    <2>4. (\E w \in job.todo : r \in w.rows) => Safe(r)'
        BY DEF Safe
    <2>5. (job.upsert /\ Writing /\ r \in job.rows) => Safe(r)'
        BY DEF Safe, Writing
    <2>6. Safe(r)'
        BY <2>1, <2>3, <2>4, <2>5 DEF Safe
    <2> QED BY <2>1, <2>6
<1> QED BY <1>1, <1>2 DEF KInv

LEMMA ClockKeys == KInv /\ SInv' /\ (Clock \/ WriteChunk) => KInv'
<1> SUFFICES ASSUME KInv, SInv', Clock \/ WriteChunk PROVE KInv'
    OBVIOUS
<1>1. SInv /\ TypeOK /\ job \in Job /\ Stores(files, listed)
    BY Types DEF KInv, SInv
<1>2. CASE Clock
    <2>1. /\ job.phase = "clock" /\ job' = [job EXCEPT !.phase = "chunk", !.lsn = mem.last + 1]
          /\ UNCHANGED <<files, listed, acked, damaged>>
        BY <1>2 DEF Clock
    <2>2. /\ job'.phase = "chunk" /\ job'.cls = job.cls /\ job'.rows = job.rows /\ job'.todo = job.todo
          /\ job'.upsert = job.upsert /\ job'.keys = job.keys
        BY <1>1, <2>1 DEF Job
    <2> QED BY <2>1, <2>2, WriteKeys
<1>3. CASE WriteChunk
    <2> DEFINE x == [rows |-> job.rows, created |-> job.lsn]
    <2>1. /\ job.phase = "chunk" /\ job' = [job EXCEPT !.phase = "list"] /\ UNCHANGED <<listed, acked, damaged>>
          /\ files' = [files EXCEPT ![job.cls] = Append(SubSeq(files[job.cls], 1, listed[job.cls]), x)]
        BY <1>3 DEF WriteChunk, Chunks
    <2>2. /\ job'.phase = "list" /\ job'.cls = job.cls /\ job'.rows = job.rows /\ job'.todo = job.todo
          /\ job'.upsert = job.upsert /\ job'.keys = job.keys
        BY <1>1, <2>1 DEF Job
    <2>3. job.cls \in Class /\ x \in Chunk
        BY <1>1, <2>1, Types DEF SInv, JobShape, Chunk
    <2>4. files' = Put(files, listed, job.cls, x)
        BY <2>1 DEF Put
    <2> HIDE DEF x
    <2>5. \A c \in Class : \A i \in 1..listed[c] : files'[c][i] = files[c][i]
        BY <1>1, <2>3, <2>4, Written
    <2> QED BY <2>1, <2>2, <2>5, WriteKeys
<1> QED BY <1>2, <1>3

(* The store is gone; its rows are the ones to write next, or there are none.  *)
LEMMA RemoveKeys == KInv /\ SInv' /\ RemoveStore => KInv'
<1> SUFFICES ASSUME KInv, SInv', RemoveStore PROVE KInv'
    OBVIOUS
<1>1. PICK w \in job.todo :
          /\ files' = [files EXCEPT ![w.cls] = <<>>]
          /\ listed' = [listed EXCEPT ![w.cls] = 0]
          /\ IF w.rows = {} THEN StoreDone(job.todo \ {w})
             ELSE /\ job' = [job EXCEPT !.phase = "clock", !.cls = w.cls, !.rows = w.rows, !.todo = @ \ {w}]
                  /\ UNCHANGED acked
    BY DEF RemoveStore
<1>2. job.phase = "remove" /\ damaged' = damaged
    BY DEF RemoveStore
<1>3. TypeOK /\ job \in Job /\ job.upsert /\ w.cls \in Class /\ Stores(files, listed) /\ job.todo \subseteq Work
    BY <1>2, Types DEF KInv, SInv, JobShape, Work
<1>4. \A d \in Class : (d = w.cls => listed'[d] = 0) /\ (d # w.cls => listed'[d] = listed[d] /\ files'[d] = files[d])
    BY <1>1, <1>3 DEF Stores
<1>5. /\ job'.todo = job.todo \ {w} /\ (job'.upsert \/ job'.todo = {})
      /\ Promised' = acked \cup job.keys
      /\ \/ w.rows = {} /\ job'.phase \in {"idle", "remove"} /\ (job'.phase = "idle" => ~job'.upsert)
         \/ job'.upsert /\ job'.phase = "clock" /\ job'.cls = w.cls /\ job'.rows = w.rows
    <2>1. CASE w.rows = {}
        <3>1. (job.todo \ {w}) \in SUBSET job.todo /\ StoreDone(job.todo \ {w})
            BY <1>1, <2>1
        <3>2. CASE job.todo \ {w} = {}
            <4>1. job' = Idle /\ acked' = acked \cup job.keys
                BY <3>1, <3>2, <1>3, Done
            <4> QED BY <2>1, <3>2, <4>1, EndedJobs DEF Promised
        <3>3. CASE job.todo \ {w} # {}
            <4>1. /\ job'.phase = "remove" /\ job'.todo = job.todo \ {w} /\ job'.upsert = job.upsert
                  /\ job'.keys = job.keys /\ acked' = acked
                BY <3>1, <3>3, <1>3, Done
            <4> QED BY <1>3, <2>1, <4>1 DEF Promised
        <3> QED BY <3>2, <3>3
    <2>2. CASE w.rows # {}
        <3>1. job' = [job EXCEPT !.phase = "clock", !.cls = w.cls, !.rows = w.rows, !.todo = @ \ {w}] /\ acked' = acked
            BY <1>1, <2>2
        <3>2. /\ job'.phase = "clock" /\ job'.cls = w.cls /\ job'.rows = w.rows /\ job'.todo = job.todo \ {w}
              /\ job'.upsert = job.upsert /\ job'.keys = job.keys
            BY <1>3, <3>1 DEF Job
        <3> QED BY <1>3, <3>1, <3>2 DEF Promised
    <2> QED BY <2>1, <2>2
<1>6. \A u, v \in job.todo : u.cls = v.cls => u = v
    BY DEF KInv, KeyShape
<1>7. Left' = Left \ {w.cls}
    BY <1>5, <1>6 DEF Left
<1>8. KeyShape'
    <2>1. \A u, v \in job'.todo : u.cls = v.cls => u = v
        BY <1>5, <1>6
    <2>2. job'.upsert /\ Writing' => job'.cls \notin Left' /\ listed'[job'.cls] = 0
        BY <1>3, <1>4, <1>5, <1>7 DEF Writing
    <2>3. ~job'.upsert => ~Writing' /\ job'.phase \notin {"clock", "chunk", "list"}
        BY <1>5 DEF Writing
    <2>4. job'.phase \in {"idle", "mirror"} => ~job'.upsert
        BY <1>5
    <2> QED BY <2>1, <2>2, <2>3, <2>4 DEF KeyShape
<1>9. ASSUME ~damaged', NEW k \in Promised' PROVE \E r \in Row : Safe(r)' /\ r.key = k
    <2>1. PICK r \in Row : Safe(r) /\ r.key = k
        BY <1>2, <1>3, <1>5, <1>9 DEF KInv, Promised
    <2>2. ASSUME NEW c \in Class \ Left, NEW i \in 1..listed[c], r \in files[c][i].rows PROVE Safe(r)'
        <3>1. c # w.cls
            BY DEF Left
        <3>2. i \in 1..listed'[c] /\ r \in files'[c][i].rows /\ c \in Class \ Left'
            BY <1>4, <1>7, <2>2, <3>1
        <3> QED BY <3>2 DEF Safe
    <2>3. ASSUME NEW v \in job.todo, r \in v.rows PROVE Safe(r)'
        <3>1. CASE v # w
            BY <1>5, <2>3, <3>1 DEF Safe
        <3>2. CASE v = w
            BY <1>5, <2>3, <3>2 DEF Safe, Writing
        <3> QED BY <3>1, <3>2
    <2>4. ~Writing
        BY <1>2 DEF Writing
    <2>5. Safe(r)'
        BY <2>1, <2>2, <2>3, <2>4 DEF Safe
    <2> QED BY <2>1, <2>5
<1> QED BY <1>8, <1>9 DEF KInv

(* The rows are in the store, which the call does not touch again.             *)
LEMMA ListKeys == KInv /\ SInv' /\ ListChunk => KInv'
<1> SUFFICES ASSUME KInv, SInv', ListChunk PROVE KInv'
    OBVIOUS
<1> DEFINE c == job.cls
<1>1. /\ job.phase = "list" /\ listed' = [listed EXCEPT ![c] = @ + 1] /\ StoreDone(job.todo)
      /\ files' = files /\ damaged' = damaged
    BY DEF ListChunk
<1>2. SInv /\ TypeOK /\ job \in Job /\ c \in Class /\ Stores(files, listed) /\ Writing
    BY <1>1, Types DEF KInv, SInv, JobShape, Writing
<1>3. files[c][listed[c] + 1] = [rows |-> job.rows, created |-> job.lsn]
    BY <1>1 DEF KInv, SInv, JobShape
<1>4. /\ listed[c] \in Nat /\ listed'[c] = listed[c] + 1 /\ \A d \in Class : listed[d] \in Nat /\ listed[d] <= listed'[d]
    BY <1>1, <1>2 DEF Stores
<1>5. /\ Promised' = acked \cup job.keys /\ job'.todo = job.todo
      /\ \/ job'.phase = "idle" /\ ~job'.upsert /\ job.todo = {}
         \/ job'.phase = "remove" /\ job'.upsert
    <2>1. job.todo \in SUBSET job.todo
        OBVIOUS
    <2>2. CASE job.todo = {}
        <3>1. job' = Idle /\ acked' = acked \cup job.keys
            BY <1>1, <1>2, <2>1, <2>2, Done
        <3> QED BY <2>2, <3>1, EndedJobs DEF Promised
    <2>3. CASE job.todo # {}
        <3>1. /\ job'.phase = "remove" /\ job'.todo = job.todo /\ job'.upsert = job.upsert
              /\ job'.keys = job.keys /\ acked' = acked
            BY <1>1, <1>2, <2>1, <2>3, Done
        <3>2. job.upsert
            BY <1>2, <2>3, Types DEF SInv, JobShape
        <3> QED BY <3>1, <3>2 DEF Promised
    <2> QED BY <2>2, <2>3
<1> HIDE DEF c
<1>6. KeyShape'
    <2>1. ~Writing'
        BY <1>5 DEF Writing
    <2> QED BY <1>5, <2>1 DEF KInv, KeyShape
<1>7. Left' = Left
    BY <1>5 DEF Left
<1>8. c \notin Left
    <2>1. job.upsert => c \notin Left
        BY <1>2 DEF KInv, KeyShape, c
    <2>2. ~job.upsert => job.todo = {}
        BY <1>2 DEF SInv, JobShape
    <2> QED BY <2>1, <2>2 DEF Left
<1>9. ASSUME NEW r \in Row, Safe(r) \/ r \in job.rows PROVE Safe(r)'
    <2>1. ASSUME r \in job.rows PROVE Safe(r)'
        <3>1. listed[c] + 1 \in 1..listed'[c] /\ r \in files'[c][listed[c] + 1].rows
            BY <1>1, <1>3, <1>4, <2>1
        <3> QED BY <1>2, <1>7, <1>8, <3>1 DEF Safe
    <2>2. ASSUME NEW d \in Class \ Left, NEW i \in 1..listed[d], r \in files[d][i].rows PROVE Safe(r)'
        <3>1. i \in 1..listed'[d] /\ r \in files'[d][i].rows
            <4>1. listed[d] \in Nat /\ listed'[d] \in Nat /\ listed[d] <= listed'[d]
                BY <1>2, <1>4, Types DEF SInv, TypeOK, Stores
            <4> QED BY <1>1, <2>2, <4>1
        <3> QED BY <1>7, <3>1 DEF Safe
    <2>3. (\E v \in job.todo : r \in v.rows) => Safe(r)'
        BY <1>5 DEF Safe
    <2> QED BY <1>9, <2>1, <2>2, <2>3 DEF Safe
<1>10. ASSUME ~damaged', NEW k \in Promised' PROVE \E r \in Row : Safe(r)' /\ r.key = k
    <2>1. \E r \in Row : (Safe(r) \/ r \in job.rows) /\ r.key = k
        <3>1. CASE k \in Promised
            BY <1>1, <1>10, <3>1 DEF KInv
        <3>2. CASE k \notin Promised
            <4>1. ~job.upsert /\ k \in job.keys
                BY <1>5, <1>10, <3>2 DEF Promised
            <4>2. PICK r \in job.rows : r.key = k
                BY <1>2, <4>1 DEF KInv, KeyShape
            <4>3. r \in Row
                BY <1>2, Types
            <4> QED BY <4>2, <4>3
        <3> QED BY <3>1, <3>2
    <2> QED BY <1>9, <2>1
<1> QED BY <1>6, <1>10 DEF KInv

LEMMA InitK == Init => KInv
<1> SUFFICES ASSUME Init PROVE KInv
    OBVIOUS
<1>1. SInv
    BY InitSInv
<1>2. job.todo = {} /\ ~job.upsert /\ job.phase = "idle" /\ acked = {}
    BY EndedJobs DEF Init
<1> QED BY <1>1, <1>2 DEF KInv, KeyShape, Writing, Promised

LEMMA NextK == KInv /\ [Next]_vars => KInv'
<1> SUFFICES ASSUME KInv, [Next]_vars PROVE KInv'
    OBVIOUS
<1>1. SInv'
    BY NextSInv DEF KInv
<1>2. CASE Open \/ UNCHANGED vars
    <2>1. UNCHANGED <<files, listed, job, acked, damaged>>
        BY <1>2 DEF Open, vars
    <2>2. KeyShape' = KeyShape /\ Promised' = Promised /\ \A r : Safe(r)' = Safe(r)
        BY <2>1 DEF KeyShape, Promised, Safe, Writing, Left
    <2> QED BY <1>1, <2>1, <2>2 DEF KInv
<1>3. ASSUME NEW c \in Class, NEW k \in Keys, NEW v \in Values, NEW u \in BOOLEAN, Upsert(c, k, v, u) PROVE KInv'
    BY <1>1, <1>3, UpsertKeys
<1>4. CASE \/ \E c \in Class, k \in Keys, v \in Values : Insert(c, k, v)
           \/ \E n \in Names : CreateSnapshot(n) \/ OpenSnapshot(n) \/ ReleaseSnapshot(n)
           \/ Mirror \/ Stop \/ AppendFails \/ RewriteFails
    BY <1>1, <1>4, CallKeys
<1>5. CASE RemoveStore
    BY <1>1, <1>5, RemoveKeys
<1>6. CASE Clock \/ WriteChunk
    BY <1>1, <1>6, ClockKeys
<1>7. CASE ListChunk
    BY <1>1, <1>7, ListKeys
<1> QED BY <1>2, <1>3, <1>4, <1>5, <1>6, <1>7 DEF Next

(* Rewriting all stores, with rows moving from one class to another, loses no  *)
(* key whose insert or upsert returned, unless an upsert was cut short: the    *)
(* rows of the call are safe in the stores it is done with and in its plan.    *)
THEOREM KeysNeverLost == Spec => []KeysKeptByUpserts
<1>1. KInv => KeysKeptByUpserts
    <2> SUFFICES ASSUME KInv, ~damaged, job = Idle, NEW k \in acked PROVE \E r \in AllRows : r.key = k
        BY DEF KeysKeptByUpserts, KeysKept
    <2>1. job.todo = {} /\ ~job.upsert
        BY EndedJobs
    <2>2. PICK r \in Row : Safe(r) /\ r.key = k
        BY <2>1 DEF KInv, Promised
    <2>3. PICK c \in Class : \E i \in 1..listed[c] : r \in files[c][i].rows
        BY <2>1, <2>2 DEF Safe
    <2>4. PICK i \in 1..listed[c] : r \in files[c][i].rows
        BY <2>3
    <2>5. Stores(files, listed)
        BY Types DEF KInv, SInv
    <2>6. files[c][i] \in Listed(files, listed)
        BY <2>5, StoreChunks DEF Listed
    <2>7. r \in AllRows
        BY <2>4, <2>5, <2>6, Reads
    <2> QED BY <2>2, <2>7
<1> QED BY <1>1, InitK, NextK, PTL DEF Spec
=============================================================================
