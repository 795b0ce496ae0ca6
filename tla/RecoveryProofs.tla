--------------------------- MODULE RecoveryProofs ---------------------------
(***************************************************************************)
(* The log of wal.py with its checkpoints and recovery, for any records,   *)
(* sizes and bounds.  As long as no record is cut (CrashModes without      *)
(* "tear"), under sync "on" against every other crash, and under sync      *)
(* "group" when the machine does not fail: what a flush promised is        *)
(* replayed and the log reaches the checkpoint, unless the checkpoint once *)
(* outran the log.  It cannot when the process can only be killed and one  *)
(* thread uses the log, and then the log implements DurableLog.            *)
(*                                                                         *)
(* The reader and the truncation are functions recursive over the          *)
(* segments; the first part says what they return.                         *)
(***************************************************************************)
EXTENDS Recovery, SequenceTheorems, WellFoundedInduction, TLAPS

LEMMA Least ==
    ASSUME NEW T \in SUBSET Nat, T # {}
    PROVE  \E n \in T : \A m \in T : n <= m
<1>1. IsWellFoundedOn(OpToRel(<, Nat), Nat)
    BY NatLessThanWellFounded
<1>2. PICK x \in T : \A y \in T : ~(<<y, x>> \in OpToRel(<, Nat))
    BY <1>1, WFMin
<1>3. \A y \in T : y < x => <<y, x>> \in OpToRel(<, Nat)
    BY DEF OpToRel
<1>4. \A y \in T : ~(y < x)
    BY <1>2, <1>3
<1> QED BY <1>4

LEMMA Greatest ==
    ASSUME NEW T \in SUBSET Nat, T # {}, NEW b \in Nat, \A t \in T : t <= b
    PROVE  \E n \in T : \A m \in T : m <= n
<1> DEFINE U == {b - t : t \in T}
<1>1. U \in SUBSET Nat /\ U # {}
    <2>1. \A t \in T : b - t \in Nat
        OBVIOUS
    <2>2. PICK t \in T : TRUE
        OBVIOUS
    <2>3. b - t \in U
        BY <2>2
    <2> QED BY <2>1, <2>3
<1>2. PICK u \in U : \A v \in U : u <= v
    BY <1>1, Least
<1>3. PICK n \in T : u = b - n
    BY <1>2
<1>4. \A m \in T : b - n <= b - m
    BY <1>2, <1>3
<1>5. \A m \in T : m <= n
    BY <1>4
<1> QED BY <1>5

LEMMA Induct ==
    ASSUME NEW P, 0 \in P, \A i \in Nat : i \in P => i + 1 \in P
    PROVE  \A n \in Nat : n \in P
<1> DEFINE T == {n \in Nat : n \notin P}
<1> SUFFICES ASSUME T # {} PROVE FALSE
    OBVIOUS
<1>1. T \in SUBSET Nat
    OBVIOUS
<1>2. PICK n \in T : \A m \in T : n <= m
    BY <1>1, Least
<1>3. n \in Nat /\ n # 0
    OBVIOUS
<1>4. n - 1 \in Nat /\ ~(n <= n - 1) /\ n - 1 + 1 = n
    BY <1>3
<1>5. n - 1 \in P
    BY <1>2, <1>4
<1> QED BY <1>4, <1>5

(* f starts with b and goes on by the steps g.                                 *)
Steps(f, n, S, b, g) == f \in [0..n -> S] /\ f[0] = b /\ \A i \in 1..n : f[i] = g[i][f[i - 1]]

LEMMA Recursion ==
    ASSUME NEW n \in Nat, NEW S, NEW b \in S, NEW g \in [1..n -> [S -> S]]
    PROVE  \E f : Steps(f, n, S, b, g)
<1> DEFINE Upto(m, f) == f \in [0..m -> S] /\ f[0] = b /\ \A i \in 1..m : f[i] = g[i][f[i - 1]]
           P == {m \in Nat : m <= n => \E f : Upto(m, f)}
<1>1. 0 \in P
    <2>1. Upto(0, [i \in 0..0 |-> b])
        OBVIOUS
    <2> QED BY <2>1
<1>2. ASSUME NEW m \in Nat, m \in P PROVE m + 1 \in P
    <2> SUFFICES ASSUME m + 1 <= n PROVE \E f : Upto(m + 1, f)
        OBVIOUS
    <2>1. PICK f : Upto(m, f)
        BY <1>2
    <2> DEFINE h == [i \in 0..(m + 1) |-> IF i = m + 1 THEN g[m + 1][f[m]] ELSE f[i]]
    <2>2. f[m] \in S /\ m + 1 \in 1..n
        BY <2>1
    <2>3. g[m + 1][f[m]] \in S
        BY <2>2
    <2>4. h \in [0..(m + 1) -> S] /\ h[0] = b
        BY <2>1, <2>3
    <2>5. ASSUME NEW i \in 1..(m + 1) PROVE h[i] = g[i][h[i - 1]]
        <3>1. CASE i = m + 1
            <4>1. i - 1 = m /\ m \in 0..(m + 1) /\ m # m + 1
                BY <3>1
            <4>2. h[i - 1] = f[m]
                BY <4>1
            <4>3. h[i] = g[i][f[m]]
                BY <3>1
            <4> QED BY <4>2, <4>3
        <3>2. CASE i # m + 1
            <4>1. i \in 1..m /\ i - 1 \in 0..m /\ i - 1 # m + 1 /\ i - 1 \in 0..(m + 1)
                BY <3>2
            <4> QED BY <2>1, <3>2, <4>1
        <3> QED BY <3>1, <3>2
    <2> QED BY <2>4, <2>5
<1> HIDE DEF P
<1>3. n \in P
    BY <1>1, <1>2, Induct
<1> QED BY <1>3 DEF P, Steps

(* The sequence has the elements of the sequences it is made of.               *)
FlatBy(f, X, ss) ==
    /\ \A i \in 1..Len(ss) : f[i] \in Seq(X)
    /\ f[1] = ss[1] /\ \A i \in 2..Len(ss) : f[i] = f[i - 1] \o ss[i]
    /\ FlattenSeq(ss) = f[Len(ss)]

LEMMA FlattenRec ==
    ASSUME NEW X, NEW ss \in Seq(Seq(X)), ss # <<>>
    PROVE  \E f : FlatBy(f, X, ss)
<1>1. PICK n \in Nat : n = Len(ss) /\ n # 0 /\ \A i \in 1..n : ss[i] \in Seq(X)
    OBVIOUS
<1> DEFINE g == [i \in 1..n |-> [t \in Seq(X) |-> IF i = 1 THEN ss[i] ELSE t \o ss[i]]]
           Body(f, i) == IF i = 1 THEN ss[i] ELSE f[i - 1] \o ss[i]
           Fix(f) == f = [i \in 1..n |-> Body(f, i)]
<1>2. g \in [1..n -> [Seq(X) -> Seq(X)]]
    <2>1. ASSUME NEW i \in 1..n, NEW t \in Seq(X) PROVE (IF i = 1 THEN ss[i] ELSE t \o ss[i]) \in Seq(X)
        BY <1>1
    <2> QED BY <2>1
<1>3. \A i \in 1..n : \A t \in Seq(X) : g[i][t] = IF i = 1 THEN ss[i] ELSE t \o ss[i]
    OBVIOUS
<1>4. \A e : Body(e, 1) = ss[1]
    OBVIOUS
<1>5. ASSUME NEW e, NEW i \in 2..n PROVE Body(e, i) = e[i - 1] \o ss[i]
    <2>1. i # 1
        OBVIOUS
    <2> QED BY <2>1, Zenon
<1>6. FlattenSeq(ss) = (CHOOSE e : Fix(e))[n]
    BY <1>1 DEF FlattenSeq
<1> HIDE DEF g, Body
<1>7. PICK f \in [0..n -> Seq(X)] : f[0] = <<>> /\ \A i \in 1..n : f[i] = g[i][f[i - 1]]
    <2>1. <<>> \in Seq(X)
        OBVIOUS
    <2>2. PICK f : Steps(f, n, Seq(X), <<>>, g)
        BY <1>2, <2>1, Recursion
    <2> QED BY <2>2 DEF Steps
<1> DEFINE e0 == [i \in 1..n |-> f[i]]
<1>8. Fix(e0)
    <2>1. ASSUME NEW i \in 1..n PROVE f[i] = Body(e0, i)
        <3>1. f[i - 1] \in Seq(X)
            BY <1>7
        <3>2. f[i] = IF i = 1 THEN ss[i] ELSE f[i - 1] \o ss[i]
            BY <1>3, <1>7, <3>1
        <3>3. CASE i = 1
            BY <1>4, <3>2, <3>3
        <3>4. CASE i # 1
            <4>1. i \in 2..n /\ i - 1 \in 1..n
                BY <3>4
            <4>2. e0[i - 1] = f[i - 1]
                BY <4>1
            <4>3. Body(e0, i) = e0[i - 1] \o ss[i]
                BY <1>5, <4>1
            <4> QED BY <3>2, <3>4, <4>2, <4>3
        <3> QED BY <3>3, <3>4
    <2> QED BY <2>1
<1> DEFINE h == CHOOSE e : Fix(e)
<1>9. Fix(h)
    <2> HIDE DEF Fix, e0
    <2> QED BY <1>8
<1> HIDE DEF h
<1>10. \A i \in 1..n : h[i] = Body(h, i)
    BY <1>9
<1>11. h[1] = ss[1]
    BY <1>1, <1>4, <1>10
<1>12. \A i \in 2..n : h[i] = h[i - 1] \o ss[i]
    <2>1. \A i \in 2..n : i \in 1..n
        OBVIOUS
    <2> QED BY <1>5, <1>10, <2>1
<1> DEFINE P == {i \in Nat : i + 1 <= n => h[i + 1] \in Seq(X)}
<1>13. 0 \in P
    BY <1>1, <1>11
<1>14. ASSUME NEW i \in Nat, i \in P PROVE i + 1 \in P
    <2> SUFFICES ASSUME i + 1 + 1 <= n PROVE h[i + 1 + 1] \in Seq(X)
        OBVIOUS
    <2>1. h[i + 1] \in Seq(X) /\ i + 1 + 1 \in 2..n /\ i + 1 + 1 - 1 = i + 1 /\ i + 1 + 1 \in 1..n
        BY <1>14
    <2>2. ss[i + 1 + 1] \in Seq(X)
        BY <1>1, <2>1
    <2>3. h[i + 1 + 1] = h[i + 1] \o ss[i + 1 + 1]
        <3>1. PICK k \in 2..n : k = i + 1 + 1 /\ k - 1 = i + 1
            BY <2>1
        <3>2. h[k] = h[k - 1] \o ss[k]
            BY <1>12
        <3> QED BY <3>1, <3>2, Zenon
    <2> QED BY <2>1, <2>2, <2>3
<1> HIDE DEF P
<1>15. \A i \in Nat : i \in P
    BY <1>13, <1>14, Induct
<1>16. \A i \in 1..n : h[i] \in Seq(X)
    <2> SUFFICES ASSUME NEW i \in 1..n PROVE h[i] \in Seq(X)
        OBVIOUS
    <2>1. i - 1 \in Nat /\ i - 1 + 1 = i
        OBVIOUS
    <2>2. i - 1 \in P
        BY <1>15, <2>1
    <2> QED BY <2>1, <2>2 DEF P
<1>17. FlatBy(h, X, ss)
    BY <1>1, <1>6, <1>11, <1>12, <1>16 DEF h, FlatBy
<1> QED BY <1>17

-----------------------------------------------------------------------------
(* Segments and what is in them.                                               *)

All(w) == OnFile(w.segs) \cup ToSet(w.buf)

Ascending(es) == \A p, q \in DOMAIN es : p < q => es[p].lsn < es[q].lsn
Below(S, T) == \A e \in S, f \in T : e.lsn < f.lsn
Ordered(ss) ==
    /\ \A i \in DOMAIN ss : Ascending(ss[i].recs)
    /\ \A i, j \in DOMAIN ss : i < j => Below(ToSet(ss[i].recs), ToSet(ss[j].recs))

(* Some element has the highest LSN.                                           *)
Top(S) == S = {} \/ \E e \in S : \A f \in S : f.lsn <= e.lsn

LEMMA HighestOf ==
    ASSUME NEW S \in SUBSET Entry, Top(S)
    PROVE  /\ Highest(S) \in Nat /\ \A e \in S : e.lsn <= Highest(S)
           /\ S # {} => \E e \in S : e.lsn = Highest(S)
<1>1. CASE S = {}
    BY <1>1 DEF Highest
<1>2. CASE S # {}
    <2> DEFINE L == {e.lsn : e \in S}
    <2>1. PICK e \in S : \A f \in S : f.lsn <= e.lsn
        BY <1>2 DEF Top
    <2>2. e.lsn \in L /\ (\A l \in L : e.lsn >= l) /\ L \subseteq Nat
        BY <2>1 DEF Entry
    <2> HIDE DEF L
    <2>3. Max(L) \in L /\ \A l \in L : Max(L) >= l
        BY <2>2 DEF Max
    <2>4. Highest(S) = Max(L)
        BY <1>2 DEF Highest, L
    <2>5. PICK f \in S : f.lsn = Max(L)
        BY <2>3 DEF L
    <2>6. \A g \in S : g.lsn \in L
        BY DEF L
    <2> QED BY <2>2, <2>3, <2>4, <2>5, <2>6
<1> QED BY <1>1, <1>2

LEMMA HighestIs ==
    ASSUME NEW S \in SUBSET Entry, NEW e \in S, \A f \in S : f.lsn <= e.lsn
    PROVE  Top(S) /\ Highest(S) = e.lsn
<1>1. Top(S)
    BY DEF Top
<1>2. PICK g \in S : g.lsn = Highest(S)
    BY <1>1, HighestOf
<1>3. e.lsn <= Highest(S) /\ Highest(S) <= e.lsn
    BY <1>1, <1>2, HighestOf
<1>4. e.lsn \in Nat /\ Highest(S) \in Nat
    BY <1>1, HighestOf DEF Entry
<1> QED BY <1>1, <1>3, <1>4

(* Parts of a set with a highest LSN.                                          *)
LEMMA TopOf ==
    ASSUME NEW T \in SUBSET Entry, Top(T), NEW S \in SUBSET T
    PROVE  Top(S) /\ Highest(S) \in Nat /\ Highest(T) \in Nat /\ Highest(S) <= Highest(T)
<1>1. Highest(T) \in Nat /\ \A e \in T : e.lsn \in Nat /\ e.lsn <= Highest(T)
    BY HighestOf DEF Entry
<1>2. CASE S = {}
    BY <1>1, <1>2 DEF Top, Highest
<1>3. CASE S # {}
    <2> DEFINE L == {e.lsn : e \in S}
    <2>1. L \in SUBSET Nat /\ L # {} /\ \A l \in L : l <= Highest(T)
        BY <1>1, <1>3
    <2>2. PICK n \in L : \A m \in L : m <= n
        BY <1>1, <2>1, Greatest
    <2>3. PICK e \in S : e.lsn = n
        BY <2>2
    <2>4. \A f \in S : f.lsn <= e.lsn
        BY <2>2, <2>3
    <2>5. Top(S) /\ Highest(S) = e.lsn
        BY <2>4, HighestIs
    <2> QED BY <1>1, <2>3, <2>5
<1> QED BY <1>2, <1>3

LEMMA JoinedSeq ==
    ASSUME NEW X, NEW s \in Seq(X), NEW t \in Seq(X)
    PROVE  /\ s \o t \in Seq(X) /\ ToSet(s \o t) = ToSet(s) \cup ToSet(t)
           /\ Len(s \o t) = Len(s) + Len(t) /\ Len(s) \in Nat /\ Len(t) \in Nat
           /\ \A i \in 1..Len(s) : (s \o t)[i] = s[i]
           /\ \A i \in (Len(s) + 1)..(Len(s) + Len(t)) : i - Len(s) \in 1..Len(t) /\ (s \o t)[i] = t[i - Len(s)]
<1>1. /\ s \o t \in Seq(X) /\ Len(s \o t) = Len(s) + Len(t) /\ Len(s) \in Nat /\ Len(t) \in Nat
      /\ \A i \in 1..Len(s) : (s \o t)[i] = s[i]
      /\ \A i \in 1..Len(t) : (s \o t)[Len(s) + i] = t[i]
    BY ConcatProperties
<1>2. DOMAIN s = 1..Len(s) /\ DOMAIN t = 1..Len(t) /\ DOMAIN (s \o t) = 1..(Len(s) + Len(t))
    BY <1>1
<1>3. ASSUME NEW i \in (Len(s) + 1)..(Len(s) + Len(t)) PROVE i - Len(s) \in 1..Len(t) /\ (s \o t)[i] = t[i - Len(s)]
    <2>1. i - Len(s) \in 1..Len(t) /\ Len(s) + (i - Len(s)) = i
        BY <1>1
    <2> QED BY <1>1, <2>1
<1>4. \A i \in 1..(Len(s) + Len(t)) : i \in 1..Len(s) \/ i \in (Len(s) + 1)..(Len(s) + Len(t))
    BY <1>1
<1>5. ToSet(s \o t) \subseteq ToSet(s) \cup ToSet(t)
    BY <1>1, <1>2, <1>3, <1>4 DEF ToSet
<1>6. /\ \A i \in 1..Len(s) : i \in 1..(Len(s) + Len(t))
      /\ \A i \in 1..Len(t) : Len(s) + i \in 1..(Len(s) + Len(t))
    BY <1>1
<1>7. ToSet(s) \subseteq ToSet(s \o t) /\ ToSet(t) \subseteq ToSet(s \o t)
    BY <1>1, <1>2, <1>6 DEF ToSet
<1> QED BY <1>1, <1>3, <1>5, <1>7

LEMMA AppendedSeq ==
    ASSUME NEW X, NEW s \in Seq(X), NEW x \in X
    PROVE  /\ Append(s, x) \in Seq(X) /\ ToSet(Append(s, x)) = ToSet(s) \cup {x}
           /\ Len(s) \in Nat /\ Len(Append(s, x)) = Len(s) + 1 /\ DOMAIN Append(s, x) = 1..(Len(s) + 1)
           /\ Append(s, x)[Len(s) + 1] = x /\ \A i \in 1..Len(s) : Append(s, x)[i] = s[i]
<1>1. /\ Append(s, x) \in Seq(X) /\ Len(s) \in Nat /\ DOMAIN s = 1..Len(s)
      /\ Len(Append(s, x)) = Len(s) + 1 /\ DOMAIN Append(s, x) = 1..(Len(s) + 1)
      /\ Append(s, x)[Len(s) + 1] = x /\ \A i \in 1..Len(s) : Append(s, x)[i] = s[i]
    OBVIOUS
<1>2. \A i \in 1..(Len(s) + 1) : i \in 1..Len(s) \/ i = Len(s) + 1
    BY <1>1
<1>3. Len(s) + 1 \in 1..(Len(s) + 1) /\ \A i \in 1..Len(s) : i \in 1..(Len(s) + 1)
    BY <1>1
<1>4. ToSet(Append(s, x)) = ToSet(s) \cup {x}
    BY <1>1, <1>2, <1>3 DEF ToSet
<1> QED BY <1>1, <1>4

(* Two ascending sequences, one below the other.                               *)
LEMMA AscendingJoined ==
    ASSUME NEW s \in Seq(Entry), NEW t \in Seq(Entry), Ascending(s), Ascending(t), Below(ToSet(s), ToSet(t))
    PROVE  Ascending(s \o t)
<1> SUFFICES ASSUME NEW p \in 1..(Len(s) + Len(t)), NEW q \in 1..(Len(s) + Len(t)), p < q
             PROVE  (s \o t)[p].lsn < (s \o t)[q].lsn
    BY JoinedSeq DEF Ascending
<1>1. /\ Len(s) \in Nat /\ Len(t) \in Nat /\ DOMAIN s = 1..Len(s) /\ DOMAIN t = 1..Len(t)
      /\ \A i \in 1..Len(s) : (s \o t)[i] = s[i]
      /\ \A i \in (Len(s) + 1)..(Len(s) + Len(t)) : i - Len(s) \in 1..Len(t) /\ (s \o t)[i] = t[i - Len(s)]
    BY JoinedSeq
<1>2. CASE q <= Len(s)
    <2>1. p \in 1..Len(s) /\ q \in 1..Len(s)
        BY <1>1, <1>2
    <2> QED BY <1>1, <2>1 DEF Ascending
<1>3. CASE ~(p <= Len(s))
    <2>1. p \in (Len(s) + 1)..(Len(s) + Len(t)) /\ q \in (Len(s) + 1)..(Len(s) + Len(t)) /\ p - Len(s) < q - Len(s)
        BY <1>1, <1>3
    <2> QED BY <1>1, <2>1 DEF Ascending
<1>4. CASE p <= Len(s) /\ ~(q <= Len(s))
    <2>1. p \in 1..Len(s) /\ q \in (Len(s) + 1)..(Len(s) + Len(t))
        BY <1>1, <1>4
    <2>2. s[p] \in ToSet(s) /\ t[q - Len(s)] \in ToSet(t)
        BY <1>1, <2>1 DEF ToSet
    <2> QED BY <1>1, <2>1, <2>2 DEF Below
<1> QED BY <1>1, <1>2, <1>3, <1>4

(* The concatenation of ordered segments.                                      *)
LEMMA FlattenOrdered ==
    ASSUME NEW ss \in Seq(Seq(Entry)),
           \A i \in DOMAIN ss : Ascending(ss[i]),
           \A i, j \in DOMAIN ss : i < j => Below(ToSet(ss[i]), ToSet(ss[j]))
    PROVE  /\ FlattenSeq(ss) \in Seq(Entry) /\ Ascending(FlattenSeq(ss))
           /\ ToSet(FlattenSeq(ss)) = UNION {ToSet(ss[i]) : i \in DOMAIN ss}
<1>1. CASE ss = <<>>
    <2>1. FlattenSeq(ss) = <<>> /\ DOMAIN ss = {}
        BY <1>1 DEF FlattenSeq
    <2> QED BY <2>1 DEF ToSet, Ascending
<1>2. CASE ss # <<>>
    <2>1. PICK f : FlatBy(f, Entry, ss)
        BY <1>2, FlattenRec
    <2>2. PICK n \in Nat : n = Len(ss) /\ n # 0 /\ DOMAIN ss = 1..n /\ \A i \in 1..n : ss[i] \in Seq(Entry)
        BY <1>2
    <2>3. /\ \A i \in 1..n : f[i] \in Seq(Entry)
          /\ f[1] = ss[1] /\ \A i \in 2..n : f[i] = f[i - 1] \o ss[i]
          /\ FlattenSeq(ss) = f[n]
        BY <2>1, <2>2 DEF FlatBy
    <2> DEFINE Upto(m) == UNION {ToSet(ss[i]) : i \in 1..m}
               P == {m \in Nat : m + 1 <= n => ToSet(f[m + 1]) = Upto(m + 1) /\ Ascending(f[m + 1])}
    <2>4. 0 \in P
        <3>1. Upto(1) = ToSet(ss[1])
            OBVIOUS
        <3>2. Ascending(ss[1])
            BY <2>2
        <3> QED BY <2>3, <3>1, <3>2
    <2>5. ASSUME NEW m \in Nat, m \in P PROVE m + 1 \in P
        <3> SUFFICES ASSUME m + 1 + 1 <= n
                     PROVE  ToSet(f[m + 1 + 1]) = Upto(m + 1 + 1) /\ Ascending(f[m + 1 + 1])
            OBVIOUS
        <3>1. PICK k \in 2..n : k = m + 1 + 1 /\ k - 1 = m + 1 /\ k \in 1..n /\ k - 1 \in 1..n
            BY <2>2
        <3>2. f[k] = f[k - 1] \o ss[k] /\ f[k - 1] \in Seq(Entry) /\ ss[k] \in Seq(Entry)
            BY <2>2, <2>3, <3>1
        <3>3. ToSet(f[k - 1]) = Upto(k - 1) /\ Ascending(f[k - 1])
            BY <2>5, <3>1
        <3>4. \A i \in 1..k : i \in 1..(k - 1) \/ i = k
            OBVIOUS
        <3>5. k \in 1..k /\ \A i \in 1..(k - 1) : i \in 1..k /\ i \in 1..n /\ i < k
            BY <3>1
        <3>6. Upto(k) = Upto(k - 1) \cup ToSet(ss[k])
            BY <3>4, <3>5
        <3>7. Below(Upto(k - 1), ToSet(ss[k]))
            BY <2>2, <3>1, <3>5 DEF Below
        <3> HIDE DEF Upto
        <3>8. ToSet(f[k]) = Upto(k)
            BY <3>2, <3>3, <3>6, JoinedSeq
        <3>9. Ascending(f[k])
            BY <2>2, <3>1, <3>2, <3>3, <3>7, AscendingJoined
        <3> QED BY <3>1, <3>8, <3>9
    <2> HIDE DEF P
    <2>6. n - 1 \in Nat /\ n - 1 + 1 = n
        BY <2>2
    <2>7. n - 1 \in P
        BY <2>4, <2>5, <2>6, Induct
    <2>8. ToSet(f[n]) = Upto(n) /\ Ascending(f[n])
        BY <2>6, <2>7 DEF P
    <2> QED BY <2>2, <2>3, <2>8
<1> QED BY <1>1, <1>2

LEMMA WholeSegment ==
    ASSUME NEW ss \in Seq(Segment), \A e \in OnFile(ss) : e.want = 0, NEW i \in DOMAIN ss
    PROVE  SegRecords(ss[i]) = ss[i].recs /\ ss[i].recs \in Seq(Entry)
<1>0. ss[i] \in Segment
    OBVIOUS
<1>1. ss[i].recs \in Seq(Entry) /\ Len(ss[i].recs) \in Nat /\ DOMAIN ss[i].recs = 1..Len(ss[i].recs)
    BY <1>0 DEF Segment
<1>2. \A k \in 1..Len(ss[i].recs) : ~(ss[i].recs[k].want > 0)
    <2> SUFFICES ASSUME NEW k \in DOMAIN ss[i].recs PROVE ~(ss[i].recs[k].want > 0)
        BY <1>1
    <2>1. ss[i].recs[k] \in OnFile(ss)
        BY DEF OnFile, ToSet
    <2> QED BY <2>1
<1>3. CutAt(ss[i].recs) = Len(ss[i].recs) + 1
    BY <1>1, <1>2 DEF CutAt, SelectInSeq
<1>4. SubSeq(ss[i].recs, 1, Len(ss[i].recs)) = ss[i].recs
    BY <1>1
<1>5. CutAt(ss[i].recs) - 1 = Len(ss[i].recs)
    BY <1>1, <1>3
<1> QED BY <1>1, <1>4, <1>5 DEF SegRecords

(* Without cut records the reader yields what is in the files, in LSN order.   *)
LEMMA ReadsFiles ==
    ASSUME NEW ss \in Seq(Segment), Ordered(ss), \A e \in OnFile(ss) : e.want = 0
    PROVE  ReadAll(ss) \in Seq(Entry) /\ ToSet(ReadAll(ss)) = OnFile(ss) /\ Ascending(ReadAll(ss))
<1>1. \A i \in DOMAIN ss : SegRecords(ss[i]) = ss[i].recs /\ ss[i].recs \in Seq(Entry)
    BY WholeSegment
<1> DEFINE rs == [i \in DOMAIN ss |-> SegRecords(ss[i])]
<1>2. PICK n \in Nat : DOMAIN ss = 1..n
    OBVIOUS
<1>3. rs \in Seq(Seq(Entry)) /\ DOMAIN rs = DOMAIN ss
    BY <1>1, <1>2
<1>4. \A i \in DOMAIN rs : rs[i] = ss[i].recs
    BY <1>1
<1>5. ReadAll(ss) = FlattenSeq(rs)
    BY DEF ReadAll
<1> HIDE DEF rs
<1>6. /\ \A i \in DOMAIN rs : Ascending(rs[i])
      /\ \A i, j \in DOMAIN rs : i < j => Below(ToSet(rs[i]), ToSet(rs[j]))
    BY <1>3, <1>4 DEF Ordered
<1>7. UNION {ToSet(rs[i]) : i \in DOMAIN rs} = OnFile(ss)
    BY <1>3, <1>4 DEF OnFile
<1> QED BY <1>3, <1>5, <1>6, <1>7, FlattenOrdered

LEMMA LastRead ==
    ASSUME NEW es \in Seq(Entry), Top(ToSet(es))
    PROVE  MaxLsnOf(es) = Highest(ToSet(es))
<1>1. Lsns(es) = {e.lsn : e \in ToSet(es)}
    BY DEF Lsns, ToSet
<1>2. es = <<>> <=> ToSet(es) = {}
    BY DEF ToSet
<1> QED BY <1>1, <1>2 DEF MaxLsnOf, Highest

(* The boundary recovery ends with, or reaches before position i.              *)
LEMMA BoundaryIs ==
    ASSUME NEW log \in Seq(Entry), NEW i \in 1..(Len(log) + 1), NEW low \in Nat
    PROVE  /\ BoundaryBefore(log, i, low) \in Nat /\ BoundaryBefore(log, i, low) >= low
           /\ \/ BoundaryBefore(log, i, low) = low
              \/ \E j \in 1..(i - 1) : j \in DOMAIN log /\ log[j].lsn = BoundaryBefore(log, i, low)
<1> DEFINE part == SubSeq(log, 1, i - 1)
           seen == Markers(part, low)
<1>1. BoundaryBefore(log, i, low) = IF seen = {} THEN low ELSE Max(seen)
    BY DEF BoundaryBefore
<1>2. /\ Len(log) \in Nat /\ DOMAIN log = 1..Len(log) /\ i - 1 \in 0..Len(log)
      /\ DOMAIN part = 1..(i - 1) /\ \A j \in 1..(i - 1) : part[j] = log[j] /\ j \in DOMAIN log
    OBVIOUS
<1>3. \A l \in seen : \E j \in 1..(i - 1) : log[j].lsn = l /\ l > low
    BY <1>2 DEF Markers, ToSet
<1>4. (\A j \in DOMAIN log : log[j].lsn \in Nat) /\ \A l \in seen : l \in Nat
    <2>1. \A j \in DOMAIN log : log[j] \in Entry
        OBVIOUS
    <2>2. \A j \in DOMAIN log : log[j].lsn \in Nat
        BY <2>1 DEF Entry
    <2> HIDE DEF seen
    <2> QED BY <1>2, <1>3, <2>2
<1>5. CASE seen = {}
    BY <1>1, <1>5
<1>6. CASE seen # {}
    <2>1. \E b \in Nat : \A l \in seen : l <= b
        <3> DEFINE Q == {m \in Nat : m <= Len(log) => \E b \in Nat : \A j \in 1..m : log[j].lsn <= b}
        <3>1. 0 \in Q
            OBVIOUS
        <3>2. ASSUME NEW m \in Nat, m \in Q PROVE m + 1 \in Q
            <4> SUFFICES ASSUME m + 1 <= Len(log) PROVE \E b \in Nat : \A j \in 1..(m + 1) : log[j].lsn <= b
                OBVIOUS
            <4>1. PICK b \in Nat : \A j \in 1..m : log[j].lsn <= b
                BY <1>2, <3>2
            <4>2. log[m + 1].lsn \in Nat /\ \A j \in 1..m : log[j].lsn \in Nat
                <5> HIDE DEF part, seen, Q
                <5>1. m + 1 \in DOMAIN log /\ 1..m \subseteq DOMAIN log
                    BY <1>2
                <5> QED BY <1>4, <5>1
            <4>3. b + log[m + 1].lsn \in Nat
                BY <4>2
            <4>4. \A j \in 1..(m + 1) : log[j].lsn <= b + log[m + 1].lsn
                BY <4>1, <4>2
            <4> QED BY <4>3, <4>4
        <3> HIDE DEF Q
        <3>3. i - 1 \in Q
            BY <1>2, <3>1, <3>2, Induct
        <3>4. PICK b \in Nat : \A j \in 1..(i - 1) : log[j].lsn <= b
            BY <1>2, <3>3 DEF Q
        <3> QED BY <1>3, <3>4
    <2> HIDE DEF seen
    <2>2. PICK b \in Nat : \A l \in seen : l <= b
        BY <2>1
    <2>3. PICK m \in seen : \A l \in seen : l <= m
        BY <1>4, <1>6, <2>2, Greatest
    <2>4. \A l \in seen : m >= l
        BY <1>4, <2>3
    <2>5. Max(seen) \in seen
        BY <2>4 DEF Max
    <2>6. BoundaryBefore(log, i, low) \in seen
        BY <1>1, <1>6, <2>5
    <2>7. PICK j \in 1..(i - 1) : log[j].lsn = BoundaryBefore(log, i, low) /\ BoundaryBefore(log, i, low) > low
        BY <1>3, <2>6
    <2> QED BY <1>2, <1>4, <2>6, <2>7
<1> QED BY <1>5, <1>6

-----------------------------------------------------------------------------
(* The writer w = [segs, buf, open] and the operations on it.                  *)

(* What fsync covered is in the file.                                          *)
Synced(ss) == \A i \in DOMAIN ss : ss[i].synced <= Len(ss[i].recs)

Good(w) ==
    /\ w \in [segs : Seq(Segment), buf : Seq(Entry), open : BOOLEAN]
    /\ Synced(w.segs)
    /\ \A e \in All(w) : e.want = 0
    /\ Ordered(w.segs) /\ Ascending(w.buf) /\ Below(OnFile(w.segs), ToSet(w.buf))
    /\ Top(OnFile(w.segs)) /\ Top(All(w))
    /\ w.open => w.segs # <<>>
    /\ ~w.open => w.buf = <<>>

SameRecs(ss, tt) == DOMAIN ss = DOMAIN tt /\ \A i \in DOMAIN ss : ss[i].recs = tt[i].recs

LEMMA SameFiles ==
    ASSUME NEW ss, NEW tt, SameRecs(ss, tt)
    PROVE  OnFile(ss) = OnFile(tt) /\ (Ordered(ss) => Ordered(tt))
<1>1. OnFile(ss) = OnFile(tt)
    BY DEF OnFile, SameRecs
<1>2. Ordered(ss) => Ordered(tt)
    BY DEF Ordered, SameRecs
<1> QED BY <1>1, <1>2

LEMMA EmptySet == ToSet(<<>>) = {}
BY DEF ToSet

LEMMA EmptyBuffer ==
    ASSUME NEW w, w.buf = <<>>
    PROVE  All(w) = OnFile(w.segs)
BY EmptySet DEF All

LEMMA FilesTyped ==
    ASSUME NEW ss \in Seq(Segment)
    PROVE  /\ OnFile(ss) \subseteq Entry
           /\ Len(ss) \in Nat /\ DOMAIN ss = 1..Len(ss)
           /\ \A i \in DOMAIN ss : ss[i] \in Segment /\ ss[i].recs \in Seq(Entry) /\ ToSet(ss[i].recs) \subseteq OnFile(ss)
<1>1. Len(ss) \in Nat /\ DOMAIN ss = 1..Len(ss) /\ \A i \in DOMAIN ss : ss[i] \in Segment
    OBVIOUS
<1>2. \A i \in DOMAIN ss : ss[i].recs \in Seq(Entry)
    BY <1>1 DEF Segment
<1>3. \A i \in DOMAIN ss : ToSet(ss[i].recs) \subseteq Entry
    BY <1>2 DEF ToSet
<1> QED BY <1>1, <1>2, <1>3 DEF OnFile

LEMMA AllTyped ==
    ASSUME NEW w, Good(w)
    PROVE  /\ w.segs \in Seq(Segment) /\ w.buf \in Seq(Entry) /\ w.open \in BOOLEAN
           /\ All(w) \subseteq Entry /\ OnFile(w.segs) \subseteq All(w)
<1>1. w.segs \in Seq(Segment) /\ w.buf \in Seq(Entry) /\ w.open \in BOOLEAN
    BY DEF Good
<1>2. ToSet(w.buf) \subseteq Entry
    BY <1>1 DEF ToSet
<1> QED BY <1>1, <1>2, FilesTyped DEF All

(* The records fsync covered.                                                  *)
LEMMA HardOf ==
    ASSUME NEW s \in Segment, s.synced <= Len(s.recs)
    PROVE  Hard(s) \subseteq ToSet(s.recs)
<1>1. s.recs \in Seq(Entry) /\ Len(s.recs) \in Nat /\ DOMAIN s.recs = 1..Len(s.recs) /\ s.synced \in Nat
    BY DEF Segment
<1>2. \A k \in 1..s.synced : k \in DOMAIN s.recs
    BY <1>1
<1> QED BY <1>2 DEF Hard, ToSet

LEMMA DurableIn ==
    ASSUME NEW ss \in Seq(Segment), Synced(ss)
    PROVE  Durable(ss) \subseteq OnFile(ss) /\ Safe(ss) \subseteq OnFile(ss) /\ Durable(ss) \subseteq Safe(ss)
<1>1. \A i \in DOMAIN ss : Hard(ss[i]) \subseteq ToSet(ss[i].recs)
    BY HardOf, FilesTyped DEF Synced
<1> QED BY <1>1 DEF Durable, OnFile, Safe

(* Files whose synced parts only grow.                                         *)
LEMMA DurableGrows ==
    ASSUME NEW ss, NEW tt, \A i \in DOMAIN ss : i \in DOMAIN tt /\ Hard(ss[i]) \subseteq Hard(tt[i])
    PROVE  Durable(ss) \subseteq Durable(tt)
BY DEF Durable

LEMMA HardGrows ==
    ASSUME NEW s \in Segment, NEW t \in Segment, s.synced <= t.synced,
           \A k \in 1..s.synced : t.recs[k] = s.recs[k]
    PROVE  Hard(s) \subseteq Hard(t)
<1>1. s.synced \in Nat /\ t.synced \in Nat
    BY DEF Segment
<1>2. \A k \in 1..s.synced : k \in 1..t.synced
    BY <1>1
<1> QED BY <1>2 DEF Hard

LEMMA SafeGrows ==
    ASSUME NEW ss, NEW tt, OnFile(ss) \subseteq OnFile(tt), Durable(ss) \subseteq Durable(tt)
    PROVE  Safe(ss) \subseteq Safe(tt)
BY DEF Safe

(* A segment more.                                                             *)
LEMMA MoreFiles ==
    ASSUME NEW ss \in Seq(Segment), NEW s \in Segment, Ordered(ss), Ascending(s.recs), Below(OnFile(ss), ToSet(s.recs))
    PROVE  /\ Append(ss, s) \in Seq(Segment) /\ Ordered(Append(ss, s))
           /\ OnFile(Append(ss, s)) = OnFile(ss) \cup ToSet(s.recs)
           /\ Synced(ss) /\ s.synced <= Len(s.recs) => Synced(Append(ss, s))
           /\ Durable(Append(ss, s)) = Durable(ss) \cup Hard(s)
<1> DEFINE tt == Append(ss, s)
<1>1. PICK n \in Nat : n = Len(ss) /\ DOMAIN ss = 1..n
    OBVIOUS
<1>2. tt \in Seq(Segment) /\ DOMAIN tt = 1..(n + 1) /\ tt[n + 1] = s /\ \A i \in 1..n : tt[i] = ss[i]
    BY <1>1
<1> HIDE DEF tt
<1>3. \A i \in 1..(n + 1) : i \in 1..n \/ i = n + 1
    OBVIOUS
<1>4. \A i \in 1..n : i \in 1..(n + 1) /\ i < n + 1
    OBVIOUS
<1>5. OnFile(tt) = OnFile(ss) \cup ToSet(s.recs)
    <2>1. \A i \in 1..n : ToSet(tt[i].recs) = ToSet(ss[i].recs)
        BY <1>2
    <2>2. n + 1 \in 1..(n + 1) /\ ToSet(tt[n + 1].recs) = ToSet(s.recs)
        BY <1>2
    <2>3. OnFile(tt) = UNION {ToSet(tt[i].recs) : i \in 1..(n + 1)} /\ OnFile(ss) = UNION {ToSet(ss[i].recs) : i \in 1..n}
        BY <1>1, <1>2 DEF OnFile
    <2> QED BY <1>3, <1>4, <2>1, <2>2, <2>3
<1>6. Ordered(tt)
    <2>1. \A i \in DOMAIN tt : Ascending(tt[i].recs)
        BY <1>1, <1>2, <1>3 DEF Ordered
    <2>2. ASSUME NEW i \in 1..(n + 1), NEW j \in 1..(n + 1), i < j PROVE Below(ToSet(tt[i].recs), ToSet(tt[j].recs))
        <3>1. i \in 1..n
            BY <2>2
        <3>2. CASE j \in 1..n
            BY <1>1, <1>2, <2>2, <3>1, <3>2 DEF Ordered
        <3>3. CASE j = n + 1
            <4>1. ToSet(tt[i].recs) \subseteq OnFile(ss)
                BY <1>1, <1>2, <3>1, FilesTyped
            <4> QED BY <1>2, <3>3, <4>1 DEF Below
        <3> QED BY <1>3, <3>2, <3>3
    <2> QED BY <1>2, <2>1, <2>2 DEF Ordered
<1>7. Synced(ss) /\ s.synced <= Len(s.recs) => Synced(tt)
    BY <1>1, <1>2, <1>3 DEF Synced
<1>8. Durable(tt) = Durable(ss) \cup Hard(s)
    <2>1. \A i \in 1..n : Hard(tt[i]) = Hard(ss[i])
        BY <1>2
    <2>2. n + 1 \in 1..(n + 1) /\ Hard(tt[n + 1]) = Hard(s)
        BY <1>2
    <2>3. Durable(tt) = UNION {Hard(tt[i]) : i \in 1..(n + 1)} /\ Durable(ss) = UNION {Hard(ss[i]) : i \in 1..n}
        BY <1>1, <1>2 DEF Durable
    <2> QED BY <1>3, <1>4, <2>1, <2>2, <2>3
<1> QED BY <1>2, <1>5, <1>6, <1>7, <1>8 DEF tt

LEMMA WithRecords ==
    ASSUME NEW s \in Segment, NEW rs \in Seq(Entry)
    PROVE  [s EXCEPT !.recs = rs] \in Segment /\ [s EXCEPT !.recs = rs].recs = rs
BY DEF Segment

(* More records in the last segment.                                           *)
LEMMA MoreRecords ==
    ASSUME NEW ss \in Seq(Segment), ss # <<>>, NEW es \in Seq(Entry),
           Ordered(ss), Ascending(es), Below(OnFile(ss), ToSet(es)),
           NEW tt \in Seq(Segment), Len(tt) = Len(ss), tt[Len(ss)].recs = ss[Len(ss)].recs \o es,
           \A i \in 1..Len(ss) : i # Len(ss) => tt[i] = ss[i]
    PROVE  Ordered(tt) /\ OnFile(tt) = OnFile(ss) \cup ToSet(es)
<1>1. PICK n \in Nat : n = Len(ss) /\ n # 0 /\ DOMAIN ss = 1..n
    OBVIOUS
<1>2. n \in 1..n /\ ss[n] \in Segment /\ ss[n].recs \in Seq(Entry) /\ ToSet(ss[n].recs) \subseteq OnFile(ss)
    BY <1>1, FilesTyped
<1>3. PICK rs \in Seq(Entry) : rs = ss[n].recs \o es /\ ToSet(rs) = ToSet(ss[n].recs) \cup ToSet(es)
    <2>1. ss[n].recs \o es \in Seq(Entry) /\ ToSet(ss[n].recs \o es) = ToSet(ss[n].recs) \cup ToSet(es)
        BY <1>2, JoinedSeq
    <2> QED BY <2>1
<1>4. Ascending(rs)
    <2>1. Below(ToSet(ss[n].recs), ToSet(es)) /\ Ascending(ss[n].recs)
        BY <1>1, <1>2 DEF Below, Ordered
    <2> QED BY <1>2, <1>3, <2>1, AscendingJoined
<1>5. DOMAIN tt = 1..n /\ tt[n].recs = rs /\ \A i \in 1..n : i # n => tt[i] = ss[i]
    BY <1>1, <1>3
<1>6. OnFile(tt) = OnFile(ss) \cup ToSet(es)
    <2>1. OnFile(tt) = UNION {ToSet(tt[i].recs) : i \in 1..n} /\ OnFile(ss) = UNION {ToSet(ss[i].recs) : i \in 1..n}
        BY <1>1, <1>5 DEF OnFile
    <2>2. ToSet(tt[n].recs) = ToSet(ss[n].recs) \cup ToSet(es) /\ \A i \in 1..n : i # n => ToSet(tt[i].recs) = ToSet(ss[i].recs)
        BY <1>3, <1>5
    <2> QED BY <1>2, <2>1, <2>2
<1>7. Ordered(tt)
    <2>1. ASSUME NEW i \in 1..n, NEW j \in 1..n, i < j PROVE Below(ToSet(tt[i].recs), ToSet(tt[j].recs))
        <3>0. i # n /\ i \in DOMAIN ss
            BY <1>1, <2>1
        <3>1. i # n /\ tt[i] = ss[i] /\ ToSet(ss[i].recs) \subseteq OnFile(ss)
            BY <1>5, <3>0, FilesTyped
        <3>2. Below(ToSet(ss[i].recs), ToSet(ss[j].recs))
            BY <1>1, <2>1 DEF Ordered
        <3>3. CASE j = n
            BY <1>3, <1>5, <3>1, <3>2, <3>3 DEF Below
        <3>4. CASE j # n
            BY <1>5, <3>1, <3>2, <3>4
        <3> QED BY <3>3, <3>4
    <2>2. \A i \in 1..n : Ascending(tt[i].recs)
        BY <1>1, <1>4, <1>5 DEF Ordered
    <2> QED BY <1>5, <2>1, <2>2 DEF Ordered
<1> QED BY <1>1, <1>3, <1>5, <1>6, <1>7

Writers == [segs : Seq(Segment), buf : Seq(Entry), open : BOOLEAN]

LEMMA ReplacedSeq ==
    ASSUME NEW X, NEW s \in Seq(X), NEW i \in 1..Len(s), NEW x \in X
    PROVE  LET t == [s EXCEPT ![i] = x]
           IN  /\ t \in Seq(X) /\ DOMAIN t = 1..Len(s) /\ Len(t) = Len(s)
               /\ t[i] = x /\ \A j \in 1..Len(s) : j # i => t[j] = s[j]
OBVIOUS

LEMMA LastOfOpen ==
    ASSUME NEW w, Good(w), w.segs # <<>>
    PROVE  /\ w \in Writers /\ w.segs \in Seq(Segment) /\ Len(w.segs) \in 1..Len(w.segs) /\ DOMAIN w.segs = 1..Len(w.segs)
           /\ w.segs[Len(w.segs)] \in Segment /\ w.segs[Len(w.segs)].recs \in Seq(Entry) /\ w.buf \in Seq(Entry)
<1>1. w \in Writers /\ w.segs \in Seq(Segment) /\ w.buf \in Seq(Entry)
    BY DEF Good, Writers
<1>2. PICK ss \in Seq(Segment) : ss = w.segs
    BY <1>1
<1>3. Len(ss) \in 1..Len(ss) /\ DOMAIN ss = 1..Len(ss)
    BY <1>2
<1> QED BY <1>1, <1>2, <1>3, FilesTyped

LEMMA OsFlushIs ==
    ASSUME NEW w, Good(w), w.open
    PROVE  LET n == Len(w.segs)
               f == OsFlush(w)
           IN  /\ f \in Writers /\ f.buf = <<>> /\ f.open = TRUE
               /\ f.segs \in Seq(Segment) /\ Len(f.segs) = n
               /\ f.segs[n].recs = w.segs[n].recs \o w.buf /\ f.segs[n].synced = w.segs[n].synced
               /\ \A i \in 1..n : i # n => f.segs[i] = w.segs[i]
<1> DEFINE n == Len(w.segs)
           f == OsFlush(w)
           s == [w.segs[n] EXCEPT !.recs = w.segs[n].recs \o w.buf]
           tt == [w.segs EXCEPT ![n] = s]
<1>1. /\ w \in Writers /\ w.segs \in Seq(Segment) /\ n \in 1..n /\ w.segs[n] \in Segment
      /\ w.segs[n].recs \in Seq(Entry) /\ w.buf \in Seq(Entry) /\ DOMAIN w.segs = 1..n
    BY LastOfOpen DEF Good
<1>2. w.segs[n].recs \o w.buf \in Seq(Entry)
    BY <1>1, JoinedSeq
<1>3. s \in Segment /\ s.recs = w.segs[n].recs \o w.buf /\ s.synced = w.segs[n].synced
    BY <1>1, <1>2 DEF Segment
<1>4. f = [w EXCEPT !.segs = tt, !.buf = <<>>]
    BY <1>1 DEF OsFlush, Writers
<1>5. f.buf = <<>> /\ f.open = TRUE /\ f.segs = tt /\ f = [segs |-> tt, buf |-> <<>>, open |-> w.open]
    <2> HIDE DEF tt
    <2> QED BY <1>1, <1>4 DEF Writers
<1>6. /\ tt \in Seq(Segment) /\ Len(tt) = n /\ tt[n] = s
      /\ \A i \in 1..n : i # n => tt[i] = w.segs[i]
    <2> HIDE DEF s
    <2> QED BY <1>1, <1>3, ReplacedSeq
<1>7. f \in Writers
    <2> HIDE DEF tt, f
    <2>1. <<>> \in Seq(Entry) /\ w.open \in BOOLEAN
        BY <1>1 DEF Writers
    <2> QED BY <1>5, <1>6, <2>1 DEF Writers
<1> QED BY <1>3, <1>5, <1>6, <1>7

(* What of the log an operation keeps: nothing is lost, what was in the files  *)
(* stays there.                                                                *)
Keeps(w, f) ==
    /\ Good(f) /\ All(f) = All(w)
    /\ OnFile(f.segs) = OnFile(w.segs) \/ (OnFile(f.segs) = All(w) /\ f.buf = <<>>)
    /\ f.buf = w.buf \/ f.buf = <<>>
    /\ Durable(w.segs) \subseteq Durable(f.segs)

LEMMA OsFlushKeeps ==
    ASSUME NEW w, Good(w)
    PROVE  LET f == OsFlush(w)
           IN  /\ Keeps(w, f) /\ OnFile(f.segs) = All(w) /\ f.buf = <<>> /\ f.open = w.open
               /\ Len(f.segs) = Len(w.segs)
<1> DEFINE f == OsFlush(w)
<1>0. w.open \in BOOLEAN
    BY AllTyped
<1>1. CASE ~w.open
    <2>1. f = w /\ w.buf = <<>>
        BY <1>1 DEF OsFlush, Good
    <2>2. All(w) = OnFile(w.segs)
        BY <2>1, EmptyBuffer
    <2> QED BY <2>1, <2>2 DEF Keeps
<1>2. CASE w.open
    <2> DEFINE n == Len(w.segs)
    <2>1. /\ f \in Writers /\ f.buf = <<>> /\ f.open = TRUE
          /\ f.segs \in Seq(Segment) /\ Len(f.segs) = n
          /\ f.segs[n].recs = w.segs[n].recs \o w.buf /\ f.segs[n].synced = w.segs[n].synced
          /\ \A i \in 1..n : i # n => f.segs[i] = w.segs[i]
        BY <1>2, OsFlushIs
    <2>2. w.segs # <<>> /\ Ordered(w.segs) /\ Ascending(w.buf) /\ Below(OnFile(w.segs), ToSet(w.buf))
        BY <1>2 DEF Good
    <2>3. w.segs \in Seq(Segment) /\ w.buf \in Seq(Entry) /\ n \in 1..n /\ w.segs[n].recs \in Seq(Entry)
        BY <2>2, LastOfOpen
    <2> HIDE DEF f
    <2>4. Ordered(f.segs) /\ OnFile(f.segs) = OnFile(w.segs) \cup ToSet(w.buf)
        BY <2>1, <2>2, <2>3, MoreRecords
    <2>5. OnFile(f.segs) = All(w) /\ All(f) = All(w)
        BY <2>1, <2>4, EmptyBuffer DEF All
    <2>6. \A i \in 1..n : i # n => f.segs[i] \in Segment /\ f.segs[i] = w.segs[i] /\ Hard(f.segs[i]) = Hard(w.segs[i])
        BY <2>1, <2>3, FilesTyped
    <2>7. f.segs[n] \in Segment /\ w.segs[n] \in Segment /\ DOMAIN f.segs = 1..n /\ DOMAIN w.segs = 1..n
        BY <2>1, <2>3
    <2>8. Hard(w.segs[n]) \subseteq Hard(f.segs[n]) /\ f.segs[n].synced <= Len(f.segs[n].recs)
        <3>1. PICK s \in Segment, t \in Segment : s = w.segs[n] /\ t = f.segs[n]
            BY <2>7
        <3>2. PICK bs \in Seq(Entry) : bs = w.buf
            BY <2>3
        <3>3. s.recs \in Seq(Entry) /\ t.recs \in Seq(Entry) /\ s.synced \in Nat
            BY DEF Segment
        <3>4. t.recs = s.recs \o bs /\ t.synced = s.synced
            BY <2>1, <3>1, <3>2
        <3>5. s.synced <= Len(s.recs)
            <4>1. Synced(w.segs)
                BY DEF Good
            <4> QED BY <2>3, <2>7, <3>1, <4>1 DEF Synced
        <3>6. /\ Len(t.recs) = Len(s.recs) + Len(bs) /\ Len(s.recs) \in Nat /\ Len(bs) \in Nat
              /\ \A k \in 1..Len(s.recs) : t.recs[k] = s.recs[k]
            BY <3>3, <3>4, JoinedSeq
        <3>7. \A k \in 1..s.synced : k \in 1..Len(s.recs)
            BY <3>3, <3>5, <3>6
        <3>8. s.synced <= t.synced /\ \A k \in 1..s.synced : t.recs[k] = s.recs[k]
            BY <3>3, <3>4, <3>6, <3>7
        <3>9. Hard(s) \subseteq Hard(t)
            BY <3>8, HardGrows
        <3>10. t.synced <= Len(t.recs)
            BY <3>3, <3>4, <3>5, <3>6
        <3> QED BY <3>1, <3>9, <3>10
    <2>10. Durable(w.segs) \subseteq Durable(f.segs)
        BY <2>6, <2>7, <2>8, DurableGrows
    <2>11. Good(f)
        <3>1. Ascending(f.buf) /\ Below(OnFile(f.segs), ToSet(f.buf))
            BY <2>1, EmptySet DEF Ascending, Below
        <3>2. f.segs # <<>>
            BY <2>1, <2>3
        <3>3. (\A e \in All(f) : e.want = 0) /\ Top(All(f)) /\ Top(OnFile(f.segs))
            BY <2>5 DEF Good
        <3>4. Synced(f.segs)
            BY <2>1, <2>6, <2>7, <2>8 DEF Good, Synced
        <3> QED BY <2>1, <2>4, <3>1, <3>2, <3>3, <3>4 DEF Good, Writers
    <2>12. Keeps(w, f)
        BY <2>1, <2>5, <2>10, <2>11 DEF Keeps
    <2> QED BY <1>2, <2>1, <2>5, <2>12 DEF f
<1> QED BY <1>0, <1>1, <1>2

(* A writer with the same records in its files.                                *)
LEMMA SameWriter ==
    ASSUME NEW w, NEW v \in Writers, Good(w), SameRecs(w.segs, v.segs), Synced(v.segs), v.buf = w.buf,
           v.open => v.segs # <<>>, ~v.open => v.buf = <<>>
    PROVE  Good(v) /\ All(v) = All(w) /\ OnFile(v.segs) = OnFile(w.segs)
<1>1. OnFile(v.segs) = OnFile(w.segs) /\ (Ordered(w.segs) => Ordered(v.segs))
    BY SameFiles
<1>2. All(v) = All(w)
    BY <1>1 DEF All
<1> QED BY <1>1, <1>2 DEF Good, Writers

LEMMA FlushSegmentKeeps ==
    ASSUME NEW w, Good(w), w.open
    PROVE  LET f == FlushSegment(w)
           IN  /\ Keeps(w, f) /\ OnFile(f.segs) = All(w) /\ f.buf = <<>> /\ f.open = TRUE
               /\ Len(f.segs) = Len(w.segs)
               /\ Hard(f.segs[Len(w.segs)]) = ToSet(f.segs[Len(w.segs)].recs)
<1> DEFINE o == OsFlush(w)
           f == FlushSegment(w)
           n == Len(w.segs)
           s == [o.segs[n] EXCEPT !.synced = Len(o.segs[n].recs)]
           tt == [o.segs EXCEPT ![n] = s]
<1>1. /\ Good(o) /\ All(o) = All(w) /\ OnFile(o.segs) = All(w) /\ o.buf = <<>> /\ o.open = TRUE /\ Len(o.segs) = n
      /\ o \in Writers /\ o.segs \in Seq(Segment) /\ Durable(w.segs) \subseteq Durable(o.segs) /\ Synced(o.segs)
      /\ \A i \in 1..n : i # n => o.segs[i] = w.segs[i]
    BY OsFlushKeeps, OsFlushIs DEF Keeps, Good
<1>2. o.segs # <<>> /\ w.segs # <<>>
    BY <1>1 DEF Good
<1>3. n \in 1..n /\ DOMAIN o.segs = 1..n /\ DOMAIN w.segs = 1..n /\ o.segs[n] \in Segment /\ o.segs[n].recs \in Seq(Entry)
    BY <1>1, <1>2, LastOfOpen
<1>4. s \in Segment /\ s.recs = o.segs[n].recs /\ s.synced = Len(o.segs[n].recs)
    <2>1. Len(o.segs[n].recs) \in Nat
        BY <1>3
    <2> QED BY <1>3, <2>1 DEF Segment
<1>5. f = [o EXCEPT !.segs = tt]
    BY <1>1, <1>3 DEF FlushSegment, Writers
<1>6. f.buf = <<>> /\ f.open = TRUE /\ f.segs = tt /\ f = [segs |-> tt, buf |-> <<>>, open |-> TRUE]
    <2> HIDE DEF tt, o
    <2> QED BY <1>1, <1>5 DEF Writers
<1>7. /\ tt \in Seq(Segment) /\ Len(tt) = n /\ DOMAIN tt = 1..n /\ tt[n] = s
      /\ \A i \in 1..n : i # n => tt[i] = o.segs[i]
    <2> HIDE DEF s, o
    <2> QED BY <1>1, <1>3, <1>4, ReplacedSeq
<1> HIDE DEF o, tt, s, f
<1>8. f \in Writers
    <2>1. <<>> \in Seq(Entry)
        OBVIOUS
    <2> QED BY <1>6, <1>7, <2>1 DEF Writers
<1>9. SameRecs(o.segs, f.segs)
    BY <1>3, <1>4, <1>6, <1>7 DEF SameRecs
<1>10. Synced(f.segs)
    <2>1. \A i \in 1..n : i # n => tt[i].synced <= Len(tt[i].recs)
        BY <1>1, <1>3, <1>7 DEF Synced
    <2>2. tt[n].synced <= Len(tt[n].recs)
        <3>1. Len(o.segs[n].recs) \in Nat
            BY <1>3
        <3> QED BY <1>4, <1>7, <3>1
    <2> QED BY <1>6, <1>7, <2>1, <2>2 DEF Synced
<1>11. Good(f) /\ All(f) = All(w) /\ OnFile(f.segs) = All(w)
    <2>1. f.segs # <<>>
        BY <1>3, <1>6, <1>7
    <2> QED BY <1>1, <1>6, <1>8, <1>9, <1>10, <2>1, SameWriter
<1>12. Durable(w.segs) \subseteq Durable(f.segs)
    <2>1. Hard(o.segs[n]) \subseteq Hard(s)
        <3>1. o.segs[n].synced <= Len(o.segs[n].recs)
            BY <1>1, <1>3 DEF Synced
        <3> QED BY <1>3, <1>4, <3>1, HardGrows
    <2>2. \A i \in 1..n : Hard(o.segs[i]) \subseteq Hard(tt[i])
        BY <1>7, <2>1
    <2>3. Durable(o.segs) \subseteq Durable(tt)
        BY <1>3, <1>7, <2>2, DurableGrows
    <2> QED BY <1>1, <1>6, <2>3
<1>13. Hard(f.segs[n]) = ToSet(f.segs[n].recs)
    <2>1. DOMAIN o.segs[n].recs = 1..Len(o.segs[n].recs)
        BY <1>3
    <2> QED BY <1>4, <1>6, <1>7, <2>1 DEF Hard, ToSet
<1>14. Keeps(w, f)
    BY <1>6, <1>11, <1>12 DEF Keeps
<1> QED BY <1>6, <1>7, <1>11, <1>13, <1>14 DEF f

LEMMA CreateKeeps ==
    ASSUME NEW w, Good(w), ~w.open
    PROVE  LET f == CreateNewSegment(w)
           IN  Keeps(w, f) /\ f.open = TRUE
<1> DEFINE s == [hdr |-> TRUE, recs |-> <<>>, synced |-> 0]
           f == CreateNewSegment(w)
           tt == Append(w.segs, s)
<1>1. s \in Segment /\ s.recs = <<>> /\ s.synced <= Len(s.recs) /\ ToSet(s.recs) = {}
    <2>1. <<>> \in Seq(Entry)
        OBVIOUS
    <2> QED BY <2>1, EmptySet DEF Segment
<1>2. w \in Writers /\ w.segs \in Seq(Segment) /\ Ordered(w.segs) /\ Synced(w.segs) /\ w.buf = <<>>
    BY DEF Good, Writers
<1>3. /\ tt \in Seq(Segment) /\ Ordered(tt) /\ OnFile(tt) = OnFile(w.segs)
      /\ Synced(tt) /\ Durable(w.segs) \subseteq Durable(tt)
    <2> HIDE DEF s
    <2>1. Ascending(s.recs) /\ Below(OnFile(w.segs), ToSet(s.recs))
        BY <1>1 DEF Ascending, Below
    <2> QED BY <1>1, <1>2, <2>1, MoreFiles
<1>4. tt # <<>>
    <2> HIDE DEF s
    <2>1. Len(w.segs) \in Nat /\ Len(tt) = Len(w.segs) + 1
        BY <1>1, <1>2
    <2> HIDE DEF tt
    <2> QED BY <2>1
<1>5. f.segs = tt /\ f.buf = <<>> /\ f.open = TRUE /\ f \in Writers
    <2>1. f = [w EXCEPT !.segs = tt, !.open = TRUE]
        BY <1>2 DEF CreateNewSegment, Writers
    <2> HIDE DEF tt, f
    <2> QED BY <1>2, <1>3, <2>1 DEF Writers
<1> HIDE DEF f, tt
<1>6. All(f) = All(w)
    BY <1>2, <1>3, <1>5 DEF All
<1>7. Good(f)
    BY <1>2, <1>3, <1>4, <1>5, <1>6 DEF Good, Writers
<1>8. Keeps(w, f)
    BY <1>2, <1>3, <1>5, <1>6, <1>7 DEF Keeps
<1> QED BY <1>5, <1>8 DEF f

LEMMA CloseKeeps ==
    ASSUME NEW w, Good(w)
    PROVE  LET f == CloseSegment(w)
           IN  Keeps(w, f) /\ f.open = FALSE /\ f.buf = <<>> /\ OnFile(f.segs) = All(w)
<1> DEFINE o == OsFlush(w)
           f == CloseSegment(w)
<1>1. Keeps(w, o) /\ OnFile(o.segs) = All(w) /\ o.buf = <<>> /\ Good(o) /\ All(o) = All(w) /\ o \in Writers
    BY OsFlushKeeps DEF Keeps, Good, Writers
<1>2. f = [o EXCEPT !.open = FALSE]
    BY DEF CloseSegment
<1> HIDE DEF o, f
<1>3. f.segs = o.segs /\ f.buf = <<>> /\ f.open = FALSE /\ f \in Writers
    BY <1>1, <1>2 DEF Writers
<1>4. SameRecs(o.segs, f.segs)
    BY <1>3 DEF SameRecs
<1>5. Good(f) /\ All(f) = All(w) /\ OnFile(f.segs) = All(w)
    <2>1. Synced(f.segs)
        BY <1>1, <1>3 DEF Good
    <2> QED BY <1>1, <1>3, <1>4, <2>1, SameWriter
<1>6. Keeps(w, f)
    BY <1>1, <1>3, <1>5 DEF Keeps
<1> QED BY <1>3, <1>5, <1>6 DEF f

LEMMA KeepsTwice ==
    ASSUME NEW w, NEW v, NEW f, Keeps(w, v), Keeps(v, f)
    PROVE  Keeps(w, f)
BY DEF Keeps

LEMMA SameKeeps ==
    ASSUME NEW w, NEW v, Good(v), v.segs = w.segs, v.buf = w.buf
    PROVE  Keeps(w, v)
<1>1. All(v) = All(w)
    BY DEF All
<1> QED BY <1>1 DEF Keeps

LEMMA EnsureKeeps ==
    ASSUME NEW w, Good(w), NEW extra
    PROVE  LET f == EnsureSegment(w, extra)
           IN  Keeps(w, f) /\ f.open = TRUE
<1> DEFINE r == IF w.open THEN w ELSE ResumeOrCreate(w)
<1>0. w.open \in BOOLEAN /\ w \in Writers
    BY DEF Good, Writers
<1>1. Keeps(w, r) /\ r.open = TRUE
    <2>1. CASE w.open
        <3>1. r = w /\ w.open = TRUE
            BY <1>0, <2>1
        <3> HIDE DEF r
        <3> QED BY <3>1, SameKeeps
    <2>2. CASE ~w.open /\ w.segs # <<>> /\ SizeOf(Last(w.segs).recs) < RollSize
        <3> DEFINE v == [w EXCEPT !.open = TRUE]
        <3>1. v \in Writers /\ v.segs = w.segs /\ v.buf = w.buf /\ v.open = TRUE
            BY <1>0 DEF Writers
        <3>2. r = v
            BY <2>2 DEF ResumeOrCreate
        <3> HIDE DEF v
        <3>3. Good(v)
            BY <2>2, <3>1, SameWriter DEF SameRecs, Good
        <3> HIDE DEF r
        <3> QED BY <3>1, <3>2, <3>3, SameKeeps
    <2>3. CASE ~w.open /\ ~(w.segs # <<>> /\ SizeOf(Last(w.segs).recs) < RollSize)
        <3>1. r = CreateNewSegment(w)
            BY <2>3 DEF ResumeOrCreate
        <3> QED BY <2>3, <3>1, CreateKeeps
    <2> QED BY <2>1, <2>2, <2>3
<1>2. EnsureSegment(w, extra) = IF MustRoll(r, extra) THEN CreateNewSegment(CloseSegment(r)) ELSE r
    BY DEF EnsureSegment
<1> HIDE DEF r
<1>3. CASE MustRoll(r, extra)
    <2>1. Good(r)
        BY <1>1 DEF Keeps
    <2>2. Keeps(r, CloseSegment(r)) /\ ~CloseSegment(r).open /\ Good(CloseSegment(r))
        BY <2>1, CloseKeeps DEF Keeps
    <2>3. Keeps(CloseSegment(r), CreateNewSegment(CloseSegment(r))) /\ CreateNewSegment(CloseSegment(r)).open = TRUE
        BY <2>2, CreateKeeps
    <2> QED BY <1>1, <1>2, <1>3, <2>2, <2>3, KeepsTwice
<1>4. CASE ~MustRoll(r, extra)
    BY <1>1, <1>2, <1>4
<1> QED BY <1>3, <1>4

(* The records of the open segment, written or not.                            *)
Ending(w) == ToSet(w.segs[Len(w.segs)].recs) \cup ToSet(w.buf)

LEMMA OsFlushEnding ==
    ASSUME NEW w, Good(w), w.open
    PROVE  Ending(OsFlush(w)) = Ending(w)
<1> DEFINE o == OsFlush(w)
           n == Len(w.segs)
<1>1. Len(o.segs) = n /\ o.segs[n].recs = w.segs[n].recs \o w.buf /\ o.buf = <<>>
    BY OsFlushIs
<1>2. w.segs # <<>>
    BY DEF Good
<1>3. w.segs[n].recs \in Seq(Entry) /\ w.buf \in Seq(Entry)
    BY <1>2, LastOfOpen
<1>4. ToSet(w.segs[n].recs \o w.buf) = ToSet(w.segs[n].recs) \cup ToSet(w.buf)
    BY <1>3, JoinedSeq
<1> QED BY <1>1, <1>4, EmptySet DEF Ending

LEMMA FlushEnding ==
    ASSUME NEW w, Good(w), w.open
    PROVE  Ending(FlushSegment(w)) = Ending(w) /\ Ending(w) \subseteq Durable(FlushSegment(w).segs)
<1> DEFINE o == OsFlush(w)
           n == Len(w.segs)
           f == FlushSegment(w)
<1>1. /\ o \in Writers /\ o.segs \in Seq(Segment) /\ Len(o.segs) = n
      /\ o.segs[n].recs = w.segs[n].recs \o w.buf
    BY OsFlushIs
<1>2. w.segs # <<>>
    BY DEF Good
<1>3. n \in 1..n /\ w.segs[n].recs \in Seq(Entry) /\ w.buf \in Seq(Entry)
    BY <1>2, LastOfOpen
<1>4. ToSet(o.segs[n].recs) = Ending(w)
    <2>1. ToSet(w.segs[n].recs \o w.buf) = ToSet(w.segs[n].recs) \cup ToSet(w.buf)
        BY <1>3, JoinedSeq
    <2> QED BY <1>1, <2>1 DEF Ending
<1>5. f.segs[n].recs = o.segs[n].recs /\ Len(f.segs) = n /\ f.buf = <<>>
    <2> DEFINE s == [o.segs[n] EXCEPT !.synced = Len(o.segs[n].recs)]
               tt == [o.segs EXCEPT ![n] = s]
    <2>1. f = [o EXCEPT !.segs = tt]
        BY <1>1, <1>3 DEF FlushSegment, Writers
    <2>2. f.segs = tt
        BY <1>1, <2>1 DEF Writers
    <2>3. o.segs[n] \in Segment /\ o.segs[n].recs \in Seq(Entry) /\ Len(o.segs[n].recs) \in Nat
        <3>1. DOMAIN o.segs = 1..n
            BY <1>1
        <3>2. o.segs[n] \in Segment /\ o.segs[n].recs \in Seq(Entry)
            BY <1>1, <1>3, <3>1, FilesTyped
        <3> QED BY <3>2
    <2>4. s \in Segment /\ s.recs = o.segs[n].recs
        BY <2>3 DEF Segment
    <2> HIDE DEF s
    <2>5. tt[n] = s /\ Len(tt) = n
        BY <1>1, <1>3, <2>4, ReplacedSeq
    <2>6. f.buf = <<>>
        BY FlushSegmentKeeps
    <2> QED BY <2>2, <2>4, <2>5, <2>6
<1>6. Ending(w) \subseteq Durable(f.segs)
    <2>1. Hard(f.segs[n]) = ToSet(f.segs[n].recs) /\ n \in DOMAIN f.segs
        <3>1. Good(f) /\ Hard(f.segs[n]) = ToSet(f.segs[n].recs)
            BY FlushSegmentKeeps DEF Keeps
        <3>2. f.segs \in Seq(Segment) /\ DOMAIN f.segs = 1..Len(f.segs)
            BY <3>1, AllTyped, FilesTyped
        <3> QED BY <1>3, <1>5, <3>1, <3>2
    <2>2. ToSet(f.segs[n].recs) \subseteq Durable(f.segs)
        BY <2>1 DEF Durable
    <2> QED BY <1>4, <1>5, <2>2
<1> QED BY <1>4, <1>5, <1>6, EmptySet DEF Ending

LEMMA WithBuffer ==
    ASSUME NEW e \in Writers, NEW b \in Seq(Entry)
    PROVE  LET v == [e EXCEPT !.buf = b]
           IN  v \in Writers /\ v.segs = e.segs /\ v.buf = b /\ v.open = e.open
BY DEF Writers

LEMMA AppendKeeps ==
    ASSUME NEW w, Good(w), NEW kind \in Kinds, NEW last, last = Highest(All(w))
    PROVE  LET r == Record(last + 1, kind)
               a == AppendRecord(w, last, kind)
           IN  /\ Good(a) /\ a.open = TRUE /\ r \in Entry
               /\ All(a) = All(w) \cup {r} /\ OnFile(w.segs) \subseteq OnFile(a.segs)
               /\ Durable(w.segs) \subseteq Durable(a.segs) /\ r \in Ending(a)
<1> DEFINE r == Record(last + 1, kind)
           e == EnsureSegment(w, Size[kind])
           v == [e EXCEPT !.buf = Append(@, r)]
           a == AppendRecord(w, last, kind)
<1>1. All(w) \subseteq Entry /\ Top(All(w)) /\ OnFile(w.segs) \subseteq All(w)
    BY AllTyped DEF Good
<1>2. last \in Nat /\ \A x \in All(w) : x.lsn <= last
    BY <1>1, HighestOf
<1>3. r \in Entry /\ r.lsn = last + 1 /\ r.want = 0
    BY <1>2 DEF Record, Entry
<1>4. \A x \in All(w) : x.lsn \in Nat /\ x.lsn < r.lsn
    BY <1>1, <1>2, <1>3 DEF Entry
<1>5. Keeps(w, e) /\ e.open = TRUE /\ Good(e) /\ e \in Writers /\ e.segs # <<>> /\ All(e) = All(w)
    BY EnsureKeeps DEF Keeps, Good, Writers
<1>6. /\ e.segs \in Seq(Segment) /\ e.buf \in Seq(Entry) /\ OnFile(e.segs) \subseteq All(w)
      /\ OnFile(w.segs) \subseteq OnFile(e.segs) /\ Durable(w.segs) \subseteq Durable(e.segs)
    BY <1>1, <1>5, AllTyped DEF Keeps
<1>7. a = v
    BY DEF AppendRecord
<1> HIDE DEF e, r, a
<1>8. v \in Writers /\ v.segs = e.segs /\ v.buf = Append(e.buf, r) /\ v.open = TRUE
    <2>1. Append(e.buf, r) \in Seq(Entry)
        BY <1>3, <1>6
    <2> QED BY <1>5, <2>1, WithBuffer
<1> HIDE DEF v
<1>9. Append(e.buf, r) \in Seq(Entry) /\ ToSet(v.buf) = ToSet(e.buf) \cup {r}
    BY <1>3, <1>6, <1>8, AppendedSeq
<1>10. v \in Writers /\ All(v) = All(w) \cup {r}
    BY <1>5, <1>6, <1>8, <1>9 DEF Writers, All
<1>11. ToSet(e.buf) \subseteq All(w)
    BY <1>5 DEF All
<1>12. Ascending(v.buf)
    <2>1. PICK n \in Nat : n = Len(e.buf) /\ DOMAIN e.buf = 1..n
        BY <1>6
    <2>2. DOMAIN v.buf = 1..(n + 1) /\ v.buf[n + 1] = r /\ \A i \in 1..n : v.buf[i] = e.buf[i]
        BY <1>3, <1>6, <1>8, <2>1, AppendedSeq
    <2> SUFFICES ASSUME NEW p \in 1..(n + 1), NEW q \in 1..(n + 1), p < q PROVE v.buf[p].lsn < v.buf[q].lsn
        BY <2>2 DEF Ascending
    <2>3. p \in 1..n /\ (q \in 1..n \/ q = n + 1)
        OBVIOUS
    <2>4. CASE q = n + 1
        <3>1. e.buf[p] \in ToSet(e.buf)
            BY <2>1, <2>3 DEF ToSet
        <3> QED BY <1>4, <1>11, <2>2, <2>3, <2>4, <3>1
    <2>5. CASE q \in 1..n
        <3>1. Ascending(e.buf)
            BY <1>5 DEF Good
        <3> QED BY <2>1, <2>2, <2>3, <2>5, <3>1 DEF Ascending
    <2> QED BY <2>3, <2>4, <2>5
<1>13. Good(v)
    <2>1. \A x \in All(v) : x.want = 0
        BY <1>3, <1>5, <1>10 DEF Good
    <2>2. Below(OnFile(v.segs), ToSet(v.buf))
        <3>1. Below(OnFile(e.segs), ToSet(e.buf))
            BY <1>5 DEF Good
        <3> QED BY <1>4, <1>6, <1>8, <1>9, <3>1 DEF Below
    <2>3. Top(All(v))
        <3>1. \A x \in All(v) : x.lsn <= r.lsn
            BY <1>3, <1>4, <1>10, <1>2
        <3> QED BY <1>10, <3>1 DEF Top
    <2>4. Ordered(v.segs) /\ Synced(v.segs) /\ Top(OnFile(v.segs)) /\ v.segs # <<>>
        BY <1>5, <1>8 DEF Good
    <2> QED BY <1>8, <1>10, <1>12, <2>1, <2>2, <2>3, <2>4 DEF Good, Writers
<1>14. r \in Ending(v)
    BY <1>9 DEF Ending
<1> QED BY <1>3, <1>6, <1>7, <1>8, <1>10, <1>13, <1>14 DEF a, r

(* What truncate_before(n) leaves of the files, from the first to the m-th.    *)
Trimmed(f, ss, gone, m) ==
    /\ f[m] \in Seq(Segment) /\ Ordered(f[m])
    /\ OnFile(f[m]) \subseteq UNION {ToSet(ss[i].recs) : i \in 1..m}
    /\ \A i \in 1..m : i \in gone \/ (ToSet(ss[i].recs) \subseteq OnFile(f[m]) /\ Hard(ss[i]) \subseteq Durable(f[m]))
    /\ Synced(f[m])

LEMMA TrimmedBy ==
    ASSUME NEW ss \in Seq(Segment), Ordered(ss), Synced(ss), NEW gone, NEW f, f[0] = <<>>,
           \A i \in 1..Len(ss) : f[i] = IF i \in gone THEN f[i - 1] ELSE Append(f[i - 1], ss[i])
    PROVE  \A m \in 0..Len(ss) : Trimmed(f, ss, gone, m)
<1>1. PICK n \in Nat : n = Len(ss) /\ DOMAIN ss = 1..n
    OBVIOUS
<1> DEFINE P == {m \in Nat : m <= n => Trimmed(f, ss, gone, m)}
<1>2. 0 \in P
    <2>1. <<>> \in Seq(Segment) /\ DOMAIN <<>> = {}
        OBVIOUS
    <2>2. OnFile(<<>>) = {}
        BY <2>1 DEF OnFile
    <2>3. Ordered(<<>>) /\ Synced(<<>>)
        BY <2>1 DEF Ordered, Synced
    <2>4. f[0] \in Seq(Segment) /\ OnFile(f[0]) = {} /\ Ordered(f[0]) /\ Synced(f[0]) /\ \A i \in 1..0 : FALSE
        BY <2>1, <2>2, <2>3
    <2>5. Trimmed(f, ss, gone, 0)
        BY <2>4 DEF Trimmed
    <2> QED BY <2>5
<1>3. ASSUME NEW k \in Nat, k \in P PROVE k + 1 \in P
    <2> SUFFICES ASSUME k + 1 <= n PROVE Trimmed(f, ss, gone, k + 1)
        OBVIOUS
    <2>1. PICK m \in 1..n : m = k + 1 /\ m - 1 = k
        OBVIOUS
    <2>2. Trimmed(f, ss, gone, m - 1)
        BY <1>3, <2>1
    <2>3. ss[m] \in Segment /\ ToSet(ss[m].recs) \subseteq OnFile(ss) /\ Ascending(ss[m].recs)
        BY <1>1, FilesTyped DEF Ordered
    <2>4. (\A i \in 1..m : i \in 1..(m - 1) \/ i = m) /\ m \in 1..m /\ \A i \in 1..(m - 1) : i \in 1..m /\ i \in 1..n /\ i < m
        OBVIOUS
    <2>5. f[m] = IF m \in gone THEN f[m - 1] ELSE Append(f[m - 1], ss[m])
        BY <1>1
    <2>6. CASE m \in gone
        <3>1. f[m] = f[m - 1]
            BY <2>5, <2>6
        <3>2. OnFile(f[m]) \subseteq UNION {ToSet(ss[i].recs) : i \in 1..m}
            BY <2>2, <2>4, <3>1 DEF Trimmed
        <3>3. \A i \in 1..m : i \in gone \/ (ToSet(ss[i].recs) \subseteq OnFile(f[m]) /\ Hard(ss[i]) \subseteq Durable(f[m]))
            BY <2>2, <2>4, <2>6, <3>1 DEF Trimmed
        <3> QED BY <2>1, <2>2, <3>1, <3>2, <3>3 DEF Trimmed
    <2>7. CASE m \notin gone
        <3>1. PICK e \in Seq(Segment) : e = f[m - 1] /\ f[m] = Append(e, ss[m])
            BY <2>2, <2>5, <2>7 DEF Trimmed
        <3>2. Ordered(e) /\ OnFile(e) \subseteq UNION {ToSet(ss[i].recs) : i \in 1..(m - 1)}
            BY <2>2, <3>1 DEF Trimmed
        <3>3. Below(OnFile(e), ToSet(ss[m].recs))
            <4>1. \A i \in 1..(m - 1) : Below(ToSet(ss[i].recs), ToSet(ss[m].recs))
                BY <1>1, <2>4 DEF Ordered
            <4> QED BY <3>2, <4>1 DEF Below
        <3>4. Synced(e) /\ ss[m].synced <= Len(ss[m].recs)
            BY <1>1, <2>2, <3>1 DEF Synced, Trimmed
        <3>5. /\ f[m] \in Seq(Segment) /\ Ordered(f[m]) /\ OnFile(f[m]) = OnFile(e) \cup ToSet(ss[m].recs)
              /\ Synced(f[m]) /\ Durable(f[m]) = Durable(e) \cup Hard(ss[m])
            BY <2>3, <3>1, <3>2, <3>3, <3>4, MoreFiles
        <3>6. \A i \in 1..(m - 1) : i \in gone \/ (ToSet(ss[i].recs) \subseteq OnFile(e) /\ Hard(ss[i]) \subseteq Durable(e))
            BY <2>2, <3>1 DEF Trimmed
        <3>7. OnFile(f[m]) \subseteq UNION {ToSet(ss[i].recs) : i \in 1..m}
            BY <2>4, <3>2, <3>5
        <3>8. \A i \in 1..m : i \in gone \/ (ToSet(ss[i].recs) \subseteq OnFile(f[m]) /\ Hard(ss[i]) \subseteq Durable(f[m]))
            BY <2>4, <3>5, <3>6
        <3> QED BY <2>1, <3>5, <3>7, <3>8 DEF Trimmed
    <2> QED BY <2>6, <2>7
<1> HIDE DEF P
<1>4. \A m \in 0..n : m \in P
    BY <1>2, <1>3, Induct
<1> QED BY <1>1, <1>4 DEF P

Gone(w, n) ==
    {i \in 1..Len(w.segs) :
        /\ ~(w.open /\ i = Len(w.segs))
        /\ \A j \in 1..i : ~SegRaises(w.segs[j])
        /\ SegRecords(w.segs[i]) # <<>>
        /\ Last(SegRecords(w.segs[i])).lsn <= n}

(* The recursive function of TruncateBefore.                                   *)
LEMMA TruncateIs ==
    ASSUME NEW w \in Writers, NEW n
    PROVE  \E f : /\ f[0] = <<>>
                  /\ \A i \in 1..Len(w.segs) : f[i] = IF i \in Gone(w, n) THEN f[i - 1] ELSE Append(f[i - 1], w.segs[i])
                  /\ TruncateBefore(w, n) = [w EXCEPT !.segs = f[Len(w.segs)]]
<1>0. PICK ss \in Seq(Segment) : ss = w.segs
    BY DEF Writers
<1>1. PICK m \in Nat : m = Len(w.segs) /\ DOMAIN ss = 1..m
    BY <1>0
<1> DEFINE dead(i) == /\ ~(w.open /\ i = Len(w.segs))
                      /\ \A j \in 1..i : ~SegRaises(w.segs[j])
                      /\ SegRecords(w.segs[i]) # <<>>
                      /\ Last(SegRecords(w.segs[i])).lsn <= n
           Body(f, i) == IF i = 0 THEN <<>> ELSE IF dead(i) THEN f[i - 1] ELSE Append(f[i - 1], w.segs[i])
           Fix(f) == f = [i \in 0..Len(w.segs) |-> Body(f, i)]
           h == CHOOSE f : Fix(f)
<1>2. TruncateBefore(w, n) = [w EXCEPT !.segs = h[Len(w.segs)]]
    BY DEF TruncateBefore
<1>3. \A i \in 1..m : dead(i) <=> i \in Gone(w, n)
    BY <1>1 DEF Gone
<1> HIDE DEF dead
<1> DEFINE g == [i \in 1..m |-> [t \in Seq(Segment) |-> IF dead(i) THEN t ELSE Append(t, ss[i])]]
<1>4. g \in [1..m -> [Seq(Segment) -> Seq(Segment)]]
    <2>1. ASSUME NEW i \in 1..m, NEW t \in Seq(Segment) PROVE (IF dead(i) THEN t ELSE Append(t, ss[i])) \in Seq(Segment)
        BY <1>1
    <2> QED BY <2>1
<1>5. \A i \in 1..m : \A t \in Seq(Segment) : g[i][t] = IF dead(i) THEN t ELSE Append(t, ss[i])
    OBVIOUS
<1> HIDE DEF g
<1>6. PICK f \in [0..m -> Seq(Segment)] : f[0] = <<>> /\ \A i \in 1..m : f[i] = g[i][f[i - 1]]
    <2>1. <<>> \in Seq(Segment)
        OBVIOUS
    <2>2. PICK f : Steps(f, m, Seq(Segment), <<>>, g)
        BY <1>4, <2>1, Recursion
    <2> QED BY <2>2 DEF Steps
<1>7. \A e : Body(e, 0) = <<>>
    OBVIOUS
<1>8. ASSUME NEW e, NEW i \in 1..m PROVE Body(e, i) = IF dead(i) THEN e[i - 1] ELSE Append(e[i - 1], w.segs[i])
    <2>1. i # 0
        OBVIOUS
    <2> QED BY <2>1, Zenon
<1> HIDE DEF Body
<1>9. Fix(f)
    <2>1. ASSUME NEW i \in 0..m PROVE f[i] = Body(f, i)
        <3>1. CASE i = 0
            BY <1>6, <1>7, <3>1
        <3>2. CASE i # 0
            <4>1. i \in 1..m /\ i - 1 \in 0..m /\ f[i - 1] \in Seq(Segment)
                BY <1>6, <3>2
            <4>2. f[i] = IF dead(i) THEN f[i - 1] ELSE Append(f[i - 1], ss[i])
                BY <1>5, <1>6, <4>1
            <4>3. Body(f, i) = IF dead(i) THEN f[i - 1] ELSE Append(f[i - 1], w.segs[i])
                BY <1>8, <4>1
            <4> QED BY <1>0, <4>2, <4>3
        <3> QED BY <3>1, <3>2
    <2>2. f = [i \in 0..m |-> f[i]]
        BY <1>6
    <2>3. [i \in 0..m |-> f[i]] = [i \in 0..m |-> Body(f, i)]
        BY <2>1
    <2> QED BY <1>1, <2>2, <2>3
<1>10. Fix(h)
    <2> HIDE DEF Fix
    <2> QED BY <1>9
<1> HIDE DEF h
<1>11. \A i \in 0..m : h[i] = Body(h, i)
    BY <1>1, <1>10
<1>12. h[0] = <<>>
    BY <1>7, <1>11
<1>13. \A i \in 1..m : h[i] = IF i \in Gone(w, n) THEN h[i - 1] ELSE Append(h[i - 1], w.segs[i])
    <2>1. \A i \in 1..m : i \in 0..m
        OBVIOUS
    <2> QED BY <1>3, <1>8, <1>11, <2>1
<1> QED BY <1>1, <1>2, <1>12, <1>13

(* The highest record of a log whose open segment is not empty is there.       *)
LEMMA EndingTop ==
    ASSUME NEW w, Good(w), w.segs # <<>>, Ending(w) # {}
    PROVE  \E x \in Ending(w) : \A e \in All(w) : e.lsn <= x.lsn
<1> DEFINE N == Len(w.segs)
<1>1. /\ w.segs \in Seq(Segment) /\ N \in 1..N /\ DOMAIN w.segs = 1..N /\ All(w) \subseteq Entry
      /\ ToSet(w.segs[N].recs) \subseteq OnFile(w.segs)
    BY LastOfOpen, AllTyped, FilesTyped
<1>2. PICK y \in Ending(w) : TRUE
    OBVIOUS
<1>3. Ending(w) \subseteq All(w)
    BY <1>1 DEF Ending, All
<1>4. PICK x \in All(w) : \A e \in All(w) : e.lsn <= x.lsn
    BY <1>2, <1>3 DEF Good, Top
<1>5. x.lsn \in Nat /\ y.lsn \in Nat /\ y.lsn <= x.lsn
    BY <1>1, <1>2, <1>3, <1>4 DEF Entry
<1>6. CASE x \in ToSet(w.buf)
    BY <1>4, <1>6 DEF Ending
<1>7. CASE x \notin ToSet(w.buf)
    <2>1. PICK i \in 1..N : x \in ToSet(w.segs[i].recs)
        BY <1>1, <1>7 DEF All, OnFile
    <2>2. i = N
        <3> SUFFICES ASSUME i # N PROVE FALSE
            OBVIOUS
        <3>1. i < N /\ x \in OnFile(w.segs)
            BY <1>1, <2>1 DEF OnFile
        <3>2. x.lsn < y.lsn
            <4>1. CASE y \in ToSet(w.buf)
                BY <3>1, <4>1 DEF Good, Below
            <4>2. CASE y \in ToSet(w.segs[N].recs)
                BY <1>1, <2>1, <3>1, <4>2 DEF Good, Ordered, Below
            <4> QED BY <4>1, <4>2 DEF Ending
        <3> QED BY <1>5, <3>2
    <2> QED BY <1>4, <2>1, <2>2 DEF Ending
<1> QED BY <1>6, <1>7

LEMMA TruncateKeeps ==
    ASSUME NEW w, Good(w), w.open, Ending(w) # {}, NEW n \in Nat
    PROVE  LET t == TruncateBefore(w, n)
           IN  /\ Good(t) /\ t.buf = w.buf /\ t.open = TRUE /\ Ending(t) = Ending(w)
               /\ OnFile(t.segs) \subseteq OnFile(w.segs)
               /\ \A e \in OnFile(w.segs) \ OnFile(t.segs) : e.lsn <= n
               /\ \A e \in Durable(w.segs) \ Durable(t.segs) : e.lsn <= n
               /\ Highest(All(t)) = Highest(All(w))
<1> DEFINE t == TruncateBefore(w, n)
           N == Len(w.segs)
<1>0. w.segs # <<>> /\ w.open = TRUE
    BY AllTyped DEF Good
<1>1. /\ w \in Writers /\ w.segs \in Seq(Segment) /\ N \in 1..N /\ DOMAIN w.segs = 1..N /\ N \in Nat
      /\ w.segs[N].recs \in Seq(Entry) /\ Ordered(w.segs) /\ Synced(w.segs) /\ All(w) \subseteq Entry
      /\ OnFile(w.segs) \subseteq All(w) /\ \A e \in OnFile(w.segs) : e.want = 0
    BY <1>0, LastOfOpen, AllTyped DEF Good
<1>2. PICK f : /\ f[0] = <<>>
               /\ \A i \in 1..N : f[i] = IF i \in Gone(w, n) THEN f[i - 1] ELSE Append(f[i - 1], w.segs[i])
               /\ t = [w EXCEPT !.segs = f[N]]
    BY <1>1, TruncateIs
<1>3. Trimmed(f, w.segs, Gone(w, n), N) /\ Trimmed(f, w.segs, Gone(w, n), N - 1)
    BY <1>1, <1>2, TrimmedBy
<1> HIDE DEF t
<1>4. t.segs = f[N] /\ t.buf = w.buf /\ t.open = TRUE /\ t \in Writers /\ t.segs \in Seq(Segment)
    <2>1. PICK ss \in Seq(Segment) : ss = f[N]
        BY <1>3 DEF Trimmed
    <2>2. PICK bs \in Seq(Entry) : bs = w.buf
        BY <1>1 DEF Writers
    <2>3. t = [segs |-> ss, buf |-> bs, open |-> TRUE]
        BY <1>0, <1>1, <1>2, <2>1, <2>2 DEF Writers
    <2> QED BY <2>1, <2>2, <2>3 DEF Writers
<1>5. /\ OnFile(t.segs) \subseteq OnFile(w.segs) /\ Ordered(t.segs) /\ Synced(t.segs)
      /\ \A i \in 1..N : i \in Gone(w, n) \/ (ToSet(w.segs[i].recs) \subseteq OnFile(t.segs) /\ Hard(w.segs[i]) \subseteq Durable(t.segs))
    <2>1. OnFile(t.segs) \subseteq UNION {ToSet(w.segs[i].recs) : i \in 1..N}
        BY <1>3, <1>4 DEF Trimmed
    <2>2. UNION {ToSet(w.segs[i].recs) : i \in 1..N} = OnFile(w.segs)
        BY <1>1 DEF OnFile
    <2>3. Ordered(t.segs) /\ Synced(t.segs)
        BY <1>3, <1>4 DEF Trimmed
    <2>4. \A i \in 1..N : i \in Gone(w, n) \/ (ToSet(w.segs[i].recs) \subseteq OnFile(t.segs) /\ Hard(w.segs[i]) \subseteq Durable(t.segs))
        BY <1>3, <1>4 DEF Trimmed
    <2> QED BY <2>1, <2>2, <2>3, <2>4
<1>6. ASSUME NEW i \in Gone(w, n), NEW e \in ToSet(w.segs[i].recs) PROVE e.lsn <= n
    <2>1. i \in 1..N
        BY DEF Gone
    <2>2. SegRecords(w.segs[i]) = w.segs[i].recs /\ w.segs[i].recs \in Seq(Entry) /\ Ascending(w.segs[i].recs)
        BY <1>1, <2>1, WholeSegment DEF Ordered
    <2>3. PICK rs \in Seq(Entry) : rs = w.segs[i].recs /\ rs # <<>> /\ rs[Len(rs)].lsn <= n
        BY <2>2 DEF Gone, Last
    <2>4. PICK p \in DOMAIN rs : e = rs[p]
        BY <2>3 DEF ToSet
    <2>5. p \in 1..Len(rs) /\ Len(rs) \in 1..Len(rs) /\ DOMAIN rs = 1..Len(rs)
        BY <2>3
    <2>6. rs[p] \in Entry /\ rs[Len(rs)] \in Entry
        BY <2>5
    <2>7. p = Len(rs) \/ rs[p].lsn < rs[Len(rs)].lsn
        BY <2>2, <2>3, <2>5 DEF Ascending
    <2>8. rs[p].lsn \in Nat /\ rs[Len(rs)].lsn \in Nat /\ rs[Len(rs)].lsn <= n
        BY <2>3, <2>6 DEF Entry
    <2> QED BY <2>4, <2>7, <2>8
<1>7. \A e \in OnFile(w.segs) \ OnFile(t.segs) : e.lsn <= n
    <2> SUFFICES ASSUME NEW e \in OnFile(w.segs), e \notin OnFile(t.segs) PROVE e.lsn <= n
        OBVIOUS
    <2>1. PICK i \in 1..N : e \in ToSet(w.segs[i].recs)
        BY <1>1 DEF OnFile
    <2> QED BY <1>5, <1>6, <2>1
<1>8. \A e \in Durable(w.segs) \ Durable(t.segs) : e.lsn <= n
    <2> SUFFICES ASSUME NEW e \in Durable(w.segs), e \notin Durable(t.segs) PROVE e.lsn <= n
        OBVIOUS
    <2>1. PICK i \in 1..N : e \in Hard(w.segs[i])
        BY <1>1 DEF Durable
    <2>2. Hard(w.segs[i]) \subseteq ToSet(w.segs[i].recs)
        BY <1>1, HardOf, FilesTyped DEF Synced
    <2> QED BY <1>5, <1>6, <2>1, <2>2
<1>9. N \notin Gone(w, n)
    BY <1>0 DEF Gone
<1>10. t.segs # <<>> /\ t.segs[Len(t.segs)] = w.segs[N]
    <2>1. f[N] = Append(f[N - 1], w.segs[N])
        BY <1>1, <1>2, <1>9
    <2>2. f[N - 1] \in Seq(Segment) /\ w.segs[N] \in Segment
        BY <1>1, <1>3 DEF Trimmed
    <2>3. Append(f[N - 1], w.segs[N]) # <<>> /\ Len(t.segs) = Len(f[N - 1]) + 1
        BY <1>4, <2>1, <2>2, AppendedSeq
    <2> QED BY <1>4, <2>1, <2>2, <2>3, AppendedSeq
<1>11. Ending(t) = Ending(w)
    BY <1>4, <1>10 DEF Ending
<1>12. All(t) \subseteq All(w) /\ Ending(w) \subseteq All(t)
    <2>1. ToSet(w.segs[N].recs) \subseteq OnFile(t.segs)
        BY <1>1, <1>5, <1>9
    <2> QED BY <1>4, <1>5, <2>1 DEF All, Ending
<1>13. Highest(All(t)) = Highest(All(w)) /\ Top(All(t))
    <2>1. PICK x \in Ending(w) : \A e \in All(w) : e.lsn <= x.lsn
        BY <1>0, EndingTop
    <2>2. All(t) \in SUBSET Entry /\ All(w) \in SUBSET Entry /\ x \in All(t) /\ x \in All(w)
        BY <1>1, <1>12, <2>1
    <2>3. Top(All(t)) /\ Highest(All(t)) = x.lsn
        BY <1>12, <2>1, <2>2, HighestIs
    <2>4. Highest(All(w)) = x.lsn
        BY <2>1, <2>2, HighestIs
    <2> QED BY <2>3, <2>4
<1>14. Good(t)
    <2>1. Ascending(t.buf) /\ Below(OnFile(t.segs), ToSet(t.buf)) /\ \A e \in All(t) : e.want = 0
        BY <1>4, <1>5, <1>12 DEF Good, Below
    <2>2. Top(OnFile(t.segs))
        BY <1>1, <1>5, TopOf DEF Good
    <2> QED BY <1>4, <1>5, <1>10, <1>13, <2>1, <2>2 DEF Good, Writers
<1> QED BY <1>4, <1>5, <1>7, <1>8, <1>11, <1>13, <1>14 DEF t

(* What a crash leaves when the buffer is lost.                                *)
LEMMA DownGood ==
    ASSUME NEW w, Good(w), NEW v \in Writers, SameRecs(w.segs, v.segs), Synced(v.segs), v.buf = <<>>, v.open = FALSE
    PROVE  Good(v) /\ OnFile(v.segs) = OnFile(w.segs) /\ All(v) = OnFile(w.segs)
<1>1. OnFile(v.segs) = OnFile(w.segs) /\ (Ordered(w.segs) => Ordered(v.segs))
    BY SameFiles
<1>2. All(v) = OnFile(w.segs) /\ OnFile(w.segs) \subseteq All(w)
    BY <1>1, EmptyBuffer, AllTyped
<1>3. Ascending(v.buf) /\ Below(OnFile(v.segs), ToSet(v.buf))
    BY EmptySet DEF Ascending, Below
<1> QED BY <1>1, <1>2, <1>3 DEF Good, Writers

(* What a power failure leaves of a file when it cuts no record: at least what *)
(* fsync covered.                                                              *)
LEMMA RemainsHard ==
    ASSUME NEW s \in Segment, s.synced <= Len(s.recs), "tear" \notin CrashModes, "power" \in CrashModes,
           NEW l \in Remains(s)
    PROVE  \E k \in s.synced..Len(s.recs) : /\ l \in Segment /\ l.recs = SubSeq(s.recs, 1, k)
                                            /\ l.synced = k /\ Len(l.recs) = k
<1>1. s.recs \in Seq(Entry) /\ Len(s.recs) \in Nat /\ s.synced \in Nat /\ s.hdr \in BOOLEAN
    BY DEF Segment
<1> DEFINE whole == {SubSeq(s.recs, 1, k) : k \in s.synced..Len(s.recs)}
           durable(rs) == [hdr |-> s.hdr, recs |-> rs, synced |-> Len(rs)]
<1>2. \/ \E rs \in whole : l = durable(rs)
      \/ s.synced = 0 /\ l = [hdr |-> FALSE, recs |-> <<>>, synced |-> 0]
    BY DEF Remains
<1>3. \A k \in s.synced..Len(s.recs) : SubSeq(s.recs, 1, k) \in Seq(Entry) /\ Len(SubSeq(s.recs, 1, k)) = k
    BY <1>1
<1>4. CASE \E rs \in whole : l = durable(rs)
    <2>1. PICK k \in s.synced..Len(s.recs) : l = durable(SubSeq(s.recs, 1, k))
        BY <1>4
    <2>2. l.recs = SubSeq(s.recs, 1, k) /\ l.synced = Len(SubSeq(s.recs, 1, k)) /\ l.hdr = s.hdr
        BY <2>1
    <2>3. l \in Segment
        BY <1>1, <1>3, <2>1, <2>2 DEF Segment
    <2> QED BY <1>3, <2>2, <2>3
<1>5. CASE s.synced = 0 /\ l = [hdr |-> FALSE, recs |-> <<>>, synced |-> 0]
    <2>1. SubSeq(s.recs, 1, 0) = <<>> /\ 0 \in s.synced..Len(s.recs) /\ <<>> \in Seq(Entry) /\ Len(<<>>) = 0
        BY <1>1, <1>5
    <2>2. l.recs = <<>> /\ l.synced = 0
        BY <1>5
    <2>3. l \in Segment
        BY <1>5, <2>1 DEF Segment
    <2> QED BY <2>1, <2>2, <2>3
<1> QED BY <1>2, <1>4, <1>5

(* The beginning of a file.                                                    *)
LEMMA Beginning ==
    ASSUME NEW s \in Seq(Entry), NEW k \in 0..Len(s)
    PROVE  LET t == SubSeq(s, 1, k)
           IN  /\ ToSet(t) = {s[j] : j \in 1..k} /\ ToSet(t) \subseteq ToSet(s)
               /\ Ascending(s) => Ascending(t)
<1> DEFINE t == SubSeq(s, 1, k)
<1>1. DOMAIN s = 1..Len(s) /\ DOMAIN t = 1..k /\ \A j \in 1..k : t[j] = s[j] /\ j \in DOMAIN s
    OBVIOUS
<1> HIDE DEF t
<1>2. ToSet(t) = {s[j] : j \in 1..k} /\ ToSet(t) \subseteq ToSet(s)
    BY <1>1 DEF ToSet
<1>3. Ascending(s) => Ascending(t)
    BY <1>1 DEF Ascending
<1> QED BY <1>2, <1>3 DEF t

(* Files of which each is the beginning of one of ss, with all that was synced.*)
Cut(ss, tt) ==
    /\ tt \in Seq(Segment) /\ DOMAIN tt = DOMAIN ss
    /\ \A i \in DOMAIN ss : \E k \in ss[i].synced..Len(ss[i].recs) :
          tt[i].recs = SubSeq(ss[i].recs, 1, k) /\ tt[i].synced = k /\ Len(tt[i].recs) = k

LEMMA CutGood ==
    ASSUME NEW w, Good(w), NEW v \in Writers, Cut(w.segs, v.segs), v.buf = <<>>, v.open = FALSE
    PROVE  Good(v) /\ OnFile(v.segs) \subseteq OnFile(w.segs) /\ Durable(w.segs) \subseteq Durable(v.segs)
<1> DEFINE ss == w.segs
           tt == v.segs
<1>1. /\ ss \in Seq(Segment) /\ tt \in Seq(Segment) /\ DOMAIN tt = DOMAIN ss /\ Ordered(ss) /\ Synced(ss)
      /\ OnFile(ss) \subseteq Entry /\ OnFile(ss) \subseteq All(w) /\ Top(OnFile(ss))
    BY AllTyped DEF Good, Cut
<1>2. ASSUME NEW i \in DOMAIN ss
      PROVE  /\ ToSet(tt[i].recs) \subseteq ToSet(ss[i].recs) /\ Ascending(tt[i].recs)
             /\ tt[i].synced <= Len(tt[i].recs) /\ Hard(ss[i]) \subseteq Hard(tt[i])
    <2>1. PICK k \in ss[i].synced..Len(ss[i].recs) :
              tt[i].recs = SubSeq(ss[i].recs, 1, k) /\ tt[i].synced = k /\ Len(tt[i].recs) = k
        BY DEF Cut
    <2>2. /\ ss[i].recs \in Seq(Entry) /\ ss[i].synced \in Nat /\ Len(ss[i].recs) \in Nat
          /\ Ascending(ss[i].recs) /\ tt[i] \in Segment /\ ss[i] \in Segment
        <3> HIDE DEF ss, tt
        <3>1. ss[i] \in Segment /\ tt[i] \in Segment /\ Ascending(ss[i].recs)
            BY <1>1, FilesTyped DEF Ordered
        <3> QED BY <3>1 DEF Segment
    <2>3. k \in 0..Len(ss[i].recs) /\ ss[i].synced <= k
        BY <2>1, <2>2
    <2>4. ToSet(tt[i].recs) \subseteq ToSet(ss[i].recs) /\ Ascending(tt[i].recs)
        BY <2>1, <2>2, <2>3, Beginning
    <2>5. \A j \in 1..ss[i].synced : tt[i].recs[j] = ss[i].recs[j]
        BY <2>1, <2>2, <2>3
    <2>6. Hard(ss[i]) \subseteq Hard(tt[i])
        <3>1. PICK x \in Segment, y \in Segment : x = ss[i] /\ y = tt[i]
            BY <2>2
        <3>2. x.synced <= y.synced /\ \A j \in 1..x.synced : y.recs[j] = x.recs[j]
            BY <2>1, <2>3, <2>5, <3>1
        <3>3. Hard(x) \subseteq Hard(y)
            BY <3>2, HardGrows
        <3> QED BY <3>1, <3>3
    <2> QED BY <2>1, <2>3, <2>4, <2>6
<1> HIDE DEF ss, tt
<1>3. OnFile(tt) \subseteq OnFile(ss)
    BY <1>1, <1>2 DEF OnFile
<1>4. Durable(ss) \subseteq Durable(tt)
    BY <1>1, <1>2, DurableGrows
<1>5. Synced(tt)
    BY <1>1, <1>2 DEF Synced
<1>6. Ordered(tt)
    <2>1. ASSUME NEW i \in DOMAIN ss, NEW j \in DOMAIN ss, i < j PROVE Below(ToSet(tt[i].recs), ToSet(tt[j].recs))
        <3>1. Below(ToSet(ss[i].recs), ToSet(ss[j].recs))
            BY <1>1, <2>1 DEF Ordered
        <3>2. ToSet(tt[i].recs) \subseteq ToSet(ss[i].recs) /\ ToSet(tt[j].recs) \subseteq ToSet(ss[j].recs)
            BY <1>2
        <3> QED BY <3>1, <3>2 DEF Below
    <2> QED BY <1>1, <1>2, <2>1 DEF Ordered
<1>7. Top(OnFile(tt))
    BY <1>1, <1>3, TopOf
<1>8. Good(v)
    <2>1. All(v) = OnFile(tt)
        BY EmptyBuffer DEF tt
    <2>2. \A e \in All(v) : e.want = 0
        BY <1>1, <1>3, <2>1 DEF Good
    <2>3. Ascending(v.buf) /\ Below(OnFile(tt), ToSet(v.buf))
        BY EmptySet DEF Ascending, Below
    <2> QED BY <1>5, <1>6, <1>7, <2>1, <2>2, <2>3 DEF Good, Writers, tt
<1> QED BY <1>3, <1>4, <1>8 DEF ss, tt

-----------------------------------------------------------------------------
(* The invariant.  Sync "off" makes nothing durable before a checkpoint covers *)
(* it, "group" leaves closed segments to the operating system, and no mode     *)
(* survives a record that a crash cuts in two, behind which the reopened log   *)
(* goes on writing.                                                            *)

Careful ==
    /\ "tear" \notin CrashModes
    /\ Sync = "on" \/ (Sync = "group" /\ "power" \notin CrashModes)

LastSafe == Highest(Safe(segs))

InCheckpoint == pc \in {"ckptFlush", "ckptManifest", "ckptTruncate"}

Files == Good(writer) /\ \A e \in Written : e.lsn > 0

Phase ==
    /\ status = "up" => pc = "idle" \/ InCheckpoint
    /\ InCheckpoint => status = "up"
    /\ status = "up" => lastLsn = LastWritten /\ mem = disk
    /\ status # "up" => ~open /\ fresh = {}
    /\ pc \in {"writeManifest", "recovered"} => mem = disk

Marking ==
    /\ InCheckpoint => open /\ marker <= lastLsn /\ disk.ckpt <= marker /\ Ending(writer) # {}
    /\ pc = "ckptTruncate" => disk.ckpt = marker
    /\ pc \in {"ckptManifest", "ckptTruncate"} /\ ~Concurrent => buf = <<>> /\ fresh = {}

(* What holds until the checkpoint outruns the log.                            *)
Kept ==
    /\ promised \subseteq Safe(segs) /\ fresh \subseteq Written
    /\ Sync = "on" /\ fresh # {} => open /\ fresh \subseteq Ending(writer)

Covered ==
    /\ Kept
    /\ disk.ckpt <= LastSafe
    /\ \A m \in olds : m.ckpt <= disk.ckpt
    /\ \A r \in promised \cup fresh : r.lsn > disk.ckpt

MarkerSafe ==
    /\ pc = "ckptFlush" /\ Sync = "on" => marker <= LastSafe \/ \E r \in fresh : r.lsn = marker
    /\ pc = "ckptManifest" => marker <= LastSafe /\ \A r \in fresh : r.lsn > marker

OutranOnly == outran => Concurrent \/ "power" \in CrashModes

IInv ==
    /\ TypeOK /\ Files /\ Phase /\ Marking /\ OutranOnly /\ RecoveryComplete
    /\ outran \/ (Covered /\ MarkerSafe)

LEMMA Contents ==
    /\ writer.segs = segs /\ writer.buf = buf /\ writer.open = open
    /\ (writer').segs = segs' /\ (writer').buf = buf' /\ (writer').open = open'
    /\ Stored = OnFile(segs) /\ Written = All(writer)
    /\ Stored' = OnFile(segs') /\ Written' = All(writer')
BY DEF writer, Stored, Written, All

LEMMA Installed ==
    ASSUME NEW w, w \in Writers, Install(w)
    PROVE  writer' = w
BY DEF Install, Writers, writer

LEMMA LevelsOf ==
    ASSUME NEW w, Good(w)
    PROVE  LET S == OnFile(w.segs)
               T == All(w)
           IN  /\ S \subseteq T /\ T \subseteq Entry
               /\ Highest(S) \in Nat /\ Highest(T) \in Nat /\ Highest(S) <= Highest(T)
               /\ \A e \in S : e.lsn <= Highest(S)
               /\ \A e \in T : e.lsn <= Highest(T) /\ e.lsn \in Nat
               /\ w.buf = <<>> => S = T
<1> DEFINE S == OnFile(w.segs)
           T == All(w)
<1>1. S \subseteq T /\ T \subseteq Entry /\ Top(S) /\ Top(T)
    BY AllTyped DEF Good
<1>2. w.buf = <<>> => S = T
    BY EmptyBuffer
<1> HIDE DEF S, T
<1>3. Highest(S) \in Nat /\ \A e \in S : e.lsn <= Highest(S)
    BY <1>1, HighestOf
<1>4. Highest(T) \in Nat /\ (\A e \in T : e.lsn <= Highest(T)) /\ Highest(S) <= Highest(T)
    BY <1>1, HighestOf, TopOf
<1>5. \A e \in T : e.lsn \in Nat
    BY <1>1 DEF Entry
<1> QED BY <1>1, <1>2, <1>3, <1>4, <1>5 DEF S, T

(* The same of the records that are sure to survive.                           *)
LEMMA SafeOf ==
    ASSUME NEW w, Good(w)
    PROVE  LET S == Safe(w.segs)
           IN  /\ S \subseteq OnFile(w.segs) /\ Highest(S) \in Nat
               /\ \A e \in S : e.lsn <= Highest(S)
               /\ Highest(S) <= Highest(OnFile(w.segs)) /\ Highest(S) <= Highest(All(w))
<1> DEFINE S == Safe(w.segs)
           T == OnFile(w.segs)
<1>1. S \subseteq T /\ T \subseteq Entry /\ Top(T)
    BY AllTyped, DurableIn DEF Good
<1>2. Highest(T) <= Highest(All(w)) /\ Highest(T) \in Nat /\ Highest(All(w)) \in Nat
    BY LevelsOf
<1> HIDE DEF S, T
<1>3. Top(S) /\ Highest(S) \in Nat /\ Highest(S) <= Highest(T)
    BY <1>1, TopOf
<1>4. \A e \in S : e.lsn <= Highest(S)
    BY <1>1, <1>3, HighestOf
<1> QED BY <1>1, <1>2, <1>3, <1>4 DEF S, T

LEMMA Levels ==
    ASSUME Good(writer)
    PROVE  /\ Stored \subseteq Written /\ Written \subseteq Entry
           /\ LastStored \in Nat /\ LastWritten \in Nat /\ LastStored <= LastWritten
           /\ \A e \in Stored : e.lsn <= LastStored
           /\ \A e \in Written : e.lsn <= LastWritten /\ e.lsn \in Nat
           /\ buf = <<>> => Stored = Written
           /\ Safe(segs) \subseteq Stored /\ LastSafe \in Nat /\ LastSafe <= LastStored
           /\ \A e \in Safe(segs) : e.lsn <= LastSafe
BY LevelsOf, SafeOf, Contents DEF LastStored, LastWritten, LastSafe

LEMMA LevelsNext ==
    ASSUME Good(writer')
    PROVE  /\ Stored' \subseteq Written' /\ Written' \subseteq Entry
           /\ LastStored' \in Nat /\ LastWritten' \in Nat /\ LastStored' <= LastWritten'
           /\ \A e \in Stored' : e.lsn <= LastStored'
           /\ \A e \in Written' : e.lsn <= LastWritten' /\ e.lsn \in Nat
           /\ buf' = <<>> => Stored' = Written'
           /\ Safe(segs') \subseteq Stored' /\ LastSafe' \in Nat /\ LastSafe' <= LastStored'
           /\ \A e \in Safe(segs') : e.lsn <= LastSafe'
<1>1. LastStored' = Highest(Stored') /\ LastWritten' = Highest(Written') /\ LastSafe' = Highest(Safe(segs'))
    BY DEF LastStored, LastWritten, LastSafe, Highest, Safe, OnFile, Durable, Hard
<1> QED BY <1>1, LevelsOf, SafeOf, Contents

(* A larger set of records stored, or sure to survive.                         *)
LEMMA Grows ==
    ASSUME Good(writer), Good(writer'), Stored \subseteq Stored'
    PROVE  LastStored <= LastStored'
<1>1. Top(Stored') /\ Stored' \in SUBSET Entry
    BY LevelsNext, Contents DEF Good
<1>2. Highest(Stored) <= Highest(Stored')
    BY <1>1, TopOf
<1> QED BY <1>2 DEF LastStored

LEMMA SafeHigher ==
    ASSUME Good(writer), Good(writer'), Safe(segs) \subseteq Safe(segs')
    PROVE  LastSafe <= LastSafe'
<1>1. Top(Stored') /\ Stored' \in SUBSET Entry /\ Safe(segs') \in SUBSET Stored'
    BY LevelsNext, Contents DEF Good
<1>2. Top(Safe(segs')) /\ Safe(segs') \in SUBSET Entry
    BY <1>1, TopOf
<1>3. Highest(Safe(segs)) <= Highest(Safe(segs'))
    BY <1>2, TopOf
<1> QED BY <1>3 DEF LastSafe, Highest, Safe, OnFile, Durable, Hard

-----------------------------------------------------------------------------
(* One lemma per operation of the log: what it does to the files.              *)

(* Steps of an open log that lose nothing.                                     *)
Logged ==
    /\ Files' /\ status' = "up" /\ lastLsn' = LastWritten' /\ lastLsn <= lastLsn'
    /\ Stored \subseteq Stored' /\ Safe(segs) \subseteq Safe(segs')
    /\ \A e \in Written' : e \in Written \/ e.lsn = lastLsn + 1
    /\ promised' \subseteq Entry /\ fresh' \subseteq Entry
    /\ \A r \in promised' \cup fresh' : r \in promised \cup fresh \/ r.lsn = lastLsn + 1
    /\ Kept => Kept'

LEMMA KeptNext ==
    ASSUME promised' \subseteq Safe(segs'), fresh' \subseteq Written',
           Sync = "on" /\ fresh' # {} => open' /\ fresh' \subseteq Ending(writer')
    PROVE  Kept'
BY DEF Kept, Safe, OnFile, Durable, Hard

LEMMA AppendStep ==
    ASSUME TypeOK, Files, Phase, NEW kind \in Kinds, WalAppend(kind)
    PROVE  /\ Logged /\ lastLsn' = lastLsn + 1 /\ open' = TRUE /\ Ending(writer') # {}
           /\ Written' = Written \cup {Record(lastLsn + 1, kind)}
           /\ fresh' = fresh \cup {Record(lastLsn + 1, kind)} /\ promised' = promised
           /\ Sync = "on" => fresh = {}
<1> DEFINE r == Record(lastLsn + 1, kind)
           a == AppendRecord(writer, lastLsn, kind)
<1>1. /\ status = "up" /\ lastLsn' = lastLsn + 1 /\ status' = status /\ Install(a)
      /\ fresh' = fresh \cup {r} /\ promised' = promised /\ (Sync = "on" => fresh = {})
    BY DEF WalAppend, Settled
<1>2. Good(writer) /\ lastLsn = Highest(All(writer)) /\ \A e \in Written : e.lsn > 0
    BY <1>1, Contents DEF Files, Phase, LastWritten
<1>3. /\ Good(a) /\ a.open = TRUE /\ r \in Entry
      /\ All(a) = All(writer) \cup {r} /\ OnFile(writer.segs) \subseteq OnFile(a.segs)
      /\ Durable(writer.segs) \subseteq Durable(a.segs) /\ r \in Ending(a)
    BY <1>2, AppendKeeps
<1> HIDE DEF a
<1>4. writer' = a /\ a.buf = buf' /\ a.open = open' /\ a.segs = segs'
    <2>1. a \in Writers
        BY <1>3 DEF Good, Writers
    <2> QED BY <1>1, <2>1, Installed DEF Install
<1>5. Written' = Written \cup {r} /\ Stored \subseteq Stored' /\ Safe(segs) \subseteq Safe(segs')
    BY <1>3, <1>4, Contents, SafeGrows
<1>6. lastLsn \in Nat /\ r.lsn = lastLsn + 1 /\ lastLsn = LastWritten
    BY <1>1 DEF TypeOK, WalTypeOK, Record, Phase
<1>7. Files'
    <2>1. \A e \in Written' : e.lsn > 0
        BY <1>2, <1>5, <1>6
    <2> QED BY <1>3, <1>4, <2>1 DEF Files
<1>8. LastWritten' = lastLsn + 1
    <2>1. \A e \in Written' : e.lsn <= r.lsn
        BY <1>2, <1>5, <1>6, Levels
    <2>2. Written' \in SUBSET Entry /\ r \in Written'
        BY <1>2, <1>3, <1>5, Levels
    <2>3. Highest(Written') = r.lsn
        BY <2>1, <2>2, HighestIs
    <2> QED BY <1>6, <2>3 DEF LastWritten
<1>9. Kept => Kept'
    <2> SUFFICES ASSUME Kept PROVE Kept'
        OBVIOUS
    <2>1. promised' \subseteq Safe(segs') /\ fresh' \subseteq Written'
        BY <1>1, <1>5 DEF Kept
    <2>2. Sync = "on" => open' /\ fresh' \subseteq Ending(writer')
        BY <1>1, <1>3, <1>4
    <2> QED BY <2>1, <2>2, KeptNext
<1>10. \A x \in promised' \cup fresh' : x \in promised \cup fresh \/ x.lsn = lastLsn + 1
    BY <1>1, <1>6
<1>11. promised' \subseteq Entry /\ fresh' \subseteq Entry
    BY <1>1, <1>3 DEF TypeOK, WalTypeOK
<1>12. \A x \in Written' : x \in Written \/ x.lsn = lastLsn + 1
    BY <1>5, <1>6
<1>13. Logged
    BY <1>1, <1>5, <1>6, <1>7, <1>8, <1>9, <1>10, <1>11, <1>12 DEF Logged
<1> QED BY <1>1, <1>3, <1>4, <1>5, <1>13

(* The steps that append nothing: records move to the files, and become        *)
(* promised.                                                                   *)
LEMMA QuietStep ==
    ASSUME TypeOK, Files, Phase, status = "up", Keeps(writer, writer'), UNCHANGED <<lastLsn, status>>,
           promised' \cup fresh' \subseteq promised \cup fresh, Kept => Kept'
    PROVE  Logged /\ Written' = Written
<1>1. Good(writer) /\ lastLsn = LastWritten /\ \A e \in Written : e.lsn > 0
    BY DEF Files, Phase
<1>2. Good(writer') /\ Written' = Written
    BY Contents DEF Keeps
<1>3. Stored \subseteq Stored' /\ Safe(segs) \subseteq Safe(segs')
    <2>1. Stored \subseteq Stored'
        BY <1>1, <1>2, Levels, LevelsNext, Contents DEF Keeps
    <2> QED BY <2>1, Contents, SafeGrows DEF Keeps
<1>4. LastWritten' = LastWritten
    BY <1>2 DEF LastWritten
<1>5. Files'
    BY <1>1, <1>2 DEF Files
<1>6. promised' \subseteq Entry /\ fresh' \subseteq Entry
    BY DEF TypeOK, WalTypeOK
<1>7. lastLsn \in Nat
    BY DEF TypeOK, WalTypeOK
<1> QED BY <1>1, <1>2, <1>3, <1>4, <1>5, <1>6, <1>7 DEF Logged

LEMMA FlushStep ==
    ASSUME TypeOK, Files, Phase, Careful, WalFlush
    PROVE  /\ Logged /\ Written' = Written /\ open' = open
           /\ open => /\ buf' = <<>> /\ fresh' = {} /\ promised' = promised \cup fresh
                      /\ Ending(writer') = Ending(writer)
<1>1. /\ status = "up" /\ UNCHANGED <<lastLsn, status>> /\ Install(Flushed(writer)) /\ Sync # "off"
      /\ IF ~open
         THEN UNCHANGED <<fresh, promised>>
         ELSE promised' = promised \cup fresh /\ fresh' = {}
    BY DEF WalFlush, Careful
<1>2. Good(writer) /\ writer \in Writers /\ writer.open = open /\ open \in BOOLEAN
    BY Contents DEF Files, Good, Writers, TypeOK, WalTypeOK
<1>3. CASE ~open
    <2>1. Flushed(writer) = writer
        BY <1>2, <1>3 DEF Flushed
    <2>2. writer' = writer
        BY <1>1, <1>2, <2>1, Installed
    <2>3. Keeps(writer, writer') /\ segs' = segs /\ open' = open /\ Written' = Written
        BY <1>2, <2>2, SameKeeps, Contents
    <2>4. UNCHANGED <<fresh, promised>>
        BY <1>1, <1>3
    <2>5. Kept => Kept'
        BY <2>2, <2>3, <2>4, KeptNext DEF Kept
    <2>6. Logged
        BY <1>1, <2>3, <2>4, <2>5, QuietStep
    <2> QED BY <1>3, <2>3, <2>6
<1>4. CASE open
    <2> DEFINE f == FlushSegment(writer)
    <2>1. /\ Keeps(writer, f) /\ f.buf = <<>> /\ f.open = TRUE /\ f \in Writers /\ Flushed(writer) = f
          /\ OnFile(f.segs) = All(writer)
        BY <1>1, <1>2, <1>4, FlushSegmentKeeps DEF Keeps, Good, Writers, Flushed
    <2>2. Ending(f) = Ending(writer) /\ Ending(writer) \subseteq Durable(f.segs)
        BY <1>2, <1>4, FlushEnding
    <2> HIDE DEF f
    <2>3. writer' = f /\ buf' = <<>> /\ open' = TRUE /\ segs' = f.segs
        BY <1>1, <2>1, Installed, Contents
    <2>4. promised' = promised \cup fresh /\ fresh' = {}
        BY <1>1, <1>4
    <2>5. Kept => Kept'
        <3> SUFFICES ASSUME Kept PROVE promised' \subseteq Safe(segs')
            BY <2>4, KeptNext
        <3>1. promised \subseteq Safe(segs')
            <4>1. Stored \subseteq OnFile(segs')
                BY <1>2, <2>1, <2>3, Levels, Contents
            <4>2. Durable(segs) \subseteq Durable(segs')
                BY <2>1, <2>3, Contents DEF Keeps
            <4> QED BY <4>1, <4>2, SafeGrows, Contents DEF Kept
        <3>2. fresh \subseteq Safe(segs')
            <4>1. CASE Sync = "on"
                <5>1. fresh \subseteq Durable(segs')
                    BY <2>2, <2>3, <4>1 DEF Kept
                <5>2. Durable(segs') \subseteq Safe(segs')
                    BY <2>1, <2>3, DurableIn DEF Keeps, Good
                <5> QED BY <5>1, <5>2
            <4>2. CASE Sync # "on"
                <5>1. Safe(segs') = OnFile(segs')
                    BY <4>2 DEF Careful, Safe
                <5> QED BY <2>1, <2>3, <5>1, Contents DEF Kept
            <4> QED BY <4>1, <4>2
        <3> QED BY <2>4, <3>1, <3>2
    <2>6. Logged /\ Written' = Written
        BY <1>1, <2>1, <2>3, <2>4, <2>5, QuietStep
    <2> QED BY <1>2, <1>4, <2>2, <2>3, <2>4, <2>6
<1> QED BY <1>2, <1>3, <1>4

LEMMA OsFlushStep ==
    ASSUME TypeOK, Files, Phase, WalOsFlush
    PROVE  /\ Logged /\ Written' = Written /\ UNCHANGED <<open, fresh, promised>> /\ buf # <<>>
           /\ open => Ending(writer') = Ending(writer)
<1> DEFINE f == OsFlush(writer)
<1>1. status = "up" /\ UNCHANGED <<lastLsn, status, fresh, promised>> /\ Install(f) /\ buf # <<>>
    BY DEF WalOsFlush
<1>2. Good(writer) /\ writer.open = open
    BY Contents DEF Files
<1>3. Keeps(writer, f) /\ f.open = open /\ f \in Writers
    <2>1. Keeps(writer, f) /\ f.open = open
        BY <1>2, OsFlushKeeps
    <2> QED BY <2>1 DEF Keeps, Good, Writers
<1>4. open => Ending(f) = Ending(writer)
    BY <1>2, OsFlushEnding
<1> HIDE DEF f
<1>5. writer' = f /\ open' = open /\ Keeps(writer, writer') /\ Written' = Written
    BY <1>1, <1>3, Installed, Contents DEF Keeps
<1>6. Kept => Kept'
    <2> SUFFICES ASSUME Kept PROVE promised' \subseteq Safe(segs')
        BY <1>1, <1>4, <1>5, KeptNext DEF Kept
    <2>1. OnFile(segs) \subseteq OnFile(segs') /\ Durable(segs) \subseteq Durable(segs')
        BY <1>2, <1>5, Levels, Contents DEF Keeps
    <2> QED BY <1>1, <2>1, SafeGrows DEF Kept
<1> QED BY <1>1, <1>4, <1>5, <1>6, QuietStep

LEMMA CloseStep ==
    ASSUME TypeOK, Files, Phase, WalClose
    PROVE  Logged /\ Written' = Written
<1> DEFINE f == CloseSegment(writer)
<1>1. status = "up" /\ UNCHANGED <<lastLsn, status, fresh, promised>> /\ Install(f) /\ (Sync = "on" => fresh = {})
    BY DEF WalClose, Settled
<1>2. Good(writer)
    BY DEF Files
<1>3. Keeps(writer, f) /\ f \in Writers
    <2>1. Keeps(writer, f)
        BY <1>2, CloseKeeps
    <2> QED BY <2>1 DEF Keeps, Good, Writers
<1> HIDE DEF f
<1>4. Keeps(writer, writer') /\ Written' = Written
    BY <1>1, <1>3, Installed, Contents DEF Keeps
<1>5. Kept => Kept'
    <2> SUFFICES ASSUME Kept PROVE promised' \subseteq Safe(segs')
        BY <1>1, <1>4, KeptNext DEF Kept
    <2>1. OnFile(segs) \subseteq OnFile(segs') /\ Durable(segs) \subseteq Durable(segs')
        BY <1>2, <1>4, Levels, Contents DEF Keeps
    <2> QED BY <1>1, <2>1, SafeGrows DEF Kept
<1> QED BY <1>1, <1>4, <1>5, QuietStep

(* An append that raises after its write leaves the record where it is.        *)
LEMMA SyncFailsStep ==
    ASSUME TypeOK, Files, Phase, WalSyncFails
    PROVE  /\ Logged /\ Written' = Written /\ writer' = writer
           /\ UNCHANGED <<segs, buf, open, promised>> /\ fresh' = {} /\ Sync = "on"
<1>1. status = "up" /\ UNCHANGED <<segs, buf, open, lastLsn, status, promised>> /\ fresh' = {} /\ Sync = "on"
    BY DEF WalSyncFails
<1>2. Good(writer) /\ writer' = writer /\ Written' = Written
    BY <1>1, Contents DEF Files, writer
<1>3. Keeps(writer, writer')
    BY <1>2, SameKeeps
<1>4. Kept => Kept'
    BY <1>1, KeptNext DEF Kept
<1> QED BY <1>1, <1>2, <1>3, <1>4, QuietStep

-----------------------------------------------------------------------------
(* Every action keeps the invariant.                                           *)

LEMMA TypedFiles ==
    ASSUME Good(writer')
    PROVE  segs' \in Seq(Segment) /\ buf' \in Seq(Entry) /\ open' \in BOOLEAN
           /\ Stored' \subseteq Entry /\ Written' \subseteq Entry
BY AllTyped, Contents, LevelsNext DEF Good

(* What Covered becomes when the files lose nothing that is safe.              *)
LEMMA CoveredNext ==
    ASSUME IInv, Covered, Logged, status = "up", UNCHANGED <<disk, olds>>
    PROVE  Covered' /\ LastSafe <= LastSafe'
<1>1. Good(writer) /\ Good(writer') /\ Safe(segs) \subseteq Safe(segs') /\ Kept'
    BY DEF IInv, Files, Logged, Covered
<1>2. LastSafe <= LastSafe' /\ LastSafe \in Nat /\ LastSafe' \in Nat /\ LastSafe <= LastWritten /\ LastWritten \in Nat
    <2>1. LastStored \in Nat /\ LastSafe <= LastStored /\ LastStored <= LastWritten
        BY <1>1, Levels
    <2> QED BY <1>1, <2>1, Levels, LevelsNext, SafeHigher
<1>3. disk.ckpt \in Nat /\ disk.ckpt <= LastSafe /\ lastLsn = LastWritten
    BY DEF IInv, TypeOK, WalTypeOK, Covered, Phase
<1>4. \A r \in promised' \cup fresh' : r.lsn > disk.ckpt
    BY <1>2, <1>3 DEF Logged, Covered
<1> QED BY <1>1, <1>2, <1>3, <1>4 DEF Covered

LEMMA LoggedInv ==
    ASSUME IInv, Logged, status = "up", UNCHANGED <<disk, mem, replayed, olds, outran>>, marker' \in Nat,
           pc' \in {"idle", "ckptFlush", "ckptManifest", "ckptTruncate"}
    PROVE  /\ TypeOK' /\ Files' /\ Phase' /\ OutranOnly' /\ RecoveryComplete'
           /\ Covered => Covered' /\ LastSafe <= LastSafe'
<1>1. Good(writer') /\ Files' /\ status' = "up" /\ lastLsn' = LastWritten'
    BY DEF Logged, Files
<1>2. lastLsn' \in Nat
    BY <1>1, LevelsNext
<1>3. TypeOK'
    <2>1. promised' \subseteq Entry /\ fresh' \subseteq Entry
        BY DEF Logged
    <2>2. pc' \in Phases
        BY DEF Phases
    <2> QED BY <1>1, <1>2, <2>1, <2>2, TypedFiles DEF IInv, TypeOK, WalTypeOK
<1>4. Phase'
    <2>1. mem' = disk'
        BY DEF IInv, Phase
    <2> QED BY <1>1, <2>1 DEF Phase, InCheckpoint
<1>5. OutranOnly' /\ RecoveryComplete'
    BY DEF IInv, OutranOnly, RecoveryComplete
<1> QED BY <1>1, <1>3, <1>4, <1>5, CoveredNext

LEMMA CkptMarkerInv ==
    ASSUME IInv, Careful, CkptMarker
    PROVE  IInv'
<1>1. /\ pc = "idle" /\ lastLsn >= mem.ckpt /\ WalAppend(Checkpoint) /\ marker' = lastLsn + 1 /\ pc' = "ckptFlush"
      /\ UNCHANGED <<disk, mem, replayed, olds, outran>> /\ status = "up"
    BY DEF CkptMarker, WalAppend
<1>2. /\ Logged /\ lastLsn' = lastLsn + 1 /\ open' = TRUE /\ Ending(writer') # {}
      /\ fresh' = fresh \cup {Record(lastLsn + 1, Checkpoint)}
    BY <1>1, AppendStep, CheckpointAssumption DEF IInv
<1>3. lastLsn \in Nat /\ disk = mem /\ disk.ckpt \in Nat
    BY <1>1 DEF IInv, TypeOK, WalTypeOK, Phase
<1>4. /\ TypeOK' /\ Files' /\ Phase' /\ OutranOnly' /\ RecoveryComplete'
      /\ Covered => Covered'
    BY <1>1, <1>2, <1>3, LoggedInv
<1>5. Marking'
    BY <1>1, <1>2, <1>3 DEF Marking, InCheckpoint
<1>6. MarkerSafe'
    <2>1. PICK r : r = Record(lastLsn + 1, Checkpoint)
        OBVIOUS
    <2>2. r \in fresh' /\ r.lsn = marker'
        BY <1>1, <1>2, <2>1 DEF Record
    <2> QED BY <1>1, <2>2 DEF MarkerSafe
<1> QED BY <1>1, <1>4, <1>5, <1>6 DEF IInv

LEMMA CkptFlushInv ==
    ASSUME IInv, Careful, CkptFlush
    PROVE  IInv'
<1>1. /\ pc = "ckptFlush" /\ MarkerReturned /\ WalFlush /\ pc' = "ckptManifest"
      /\ UNCHANGED <<disk, mem, marker, replayed, olds, outran>> /\ status = "up" /\ lastLsn' = lastLsn
    BY DEF CkptFlush, WalFlush
<1>2. open /\ marker <= lastLsn /\ disk.ckpt <= marker /\ Ending(writer) # {} /\ marker \in Nat
    BY <1>1 DEF IInv, Marking, InCheckpoint, TypeOK
<1>3. Logged /\ open' = open /\ buf' = <<>> /\ fresh' = {} /\ Ending(writer') # {}
    BY <1>1, <1>2, FlushStep DEF IInv
<1>4. /\ TypeOK' /\ Files' /\ Phase' /\ OutranOnly' /\ RecoveryComplete'
      /\ Covered => Covered' /\ LastSafe <= LastSafe'
    BY <1>1, <1>2, <1>3, LoggedInv
<1>5. Marking'
    BY <1>1, <1>2, <1>3 DEF Marking, InCheckpoint
<1>6. ASSUME Covered, MarkerSafe PROVE MarkerSafe'
    <2>1. Good(writer) /\ Good(writer') /\ LastSafe <= LastSafe'
        BY <1>4, <1>6 DEF IInv, Files
    <2>2. marker <= LastSafe'
        <3>1. CASE Sync = "on"
            <4>1. marker <= LastSafe
                BY <1>1, <1>6, <3>1 DEF MarkerSafe, MarkerReturned
            <4> QED BY <1>2, <2>1, <4>1, Levels, LevelsNext
        <3>2. CASE Sync # "on"
            <4>1. Safe(segs') = Stored' /\ Stored' = Written'
                BY <1>3, <2>1, <3>2, LevelsNext, Contents DEF Careful, Safe
            <4>2. LastSafe' = LastWritten'
                BY <4>1 DEF LastSafe, LastWritten, Highest, Safe, OnFile, Durable, Hard
            <4> QED BY <1>1, <1>2, <1>3, <4>2 DEF Logged
        <3> QED BY <3>1, <3>2
    <2> QED BY <1>1, <1>3, <2>2 DEF MarkerSafe
<1> QED BY <1>1, <1>4, <1>5, <1>6 DEF IInv

LEMMA CkptFlushFailsInv ==
    ASSUME IInv, CkptFlushFails
    PROVE  IInv'
<1>1. /\ pc = "ckptFlush" /\ pc' = "idle" /\ marker' = 0
      /\ UNCHANGED <<segs, buf, open, lastLsn, status, fresh, promised>> /\ UNCHANGED <<disk, mem, replayed, olds, outran>>
    BY DEF CkptFlushFails, walVars
<1>2. /\ writer' = writer /\ Written' = Written /\ LastWritten' = LastWritten /\ LastSafe' = LastSafe
      /\ status = "up" /\ (Kept => Kept')
    <2>1. writer' = writer /\ Written' = Written
        BY <1>1, Contents DEF writer
    <2>2. LastSafe' = LastSafe
        BY <1>1 DEF LastSafe, Highest, Safe, OnFile, Durable, Hard
    <2>3. Kept => Kept'
        BY <1>1, <2>1, KeptNext DEF Kept
    <2> QED BY <1>1, <2>1, <2>2, <2>3 DEF LastWritten, IInv, Phase, InCheckpoint
<1>3. TypeOK' /\ Files' /\ Phase' /\ OutranOnly' /\ RecoveryComplete'
    BY <1>1, <1>2 DEF IInv, TypeOK, WalTypeOK, Phases, Files, Phase, InCheckpoint, OutranOnly, RecoveryComplete
<1>4. Marking' /\ MarkerSafe'
    BY <1>1 DEF Marking, InCheckpoint, MarkerSafe
<1>5. Covered => Covered'
    BY <1>1, <1>2 DEF Covered
<1> QED BY <1>1, <1>3, <1>4, <1>5 DEF IInv

LEMMA LogOpInv ==
    ASSUME IInv, Careful, LogOp
    PROVE  IInv'
<1>1. pc = "idle" /\ pc' = "idle" /\ UNCHANGED <<disk, mem, marker, replayed, olds, outran>>
    BY DEF LogOp
<1>2. Logged /\ status = "up"
    <2>1. ASSUME NEW kind \in Kinds, WalAppend(kind) PROVE Logged /\ status = "up"
        BY <2>1, AppendStep DEF IInv, WalAppend
    <2>2. CASE WalFlush
        BY <2>2, FlushStep DEF IInv, WalFlush
    <2>3. CASE WalClose
        BY <2>3, CloseStep DEF IInv, WalClose
    <2> QED BY <2>1, <2>2, <2>3 DEF LogOp
<1>3. marker' \in Nat
    BY <1>1 DEF IInv, TypeOK
<1>4. /\ TypeOK' /\ Files' /\ Phase' /\ OutranOnly' /\ RecoveryComplete'
      /\ Covered => Covered'
    BY <1>1, <1>2, <1>3, LoggedInv
<1>5. Marking' /\ MarkerSafe'
    BY <1>1 DEF Marking, InCheckpoint, MarkerSafe
<1> QED BY <1>1, <1>4, <1>5 DEF IInv

(* Steps of an open log in the middle of a checkpoint that keep the open       *)
(* segment and its records.                                                    *)
LEMMA MarkingKept ==
    ASSUME IInv, Logged, UNCHANGED <<disk, marker>>, pc' = pc \/ pc' = "idle",
           InCheckpoint => open' = TRUE /\ Ending(writer') # {},
           pc \in {"ckptManifest", "ckptTruncate"} /\ ~Concurrent => buf' = <<>> /\ fresh' = {}
    PROVE  Marking'
<1>1. CASE pc' = "idle"
    BY <1>1 DEF Marking, InCheckpoint
<1>2. CASE pc' = pc
    <2>1. lastLsn \in Nat /\ lastLsn' \in Nat /\ lastLsn <= lastLsn' /\ marker \in Nat
        <3>1. Good(writer') /\ lastLsn' = LastWritten'
            BY DEF Logged, Files
        <3> QED BY <3>1, LevelsNext DEF Logged, IInv, TypeOK, WalTypeOK
    <2>2. InCheckpoint => marker' <= lastLsn'
        BY <2>1 DEF IInv, Marking
    <2>3. /\ InCheckpoint' = InCheckpoint
          /\ InCheckpoint => disk'.ckpt <= marker'
          /\ pc' = "ckptTruncate" => disk'.ckpt = marker'
          /\ pc' \in {"ckptManifest", "ckptTruncate"} => pc \in {"ckptManifest", "ckptTruncate"}
        BY <1>2 DEF IInv, Marking, InCheckpoint
    <2> QED BY <2>2, <2>3 DEF Marking
<1> QED BY <1>1, <1>2

LEMMA ConcurrentAppendInv ==
    ASSUME IInv, Careful, ConcurrentAppend
    PROVE  IInv'
<1>1. PICK kind \in Kinds : WalAppend(kind)
    BY DEF ConcurrentAppend
<1>2. /\ Concurrent /\ pc \in {"ckptFlush", "ckptManifest", "ckptTruncate"} /\ pc' = pc
      /\ UNCHANGED <<disk, mem, marker, replayed, olds, outran>> /\ status = "up"
    BY <1>1 DEF ConcurrentAppend, WalAppend
<1>3. /\ Logged /\ lastLsn' = lastLsn + 1 /\ open' = TRUE /\ Ending(writer') # {}
      /\ fresh' = fresh \cup {Record(lastLsn + 1, kind)} /\ (Sync = "on" => fresh = {})
    BY <1>1, <1>2, AppendStep DEF IInv
<1>4. lastLsn \in Nat /\ marker \in Nat /\ marker <= lastLsn
    BY <1>2 DEF IInv, TypeOK, WalTypeOK, Marking, InCheckpoint
<1>5. /\ TypeOK' /\ Files' /\ Phase' /\ OutranOnly' /\ RecoveryComplete'
      /\ Covered => Covered' /\ LastSafe <= LastSafe'
    BY <1>2, <1>3, <1>4, LoggedInv
<1>6. Marking'
    BY <1>2, <1>3, MarkingKept
<1>7. ASSUME Covered, MarkerSafe PROVE MarkerSafe'
    <2>1. LastSafe \in Nat /\ LastSafe' \in Nat /\ LastSafe <= LastSafe'
        BY <1>5, <1>7, Levels, LevelsNext DEF IInv, Files
    <2>2. pc = "ckptFlush" /\ Sync = "on" => marker <= LastSafe
        BY <1>3, <1>7 DEF MarkerSafe
    <2>3. \A r \in fresh' : r \in fresh \/ r.lsn > marker
        BY <1>3, <1>4 DEF Record
    <2> QED BY <1>2, <1>4, <1>7, <2>1, <2>2, <2>3 DEF MarkerSafe
<1> QED BY <1>2, <1>5, <1>6, <1>7 DEF IInv

LEMMA BufferSpillsInv ==
    ASSUME IInv, BufferSpills
    PROVE  IInv'
<1>1. WalOsFlush /\ UNCHANGED <<disk, mem, pc, marker, replayed, olds, outran>> /\ status = "up"
    BY DEF BufferSpills, WalOsFlush
<1>2. /\ Logged /\ UNCHANGED <<open, fresh, promised>> /\ buf # <<>>
      /\ open => Ending(writer') = Ending(writer)
    BY <1>1, OsFlushStep DEF IInv
<1>3. marker \in Nat /\ open \in BOOLEAN /\ (pc = "idle" \/ InCheckpoint)
    BY <1>1 DEF IInv, TypeOK, WalTypeOK, Phase
<1>4. /\ TypeOK' /\ Files' /\ Phase' /\ OutranOnly' /\ RecoveryComplete'
      /\ Covered => Covered' /\ LastSafe <= LastSafe'
    BY <1>1, <1>2, <1>3, LoggedInv DEF InCheckpoint
<1>5. Marking'
    <2>1. InCheckpoint => open' = TRUE /\ Ending(writer') # {}
        BY <1>2, <1>3 DEF IInv, Marking
    <2>2. ~(pc \in {"ckptManifest", "ckptTruncate"} /\ ~Concurrent)
        BY <1>2 DEF IInv, Marking
    <2> QED BY <1>1, <1>2, <2>1, <2>2, MarkingKept
<1>6. ASSUME Covered, MarkerSafe PROVE MarkerSafe'
    <2>1. LastSafe \in Nat /\ LastSafe' \in Nat /\ LastSafe <= LastSafe'
        BY <1>4, <1>6, Levels, LevelsNext DEF IInv, Files
    <2> QED BY <1>1, <1>2, <1>3, <1>6, <2>1 DEF MarkerSafe
<1> QED BY <1>1, <1>4, <1>5, <1>6 DEF IInv

(* An append that returns leaves its record, a marker or not, safe.            *)
LEMMA AppendReturnsInv ==
    ASSUME IInv, Careful, AppendReturns
    PROVE  IInv'
<1>1. Sync = "on" /\ fresh # {} /\ WalFlush /\ UNCHANGED <<disk, mem, pc, marker, replayed, olds, outran>> /\ status = "up"
    BY DEF AppendReturns, WalSync, WalFlush
<1>2. /\ Logged /\ open' = open
      /\ open => buf' = <<>> /\ fresh' = {} /\ promised' = promised \cup fresh /\ Ending(writer') = Ending(writer)
    BY <1>1, FlushStep DEF IInv
<1>3. marker \in Nat /\ open \in BOOLEAN /\ (pc = "idle" \/ InCheckpoint)
    BY <1>1 DEF IInv, TypeOK, WalTypeOK, Phase
<1>4. /\ TypeOK' /\ Files' /\ Phase' /\ OutranOnly' /\ RecoveryComplete'
      /\ Covered => Covered' /\ LastSafe <= LastSafe'
    BY <1>1, <1>2, <1>3, LoggedInv DEF InCheckpoint
<1>5. Marking'
    <2>1. InCheckpoint => open' = TRUE /\ Ending(writer') # {} /\ buf' = <<>> /\ fresh' = {}
        BY <1>2, <1>3 DEF IInv, Marking
    <2> QED BY <1>1, <1>2, <2>1, MarkingKept DEF InCheckpoint
<1>6. ASSUME Covered, MarkerSafe PROVE MarkerSafe'
    <2>1. LastSafe \in Nat /\ LastSafe' \in Nat /\ LastSafe <= LastSafe' /\ \A e \in Safe(segs') : e.lsn <= LastSafe'
        BY <1>4, <1>6, Levels, LevelsNext DEF IInv, Files
    <2>2. fresh \subseteq Safe(segs') /\ fresh' = {}
        <3>1. open
            BY <1>1, <1>6 DEF Covered, Kept
        <3>2. promised' \subseteq Safe(segs')
            <4>1. Kept'
                BY <1>4, <1>6 DEF Covered
            <4> QED BY <4>1 DEF Kept, Safe, OnFile, Durable, Hard
        <3> QED BY <1>2, <3>1, <3>2
    <2>3. pc = "ckptFlush" => marker <= LastSafe'
        <3> SUFFICES ASSUME pc = "ckptFlush" PROVE marker <= LastSafe'
            OBVIOUS
        <3>1. CASE marker <= LastSafe
            BY <1>3, <2>1, <3>1
        <3>2. CASE \E r \in fresh : r.lsn = marker
            BY <2>1, <2>2, <3>2
        <3> QED BY <1>1, <1>6, <3>1, <3>2 DEF MarkerSafe
    <2>4. pc = "ckptManifest" => marker <= LastSafe'
        BY <1>3, <1>6, <2>1 DEF MarkerSafe
    <2> QED BY <1>1, <2>2, <2>3, <2>4 DEF MarkerSafe
<1> QED BY <1>1, <1>4, <1>5, <1>6 DEF IInv

LEMMA AppendFailsInv ==
    ASSUME IInv, AppendFails
    PROVE  IInv'
<1>1. /\ WalSyncFails /\ UNCHANGED <<disk, mem, replayed, olds, outran>> /\ status = "up"
      /\ IF pc = "ckptFlush" /\ ~MarkerReturned
         THEN pc' = "idle" /\ marker' = 0
         ELSE UNCHANGED <<pc, marker>>
    BY DEF AppendFails, WalSyncFails
<1>2. /\ Logged /\ writer' = writer /\ UNCHANGED <<segs, buf, open, promised>> /\ fresh' = {} /\ Sync = "on"
    BY <1>1, SyncFailsStep DEF IInv
<1>3. marker' \in Nat /\ open \in BOOLEAN /\ pc' \in {"idle", "ckptFlush", "ckptManifest", "ckptTruncate"}
    BY <1>1 DEF IInv, TypeOK, WalTypeOK, Phase, InCheckpoint
<1>4. /\ TypeOK' /\ Files' /\ Phase' /\ OutranOnly' /\ RecoveryComplete'
      /\ Covered => Covered' /\ LastSafe <= LastSafe'
    BY <1>1, <1>2, <1>3, LoggedInv
<1>5. CASE pc = "ckptFlush" /\ ~MarkerReturned
    <2>1. Marking' /\ MarkerSafe'
        BY <1>1, <1>5 DEF Marking, InCheckpoint, MarkerSafe
    <2> QED BY <1>1, <1>4, <2>1 DEF IInv
<1>6. CASE ~(pc = "ckptFlush" /\ ~MarkerReturned)
    <2>1. UNCHANGED <<pc, marker>>
        BY <1>1, <1>6
    <2>2. Marking'
        <3>1. InCheckpoint => open' = TRUE /\ Ending(writer') # {}
            BY <1>2, <1>3 DEF IInv, Marking
        <3>2. pc \in {"ckptManifest", "ckptTruncate"} /\ ~Concurrent => buf' = <<>> /\ fresh' = {}
            BY <1>2 DEF IInv, Marking
        <3> QED BY <1>1, <1>2, <2>1, <3>1, <3>2, MarkingKept
    <2>3. ASSUME Covered, MarkerSafe PROVE MarkerSafe'
        <3>1. LastSafe \in Nat /\ LastSafe' \in Nat /\ LastSafe <= LastSafe' /\ marker \in Nat
            BY <1>4, <2>1, <1>3, <2>3, Levels, LevelsNext DEF IInv, Files
        <3>2. pc = "ckptFlush" => marker <= LastSafe
            BY <1>2, <1>6, <2>3 DEF MarkerSafe, MarkerReturned
        <3> QED BY <1>2, <2>1, <2>3, <3>1, <3>2 DEF MarkerSafe
    <2> QED BY <1>1, <1>4, <2>2, <2>3 DEF IInv
<1> QED BY <1>5, <1>6

(* Once the marker is safe, everything below it is.                            *)
LEMMA CkptManifestInv ==
    ASSUME IInv, Careful, CkptManifest
    PROVE  IInv'
<1>1. /\ pc = "ckptManifest" /\ pc' = "ckptTruncate"
      /\ UNCHANGED <<segs, buf, open, lastLsn, status, fresh, marker, replayed, outran>>
      /\ disk' = [last |-> marker, ckpt |-> marker] /\ mem' = disk'
      /\ olds' \subseteq olds \cup {disk}
      /\ promised' = {r \in promised : r.lsn > marker}
    BY DEF CkptManifest, WriteManifest
<1>2. /\ status = "up" /\ open /\ marker <= lastLsn /\ Ending(writer) # {} /\ marker \in Nat /\ disk.ckpt <= marker
      /\ lastLsn = LastWritten /\ (~Concurrent => buf = <<>> /\ fresh = {})
    BY <1>1 DEF IInv, Marking, Phase, InCheckpoint, TypeOK
<1>3. writer' = writer /\ Stored' = Stored /\ Written' = Written
    BY <1>1, Contents DEF writer
<1>4. LastWritten' = LastWritten /\ LastSafe' = LastSafe
    BY <1>1, <1>3 DEF LastWritten, LastSafe, Highest, Safe, OnFile, Durable, Hard
<1>5. disk' \in [last : Nat, ckpt : Nat] /\ disk'.ckpt = marker /\ olds' \subseteq [last : Nat, ckpt : Nat]
    BY <1>1, <1>2 DEF IInv, TypeOK
<1>6. TypeOK'
    BY <1>1, <1>5 DEF IInv, TypeOK, WalTypeOK, Phases
<1>7. Files'
    BY <1>3 DEF IInv, Files
<1>8. Phase'
    BY <1>1, <1>2, <1>4 DEF Phase, InCheckpoint
<1>9. Marking'
    BY <1>1, <1>2, <1>3, <1>5 DEF Marking, InCheckpoint
<1>10. OutranOnly' /\ RecoveryComplete' /\ MarkerSafe'
    BY <1>1 DEF IInv, OutranOnly, RecoveryComplete, MarkerSafe
<1>11. ASSUME Covered, MarkerSafe PROVE Covered'
    <2>1. promised' \subseteq Safe(segs') /\ fresh' \subseteq Written'
        <3>1. promised \subseteq Safe(segs) /\ fresh \subseteq Written /\ Safe(segs') = Safe(segs)
            BY <1>1, <1>11 DEF Covered, Kept
        <3> QED BY <1>1, <1>3, <3>1
    <2>2. Kept'
        BY <1>1, <1>3, <1>11, <2>1, KeptNext DEF Covered, Kept
    <2>3. marker <= LastSafe /\ \A r \in fresh : r.lsn > marker
        BY <1>1, <1>11 DEF MarkerSafe
    <2>4. ASSUME NEW m \in olds' PROVE m.ckpt <= disk'.ckpt
        <3>1. m.ckpt \in Nat /\ m.ckpt <= disk.ckpt /\ disk.ckpt \in Nat
            BY <1>1, <1>5, <1>11, <2>4 DEF IInv, TypeOK, Covered
        <3> QED BY <1>2, <1>5, <3>1
    <2> QED BY <1>1, <1>4, <1>5, <2>2, <2>3, <2>4 DEF Covered
<1> QED BY <1>1, <1>6, <1>7, <1>8, <1>9, <1>10, <1>11 DEF IInv

(* The files a truncation leaves, whole or part way.                           *)
LEMMA TruncateStep ==
    ASSUME IInv, pc = "ckptTruncate", NEW n \in 0..marker
    PROVE  LET t == TruncateBefore(writer, n)
           IN  /\ Good(t) /\ t.buf = buf /\ t.open = TRUE /\ t \in Writers /\ Ending(t) = Ending(writer)
               /\ OnFile(t.segs) \subseteq Stored /\ \A e \in Stored \ OnFile(t.segs) : e.lsn <= n
               /\ \A e \in Safe(segs) \ Safe(t.segs) : e.lsn <= n
               /\ Covered => promised \subseteq Safe(t.segs)
               /\ Highest(All(t)) = LastWritten
<1> DEFINE t == TruncateBefore(writer, n)
<1>1. /\ Good(writer) /\ open /\ Ending(writer) # {} /\ n \in Nat /\ disk.ckpt = marker /\ n <= marker /\ marker \in Nat
    BY DEF IInv, Files, Marking, InCheckpoint, TypeOK
<1>2. /\ Good(t) /\ t.buf = buf /\ t.open = TRUE /\ Ending(t) = Ending(writer)
      /\ OnFile(t.segs) \subseteq Stored /\ \A e \in Stored \ OnFile(t.segs) : e.lsn <= n
      /\ \A e \in Durable(segs) \ Durable(t.segs) : e.lsn <= n
      /\ Highest(All(t)) = Highest(Written)
    BY <1>1, TruncateKeeps, Contents
<1> HIDE DEF t
<1>3. \A e \in Safe(segs) \ Safe(t.segs) : e.lsn <= n
    BY <1>2, Contents DEF Safe
<1>4. Covered => promised \subseteq Safe(t.segs)
    <2> SUFFICES ASSUME Covered, NEW r \in promised, r \notin Safe(t.segs) PROVE FALSE
        OBVIOUS
    <2>1. r \in Safe(segs) /\ r.lsn > marker /\ r.lsn \in Nat
        BY <1>1, Levels DEF Covered, Kept
    <2>2. r.lsn <= n
        BY <1>3, <2>1
    <2> QED BY <1>1, <2>1, <2>2
<1> QED BY <1>1, <1>2, <1>3, <1>4 DEF t, LastWritten, Good, Writers

(* Without concurrent appends and power failures the end of the log stays.     *)
LEMMA TruncateLevel ==
    ASSUME IInv, pc = "ckptTruncate", NEW n \in 0..marker, ~Concurrent, "power" \notin CrashModes
    PROVE  Highest(Safe(TruncateBefore(writer, n).segs)) = LastWritten /\ disk.ckpt <= LastWritten
<1> DEFINE t == TruncateBefore(writer, n)
<1>1. buf = <<>> /\ disk.ckpt = marker /\ marker <= lastLsn /\ lastLsn = LastWritten
    BY DEF IInv, Marking, InCheckpoint, Phase
<1>2. t.buf = <<>> /\ Highest(All(t)) = LastWritten
    BY <1>1, TruncateStep
<1> HIDE DEF t
<1>3. Safe(t.segs) = All(t)
    BY <1>2, EmptyBuffer DEF Safe
<1> QED BY <1>1, <1>2, <1>3 DEF t

(* A checkpoint that outruns the log has been within it before.                *)
LEMMA OutranStep ==
    ASSUME IInv, NEW c \in Nat, NEW ss, NoteOutran(c, ss)
    PROVE  (outran' <=> outran \/ c > Highest(Safe(ss))) /\ outran' \in BOOLEAN
<1>1. outran \in BOOLEAN /\ (outran \/ disk.ckpt <= Highest(Safe(segs)))
    BY DEF IInv, TypeOK, Covered, LastSafe
<1>2. outran' = (outran \/ (disk.ckpt <= Highest(Safe(segs)) /\ c > Highest(Safe(ss))))
    BY DEF NoteOutran
<1>3. outran' \in BOOLEAN
    BY <1>2
<1> QED BY <1>1, <1>2, <1>3

LEMMA CkptTruncateInv ==
    ASSUME IInv, Careful, CkptTruncate
    PROVE  IInv'
<1> DEFINE t == TruncateBefore(writer, marker)
<1>1. /\ pc = "ckptTruncate" /\ Install(t) /\ pc' = "idle" /\ marker' = 0 /\ NoteOutran(disk.ckpt, segs')
      /\ UNCHANGED <<lastLsn, status, fresh, promised, disk, mem, replayed, olds>>
    BY DEF CkptTruncate
<1>2. status = "up" /\ marker \in Nat /\ marker \in 0..marker /\ mem = disk /\ lastLsn = LastWritten /\ Good(writer) /\ disk.ckpt = marker /\ open
    BY <1>1 DEF IInv, Marking, Phase, InCheckpoint, TypeOK, Files
<1>3. /\ Good(t) /\ t.buf = buf /\ t.open = TRUE /\ t \in Writers /\ Ending(t) = Ending(writer)
      /\ OnFile(t.segs) \subseteq Stored /\ (Covered => promised \subseteq Safe(t.segs))
      /\ Highest(All(t)) = LastWritten
    BY <1>1, <1>2, TruncateStep
<1>4. ~Concurrent /\ "power" \notin CrashModes => Highest(Safe(t.segs)) = LastWritten /\ disk.ckpt <= LastWritten
    BY <1>1, <1>2, TruncateLevel
<1> HIDE DEF t
<1>5. writer' = t /\ buf' = buf /\ segs' = t.segs /\ open' = TRUE /\ Stored' = OnFile(t.segs) /\ Written' = All(t)
    BY <1>1, <1>3, Installed, Contents
<1>6. LastWritten' = LastWritten /\ LastSafe' = Highest(Safe(segs'))
    BY <1>3, <1>5 DEF LastWritten, LastSafe, Highest, Safe, OnFile, Durable, Hard
<1>7. Written' \subseteq Written
    BY <1>3, <1>5, Contents DEF All
<1>8. Files'
    BY <1>3, <1>5, <1>7 DEF IInv, Files
<1>9. (outran' <=> outran \/ disk.ckpt > LastSafe') /\ outran' \in BOOLEAN /\ LastSafe' \in Nat /\ LastWritten \in Nat /\ disk.ckpt \in Nat
    <2>1. (outran' <=> outran \/ disk.ckpt > LastSafe') /\ outran' \in BOOLEAN
        BY <1>1, <1>2, <1>6, OutranStep
    <2> QED BY <1>2, <1>3, <1>5, <2>1, Levels, LevelsNext
<1>10. TypeOK'
    BY <1>1, <1>3, <1>5, <1>9, TypedFiles DEF IInv, TypeOK, WalTypeOK, Phases
<1>11. Phase'
    BY <1>1, <1>2, <1>6 DEF Phase, InCheckpoint
<1>12. Marking' /\ RecoveryComplete' /\ MarkerSafe'
    BY <1>1 DEF Marking, InCheckpoint, RecoveryComplete, MarkerSafe
<1>13. OutranOnly'
    <2> SUFFICES ASSUME ~Concurrent, "power" \notin CrashModes PROVE ~outran'
        BY DEF OutranOnly
    <2>1. LastSafe' = LastWritten /\ disk.ckpt <= LastWritten
        BY <1>4, <1>5, <1>6
    <2>2. ~outran
        BY DEF OutranOnly, IInv
    <2>3. ~(disk.ckpt > LastSafe')
        BY <1>9, <2>1
    <2> QED BY <1>9, <2>2, <2>3
<1>14. ASSUME ~outran' PROVE Covered'
    <2>1. Covered /\ disk.ckpt <= LastSafe'
        <3>1. ~outran /\ ~(disk.ckpt > LastSafe')
            BY <1>9, <1>14
        <3> QED BY <1>9, <3>1 DEF IInv
    <2>2. fresh \subseteq All(t)
        <3> SUFFICES ASSUME NEW r \in fresh, r \notin All(t) PROVE FALSE
            OBVIOUS
        <3>1. r \in Written /\ r.lsn > marker /\ r.lsn \in Nat
            BY <1>2, <2>1, Levels DEF Covered, Kept
        <3>2. r \in Stored /\ r \notin OnFile(t.segs)
            BY <1>3, <3>1, Contents DEF All
        <3>3. r.lsn <= marker
            BY <1>1, <1>2, <3>2, TruncateStep DEF t
        <3> QED BY <1>2, <3>1, <3>3
    <2>3. Kept'
        <3>1. promised' \subseteq Safe(segs') /\ fresh' \subseteq Written'
            BY <1>1, <1>3, <1>5, <2>1, <2>2
        <3>2. Sync = "on" /\ fresh' # {} => fresh' \subseteq Ending(writer')
            BY <1>1, <1>3, <1>5, <2>1 DEF Covered, Kept
        <3> QED BY <1>5, <3>1, <3>2, KeptNext
    <2> QED BY <1>1, <2>1, <2>3 DEF Covered
<1> QED BY <1>8, <1>10, <1>11, <1>12, <1>13, <1>14 DEF IInv, TypeOK

-----------------------------------------------------------------------------
(* Crashes.                                                                    *)

(* What every crash leaves: a log whose safe part still holds what was         *)
(* promised and reaches the checkpoint.                                        *)
Survives ==
    /\ GoDown /\ Good(writer') /\ Stored' \subseteq Written
    /\ Covered /\ ~outran' => promised \subseteq Safe(segs') /\ disk.ckpt <= LastSafe'

(* What a crash of the process alone leaves: all that was in the files and is  *)
(* not yet covered by the checkpoint, and of the rest at most a beginning.     *)
Whole ==
    /\ LastStored <= LastStored'
    /\ \A e \in Written \ Stored' : e.lsn <= disk.ckpt \/ e.lsn > LastStored'

LEMMA CrashInv ==
    ASSUME IInv, Survives, pc' = "crashed", replayed' = {}, mem' = [last |-> 0, ckpt |-> 0], marker' = 0,
           UNCHANGED <<disk, olds>> \/ (disk' \in olds \cup {disk} /\ olds' = {}),
           outran => outran', outran' \in BOOLEAN, OutranOnly'
    PROVE  IInv'
<1>1. status' = "down" /\ buf' = <<>> /\ open' = FALSE /\ lastLsn' = 0 /\ fresh' = {} /\ promised' = promised
    BY DEF Survives, GoDown
<1>2. Good(writer') /\ Written' = Stored' /\ Stored' \subseteq Written
    BY <1>1, LevelsNext DEF Survives
<1>3. Files'
    BY <1>2 DEF Files, IInv
<1>4. TypeOK'
    BY <1>1, <1>2, TypedFiles DEF IInv, TypeOK, WalTypeOK, Phases
<1>5. Phase' /\ Marking' /\ RecoveryComplete' /\ MarkerSafe'
    BY <1>1 DEF Phase, Marking, InCheckpoint, RecoveryComplete, MarkerSafe
<1>6. ASSUME ~outran' PROVE Covered'
    <2>1. Covered /\ promised \subseteq Safe(segs') /\ disk.ckpt <= LastSafe'
        BY <1>6 DEF IInv, Survives
    <2>2. Kept'
        BY <1>1, <2>1, KeptNext
    <2>3. disk'.ckpt <= disk.ckpt /\ disk'.ckpt \in Nat /\ disk.ckpt \in Nat /\ \A m \in olds' : m.ckpt <= disk'.ckpt
        BY <2>1 DEF Covered, IInv, TypeOK
    <2>4. LastSafe' \in Nat
        BY <1>2, LevelsNext
    <2>5. \A r \in promised' \cup fresh' : r.lsn > disk'.ckpt
        <3> SUFFICES ASSUME NEW r \in promised PROVE r.lsn > disk'.ckpt
            BY <1>1
        <3>1. r.lsn \in Nat /\ r.lsn > disk.ckpt
            BY <2>1 DEF Covered, IInv, TypeOK, WalTypeOK, Entry
        <3> QED BY <2>3, <3>1
    <2> QED BY <2>1, <2>2, <2>3, <2>4, <2>5 DEF Covered
<1> QED BY <1>3, <1>4, <1>5, <1>6 DEF IInv

(* The files after a crash, as a writer.                                       *)
LEMMA AfterCrash ==
    ASSUME GoDown, segs' \in Seq(Segment)
    PROVE  LET v == [segs |-> segs', buf |-> <<>>, open |-> FALSE]
           IN  /\ v \in Writers /\ v.segs = segs' /\ v.buf = <<>> /\ v.open = FALSE /\ writer' = v
<1>1. buf' = <<>> /\ open' = FALSE
    BY DEF GoDown
<1>2. writer' = [segs |-> segs', buf |-> <<>>, open |-> FALSE]
    BY <1>1 DEF writer
<1> QED BY <1>2 DEF Writers

LEMMA CrashLeaves ==
    ASSUME IInv, GoDown, NEW w, Good(w), segs' \in Seq(Segment), SameRecs(w.segs, segs'), Synced(segs'),
           Stored \subseteq OnFile(w.segs), Durable(segs) \subseteq Durable(segs'), All(w) = Written
    PROVE  Survives /\ Whole
<1>1. Good(writer') /\ Stored' = OnFile(w.segs)
    <2>1. PICK v \in Writers : v.segs = segs' /\ v.buf = <<>> /\ v.open = FALSE /\ writer' = v
        BY AfterCrash
    <2>2. Good(v) /\ OnFile(v.segs) = OnFile(w.segs)
        BY <2>1, DownGood
    <2> QED BY <2>1, <2>2, Contents
<1>2. Good(writer) /\ Stored \subseteq Stored' /\ Stored' \subseteq Written
    BY <1>1, AllTyped DEF IInv, Files
<1>3. LastStored <= LastStored'
    BY <1>1, <1>2, Grows
<1>4. Safe(segs) \subseteq Safe(segs')
    BY <1>2, Contents, SafeGrows
<1>5. Covered => promised \subseteq Safe(segs') /\ disk.ckpt <= LastSafe'
    <2> SUFFICES ASSUME Covered PROVE promised \subseteq Safe(segs') /\ disk.ckpt <= LastSafe'
        OBVIOUS
    <2>1. LastSafe <= LastSafe' /\ LastSafe \in Nat /\ LastSafe' \in Nat
        BY <1>1, <1>2, <1>4, SafeHigher, Levels, LevelsNext
    <2>2. promised \subseteq Safe(segs) /\ disk.ckpt <= LastSafe /\ disk.ckpt \in Nat
        BY DEF Covered, Kept, IInv, TypeOK
    <2> QED BY <1>4, <2>1, <2>2
<1>6. ASSUME NEW e \in Written \ Stored' PROVE e.lsn > LastStored'
    <2>1. e \in ToSet(w.buf) /\ e.lsn \in Nat /\ e.lsn > 0
        BY <1>1, <1>2, Levels DEF All, IInv, Files
    <2>2. CASE Stored' = {}
        BY <2>1, <2>2 DEF LastStored, Highest
    <2>3. CASE Stored' # {}
        <3>1. Top(Stored') /\ Stored' \subseteq Entry
            BY <1>1, <1>2, Levels DEF Good
        <3>2. PICK f \in Stored' : f.lsn = Highest(Stored')
            BY <2>3, <3>1, HighestOf
        <3>3. f.lsn < e.lsn /\ f.lsn \in Nat
            BY <1>1, <1>2, <2>1, Levels DEF Good, Below
        <3> QED BY <2>1, <3>2, <3>3 DEF LastStored
    <2> QED BY <2>2, <2>3
<1> QED BY <1>1, <1>2, <1>3, <1>5, <1>6 DEF Survives, Whole

LEMMA KillSurvives ==
    ASSUME IInv, Kill
    PROVE  Survives /\ Whole
<1>1. GoDown /\ segs' = segs
    BY DEF Kill
<1>2. Good(writer) /\ segs \in Seq(Segment) /\ Synced(segs)
    BY Contents DEF IInv, Files, TypeOK, WalTypeOK, Good
<1>3. SameRecs(writer.segs, segs') /\ OnFile(writer.segs) = Stored /\ All(writer) = Written
    BY <1>1, Contents DEF SameRecs
<1> QED BY <1>1, <1>2, <1>3, CrashLeaves

LEMMA KillInCreateSurvives ==
    ASSUME IInv, NEW kind \in Kinds, KillInCreate(kind)
    PROVE  Survives /\ Whole
<1> DEFINE w == EnsureSegment(writer, Size[kind])
           n == Len(w.segs)
           s == [w.segs[n] EXCEPT !.hdr = FALSE]
<1>1. GoDown /\ segs' = [w.segs EXCEPT ![n].hdr = FALSE]
    BY DEF KillInCreate
<1>2. Good(writer)
    BY DEF IInv, Files
<1>3. Keeps(writer, w) /\ w.open = TRUE
    BY <1>2, EnsureKeeps
<1>4. /\ Good(w) /\ All(w) = Written /\ Stored \subseteq OnFile(w.segs) /\ Synced(w.segs) /\ w.segs # <<>>
      /\ Durable(segs) \subseteq Durable(w.segs)
    BY <1>2, <1>3, Contents, Levels DEF Keeps, Good
<1> HIDE DEF w
<1>5. w.segs \in Seq(Segment) /\ n \in 1..n /\ DOMAIN w.segs = 1..n /\ w.segs[n] \in Segment
    BY <1>4, LastOfOpen
<1>6. s \in Segment /\ s.recs = w.segs[n].recs /\ s.synced = w.segs[n].synced
    BY <1>5 DEF Segment
<1>7. segs' = [w.segs EXCEPT ![n] = s]
    BY <1>1, <1>5
<1> HIDE DEF s
<1>8. /\ segs' \in Seq(Segment) /\ DOMAIN segs' = 1..n /\ segs'[n] = s
      /\ \A i \in 1..n : i # n => segs'[i] = w.segs[i]
    BY <1>5, <1>6, <1>7, ReplacedSeq
<1>9. \A i \in 1..n : segs'[i].recs = w.segs[i].recs /\ segs'[i].synced = w.segs[i].synced
    BY <1>6, <1>8
<1>10. SameRecs(w.segs, segs') /\ Synced(segs')
    BY <1>4, <1>5, <1>8, <1>9 DEF SameRecs, Synced
<1>11. Durable(segs) \subseteq Durable(segs')
    <2>1. \A i \in 1..n : Hard(w.segs[i]) \subseteq Hard(segs'[i])
        BY <1>9 DEF Hard
    <2>2. Durable(w.segs) \subseteq Durable(segs')
        BY <1>5, <1>8, <2>1, DurableGrows
    <2> QED BY <1>4, <2>2
<1> QED BY <1>1, <1>4, <1>8, <1>10, <1>11, CrashLeaves

LEMMA PowerLossSurvives ==
    ASSUME IInv, Careful, PowerLoss
    PROVE  Survives
<1>1. "power" \in CrashModes /\ "tear" \notin CrashModes /\ GoDown
    BY DEF Careful, PowerLoss
<1>2. Good(writer) /\ segs \in Seq(Segment) /\ Synced(segs)
    BY Contents DEF IInv, Files, TypeOK, WalTypeOK, Good
<1>3. PICK left \in [DOMAIN segs -> UNION {Remains(segs[i]) : i \in DOMAIN segs}] :
          (\A i \in DOMAIN segs : left[i] \in Remains(segs[i])) /\ segs' = left
    BY DEF PowerLoss
<1>4. ASSUME NEW i \in DOMAIN segs
      PROVE  /\ segs'[i] \in Segment
             /\ \E k \in segs[i].synced..Len(segs[i].recs) :
                    segs'[i].recs = SubSeq(segs[i].recs, 1, k) /\ segs'[i].synced = k /\ Len(segs'[i].recs) = k
    <2>1. PICK s \in Segment : s = segs[i] /\ s.synced <= Len(s.recs)
        BY <1>2, FilesTyped DEF Synced
    <2>2. PICK l \in Remains(s) : l = segs'[i]
        BY <1>3, <2>1
    <2>3. \E k \in s.synced..Len(s.recs) : l \in Segment /\ l.recs = SubSeq(s.recs, 1, k) /\ l.synced = k /\ Len(l.recs) = k
        BY <1>1, <2>1, RemainsHard
    <2> QED BY <2>1, <2>2, <2>3
<1>5. DOMAIN segs' = DOMAIN segs /\ segs' = [i \in DOMAIN segs |-> segs'[i]]
    BY <1>3
<1>6. segs' \in Seq(Segment)
    <2>1. PICK n \in Nat : DOMAIN segs = 1..n
        BY <1>2
    <2>2. segs' \in [1..n -> Segment]
        BY <1>4, <1>5, <2>1
    <2> QED BY <2>2
<1>7. Cut(segs, segs')
    BY <1>4, <1>5, <1>6 DEF Cut
<1>8. PICK v \in Writers : v.segs = segs' /\ v.buf = <<>> /\ v.open = FALSE /\ writer' = v
    BY <1>1, <1>6, AfterCrash
<1>9. Good(writer') /\ Stored' \subseteq Stored /\ Durable(segs) \subseteq Durable(segs')
    <2>1. Good(v) /\ OnFile(v.segs) \subseteq OnFile(writer.segs) /\ Durable(writer.segs) \subseteq Durable(v.segs)
        BY <1>2, <1>7, <1>8, CutGood, Contents
    <2> QED BY <1>8, <2>1, Contents
<1>10. Safe(segs) \subseteq Safe(segs')
    BY <1>1, <1>9 DEF Safe
<1>11. LastSafe <= LastSafe' /\ LastSafe \in Nat /\ LastSafe' \in Nat /\ Stored \subseteq Written
    BY <1>2, <1>9, <1>10, SafeHigher, Levels, LevelsNext
<1>12. Covered => promised \subseteq Safe(segs') /\ disk.ckpt <= LastSafe'
    <2>1. disk.ckpt \in Nat
        BY DEF IInv, TypeOK
    <2> QED BY <1>10, <1>11, <2>1 DEF Covered, Kept
<1> QED BY <1>1, <1>9, <1>11, <1>12 DEF Survives

LEMMA TruncateSurvives ==
    ASSUME IInv, CrashInTruncate
    PROVE  /\ Survives /\ (outran => outran') /\ outran' \in BOOLEAN /\ OutranOnly'
           /\ ~Concurrent /\ "power" \notin CrashModes => Whole
<1>1. PICK n \in 0..marker : segs' = TruncateBefore(writer, n).segs
    BY DEF CrashInTruncate
<1> DEFINE t == TruncateBefore(writer, n)
<1>2. pc = "ckptTruncate" /\ NoteOutran(disk.ckpt, segs') /\ GoDown
    BY DEF CrashInTruncate
<1>3. /\ Good(t) /\ t.segs = segs' /\ t.segs \in Seq(Segment) /\ t.buf = buf
      /\ OnFile(t.segs) \subseteq Stored /\ (\A e \in Stored \ OnFile(t.segs) : e.lsn <= n)
      /\ Covered => promised \subseteq Safe(t.segs)
    BY <1>1, <1>2, TruncateStep DEF Writers
<1>4. ~Concurrent /\ "power" \notin CrashModes => Highest(Safe(t.segs)) = LastWritten /\ disk.ckpt <= LastWritten
    BY <1>2, TruncateLevel
<1> HIDE DEF t
<1>5. Good(writer') /\ Stored' = OnFile(t.segs)
    <2>1. PICK v \in Writers : v.segs = segs' /\ v.buf = <<>> /\ v.open = FALSE /\ writer' = v
        BY <1>2, <1>3, AfterCrash
    <2>2. SameRecs(t.segs, v.segs) /\ Synced(v.segs)
        BY <1>3, <2>1 DEF SameRecs, Good
    <2>3. Good(v) /\ OnFile(v.segs) = OnFile(t.segs)
        BY <1>3, <2>1, <2>2, DownGood
    <2> QED BY <2>1, <2>3, Contents
<1>6. /\ Good(writer) /\ disk.ckpt = marker /\ marker \in Nat /\ n \in Nat /\ n <= marker
      /\ ~Concurrent => buf = <<>>
    BY <1>2 DEF IInv, Files, Marking, TypeOK
<1>7. LastSafe' = Highest(Safe(segs')) /\ LastSafe' \in Nat
    BY <1>5, LevelsNext DEF LastSafe, Highest, Safe, OnFile, Durable, Hard
<1>8. (outran' <=> outran \/ disk.ckpt > LastSafe') /\ outran' \in BOOLEAN
    BY <1>2, <1>6, <1>7, OutranStep
<1>9. Survives
    <2>1. Stored' \subseteq Written
        BY <1>3, <1>5, <1>6, Levels
    <2>2. ~outran' => disk.ckpt <= LastSafe'
        BY <1>6, <1>7, <1>8
    <2> QED BY <1>2, <1>3, <1>5, <2>1, <2>2 DEF Survives
<1>10. OutranOnly'
    <2> SUFFICES ASSUME ~Concurrent, "power" \notin CrashModes PROVE ~outran'
        BY DEF OutranOnly
    <2>1. ~outran
        BY DEF OutranOnly, IInv
    <2>2. ~(disk.ckpt > LastSafe')
        BY <1>3, <1>4, <1>6, <1>7
    <2> QED BY <1>8, <2>1, <2>2
<1>11. ASSUME ~Concurrent, "power" \notin CrashModes PROVE Whole
    <2>1. Written = Stored /\ LastStored = LastWritten
        <3>1. Written = Stored
            BY <1>6, <1>11, Levels
        <3> QED BY <3>1 DEF LastStored, LastWritten
    <2>2. LastStored' = LastWritten
        <3>1. LastStored' = Highest(Safe(t.segs))
            BY <1>5, <1>11 DEF LastStored, Safe
        <3> QED BY <1>4, <1>11, <3>1
    <2>3. LastStored <= LastStored'
        BY <1>6, <2>1, <2>2, Levels
    <2>4. ASSUME NEW e \in Written \ Stored' PROVE e.lsn <= disk.ckpt
        <3>1. e.lsn <= n /\ e.lsn \in Nat
            BY <1>3, <1>5, <1>6, <2>1, <2>4, Levels
        <3> QED BY <1>6, <3>1
    <2> QED BY <2>3, <2>4 DEF Whole
<1> QED BY <1>8, <1>9, <1>10, <1>11

LEMMA CrashStepInv ==
    ASSUME IInv, Careful, CrashAnywhere \/ PowerLossAnywhere \/ CrashInTruncate
    PROVE  IInv' /\ Survives /\ (~Concurrent /\ "power" \notin CrashModes => Whole)
<1>1. CASE CrashAnywhere
    <2>1. Survives /\ Whole
        BY <1>1, KillSurvives, KillInCreateSurvives DEF CrashAnywhere
    <2>2. /\ pc' = "crashed" /\ replayed' = {} /\ mem' = [last |-> 0, ckpt |-> 0] /\ marker' = 0
          /\ UNCHANGED <<disk, olds, outran>>
        BY <1>1 DEF CrashAnywhere, Forget
    <2>3. outran' \in BOOLEAN /\ OutranOnly' /\ (outran => outran')
        BY <2>2 DEF IInv, TypeOK, OutranOnly
    <2> QED BY <2>1, <2>2, <2>3, CrashInv
<1>2. CASE PowerLossAnywhere
    <2>1. Survives /\ "power" \in CrashModes
        BY <1>2, PowerLossSurvives DEF PowerLossAnywhere, PowerLoss, Careful
    <2>2. /\ pc' = "crashed" /\ replayed' = {} /\ disk' \in olds \cup {disk} /\ olds' = {} /\ outran' = outran
          /\ mem' = [last |-> 0, ckpt |-> 0] /\ marker' = 0
        BY <1>2 DEF PowerLossAnywhere, Forget
    <2>3. outran' \in BOOLEAN /\ OutranOnly' /\ (outran => outran')
        BY <2>2 DEF IInv, TypeOK, OutranOnly
    <2> QED BY <2>1, <2>2, <2>3, CrashInv
<1>3. CASE CrashInTruncate
    <2>1. /\ Survives /\ (outran => outran') /\ outran' \in BOOLEAN /\ OutranOnly'
          /\ ~Concurrent /\ "power" \notin CrashModes => Whole
        BY <1>3, TruncateSurvives
    <2>2. /\ pc' = "crashed" /\ replayed' = {} /\ mem' = [last |-> 0, ckpt |-> 0] /\ marker' = 0
          /\ UNCHANGED <<disk, olds>>
        BY <1>3 DEF CrashInTruncate, Forget
    <2> QED BY <2>1, <2>2, CrashInv
<1> QED BY <1>1, <1>2, <1>3

-----------------------------------------------------------------------------
(* Recovery.                                                                   *)

(* The steps of recovery and of opening leave the files alone.                 *)
LEMMA UnchangedFiles ==
    ASSUME IInv, UNCHANGED <<segs, buf, open>>
    PROVE  /\ Files' /\ Stored' = Stored /\ Written' = Written /\ writer' = writer
           /\ LastStored' = LastStored /\ LastWritten' = LastWritten /\ LastSafe' = LastSafe
<1>1. writer' = writer /\ Stored' = Stored /\ Written' = Written
    BY Contents DEF writer
<1>2. LastStored' = LastStored /\ LastWritten' = LastWritten
    BY <1>1 DEF LastStored, LastWritten
<1>3. LastSafe' = LastSafe
    BY DEF LastSafe, Highest, Safe, OnFile, Durable, Hard
<1> QED BY <1>1, <1>2, <1>3 DEF IInv, Files

LEMMA UnchangedCovered ==
    ASSUME IInv, UNCHANGED <<segs, buf, open, fresh, promised, disk, olds>>
    PROVE  Covered => Covered'
<1>1. Written' = Written /\ writer' = writer /\ LastSafe' = LastSafe
    BY UnchangedFiles
<1>2. Kept => Kept'
    BY <1>1, KeptNext DEF Kept
<1> QED BY <1>1, <1>2 DEF Covered

(* What the reader yields.                                                     *)
LEMMA LogRead ==
    ASSUME IInv
    PROVE  LET log == ReadAll(segs)
           IN  /\ log \in Seq(Entry) /\ ToSet(log) = Stored /\ Ascending(log)
               /\ MaxLsnOf(log) = LastStored /\ LastStored \in Nat
               /\ DOMAIN log = 1..Len(log) /\ Len(log) \in Nat
               /\ \A i \in DOMAIN log : log[i] \in Stored
<1> DEFINE log == ReadAll(segs)
<1>1. Good(writer) /\ writer.segs = segs /\ OnFile(segs) = Stored
    BY Contents DEF IInv, Files
<1>2. segs \in Seq(Segment) /\ Ordered(segs) /\ \A e \in OnFile(segs) : e.want = 0
    BY <1>1, AllTyped DEF Good
<1>3. log \in Seq(Entry) /\ ToSet(log) = Stored /\ Ascending(log)
    BY <1>1, <1>2, ReadsFiles
<1> HIDE DEF log
<1>4. Top(ToSet(log))
    BY <1>1, <1>3 DEF Good
<1>5. MaxLsnOf(log) = LastStored
    BY <1>3, <1>4, LastRead DEF LastStored
<1>6. DOMAIN log = 1..Len(log) /\ Len(log) \in Nat /\ LastStored \in Nat
    BY <1>1, <1>3, Levels
<1>7. \A i \in DOMAIN log : log[i] \in Stored
    BY <1>3 DEF ToSet
<1> QED BY <1>3, <1>5, <1>6, <1>7 DEF log

(* A record above the checkpoint is dispatched: no boundary met before it is   *)
(* at or above its LSN.                                                        *)
LEMMA DispatchedAll ==
    ASSUME IInv, Covered, NEW r \in promised, r.kind # Checkpoint
    PROVE  r \in Dispatched(ReadAll(segs), disk.ckpt)
<1> DEFINE log == ReadAll(segs)
<1>1. /\ log \in Seq(Entry) /\ ToSet(log) = Stored /\ Ascending(log) /\ DOMAIN log = 1..Len(log) /\ Len(log) \in Nat
    BY LogRead
<1> HIDE DEF log
<1>2. r \in Stored /\ r.lsn > disk.ckpt /\ disk.ckpt \in Nat
    BY Levels DEF IInv, Files, Covered, Kept, TypeOK
<1>3. PICK i \in DOMAIN log : r = log[i]
    BY <1>1, <1>2 DEF ToSet
<1> DEFINE b == BoundaryBefore(log, i, disk.ckpt)
<1>4. i \in 1..(Len(log) + 1) /\ i \in 1..Len(log)
    BY <1>1
<1>5. b = disk.ckpt \/ \E j \in 1..(i - 1) : j \in DOMAIN log /\ log[j].lsn = b
    BY <1>1, <1>2, <1>4, BoundaryIs
<1> HIDE DEF b
<1>6. r.lsn > b
    <2>1. CASE b = disk.ckpt
        BY <1>2, <2>1
    <2>2. CASE \E j \in 1..(i - 1) : j \in DOMAIN log /\ log[j].lsn = b
        <3>1. PICK j \in 1..(i - 1) : j \in DOMAIN log /\ log[j].lsn = b
            BY <2>2
        <3>2. j < i
            BY <1>4
        <3>3. log[j].lsn < log[i].lsn
            BY <1>1, <3>1, <3>2 DEF Ascending
        <3>4. log[j] \in Entry /\ log[i] \in Entry
            BY <1>1, <3>1
        <3> QED BY <1>3, <3>1, <3>3, <3>4 DEF Entry
    <2> QED BY <1>5, <2>1, <2>2
<1> QED BY <1>3, <1>6 DEF Dispatched, b, log

LEMMA RecoverReplayInv ==
    ASSUME IInv, RecoverReplay
    PROVE  IInv'
<1>1. status = "down" /\ pc = "crashed" /\ UNCHANGED <<segs, buf, open, lastLsn, fresh, promised, disk, marker, olds, outran>>
    BY DEF RecoverReplay
<1>2. Files' /\ (Covered => Covered') /\ OutranOnly'
    BY <1>1, UnchangedFiles, UnchangedCovered DEF IInv, OutranOnly
<1>3. CASE ReadRaises(segs)
    <2>1. status' = "failed" /\ UNCHANGED <<pc, replayed, mem>>
        BY <1>3 DEF RecoverReplay
    <2>2. TypeOK' /\ Phase' /\ Marking' /\ RecoveryComplete' /\ MarkerSafe'
        BY <1>1, <2>1 DEF IInv, TypeOK, WalTypeOK, Phase, Marking, InCheckpoint, RecoveryComplete, MarkerSafe
    <2> QED BY <1>1, <1>2, <2>2 DEF IInv
<1>4. CASE ~ReadRaises(segs)
    <2>1. replayed' = Dispatched(ReadAll(segs), disk.ckpt) /\ mem' = disk /\ pc' = "writeManifest" /\ UNCHANGED status
        BY <1>4 DEF RecoverReplay
    <2>2. replayed' \subseteq Entry
        <3>1. \A i \in DOMAIN ReadAll(segs) : ReadAll(segs)[i] \in Entry
            BY LogRead
        <3> QED BY <2>1, <3>1 DEF Dispatched
    <2>3. TypeOK'
        BY <1>1, <2>1, <2>2 DEF IInv, TypeOK, WalTypeOK, Phases
    <2>4. RecoveryComplete'
        <3> SUFFICES ASSUME ~outran PROVE \A r \in promised : r.kind # Checkpoint => r \in replayed'
            BY <1>1 DEF RecoveryComplete
        <3>1. Covered
            BY DEF IInv
        <3> QED BY <2>1, <3>1, DispatchedAll
    <2>5. Phase' /\ Marking' /\ MarkerSafe'
        BY <1>1, <2>1 DEF IInv, Phase, Marking, InCheckpoint, MarkerSafe
    <2> QED BY <1>1, <1>2, <2>3, <2>4, <2>5 DEF IInv
<1> QED BY <1>3, <1>4

(* The checkpoint recovery records is the LSN of a record in the files.        *)
LEMMA RecoverManifestStep ==
    ASSUME IInv, RecoverManifest
    PROVE  /\ disk' \in [last : Nat, ckpt : Nat] /\ disk.ckpt <= disk'.ckpt
           /\ disk.ckpt <= LastStored => disk'.ckpt <= LastStored
           /\ promised' = {r \in promised : r.lsn > disk'.ckpt}
           /\ NoteOutran(disk'.ckpt, segs)
<1> DEFINE log == ReadAll(segs)
           top == MaxLsnOf(log)
           ck == BoundaryBefore(log, Len(log) + 1, mem.ckpt)
<1>1. mem = disk /\ mem.ckpt \in Nat /\ mem.last \in Nat
    BY DEF IInv, Phase, TypeOK, RecoverManifest
<1>2. /\ log \in Seq(Entry) /\ top = LastStored /\ LastStored \in Nat /\ Len(log) \in Nat
      /\ \A i \in DOMAIN log : log[i] \in Stored
    BY LogRead
<1>3. /\ disk' = [last |-> IF top > mem.last THEN top ELSE mem.last, ckpt |-> ck]
      /\ promised' = {r \in promised : r.lsn > disk'.ckpt}
      /\ NoteOutran(disk'.ckpt, segs)
    BY DEF RecoverManifest, WriteManifest
<1> HIDE DEF log, top
<1>4. ck \in Nat /\ ck >= mem.ckpt /\ (ck = mem.ckpt \/ \E j \in 1..Len(log) : j \in DOMAIN log /\ log[j].lsn = ck)
    <2>1. PICK i \in 1..(Len(log) + 1) : i = Len(log) + 1 /\ i - 1 = Len(log)
        BY <1>2
    <2>2. PICK low \in Nat : low = mem.ckpt
        BY <1>1
    <2>3. /\ BoundaryBefore(log, i, low) \in Nat /\ BoundaryBefore(log, i, low) >= low
          /\ \/ BoundaryBefore(log, i, low) = low
             \/ \E j \in 1..(i - 1) : j \in DOMAIN log /\ log[j].lsn = BoundaryBefore(log, i, low)
        BY <1>2, BoundaryIs
    <2> QED BY <2>1, <2>2, <2>3
<1> HIDE DEF ck
<1>5. disk.ckpt <= LastStored => ck <= LastStored
    <2>1. \A e \in Stored : e.lsn <= LastStored
        BY Levels DEF IInv, Files
    <2> QED BY <1>1, <1>2, <1>4, <2>1
<1> QED BY <1>1, <1>2, <1>3, <1>4, <1>5

LEMMA RecoverManifestInv ==
    ASSUME IInv, RecoverManifest
    PROVE  IInv'
<1>1. /\ pc = "writeManifest" /\ pc' = "recovered" /\ mem' = disk' /\ olds' \subseteq olds \cup {disk} /\ replayed' = {}
      /\ UNCHANGED <<segs, buf, open, lastLsn, status, fresh, marker>>
    BY DEF RecoverManifest, WriteManifest
<1>2. Files' /\ Written' = Written /\ LastSafe' = LastSafe /\ writer' = writer
    BY <1>1, UnchangedFiles
<1>3. /\ disk' \in [last : Nat, ckpt : Nat] /\ disk.ckpt <= disk'.ckpt
      /\ disk.ckpt <= LastStored => disk'.ckpt <= LastStored
      /\ promised' = {r \in promised : r.lsn > disk'.ckpt}
      /\ NoteOutran(disk'.ckpt, segs)
    BY RecoverManifestStep
<1>4. (outran' <=> outran \/ disk'.ckpt > LastSafe) /\ outran' \in BOOLEAN
    <2>1. disk'.ckpt \in Nat
        BY <1>3
    <2> QED BY <1>3, <2>1, OutranStep DEF LastSafe
<1>5. TypeOK'
    BY <1>1, <1>3, <1>4 DEF IInv, TypeOK, WalTypeOK, Phases
<1>6. status # "up" /\ fresh = {}
    BY <1>1 DEF IInv, Phase, InCheckpoint
<1>7. Phase' /\ Marking' /\ RecoveryComplete' /\ MarkerSafe'
    BY <1>1, <1>6 DEF IInv, Phase, Marking, InCheckpoint, RecoveryComplete, MarkerSafe
<1>8. LastSafe \in Nat /\ LastStored \in Nat /\ LastSafe <= LastStored /\ disk.ckpt \in Nat /\ disk'.ckpt \in Nat
    BY <1>3, Levels DEF IInv, Files, TypeOK
<1>9. OutranOnly'
    <2> SUFFICES ASSUME ~Concurrent, "power" \notin CrashModes PROVE ~outran'
        BY DEF OutranOnly
    <2>1. ~outran
        BY DEF OutranOnly, IInv
    <2>2. LastSafe = LastStored
        BY Contents DEF LastSafe, LastStored, Safe
    <2>3. disk.ckpt <= LastSafe
        BY <2>1 DEF IInv, Covered
    <2>4. ~(disk'.ckpt > LastSafe)
        BY <1>3, <1>8, <2>2, <2>3
    <2> QED BY <1>4, <2>1, <2>4
<1>10. ASSUME ~outran' PROVE Covered'
    <2>1. Covered /\ disk'.ckpt <= LastSafe
        <3>1. ~outran /\ ~(disk'.ckpt > LastSafe)
            BY <1>4, <1>10
        <3> QED BY <1>8, <3>1 DEF IInv
    <2>2. Kept'
        <3>1. promised' \subseteq Safe(segs)
            BY <1>3, <2>1 DEF Covered, Kept
        <3>2. promised' \subseteq Safe(segs')
            BY <1>1, <3>1
        <3> QED BY <1>1, <1>6, <3>2, KeptNext
    <2>3. ASSUME NEW m \in olds' PROVE m.ckpt <= disk'.ckpt
        <3>1. m.ckpt \in Nat /\ m.ckpt <= disk.ckpt
            BY <1>1, <1>8, <2>1, <2>3 DEF Covered, IInv, TypeOK
        <3> QED BY <1>3, <1>8, <3>1
    <2>4. \A r \in promised' \cup fresh' : r.lsn > disk'.ckpt
        BY <1>1, <1>3, <1>6
    <2> QED BY <1>2, <2>1, <2>2, <2>3, <2>4 DEF Covered
<1> QED BY <1>2, <1>4, <1>5, <1>7, <1>9, <1>10 DEF IInv

LEMMA OpenLogInv ==
    ASSUME IInv, OpenLog
    PROVE  IInv'
<1>1. /\ pc = "recovered" /\ pc' = "idle" /\ status = "down"
      /\ UNCHANGED <<segs, buf, open, fresh, promised, disk, mem, marker, replayed, olds, outran>>
      /\ IF ReadRaises(segs) THEN status' = "failed" /\ UNCHANGED lastLsn
                             ELSE status' = "up" /\ lastLsn' = MaxLsnOf(ReadAll(segs))
    BY DEF OpenLog, WalOpen
<1>2. Files' /\ LastWritten' = LastWritten /\ (Covered => Covered')
    BY <1>1, UnchangedFiles, UnchangedCovered
<1>3. status # "up" /\ ~open /\ fresh = {} /\ mem = disk
    BY <1>1 DEF IInv, Phase
<1>4. LastWritten = LastStored /\ LastStored \in Nat
    <2>1. Good(writer) /\ buf = <<>>
        BY <1>3, Contents DEF IInv, Files, Good
    <2>2. Stored = Written
        BY <2>1, Levels
    <2> QED BY <2>1, <2>2, Levels DEF LastStored, LastWritten
<1>5. status' \in {"up", "failed"} /\ lastLsn' \in Nat /\ (status' = "up" => lastLsn' = LastWritten')
    <2>1. MaxLsnOf(ReadAll(segs)) = LastStored /\ lastLsn \in Nat
        BY LogRead DEF IInv, TypeOK, WalTypeOK
    <2> QED BY <1>1, <1>2, <1>4, <2>1
<1>6. TypeOK'
    BY <1>1, <1>5 DEF IInv, TypeOK, WalTypeOK, Phases
<1>7. Phase' /\ Marking' /\ RecoveryComplete' /\ MarkerSafe' /\ OutranOnly'
    BY <1>1, <1>3, <1>5 DEF IInv, Phase, Marking, InCheckpoint, RecoveryComplete, MarkerSafe, OutranOnly
<1> QED BY <1>1, <1>2, <1>6, <1>7 DEF IInv

LEMMA CrashInRecoverInv ==
    ASSUME IInv, CrashInRecover
    PROVE  IInv'
<1>1. /\ pc = "writeManifest" /\ pc' = "crashed" /\ replayed' = {} /\ UNCHANGED <<walVars, disk, olds, outran>>
      /\ mem' = [last |-> 0, ckpt |-> 0] /\ marker' = 0
    BY DEF CrashInRecover, Forget
<1>2. UNCHANGED <<segs, buf, open, lastLsn, status, fresh, promised>>
    BY <1>1 DEF walVars
<1>3. Files' /\ LastWritten' = LastWritten /\ (Covered => Covered')
    BY <1>1, <1>2, UnchangedFiles, UnchangedCovered
<1>4. status # "up"
    BY <1>1 DEF IInv, Phase, InCheckpoint
<1>5. TypeOK' /\ Phase' /\ Marking' /\ RecoveryComplete' /\ MarkerSafe' /\ OutranOnly'
    BY <1>1, <1>2, <1>4 DEF IInv, TypeOK, WalTypeOK, Phases, Phase, Marking, InCheckpoint, RecoveryComplete,
                          MarkerSafe, OutranOnly
<1> QED BY <1>1, <1>3, <1>5 DEF IInv

LEMMA StutterInv ==
    ASSUME IInv, UNCHANGED vars
    PROVE  IInv'
<1>1. /\ UNCHANGED <<segs, buf, open, lastLsn, status, fresh, promised>>
      /\ UNCHANGED <<disk, mem, pc, marker, replayed, olds, outran>>
    BY DEF vars, walVars
<1>2. Files' /\ LastWritten' = LastWritten /\ LastSafe' = LastSafe /\ writer' = writer /\ (Covered => Covered')
    BY <1>1, UnchangedFiles, UnchangedCovered
<1>3. TypeOK' /\ Phase' /\ Marking' /\ RecoveryComplete' /\ OutranOnly'
    BY <1>1, <1>2 DEF IInv, TypeOK, WalTypeOK, Phase, Marking, InCheckpoint, RecoveryComplete, OutranOnly
<1>4. MarkerSafe => MarkerSafe'
    BY <1>1, <1>2 DEF MarkerSafe
<1> QED BY <1>1, <1>2, <1>3, <1>4 DEF IInv

LEMMA EmptyLog ==
    ASSUME NEW w, w = [segs |-> <<>>, buf |-> <<>>, open |-> FALSE]
    PROVE  Good(w) /\ OnFile(w.segs) = {} /\ All(w) = {}
<1>1. <<>> \in Seq(Segment) /\ <<>> \in Seq(Entry) /\ DOMAIN <<>> = {}
    OBVIOUS
<1>2. w \in Writers /\ w.segs = <<>> /\ w.buf = <<>> /\ w.open = FALSE
    BY <1>1 DEF Writers
<1>3. OnFile(w.segs) = {} /\ All(w) = {}
    BY <1>1, <1>2, EmptySet DEF OnFile, All
<1>4. Ordered(w.segs) /\ Ascending(w.buf) /\ Below(OnFile(w.segs), ToSet(w.buf)) /\ Synced(w.segs)
    BY <1>1, <1>2, <1>3 DEF Ordered, Ascending, Below, Synced
<1> QED BY <1>2, <1>3, <1>4 DEF Good, Top, Writers

LEMMA InitInv ==
    ASSUME Init
    PROVE  IInv
<1>1. /\ segs = <<>> /\ buf = <<>> /\ open = FALSE /\ lastLsn = 0 /\ status = "down" /\ fresh = {} /\ promised = {}
      /\ disk = [last |-> 0, ckpt |-> 0] /\ mem = disk /\ pc = "recovered" /\ marker = 0 /\ replayed = {} /\ olds = {}
      /\ outran = FALSE
    BY DEF Init, WalInit
<1>2. Good(writer) /\ Stored = {} /\ Written = {}
    <2>1. writer = [segs |-> <<>>, buf |-> <<>>, open |-> FALSE]
        BY <1>1 DEF writer
    <2> QED BY <2>1, EmptyLog, Contents
<1>3. Files
    BY <1>2 DEF Files
<1>4. LastSafe \in Nat
    BY <1>2, Levels
<1>5. TypeOK
    <2>1. segs \in Seq(Segment) /\ buf \in Seq(Entry)
        BY <1>1
    <2>2. disk \in [last : Nat, ckpt : Nat]
        BY <1>1
    <2> QED BY <1>1, <2>1, <2>2 DEF TypeOK, WalTypeOK, Phases
<1>6. Phase /\ Marking /\ RecoveryComplete /\ OutranOnly /\ MarkerSafe
    BY <1>1 DEF Phase, Marking, InCheckpoint, RecoveryComplete, OutranOnly, MarkerSafe
<1>7. Covered
    BY <1>1, <1>4 DEF Covered, Kept
<1> QED BY <1>3, <1>5, <1>6, <1>7 DEF IInv

LEMMA NextInv ==
    ASSUME Careful, IInv, [Next]_vars
    PROVE  IInv'
<1>1. CASE RecoverReplay \/ RecoverManifest \/ OpenLog \/ CrashInRecover
    BY <1>1, RecoverReplayInv, RecoverManifestInv, OpenLogInv, CrashInRecoverInv
<1>2. CASE CkptMarker \/ CkptFlush \/ CkptFlushFails
    BY <1>2, CkptMarkerInv, CkptFlushInv, CkptFlushFailsInv
<1>3. CASE CkptManifest \/ CkptTruncate
    BY <1>3, CkptManifestInv, CkptTruncateInv
<1>4. CASE LogOp \/ ConcurrentAppend
    BY <1>4, LogOpInv, ConcurrentAppendInv
<1>5. CASE BufferSpills \/ AppendReturns \/ AppendFails
    BY <1>5, BufferSpillsInv, AppendReturnsInv, AppendFailsInv
<1>6. CASE CrashAnywhere \/ PowerLossAnywhere \/ CrashInTruncate
    BY <1>6, CrashStepInv
<1>7. CASE UNCHANGED vars
    BY <1>7, StutterInv
<1> QED BY <1>1, <1>2, <1>3, <1>4, <1>5, <1>6, <1>7 DEF Next

LEMMA Invariance == ASSUME Careful PROVE Spec => []IInv
<1>1. Init => IInv
    BY InitInv
<1>2. IInv /\ [Next]_vars => IInv'
    BY NextInv
<1> QED BY <1>1, <1>2, PTL DEF Spec

(* Every run keeps the log well formed: the types of wal.py's state and of the *)
(* manifest hold throughout.                                                   *)
THEOREM TypeInvariant == ASSUME Careful PROVE Spec => []TypeOK
<1>1. IInv => TypeOK
    BY DEF IInv
<1> QED BY <1>1, Invariance, PTL

(* recover() dispatches every record a flush promised and no checkpoint covers,*)
(* whatever crashes and failing fsyncs came before, unless the checkpoint once *)
(* outran the log.                                                             *)
THEOREM RecoveryCompleteInvariant == ASSUME Careful PROVE Spec => []RecoveryComplete
<1>1. IInv => RecoveryComplete
    BY DEF IInv
<1> QED BY <1>1, Invariance, PTL

(* An open log reaches the checkpoint of the manifest, unless the checkpoint   *)
(* once outran it: checkpoint() is never refused with CDB-7060 and no LSN that *)
(* recovery skips is given out again.                                          *)
THEOREM LogReachesCheckpointInvariant == ASSUME Careful PROVE Spec => []LogReachesCheckpoint
<1>1. IInv => LogReachesCheckpoint
    <2> SUFFICES ASSUME IInv, status = "up", ~outran PROVE lastLsn >= disk.ckpt
        BY DEF LogReachesCheckpoint
    <2>1. lastLsn = LastWritten /\ disk.ckpt <= LastSafe /\ disk.ckpt \in Nat
        BY DEF IInv, Phase, Covered, TypeOK
    <2>2. LastSafe \in Nat /\ LastStored \in Nat /\ LastWritten \in Nat /\ LastStored <= LastWritten /\ LastSafe <= LastStored
        BY Levels DEF IInv, Files
    <2> QED BY <2>1, <2>2
<1> QED BY <1>1, Invariance, PTL

(* Without a power failure and without an append during a checkpoint the       *)
(* checkpoint never outruns the log.                                           *)
THEOREM NeverOutran ==
    ASSUME Careful, ~Concurrent, "power" \notin CrashModes
    PROVE  Spec => []~outran
<1>1. IInv => ~outran
    BY DEF IInv, OutranOnly
<1> QED BY <1>1, Invariance, PTL

-----------------------------------------------------------------------------
(* The refinement.  Without power failures no older manifest comes back.       *)

NoOlds == olds = {}

LEMMA NoOldsInv ==
    ASSUME "power" \notin CrashModes
    PROVE  Spec => []NoOlds
<1>1. Init => NoOlds
    BY DEF Init, NoOlds
<1>2. NoOlds /\ [Next]_vars => NoOlds'
    <2> SUFFICES ASSUME NoOlds, [Next]_vars PROVE olds' = {}
        BY DEF NoOlds
    <2>1. CASE RecoverReplay \/ OpenLog \/ CkptMarker \/ CkptFlush \/ CkptFlushFails \/ CkptTruncate
               \/ LogOp \/ BufferSpills \/ AppendReturns \/ AppendFails \/ ConcurrentAppend
               \/ CrashAnywhere \/ PowerLossAnywhere \/ CrashInTruncate \/ CrashInRecover
        BY <2>1 DEF NoOlds, RecoverReplay, OpenLog, CkptMarker, CkptFlush, CkptFlushFails, CkptTruncate,
                    LogOp, BufferSpills, AppendReturns, AppendFails, ConcurrentAppend,
                    CrashAnywhere, PowerLossAnywhere, CrashInTruncate, CrashInRecover
    <2>2. CASE RecoverManifest \/ CkptManifest
        BY <2>2 DEF RecoverManifest, CkptManifest, WriteManifest
    <2>3. CASE UNCHANGED vars
        BY <2>3 DEF NoOlds, vars
    <2> QED BY <2>1, <2>2, <2>3 DEF Next
<1> QED BY <1>1, <1>2, PTL DEF Spec

AbstractVars == <<Records, LastWritten, LastStored, Base, Up>>

LEMMA SameLog ==
    ASSUME Written' = Written
    PROVE  Records' = Records /\ LastWritten' = LastWritten
BY DEF Records, LastWritten

LEMMA AppendRefines ==
    ASSUME IInv, NEW kind \in Kinds, WalAppend(kind), disk' = disk
    PROVE  Promise!Append(kind)
<1>1. /\ Logged /\ lastLsn' = lastLsn + 1 /\ status = "up"
      /\ Written' = Written \cup {Record(lastLsn + 1, kind)}
    BY AppendStep DEF IInv, WalAppend
<1>2. lastLsn = LastWritten /\ LastWritten' = LastWritten + 1 /\ Up /\ Up' = Up /\ Base' = Base
    BY <1>1 DEF IInv, Phase, Logged, Up, Base
<1>3. Records' = Records \cup {[lsn |-> LastWritten + 1, kind |-> kind]}
    <2> DEFINE short(e) == [lsn |-> e.lsn, kind |-> e.kind]
    <2>1. short(Record(lastLsn + 1, kind)) = [lsn |-> LastWritten + 1, kind |-> kind]
        BY <1>2 DEF Record
    <2>2. Records = {short(e) : e \in Written} /\ Records' = {short(e) : e \in Written'}
        BY DEF Records
    <2> HIDE DEF short
    <2>3. {short(e) : e \in Written'} = {short(e) : e \in Written} \cup {short(Record(lastLsn + 1, kind))}
        BY <1>1
    <2> QED BY <2>1, <2>2, <2>3
<1>4. LastStored' \in LastStored..(LastWritten + 1)
    <2>1. Good(writer) /\ Good(writer') /\ LastStored <= LastStored'
        BY <1>1, Grows DEF IInv, Files, Logged
    <2>2. LastStored \in Nat /\ LastWritten \in Nat /\ LastStored' \in Nat /\ LastStored' <= LastWritten'
        BY <2>1, Levels, LevelsNext
    <2> QED BY <1>2, <2>1, <2>2
<1> QED BY <1>2, <1>3, <1>4 DEF Promise!Append

LEMMA QuietRefines ==
    ASSUME IInv, status = "up", Logged, Written' = Written, disk' = disk
    PROVE  Promise!Persist
<1>1. Good(writer) /\ Good(writer') /\ LastStored <= LastStored' /\ Up /\ Up' = Up /\ Base' = Base
    BY Grows DEF IInv, Files, Logged, Up, Base
<1>2. LastStored \in Nat /\ LastWritten \in Nat /\ LastStored' \in Nat /\ LastStored' <= LastWritten'
    BY <1>1, Levels, LevelsNext
<1> QED BY <1>1, <1>2, SameLog DEF Promise!Persist

LEMMA CrashRefines ==
    ASSUME IInv, Survives, Whole, status = "up", disk' = disk
    PROVE  Promise!Crash
<1>1. /\ Good(writer) /\ Good(writer') /\ LastStored <= LastStored' /\ Stored' \subseteq Written
      /\ Up /\ Up' = FALSE /\ Base' = Base /\ buf' = <<>>
    BY DEF IInv, Files, Survives, Whole, GoDown, Up, Base
<1>2. /\ LastStored \in Nat /\ LastWritten \in Nat /\ LastStored' \in Nat /\ LastWritten' \in Nat /\ Written' = Stored'
      /\ \A e \in Written : e.lsn <= LastWritten
      /\ \A e \in Written' : e.lsn <= LastWritten'
      /\ LastWritten' = LastStored'
    <2>1. Written' = Stored'
        BY <1>1, LevelsNext
    <2>2. LastWritten' = LastStored'
        BY <2>1 DEF LastWritten, LastStored
    <2> QED BY <1>1, <2>1, <2>2, Levels, LevelsNext
<1>3. LastStored' <= LastWritten
    <2>1. CASE Stored' = {}
        BY <1>2, <2>1 DEF LastStored, Highest
    <2>2. CASE Stored' # {}
        <3>1. Top(Stored') /\ Stored' \subseteq Entry
            BY <1>1, Contents, Levels DEF Good
        <3>2. PICK e \in Stored' : e.lsn = Highest(Stored')
            BY <2>2, <3>1, HighestOf
        <3> QED BY <1>1, <1>2, <3>2 DEF LastStored
    <2> QED BY <2>1, <2>2
<1> DEFINE short(e) == [lsn |-> e.lsn, kind |-> e.kind]
<1>4. Records = {short(e) : e \in Written} /\ Records' = {short(e) : e \in Written'}
    BY DEF Records
<1>5. Records' \in SUBSET Records
    BY <1>1, <1>2, <1>4
<1>6. \A r \in Records' : r.lsn <= LastWritten'
    BY <1>2, <1>4
<1>7. ASSUME NEW r \in Records \ Records' PROVE r.lsn <= Base \/ r.lsn > LastWritten'
    <2>1. PICK e \in Written : r = short(e)
        BY <1>4
    <2>2. e \notin Stored'
        <3> HIDE DEF short
        <3> QED BY <1>2, <1>4, <2>1
    <2>3. e.lsn <= disk.ckpt \/ e.lsn > LastStored'
        BY <2>2 DEF Whole
    <2> QED BY <1>2, <2>1, <2>3 DEF Base
<1> QED BY <1>1, <1>2, <1>3, <1>5, <1>6, <1>7 DEF Promise!Crash

LEMMA CoverRefines ==
    ASSUME IInv, ~outran, CkptManifest \/ RecoverManifest
    PROVE  Promise!Cover
<1>1. UNCHANGED <<segs, buf, open, fresh, status>>
    BY DEF CkptManifest, RecoverManifest
<1>2. Written' = Written /\ LastStored' = LastStored /\ Up' = Up
    BY <1>1, UnchangedFiles DEF Up
<1>3. /\ disk.ckpt \in Nat /\ disk'.ckpt \in Nat /\ LastStored \in Nat /\ LastSafe \in Nat /\ LastSafe <= LastStored
      /\ disk.ckpt <= LastSafe /\ MarkerSafe
    <2>1. /\ LastStored \in Nat /\ disk.ckpt \in Nat /\ LastSafe \in Nat /\ LastSafe <= LastStored
          /\ disk.ckpt <= LastSafe /\ MarkerSafe
        BY Levels DEF IInv, Files, TypeOK, Covered
    <2>2. CASE CkptManifest
        BY <2>1, <2>2 DEF CkptManifest, WriteManifest, IInv, TypeOK
    <2>3. CASE RecoverManifest
        BY <2>1, <2>3, RecoverManifestStep
    <2> QED BY <2>1, <2>2, <2>3
<1>4. disk.ckpt <= disk'.ckpt /\ disk'.ckpt <= LastStored
    <2>1. CASE CkptManifest
        <3>1. pc = "ckptManifest" /\ disk'.ckpt = marker
            BY <2>1 DEF CkptManifest, WriteManifest
        <3>2. disk.ckpt <= marker /\ marker <= LastSafe
            BY <1>3, <3>1 DEF IInv, Marking, InCheckpoint, MarkerSafe
        <3> QED BY <1>3, <3>1, <3>2
    <2>2. CASE RecoverManifest
        BY <1>3, <2>2, RecoverManifestStep
    <2> QED BY <2>1, <2>2
<1>5. Base' \in Base..LastStored
    BY <1>3, <1>4 DEF Base
<1> QED BY <1>2, <1>5, SameLog DEF Promise!Cover

LEMMA PruneRefines ==
    ASSUME IInv, ~Concurrent, CkptTruncate
    PROVE  Promise!Prune
<1> DEFINE t == TruncateBefore(writer, marker)
<1>1. pc = "ckptTruncate" /\ Install(t) /\ UNCHANGED <<status, disk>>
    BY DEF CkptTruncate
<1>2. buf = <<>> /\ marker \in 0..marker /\ marker = disk.ckpt /\ Good(writer)
    BY <1>1 DEF IInv, Marking, TypeOK, Files
<1>3. /\ Good(t) /\ t.buf = <<>> /\ t \in Writers /\ OnFile(t.segs) \subseteq Stored
      /\ \A e \in Stored \ OnFile(t.segs) : e.lsn <= marker
      /\ Highest(All(t)) = LastWritten
    BY <1>1, <1>2, TruncateStep
<1> HIDE DEF t
<1>4. writer' = t /\ buf' = <<>> /\ Stored' = OnFile(t.segs) /\ Written' = All(t)
    BY <1>1, <1>3, Installed, Contents
<1>5. Written' = Stored' /\ Written = Stored /\ LastWritten' = LastWritten
    BY <1>2, <1>3, <1>4, Levels, LevelsNext DEF LastWritten
<1>6. LastStored' = LastStored
    BY <1>5 DEF LastWritten, LastStored
<1> DEFINE short(e) == [lsn |-> e.lsn, kind |-> e.kind]
<1>7. Records = {short(e) : e \in Written} /\ Records' = {short(e) : e \in Written'}
    BY DEF Records
<1>8. Records' \in SUBSET Records
    BY <1>3, <1>4, <1>5, <1>7
<1>9. ASSUME NEW r \in Records \ Records' PROVE r.lsn <= Base
    <2>1. PICK e \in Written : r = short(e)
        BY <1>7
    <2>2. e \notin Stored'
        <3> HIDE DEF short
        <3> QED BY <1>5, <1>7, <2>1
    <2> QED BY <1>2, <1>3, <1>4, <1>5, <2>1, <2>2 DEF Base
<1>10. UNCHANGED <<LastWritten, LastStored, Base, Up>>
    BY <1>1, <1>5, <1>6 DEF Base, Up
<1> QED BY <1>8, <1>9, <1>10 DEF Promise!Prune

(* Steps outside the abstract log: opening, the parts of a recovery, and calls *)
(* that fail before they have done anything.                                   *)
LEMMA OtherRefines ==
    ASSUME IInv, RecoverReplay \/ CrashInRecover \/ OpenLog \/ CkptFlushFails \/ AppendFails \/ UNCHANGED vars
    PROVE  Promise!Open \/ UNCHANGED AbstractVars
<1>1. UNCHANGED <<segs, buf, open, disk>>
    BY DEF RecoverReplay, CrashInRecover, OpenLog, WalOpen, CkptFlushFails, AppendFails, WalSyncFails, vars, walVars
<1>2. /\ Records' = Records /\ LastWritten' = LastWritten /\ LastStored' = LastStored /\ Base' = Base
    BY <1>1, UnchangedFiles, SameLog DEF Base
<1>3. Up' = Up \/ (~Up /\ Up' = TRUE)
    BY DEF RecoverReplay, CrashInRecover, OpenLog, WalOpen, CkptFlushFails, AppendFails, WalSyncFails, vars, walVars, Up
<1> QED BY <1>2, <1>3 DEF Promise!Open, AbstractVars

LEMMA StepRefines ==
    ASSUME Careful, ~Concurrent, "power" \notin CrashModes, IInv, NoOlds, [Next]_vars
    PROVE  Promise!Next \/ UNCHANGED AbstractVars
<1>1. CASE RecoverReplay \/ CrashInRecover \/ OpenLog \/ CkptFlushFails \/ AppendFails \/ UNCHANGED vars
    BY <1>1, OtherRefines DEF Promise!Next
<1>2. CASE CkptManifest \/ RecoverManifest
    <2>1. ~outran
        BY DEF IInv, OutranOnly
    <2> QED BY <1>2, <2>1, CoverRefines DEF Promise!Next
<1>3. CASE CkptTruncate
    BY <1>3, PruneRefines DEF Promise!Next
<1>4. CASE CrashAnywhere \/ PowerLossAnywhere \/ CrashInTruncate
    <2>1. Survives /\ Whole
        BY <1>4, CrashStepInv
    <2>2. disk' = disk
        BY <1>4 DEF CrashAnywhere, PowerLossAnywhere, CrashInTruncate, NoOlds
    <2>3. status = "up"
        BY <1>4 DEF CrashAnywhere, PowerLossAnywhere, PowerLoss, Careful, CrashInTruncate, Kill, KillInCreate, IInv, Phase, InCheckpoint
    <2> QED BY <2>1, <2>2, <2>3, CrashRefines DEF Promise!Next
<1>5. ASSUME NEW kind \in Kinds, WalAppend(kind), disk' = disk PROVE Promise!Next
    BY <1>5, AppendRefines DEF Promise!Next
<1>6. ASSUME WalFlush \/ WalOsFlush \/ WalClose, disk' = disk PROVE Promise!Next
    <2>1. Logged /\ Written' = Written /\ status = "up"
        BY <1>6, FlushStep, OsFlushStep, CloseStep DEF IInv, WalFlush, WalOsFlush, WalClose
    <2> QED BY <1>6, <2>1, QuietRefines DEF Promise!Next
<1>7. CASE CkptMarker \/ LogOp \/ ConcurrentAppend \/ CkptFlush \/ BufferSpills \/ AppendReturns
    <2>1. disk' = disk /\ ((\E kind \in Kinds : WalAppend(kind)) \/ WalFlush \/ WalOsFlush \/ WalClose)
        BY <1>7, CheckpointAssumption DEF CkptMarker, LogOp, ConcurrentAppend, CkptFlush, BufferSpills, AppendReturns, WalSync
    <2> QED BY <1>5, <1>6, <2>1
<1> QED BY <1>1, <1>2, <1>3, <1>4, <1>7 DEF Next

(* The log of wal.py, its checkpoints and its recovery implement DurableLog    *)
(* when only processes die and appends fail: what the operating system has     *)
(* survives, the checkpoint covers nothing else, and truncation drops nothing  *)
(* the checkpoint does not cover.                                              *)
THEOREM LogIsDurable ==
    ASSUME Careful, ~Concurrent, "power" \notin CrashModes
    PROVE  Spec => ImplementsDurableLog
<1>1. Init => Promise!Init
    <2> SUFFICES ASSUME Init PROVE Promise!Init
        OBVIOUS
    <2>1. segs = <<>> /\ buf = <<>> /\ open = FALSE /\ status = "down" /\ disk = [last |-> 0, ckpt |-> 0]
        BY DEF Init, WalInit
    <2>2. writer = [segs |-> <<>>, buf |-> <<>>, open |-> FALSE]
        BY <2>1 DEF writer
    <2>3. Stored = {} /\ Written = {}
        BY <2>2, EmptyLog, Contents
    <2>4. Records = {} /\ LastWritten = 0 /\ LastStored = 0
        BY <2>3 DEF Records, LastWritten, LastStored, Highest
    <2>5. Base = 0 /\ Up = FALSE
        BY <2>1 DEF Base, Up
    <2> QED BY <2>4, <2>5 DEF Promise!Init
<1>2. IInv /\ NoOlds /\ [Next]_vars => [Promise!Next]_(Promise!vars)
    BY StepRefines DEF Promise!vars, AbstractVars
<1>3. Spec => []IInv
    BY Invariance
<1>4. Spec => []NoOlds
    BY NoOldsInv
<1> QED BY <1>1, <1>2, <1>3, <1>4, PTL DEF Spec, ImplementsDurableLog, Promise!Spec

-----------------------------------------------------------------------------
(* What the abstract log promises, and so the log of wal.py.                   *)

Numbered ==
    /\ Records \subseteq Promise!LogRecord
    /\ LastWritten \in Nat /\ LastStored \in Nat /\ Base \in Nat
    /\ \A r \in Records : r.lsn <= LastWritten

Dense == Numbered /\ Promise!Replayable

LEMMA IntervalShrinks ==
    ASSUME NEW a \in Nat, NEW b \in Nat, NEW c \in Nat, a <= b
    PROVE  \A n \in (b + 1)..c : n \in (a + 1)..c
OBVIOUS

LEMMA DenseNext ==
    ASSUME Dense, [Promise!Next]_(Promise!vars)
    PROVE  Dense'
<1> USE DEF Dense, Numbered, Promise!Replayable
<1>1. CASE Promise!Open
    BY <1>1 DEF Promise!Open
<1>2. ASSUME NEW kind \in Kinds, Promise!Append(kind) PROVE Dense'
    <2> DEFINE new == [lsn |-> LastWritten + 1, kind |-> kind]
    <2>1. /\ Records' = Records \cup {new} /\ new \in Promise!LogRecord /\ new.lsn = LastWritten + 1
          /\ LastWritten' = LastWritten + 1 /\ LastWritten + 1 \in Nat
          /\ LastStored' \in LastStored..(LastWritten + 1) /\ Base' = Base
        BY <1>2 DEF Promise!Append, Promise!LogRecord
    <2> HIDE DEF new
    <2>2. \A x \in Records : x.lsn \in Nat /\ x.lsn # new.lsn
        BY <2>1 DEF Promise!LogRecord
    <2>3. Numbered'
        BY <2>1, <2>2 DEF Promise!LogRecord
    <2>4. \A r, s \in Records' : r.lsn = s.lsn => r = s
        BY <2>1, <2>2
    <2>5. ASSUME NEW n \in (Base' + 1)..LastWritten' PROVE \E r \in Records' : r.lsn = n
        <3>1. CASE n = LastWritten + 1
            BY <2>1, <3>1
        <3>2. CASE n # LastWritten + 1
            <4>1. n \in (Base + 1)..LastWritten
                BY <2>1, <3>2
            <4> QED BY <2>1, <4>1
        <3> QED BY <3>1, <3>2
    <2> QED BY <2>1, <2>3, <2>4, <2>5
<1>3. CASE Promise!Persist
    BY <1>3 DEF Promise!Persist
<1>4. CASE Promise!Cover
    <2>1. /\ Records' = Records /\ LastWritten' = LastWritten /\ LastStored' = LastStored
          /\ Base' \in Nat /\ Base <= Base' /\ Base' <= LastStored
        BY <1>4 DEF Promise!Cover
    <2>2. \A n \in (Base' + 1)..LastWritten' : n \in (Base + 1)..LastWritten
        BY <2>1, IntervalShrinks
    <2>3. ASSUME NEW n \in (Base' + 1)..LastWritten' PROVE \E r \in Records' : r.lsn = n
        <3>1. n \in (Base + 1)..LastWritten
            BY <2>2
        <3> QED BY <2>1, <3>1
    <2>4. Numbered' /\ \A r, s \in Records' : r.lsn = s.lsn => r = s
        BY <2>1
    <2> QED BY <2>1, <2>3, <2>4
<1>5. CASE Promise!Prune
    BY <1>5 DEF Promise!Prune, Promise!LogRecord
<1>6. CASE Promise!Crash
    <2>1. /\ Base' = Base /\ LastStored' \in LastStored..LastWritten /\ LastWritten' \in LastStored'..LastWritten
          /\ Records' \in SUBSET Records /\ (\A r \in Records' : r.lsn <= LastWritten')
          /\ \A r \in Records \ Records' : r.lsn <= Base \/ r.lsn > LastWritten'
        BY <1>6 DEF Promise!Crash
    <2>2. LastStored' \in Nat /\ LastWritten' \in Nat /\ LastStored' <= LastWritten' /\ Base' <= LastStored' /\ LastWritten' <= LastWritten
        BY <2>1
    <2>3. ASSUME NEW n \in (Base' + 1)..LastWritten' PROVE \E r \in Records' : r.lsn = n
        <3>1. n \in (Base + 1)..LastWritten /\ ~(n <= Base) /\ ~(n > LastWritten')
            BY <2>1, <2>2
        <3>2. PICK r \in Records : r.lsn = n
            BY <3>1
        <3>3. r \in Records'
            BY <2>1, <3>1, <3>2
        <3> QED BY <3>2, <3>3
    <2> QED BY <2>1, <2>2, <2>3
<1>7. CASE UNCHANGED Promise!vars
    BY <1>7 DEF Promise!vars
<1> QED BY <1>1, <1>2, <1>3, <1>4, <1>5, <1>6, <1>7 DEF Promise!Next

LEMMA AlwaysDense == Promise!Spec => []Dense
<1>1. Promise!Init => Dense
    <2> SUFFICES ASSUME Promise!Init PROVE Dense
        OBVIOUS
    <2>1. Records = {} /\ LastWritten = 0 /\ LastStored = 0 /\ Base = 0
        BY DEF Promise!Init
    <2>2. \A n \in (0 + 1)..0 : FALSE
        OBVIOUS
    <2> QED BY <2>1, <2>2 DEF Dense, Numbered, Promise!Replayable
<1> QED BY <1>1, DenseNext, PTL DEF Promise!Spec

(* At every moment the checkpoint covers only what a crash leaves, and every   *)
(* LSN above it has exactly one record: a replay misses nothing and does       *)
(* nothing twice.                                                              *)
THEOREM LogReplayable ==
    ASSUME Careful, ~Concurrent, "power" \notin CrashModes
    PROVE  Spec => []Promise!Replayable
<1>1. Dense => Promise!Replayable
    BY DEF Dense
<1>2. Spec => Promise!Spec
    BY LogIsDurable DEF ImplementsDurableLog
<1> QED BY <1>1, <1>2, AlwaysDense, PTL

(* No append, flush, roll, checkpoint, truncation, crash or recovery loses a   *)
(* stored record that the checkpoint does not cover.                           *)
THEOREM LogKeepsDurable ==
    ASSUME Careful, ~Concurrent, "power" \notin CrashModes
    PROVE  Spec => Promise!DurableKept
<1> DEFINE Stays == \A r \in Records : Base < r.lsn /\ r.lsn <= LastStored /\ Base' < r.lsn => r \in Records'
<1>1. Dense /\ [Promise!Next]_(Promise!vars) => [Stays]_(Promise!vars)
    <2> SUFFICES ASSUME Dense, [Promise!Next]_(Promise!vars) PROVE [Stays]_(Promise!vars)
        OBVIOUS
    <2> USE DEF Dense, Numbered, Promise!Replayable
    <2>1. CASE Promise!Open \/ Promise!Persist \/ Promise!Cover
        BY <2>1 DEF Promise!Open, Promise!Persist, Promise!Cover
    <2>2. ASSUME NEW kind \in Kinds, Promise!Append(kind) PROVE Stays
        BY <2>2 DEF Promise!Append
    <2>3. CASE Promise!Prune
        BY <2>3 DEF Promise!Prune, Promise!LogRecord
    <2>4. CASE Promise!Crash
        BY <2>4 DEF Promise!Crash, Promise!LogRecord
    <2>5. CASE UNCHANGED Promise!vars
        BY <2>5
    <2> QED BY <2>1, <2>2, <2>3, <2>4, <2>5 DEF Promise!Next
<1>2. Spec => Promise!Spec
    BY LogIsDurable DEF ImplementsDurableLog
<1> QED BY <1>1, <1>2, AlwaysDense, PTL DEF Promise!Spec, Promise!DurableKept
=============================================================================
