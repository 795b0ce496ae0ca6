-------------------------- MODULE GraphStoreProofs --------------------------
(***************************************************************************)
(* Adjacency readers, edge keys, node ids and the nodes edges join, for    *)
(* any number of nodes, edges, relations and faults.                       *)
(*                                                                         *)
(* The calls are built from recursive functions on sequences.  Induct is   *)
(* induction for a set of numbers, Recursion gives such a function its     *)
(* equation, and the lemmas on Pick, FlattenSeq, AssignGids and FinalNodes *)
(* say what they return.                                                   *)
(*                                                                         *)
(* The readers and edge keys rest on GInv, the nodes on NInv: a cached map *)
(* knows every row and gives each key a gid of its own, and what an edge   *)
(* joins is on disk or among the rows an upsert has yet to write.          *)
(***************************************************************************)
EXTENDS GraphStore, SequenceTheorems, WellFoundedInduction, TLAPS

LEMMA Least ==
    ASSUME NEW T \in SUBSET Nat, T # {}
    PROVE  \E n \in T : \A m \in T : n <= m
<1>1. IsWellFoundedOn(OpToRel(<, Nat), Nat)
    BY NatLessThanWellFounded
<1>2. PICK x \in T : \A y \in T : ~(<<y, x>> \in OpToRel(<, Nat))
    BY <1>1, WFMin
<1>3. \A y \in T : y < x => <<y, x>> \in OpToRel(<, Nat)
    BY DEF OpToRel
<1>4. \A y \in T : ~(y < x)
    BY <1>2, <1>3
<1> QED BY <1>4

LEMMA Induct ==
    ASSUME NEW P, 0 \in P, \A i \in Nat : i \in P => i + 1 \in P
    PROVE  \A n \in Nat : n \in P
<1> DEFINE T == {n \in Nat : n \notin P}
<1> SUFFICES ASSUME T # {} PROVE FALSE
    OBVIOUS
<1>1. T \in SUBSET Nat
    OBVIOUS
<1>2. PICK n \in T : \A m \in T : n <= m
    BY <1>1, Least
<1>3. n \in Nat /\ n # 0
    OBVIOUS
<1>4. n - 1 \in Nat /\ ~(n <= n - 1) /\ n - 1 + 1 = n
    BY <1>3
<1>5. n - 1 \in P
    BY <1>2, <1>4
<1> QED BY <1>4, <1>5

(* f starts with b and goes on by the steps g.                                 *)
Steps(f, n, S, b, g) == f \in [0..n -> S] /\ f[0] = b /\ \A i \in 1..n : f[i] = g[i][f[i - 1]]

LEMMA Recursion ==
    ASSUME NEW n \in Nat, NEW S, NEW b \in S, NEW g \in [1..n -> [S -> S]]
    PROVE  \E f : Steps(f, n, S, b, g)
<1> DEFINE Upto(m, f) == f \in [0..m -> S] /\ f[0] = b /\ \A i \in 1..m : f[i] = g[i][f[i - 1]]
           P == {m \in Nat : m <= n => \E f : Upto(m, f)}
<1>1. 0 \in P
    <2>1. Upto(0, [i \in 0..0 |-> b])
        OBVIOUS
    <2> QED BY <2>1
<1>2. ASSUME NEW m \in Nat, m \in P PROVE m + 1 \in P
    <2> SUFFICES ASSUME m + 1 <= n PROVE \E f : Upto(m + 1, f)
        OBVIOUS
    <2>1. PICK f : Upto(m, f)
        BY <1>2
    <2> DEFINE h == [i \in 0..(m + 1) |-> IF i = m + 1 THEN g[m + 1][f[m]] ELSE f[i]]
    <2>2. f[m] \in S /\ m + 1 \in 1..n
        BY <2>1
    <2>3. g[m + 1][f[m]] \in S
        BY <2>2
    <2>4. h \in [0..(m + 1) -> S] /\ h[0] = b
        BY <2>1, <2>3
    <2>5. ASSUME NEW i \in 1..(m + 1) PROVE h[i] = g[i][h[i - 1]]
        <3>1. CASE i = m + 1
            <4>1. i - 1 = m /\ m \in 0..(m + 1) /\ m # m + 1
                BY <3>1
            <4>2. h[i - 1] = f[m]
                BY <4>1
            <4>3. h[i] = g[i][f[m]]
                BY <3>1
            <4> QED BY <4>2, <4>3
        <3>2. CASE i # m + 1
            <4>1. i \in 1..m /\ i - 1 \in 0..m /\ i - 1 # m + 1 /\ i - 1 \in 0..(m + 1)
                BY <3>2
            <4> QED BY <2>1, <3>2, <4>1
        <3> QED BY <3>1, <3>2
    <2> QED BY <2>4, <2>5
<1> HIDE DEF P
<1>3. n \in P
    BY <1>1, <1>2, Induct
<1> QED BY <1>3 DEF P, Steps

PickedBy(f, X, s, T) ==
    /\ f \in [0..Len(s) -> Seq(X)] /\ f[0] = <<>> /\ Pick(s, T) = f[Len(s)]
    /\ \A i \in 1..Len(s) : f[i] = IF i \in T THEN Append(f[i - 1], s[i]) ELSE f[i - 1]

LEMMA PickRec ==
    ASSUME NEW X, NEW s \in Seq(X), NEW T
    PROVE  \E f : PickedBy(f, X, s, T)
<1>1. PICK n \in Nat : n = Len(s)
    OBVIOUS
<1> DEFINE g == [i \in 1..n |-> [t \in Seq(X) |-> IF i \in T THEN Append(t, s[i]) ELSE t]]
           Body(f, i) == IF i = 0 THEN <<>> ELSE IF i \in T THEN Append(f[i - 1], s[i]) ELSE f[i - 1]
           Fix(f) == f = [i \in 0..n |-> Body(f, i)]
<1>2. g \in [1..n -> [Seq(X) -> Seq(X)]]
    <2>1. ASSUME NEW i \in 1..n, NEW t \in Seq(X) PROVE (IF i \in T THEN Append(t, s[i]) ELSE t) \in Seq(X)
        BY <1>1
    <2> QED BY <2>1
<1>3. \A i \in 1..n : \A t \in Seq(X) : g[i][t] = IF i \in T THEN Append(t, s[i]) ELSE t
    OBVIOUS
<1> HIDE DEF g
<1>4. PICK f \in [0..n -> Seq(X)] : f[0] = <<>> /\ \A i \in 1..n : f[i] = g[i][f[i - 1]]
    <2>1. <<>> \in Seq(X)
        OBVIOUS
    <2>2. PICK f : Steps(f, n, Seq(X), <<>>, g)
        BY <1>2, <2>1, Recursion
    <2> QED BY <2>2 DEF Steps
<1>5. ASSUME NEW i \in 1..n PROVE f[i] = IF i \in T THEN Append(f[i - 1], s[i]) ELSE f[i - 1]
    <2>1. i - 1 \in 0..n
        OBVIOUS
    <2>2. f[i - 1] \in Seq(X)
        BY <1>4, <2>1
    <2>3. g[i][f[i - 1]] = IF i \in T THEN Append(f[i - 1], s[i]) ELSE f[i - 1]
        BY <1>3, <2>2
    <2> QED BY <1>4, <2>3
<1>6. \A e : Body(e, 0) = <<>>
    OBVIOUS
<1>7. \A e : \A i \in 1..n : Body(e, i) = IF i \in T THEN Append(e[i - 1], s[i]) ELSE e[i - 1]
    OBVIOUS
<1>8. Pick(s, T) = (CHOOSE e : Fix(e))[n]
    BY <1>1 DEF Pick
<1> HIDE DEF Body
<1>9. Fix(f)
    <2>1. f = [i \in 0..n |-> f[i]]
        BY <1>4
    <2>2. ASSUME NEW i \in 0..n PROVE f[i] = Body(f, i)
        <3>1. CASE i = 0
            BY <1>4, <1>6, <3>1
        <3>2. CASE i \in 1..n
            BY <1>5, <1>7, <3>2
        <3> QED BY <3>1, <3>2
    <2> QED BY <2>1, <2>2
<1> DEFINE h == CHOOSE e : Fix(e)
<1>10. Fix(h)
    <2> HIDE DEF Fix
    <2> QED BY <1>9
<1> HIDE DEF h
<1>11. \A i \in 0..n : h[i] = Body(h, i)
    BY <1>10
<1>12. h[0] = <<>>
    BY <1>6, <1>11
<1>13. \A i \in 1..n : h[i] = IF i \in T THEN Append(h[i - 1], s[i]) ELSE h[i - 1]
    <2>1. \A i \in 1..n : i \in 0..n
        OBVIOUS
    <2> QED BY <1>7, <1>11, <2>1
<1> DEFINE P == {i \in Nat : i <= n => h[i] \in Seq(X)}
<1>14. 0 \in P
    <2>1. <<>> \in Seq(X)
        OBVIOUS
    <2> QED BY <1>12, <2>1
<1>15. ASSUME NEW i \in Nat, i \in P PROVE i + 1 \in P
    <2> SUFFICES ASSUME i + 1 <= n PROVE h[i + 1] \in Seq(X)
        OBVIOUS
    <2>1. h[i] \in Seq(X) /\ i + 1 \in 1..n /\ i + 1 - 1 = i
        BY <1>15
    <2>2. s[i + 1] \in X
        BY <1>1, <2>1
    <2>3. h[i + 1] = IF i + 1 \in T THEN Append(h[i], s[i + 1]) ELSE h[i]
        BY <1>13, <2>1
    <2> QED BY <2>1, <2>2, <2>3
<1> HIDE DEF P
<1>16. \A i \in Nat : i \in P
    BY <1>14, <1>15, Induct
<1>17. h \in [0..n -> Seq(X)]
    <2>1. \A i \in 0..n : h[i] \in Seq(X)
        BY <1>16 DEF P
    <2>2. h = [i \in 0..n |-> h[i]]
        BY <1>10
    <2> QED BY <2>1, <2>2
<1>18. PickedBy(h, X, s, T)
    BY <1>1, <1>8, <1>12, <1>13, <1>17 DEF h, PickedBy
<1> QED BY <1>18

LEMMA Appended ==
    ASSUME NEW X, NEW s \in Seq(X), NEW x \in X
    PROVE  /\ Range(Append(s, x)) = Range(s) \cup {x}
           /\ IsInjective(s) /\ x \notin Range(s) => IsInjective(Append(s, x))
<1>1. /\ Len(s) \in Nat /\ DOMAIN s = 1..Len(s) /\ DOMAIN Append(s, x) = 1..(Len(s) + 1)
      /\ Append(s, x)[Len(s) + 1] = x /\ \A i \in 1..Len(s) : Append(s, x)[i] = s[i]
    OBVIOUS
<1>2. \A i \in 1..(Len(s) + 1) : i \in 1..Len(s) \/ i = Len(s) + 1
    BY <1>1
<1>3. \A i \in 1..Len(s) : i \in 1..(Len(s) + 1)
    BY <1>1
<1>4. Range(Append(s, x)) = Range(s) \cup {x}
    BY <1>1, <1>2, <1>3 DEF Range
<1>5. ASSUME IsInjective(s), x \notin Range(s) PROVE IsInjective(Append(s, x))
    BY <1>1, <1>2, <1>3, <1>5 DEF Range, IsInjective
<1> QED BY <1>4, <1>5

(* Pick keeps the elements at the positions in T, in order and once each.      *)
LEMMA Picked ==
    ASSUME NEW X, NEW s \in Seq(X), NEW T
    PROVE  /\ Pick(s, T) \in Seq(X)
           /\ Range(Pick(s, T)) = {s[i] : i \in DOMAIN s \cap T}
           /\ IsInjective(s) => IsInjective(Pick(s, T))
<1>0. PICK f : PickedBy(f, X, s, T)
    BY PickRec
<1>1. /\ f \in [0..Len(s) -> Seq(X)] /\ f[0] = <<>> /\ Pick(s, T) = f[Len(s)]
      /\ \A i \in 1..Len(s) : f[i] = IF i \in T THEN Append(f[i - 1], s[i]) ELSE f[i - 1]
    BY <1>0 DEF PickedBy
<1>2. PICK n \in Nat : n = Len(s) /\ DOMAIN s = 1..n
    OBVIOUS
<1> DEFINE Kept(m) == {s[i] : i \in (1..m) \cap T}
           P == {m \in Nat : m <= n => Range(f[m]) = Kept(m) /\ (IsInjective(s) => IsInjective(f[m]))}
<1>3. 0 \in P
    <2>1. Range(<<>>) = {} /\ IsInjective(<<>>)
        BY DEF Range, IsInjective
    <2>2. Kept(0) = {}
        OBVIOUS
    <2> HIDE DEF Kept
    <2> QED BY <1>1, <2>1, <2>2
<1>4. ASSUME NEW m \in Nat, m \in P PROVE m + 1 \in P
    <2> SUFFICES ASSUME m + 1 <= n PROVE Range(f[m + 1]) = Kept(m + 1) /\ (IsInjective(s) => IsInjective(f[m + 1]))
        OBVIOUS
    <2>1. /\ Range(f[m]) = Kept(m) /\ (IsInjective(s) => IsInjective(f[m])) /\ f[m] \in Seq(X)
          /\ m + 1 \in 1..n /\ m + 1 - 1 = m
        BY <1>1, <1>2, <1>4
    <2>2. s[m + 1] \in X /\ f[m + 1] = IF m + 1 \in T THEN Append(f[m], s[m + 1]) ELSE f[m]
        BY <1>1, <1>2, <2>1
    <2>3. \A i \in 1..(m + 1) : i \in 1..m \/ i = m + 1
        OBVIOUS
    <2>4. \A i \in 1..m : i \in 1..(m + 1)
        OBVIOUS
    <2>5. CASE m + 1 \in T
        <3>1. f[m + 1] = Append(f[m], s[m + 1])
            BY <2>2, <2>5
        <3>2. Kept(m + 1) = Kept(m) \cup {s[m + 1]}
            BY <2>3, <2>4, <2>5
        <3>3. Range(Append(f[m], s[m + 1])) = Range(f[m]) \cup {s[m + 1]}
            BY <2>1, <2>2, Appended
        <3>4. IsInjective(s) => s[m + 1] \notin Kept(m)
            <4> SUFFICES ASSUME IsInjective(s), NEW i \in 1..m, s[i] = s[m + 1] PROVE FALSE
                OBVIOUS
            <4>1. i \in DOMAIN s /\ m + 1 \in DOMAIN s /\ i # m + 1
                BY <1>2, <2>1
            <4> QED BY <4>1 DEF IsInjective
        <3> HIDE DEF Kept
        <3>5. IsInjective(s) => IsInjective(f[m + 1])
            BY <2>1, <2>2, <3>1, <3>4, Appended
        <3> QED BY <2>1, <3>1, <3>2, <3>3, <3>5
    <2>6. CASE m + 1 \notin T
        <3>1. f[m + 1] = f[m]
            BY <2>2, <2>6
        <3>2. Kept(m + 1) = Kept(m)
            BY <2>3, <2>4, <2>6
        <3> QED BY <2>1, <3>1, <3>2
    <2> QED BY <2>5, <2>6
<1> HIDE DEF P
<1>5. n \in P
    BY <1>3, <1>4, Induct
<1>6. Range(f[n]) = Kept(n) /\ (IsInjective(s) => IsInjective(f[n]))
    BY <1>5 DEF P
<1> QED BY <1>1, <1>2, <1>6

(* The sequence has the elements of the sequences it is made of.               *)
FlatBy(f, X, ss) ==
    /\ \A i \in 1..Len(ss) : f[i] \in Seq(X)
    /\ f[1] = ss[1] /\ \A i \in 2..Len(ss) : f[i] = f[i - 1] \o ss[i]
    /\ FlattenSeq(ss) = f[Len(ss)]

LEMMA FlattenRec ==
    ASSUME NEW X, NEW ss \in Seq(Seq(X)), ss # <<>>
    PROVE  \E f : FlatBy(f, X, ss)
<1>1. PICK n \in Nat : n = Len(ss) /\ n # 0 /\ \A i \in 1..n : ss[i] \in Seq(X)
    OBVIOUS
<1> DEFINE g == [i \in 1..n |-> [t \in Seq(X) |-> IF i = 1 THEN ss[i] ELSE t \o ss[i]]]
           Body(f, i) == IF i = 1 THEN ss[i] ELSE f[i - 1] \o ss[i]
           Fix(f) == f = [i \in 1..n |-> Body(f, i)]
<1>2. g \in [1..n -> [Seq(X) -> Seq(X)]]
    <2>1. ASSUME NEW i \in 1..n, NEW t \in Seq(X) PROVE (IF i = 1 THEN ss[i] ELSE t \o ss[i]) \in Seq(X)
        BY <1>1
    <2> QED BY <2>1
<1>3. \A i \in 1..n : \A t \in Seq(X) : g[i][t] = IF i = 1 THEN ss[i] ELSE t \o ss[i]
    OBVIOUS
<1>4. \A e : Body(e, 1) = ss[1]
    OBVIOUS
<1>5. ASSUME NEW e, NEW i \in 2..n PROVE Body(e, i) = e[i - 1] \o ss[i]
    <2>1. i # 1
        OBVIOUS
    <2> QED BY <2>1, Zenon
<1>6. FlattenSeq(ss) = (CHOOSE e : Fix(e))[n]
    BY <1>1 DEF FlattenSeq
<1> HIDE DEF g, Body
<1>7. PICK f \in [0..n -> Seq(X)] : f[0] = <<>> /\ \A i \in 1..n : f[i] = g[i][f[i - 1]]
    <2>1. <<>> \in Seq(X)
        OBVIOUS
    <2>2. PICK f : Steps(f, n, Seq(X), <<>>, g)
        BY <1>2, <2>1, Recursion
    <2> QED BY <2>2 DEF Steps
<1> DEFINE e0 == [i \in 1..n |-> f[i]]
<1>8. Fix(e0)
    <2>1. ASSUME NEW i \in 1..n PROVE f[i] = Body(e0, i)
        <3>1. f[i - 1] \in Seq(X)
            BY <1>7
        <3>2. f[i] = IF i = 1 THEN ss[i] ELSE f[i - 1] \o ss[i]
            BY <1>3, <1>7, <3>1
        <3>3. CASE i = 1
            BY <1>4, <3>2, <3>3
        <3>4. CASE i # 1
            <4>1. i \in 2..n /\ i - 1 \in 1..n
                BY <3>4
            <4>2. e0[i - 1] = f[i - 1]
                BY <4>1
            <4>3. Body(e0, i) = e0[i - 1] \o ss[i]
                BY <1>5, <4>1
            <4> QED BY <3>2, <3>4, <4>2, <4>3
        <3> QED BY <3>3, <3>4
    <2> QED BY <2>1
<1> DEFINE h == CHOOSE e : Fix(e)
<1>9. Fix(h)
    <2> HIDE DEF Fix, e0
    <2> QED BY <1>8
<1> HIDE DEF h
<1>10. \A i \in 1..n : h[i] = Body(h, i)
    BY <1>9
<1>11. h[1] = ss[1]
    BY <1>1, <1>4, <1>10
<1>12. \A i \in 2..n : h[i] = h[i - 1] \o ss[i]
    <2>1. \A i \in 2..n : i \in 1..n
        OBVIOUS
    <2> QED BY <1>5, <1>10, <2>1
<1> DEFINE P == {i \in Nat : i + 1 <= n => h[i + 1] \in Seq(X)}
<1>13. 0 \in P
    BY <1>1, <1>11
<1>14. ASSUME NEW i \in Nat, i \in P PROVE i + 1 \in P
    <2> SUFFICES ASSUME i + 1 + 1 <= n PROVE h[i + 1 + 1] \in Seq(X)
        OBVIOUS
    <2>1. h[i + 1] \in Seq(X) /\ i + 1 + 1 \in 2..n /\ i + 1 + 1 - 1 = i + 1 /\ i + 1 + 1 \in 1..n
        BY <1>14
    <2>2. ss[i + 1 + 1] \in Seq(X)
        BY <1>1, <2>1
    <2>3. h[i + 1 + 1] = h[i + 1] \o ss[i + 1 + 1]
        <3>1. PICK k \in 2..n : k = i + 1 + 1 /\ k - 1 = i + 1
            BY <2>1
        <3>2. h[k] = h[k - 1] \o ss[k]
            BY <1>12
        <3> QED BY <3>1, <3>2, Zenon
    <2> QED BY <2>1, <2>2, <2>3
<1> HIDE DEF P
<1>15. \A i \in Nat : i \in P
    BY <1>13, <1>14, Induct
<1>16. \A i \in 1..n : h[i] \in Seq(X)
    <2> SUFFICES ASSUME NEW i \in 1..n PROVE h[i] \in Seq(X)
        OBVIOUS
    <2>1. i - 1 \in Nat /\ i - 1 + 1 = i
        OBVIOUS
    <2>2. i - 1 \in P
        BY <1>15, <2>1
    <2> QED BY <2>1, <2>2 DEF P
<1>17. FlatBy(h, X, ss)
    BY <1>1, <1>6, <1>11, <1>12, <1>16 DEF h, FlatBy
<1> QED BY <1>17

LEMMA Joined ==
    ASSUME NEW X, NEW s \in Seq(X), NEW t \in Seq(X)
    PROVE  /\ s \o t \in Seq(X) /\ Len(s \o t) = Len(s) + Len(t)
           /\ \A i \in 1..Len(s) : (s \o t)[i] = s[i]
           /\ Range(s \o t) = Range(s) \cup Range(t)
<1>1. /\ s \o t \in Seq(X) /\ Len(s \o t) = Len(s) + Len(t) /\ Len(s) \in Nat /\ Len(t) \in Nat
      /\ \A i \in 1..Len(s) : (s \o t)[i] = s[i]
      /\ \A i \in 1..Len(t) : (s \o t)[Len(s) + i] = t[i]
    BY ConcatProperties
<1>2. DOMAIN s = 1..Len(s) /\ DOMAIN t = 1..Len(t) /\ DOMAIN (s \o t) = 1..(Len(s) + Len(t))
    BY <1>1
<1>3. ASSUME NEW i \in 1..(Len(s) + Len(t)) PROVE (s \o t)[i] \in Range(s) \cup Range(t)
    <2>1. CASE i <= Len(s)
        <3>1. i \in 1..Len(s)
            BY <1>1, <2>1
        <3> QED BY <1>1, <1>2, <3>1 DEF Range
    <2>2. CASE ~(i <= Len(s))
        <3>1. i - Len(s) \in 1..Len(t) /\ Len(s) + (i - Len(s)) = i
            BY <1>1, <2>2
        <3>2. (s \o t)[i] = t[i - Len(s)]
            BY <1>1, <3>1
        <3> QED BY <1>2, <3>1, <3>2 DEF Range
    <2> QED BY <2>1, <2>2
<1>4. \A i \in 1..Len(s) : i \in 1..(Len(s) + Len(t))
    BY <1>1
<1>5. \A i \in 1..Len(t) : Len(s) + i \in 1..(Len(s) + Len(t))
    BY <1>1
<1>6. Range(s \o t) \subseteq Range(s) \cup Range(t)
    BY <1>2, <1>3 DEF Range
<1>7. Range(s) \subseteq Range(s \o t)
    BY <1>1, <1>2, <1>4 DEF Range
<1>8. Range(t) \subseteq Range(s \o t)
    BY <1>1, <1>2, <1>5 DEF Range
<1> QED BY <1>1, <1>6, <1>7, <1>8

LEMMA Flattened ==
    ASSUME NEW X, NEW ss \in Seq(Seq(X))
    PROVE  /\ FlattenSeq(ss) \in Seq(X)
           /\ Range(FlattenSeq(ss)) = UNION {Range(ss[i]) : i \in DOMAIN ss}
<1>1. CASE ss = <<>>
    <2>1. FlattenSeq(ss) = <<>> /\ DOMAIN ss = {}
        BY <1>1 DEF FlattenSeq
    <2> QED BY <2>1 DEF Range
<1>2. CASE ss # <<>>
    <2>1. PICK f : FlatBy(f, X, ss)
        BY <1>2, FlattenRec
    <2>2. PICK n \in Nat : n = Len(ss) /\ n # 0 /\ DOMAIN ss = 1..n /\ \A i \in 1..n : ss[i] \in Seq(X)
        BY <1>2
    <2>3. /\ \A i \in 1..n : f[i] \in Seq(X)
          /\ f[1] = ss[1] /\ \A i \in 2..n : f[i] = f[i - 1] \o ss[i]
          /\ FlattenSeq(ss) = f[n]
        BY <2>1, <2>2 DEF FlatBy
    <2> DEFINE All(m) == UNION {Range(ss[i]) : i \in 1..m}
               P == {m \in Nat : m + 1 <= n => Range(f[m + 1]) = All(m + 1)}
    <2>4. 0 \in P
        <3>1. All(1) = Range(ss[1])
            OBVIOUS
        <3> QED BY <2>3, <3>1
    <2>5. ASSUME NEW m \in Nat, m \in P PROVE m + 1 \in P
        <3> SUFFICES ASSUME m + 1 + 1 <= n PROVE Range(f[m + 1 + 1]) = All(m + 1 + 1)
            OBVIOUS
        <3>1. /\ Range(f[m + 1]) = All(m + 1) /\ m + 1 \in 1..n /\ m + 1 + 1 \in 2..n
              /\ m + 1 + 1 - 1 = m + 1 /\ m + 1 + 1 \in 1..n
            BY <2>5
        <3>2. f[m + 1 + 1] = f[m + 1] \o ss[m + 1 + 1] /\ f[m + 1] \in Seq(X) /\ ss[m + 1 + 1] \in Seq(X)
            <4>1. PICK k \in 2..n : k = m + 1 + 1 /\ k - 1 = m + 1 /\ k \in 1..n
                BY <3>1
            <4>2. f[k] = f[k - 1] \o ss[k]
                BY <2>3
            <4>3. f[m + 1 + 1] = f[m + 1] \o ss[m + 1 + 1]
                BY <4>1, <4>2, Zenon
            <4> QED BY <2>2, <2>3, <3>1, <4>3
        <3>3. Range(f[m + 1 + 1]) = Range(f[m + 1]) \cup Range(ss[m + 1 + 1])
            BY <3>2, Joined
        <3>4. \A i \in 1..(m + 1 + 1) : i \in 1..(m + 1) \/ i = m + 1 + 1
            OBVIOUS
        <3>5. m + 1 + 1 \in 1..(m + 1 + 1) /\ \A i \in 1..(m + 1) : i \in 1..(m + 1 + 1)
            OBVIOUS
        <3>6. All(m + 1 + 1) = All(m + 1) \cup Range(ss[m + 1 + 1])
            BY <3>4, <3>5
        <3> QED BY <3>1, <3>3, <3>6
    <2> HIDE DEF P
    <2>6. n - 1 \in Nat /\ n - 1 + 1 = n /\ n \in 1..n
        BY <2>2
    <2>7. n - 1 \in P
        BY <2>4, <2>5, <2>6, Induct
    <2>8. Range(f[n]) = All(n)
        BY <2>6, <2>7 DEF P
    <2> QED BY <2>2, <2>3, <2>6, <2>8
<1> QED BY <1>1, <1>2

LEMMA Greatest ==
    ASSUME NEW T \in SUBSET Nat, T # {}, NEW b \in Nat, \A t \in T : t <= b
    PROVE  \E n \in T : \A m \in T : m <= n
<1> DEFINE U == {b - t : t \in T}
<1>1. U \in SUBSET Nat /\ U # {}
    <2>1. \A t \in T : b - t \in Nat
        OBVIOUS
    <2>2. PICK t \in T : TRUE
        OBVIOUS
    <2>3. b - t \in U
        BY <2>2
    <2> QED BY <2>1, <2>3
<1>2. PICK u \in U : \A v \in U : u <= v
    BY <1>1, Least
<1>3. PICK n \in T : u = b - n
    BY <1>2
<1>4. \A m \in T : b - n <= b - m
    BY <1>2, <1>3
<1>5. \A m \in T : m <= n
    BY <1>4
<1> QED BY <1>5
-----------------------------------------------------------------------------
(* The operators the upserts are made of.                                      *)

(* Every element once.                                                         *)
LEMMA Firsts ==
    ASSUME NEW X, NEW s \in Seq(X)
    PROVE  FirstOnly(s) \in Seq(X) /\ Range(FirstOnly(s)) = Range(s)
<1> DEFINE T == {i \in DOMAIN s : \A j \in 1..(i - 1) : s[j] # s[i]}
<1>1. FirstOnly(s) = Pick(s, T)
    BY DEF FirstOnly
<1>2. DOMAIN s = 1..Len(s) /\ Len(s) \in Nat
    OBVIOUS
<1>3. ASSUME NEW i \in DOMAIN s PROVE \E j \in T : s[j] = s[i]
    <2> DEFINE U == {j \in DOMAIN s : s[j] = s[i]}
    <2>1. U \in SUBSET Nat /\ U # {}
        BY <1>2
    <2>2. PICK m \in U : \A j \in U : m <= j
        BY <2>1, Least
    <2>3. m \in DOMAIN s /\ s[m] = s[i] /\ m \in Nat
        BY <1>2, <2>2
    <2>4. ASSUME NEW j \in 1..(m - 1), s[j] = s[m] PROVE FALSE
        <3>1. j \in DOMAIN s /\ j < m
            BY <1>2, <2>3
        <3> QED BY <2>2, <2>3, <2>4, <3>1
    <2> QED BY <2>3, <2>4
<1> HIDE DEF T
<1>4. Pick(s, T) \in Seq(X) /\ Range(Pick(s, T)) = {s[i] : i \in DOMAIN s \cap T}
    BY Picked
<1>5. T \subseteq DOMAIN s
    BY DEF T
<1> QED BY <1>1, <1>3, <1>4, <1>5 DEF Range

LEMMA Lasts ==
    ASSUME NEW X, NEW s \in Seq(X)
    PROVE  /\ DOMAIN LastByKey(s) = {e.key : e \in Range(s)}
           /\ \A k \in DOMAIN LastByKey(s) : LastByKey(s)[k] \in Range(s) /\ LastByKey(s)[k].key = k
<1>1. DOMAIN s = 1..Len(s) /\ Len(s) \in Nat
    OBVIOUS
<1>2. ToSet(KeysOf(s)) = {e.key : e \in Range(s)}
    BY DEF ToSet, KeysOf, Range
<1>3. DOMAIN LastByKey(s) = {e.key : e \in Range(s)}
    BY <1>2 DEF LastByKey
<1>4. ASSUME NEW k \in {e.key : e \in Range(s)} PROVE LastByKey(s)[k] \in Range(s) /\ LastByKey(s)[k].key = k
    <2> DEFINE I == {i \in DOMAIN s : s[i].key = k}
    <2>1. LastByKey(s)[k] = s[Max(I)]
        BY <1>2 DEF LastByKey
    <2>2. I \in SUBSET Nat /\ I # {} /\ \A i \in I : i <= Len(s)
        BY <1>1 DEF Range
    <2> HIDE DEF I
    <2>3. \E n \in I : \A m \in I : m <= n
        BY <1>1, <2>2, Greatest
    <2>4. \E n \in I : \A m \in I : n >= m
        BY <2>2, <2>3
    <2>5. Max(I) \in I
        BY <2>4 DEF Max
    <2>6. Max(I) \in DOMAIN s /\ s[Max(I)].key = k
        BY <2>5 DEF I
    <2> QED BY <2>1, <2>6 DEF Range
<1> QED BY <1>3, <1>4

(* What an upsert is going to write to one store.                              *)
KeysFor(store, order, final) == Pick(order, {i \in DOMAIN order : final[order[i]].type = store})
RowsFor(store, order, final) ==
    [i \in DOMAIN KeysFor(store, order, final) |-> final[KeysFor(store, order, final)[i]]]
StoresOf(sorted, touched) == Pick(sorted, {i \in DOMAIN sorted : sorted[i] \in touched})

Sq(s) == s \in Seq(Range(s))

LEMMA FunctionSq ==
    ASSUME NEW n \in Nat, NEW s, s = [i \in 1..n |-> s[i]]
    PROVE  Sq(s) /\ Len(s) = n /\ DOMAIN s = 1..n
<1>1. DOMAIN s = 1..n
    OBVIOUS
<1>2. s \in [1..n -> Range(s)]
    BY <1>1 DEF Range
<1>3. s \in Seq(Range(s))
    BY <1>2
<1>4. Len(s) = n
    BY <1>1, <1>3
<1> QED BY <1>1, <1>3, <1>4 DEF Sq

LEMMA RowsForStore ==
    ASSUME NEW K, NEW order \in Seq(K), NEW final, NEW store
    PROVE  /\ Sq(RowsFor(store, order, final))
           /\ Range(RowsFor(store, order, final)) = {final[k] : k \in {l \in Range(order) : final[l].type = store}}
<1> DEFINE T == {i \in DOMAIN order : final[order[i]].type = store}
           keys == KeysFor(store, order, final)
           rows == RowsFor(store, order, final)
<1>1. keys = Pick(order, T)
    BY DEF KeysFor
<1>2. keys \in Seq(K) /\ Range(keys) = {order[i] : i \in DOMAIN order \cap T}
    <2> HIDE DEF T, keys
    <2> QED BY <1>1, Picked
<1>3. rows = [i \in DOMAIN keys |-> final[keys[i]]]
    BY DEF RowsFor
<1>4. Range(keys) = {l \in Range(order) : final[l].type = store}
    BY <1>2 DEF Range
<1> HIDE DEF keys, rows, T
<1>5. PICK n \in Nat : DOMAIN keys = 1..n
    BY <1>2
<1>6. rows = [i \in 1..n |-> rows[i]]
    BY <1>3, <1>5
<1>7. Sq(rows)
    BY <1>6, FunctionSq
<1>8. Range(rows) = {final[k] : k \in Range(keys)}
    BY <1>3 DEF Range
<1> QED BY <1>4, <1>7, <1>8 DEF rows

LEMMA RewritesOf ==
    ASSUME NEW A, NEW sorted \in Seq(A), IsInjective(sorted), NEW touched, NEW K, NEW order \in Seq(K), NEW final
    PROVE  /\ Sq(Rewrites(sorted, touched, order, final))
           /\ \A w \in Range(Rewrites(sorted, touched, order, final)) :
                 w = [store |-> w.store, rows |-> RowsFor(w.store, order, final)] /\ w.store \in Range(sorted) \cap touched
           /\ \A t \in Range(sorted) \cap touched :
                 \E w \in Range(Rewrites(sorted, touched, order, final)) : w.store = t
           /\ \A i, j \in DOMAIN Rewrites(sorted, touched, order, final) :
                 Rewrites(sorted, touched, order, final)[i].store = Rewrites(sorted, touched, order, final)[j].store => i = j
<1> DEFINE T == {i \in DOMAIN sorted : sorted[i] \in touched}
           stores == StoresOf(sorted, touched)
           todo == Rewrites(sorted, touched, order, final)
<1>1. todo = [n \in DOMAIN stores |-> [store |-> stores[n], rows |-> RowsFor(stores[n], order, final)]]
    BY DEF Rewrites, Those, StoresOf, RowsFor, KeysFor
<1>2. stores = Pick(sorted, T)
    BY DEF StoresOf
<1>3. stores \in Seq(A) /\ Range(stores) = {sorted[i] : i \in DOMAIN sorted \cap T} /\ IsInjective(stores)
    <2> HIDE DEF T, stores
    <2> QED BY <1>2, Picked
<1>4. Range(stores) = Range(sorted) \cap touched
    BY <1>3 DEF Range
<1> HIDE DEF T, stores, todo
<1>5. PICK n \in Nat : DOMAIN stores = 1..n
    BY <1>3
<1>6. todo = [i \in 1..n |-> todo[i]]
    BY <1>1, <1>5
<1>7. Sq(todo) /\ DOMAIN todo = 1..n
    BY <1>6, FunctionSq
<1>8. \A i \in 1..n : /\ todo[i].store = stores[i] /\ stores[i] \in Range(stores)
                      /\ todo[i] = [store |-> todo[i].store, rows |-> RowsFor(todo[i].store, order, final)]
    BY <1>1, <1>5 DEF Range
<1>9. \A w \in Range(todo) :
          w = [store |-> w.store, rows |-> RowsFor(w.store, order, final)] /\ w.store \in Range(sorted) \cap touched
    BY <1>4, <1>7, <1>8 DEF Range
<1>10. \A t \in Range(sorted) \cap touched : \E w \in Range(todo) : w.store = t
    <2> SUFFICES ASSUME NEW t \in Range(stores) PROVE \E w \in Range(todo) : w.store = t
        BY <1>4
    <2>1. PICK i \in 1..n : stores[i] = t
        BY <1>5 DEF Range
    <2>2. todo[i] \in Range(todo) /\ todo[i].store = t
        BY <1>7, <1>8, <2>1 DEF Range
    <2> QED BY <2>2
<1>11. \A i, j \in DOMAIN todo : todo[i].store = todo[j].store => i = j
    BY <1>3, <1>5, <1>7, <1>8 DEF IsInjective
<1> QED BY <1>7, <1>9, <1>10, <1>11 DEF todo
-----------------------------------------------------------------------------
(* The inductive invariant.                                                    *)

KeysIn(s) == {e.key : e \in Range(s)}

(* The rows have the edge key column, or none of them has.                     *)
Same(s) == \A a, b \in Range(s) : a.key = NoKey <=> b.key = NoKey

Writing(w) ==
    w.store \in Relation /\ Sq(w.rows) /\ Same(w.rows) /\ \A e \in Range(w.rows) : e.type = w.store

Shape ==
    /\ edges = [r \in Relation |-> edges[r]] /\ reader = [r \in Relation |-> reader[r]]
    /\ file = [r \in Relation |-> file[r]] /\ edgeLoss \in BOOLEAN
    /\ \A r \in Relation : Sq(edges[r]) /\ Same(edges[r]) /\ \A e \in Range(edges[r]) : e.type = r
    /\ \A r \in Relation : \A f, g \in file[r] : f = g

OnEdges == job.op \in {"insertEdges", "upsertEdges"}

JobShape ==
    /\ job = [op |-> job.op, phase |-> job.phase, todo |-> job.todo]
    /\ job.op \in {"idle", "insertNodes", "upsertNodes", "insertEdges", "upsertEdges"}
    /\ job.op = "idle" => job.phase = "idle"
    /\ job.op = "insertEdges" => job.phase # "remove" /\ Len(job.todo) = 1
    /\ OnEdges => /\ Sq(job.todo) /\ job.todo # <<>> /\ \A w \in Range(job.todo) : Writing(w)
                  /\ \A i, j \in DOMAIN job.todo : job.todo[i].store = job.todo[j].store => i = j
                  /\ job.phase = "append" => Rows # <<>>
                  /\ job.phase = "invalidate" => Range(Rows) \subseteq Range(edges[Store])

(* The adjacency of the first rows of a store.                                 *)
AdjOf(s) == [i \in DOMAIN s |-> <<s[i].src, s[i].dst>>]
Before(a, s) == \E n \in 0..Len(s) : Len(a) = n /\ a = [i \in 1..n |-> <<s[i].src, s[i].dst>>]

(* A store being rewritten has no promise; a file is a beginning of the         *)
(* adjacency, and a reader is all of it unless rows were just appended.         *)
ReadersGood(r) ==
    \/ job.op = "upsertEdges" /\ job.phase \in {"append", "invalidate"} /\ r = Store
    \/ /\ \A f \in file[r] : Before(f.adj, edges[r])
       /\ \/ \A c \in reader[r] : c.adj = AdjOf(edges[r])
          \/ job.op = "insertEdges" /\ job.phase = "invalidate" /\ r = Store

(* An edge key is in a store, or in the rows an upsert is about to write.      *)
InStore(k, r) == k \in KeysIn(edges[r])
Settled(r) == job.op = "upsertEdges" => \A w \in Range(job.todo) : w.store # r
Pending(k) == job.op = "upsertEdges" /\ \E w \in Range(job.todo) : k \in KeysIn(w.rows)
Kept(k) == Pending(k) \/ \E r \in Relation : Settled(r) /\ InStore(k, r)

GInv ==
    /\ Shape /\ JobShape
    /\ ~edgeLoss => \A r \in Relation : ReadersGood(r)
    /\ ~edgeLoss => \A k \in acked \ {NoKey} : Kept(k)

-----------------------------------------------------------------------------
Stored == UNION {Range(edges[r]) : r \in Relation}

LEMMA SqUp ==
    ASSUME NEW X, NEW s, Sq(s), Range(s) \subseteq X
    PROVE  s \in Seq(X)
<1>1. s \in Seq(Range(s))
    BY DEF Sq
<1>2. PICK n \in Nat : s \in [1..n -> Range(s)]
    BY <1>1
<1>3. s \in [1..n -> X]
    BY <1>2
<1> QED BY <1>3

LEMMA SqDown ==
    ASSUME NEW X, NEW s \in Seq(X)
    PROVE  Sq(s) /\ DOMAIN s = 1..Len(s) /\ Len(s) \in Nat /\ Range(s) \subseteq X
<1>1. PICK n \in Nat : n = Len(s) /\ s \in [1..n -> X]
    OBVIOUS
<1>2. s \in [1..n -> Range(s)]
    BY <1>1 DEF Range
<1>3. s \in Seq(Range(s))
    BY <1>2
<1> QED BY <1>1, <1>3 DEF Sq, Range

LEMMA AllEdgesStored ==
    ASSUME Shape
    PROVE  AllEdges \in Seq(Stored) /\ Range(AllEdges) = Stored
<1> DEFINE ss == [i \in DOMAIN Relations |-> edges[Relations[i]]]
<1>1. Relations \in Seq(Relation) /\ Relation = {Relations[i] : i \in DOMAIN Relations}
    BY ConstantsAssumption DEF Relation, ToSet
<1>2. PICK n \in Nat : DOMAIN Relations = 1..n
    BY <1>1
<1>3. ASSUME NEW r \in Relation PROVE edges[r] \in Seq(Stored)
    BY SqUp DEF Shape, Stored
<1>4. ss \in [1..n -> Seq(Stored)]
    BY <1>1, <1>2, <1>3
<1>5. ss \in Seq(Seq(Stored))
    BY <1>4
<1>6. AllEdges = FlattenSeq(ss)
    BY DEF AllEdges
<1>7. {ss[i] : i \in DOMAIN ss} = {edges[r] : r \in Relation}
    BY <1>1
<1>8. UNION {Range(ss[i]) : i \in DOMAIN ss} = Stored
    BY <1>1 DEF Stored
<1> HIDE DEF ss
<1> QED BY <1>5, <1>6, <1>8, Flattened

(* The stores that have the edge key column are those whose rows have a key.   *)
LEMMA KeyedRows ==
    ASSUME Shape, NEW r \in Relation, NEW e \in Range(edges[r])
    PROVE  e.type = r /\ (Keyed(r) <=> e.key # NoKey)
<1>1. Sq(edges[r]) /\ Same(edges[r]) /\ e.type = r
    BY DEF Shape
<1>2. edges[r] \in Seq(Range(edges[r]))
    BY <1>1 DEF Sq
<1>3. edges[r] # <<>>
    BY DEF Range
<1>4. 1 \in DOMAIN edges[r]
    BY <1>2, <1>3
<1>5. edges[r][1] \in Range(edges[r])
    BY <1>4 DEF Range
<1> QED BY <1>1, <1>3, <1>5 DEF Keyed, Same

LEMMA KeysOfRows ==
    ASSUME NEW X, NEW s \in Seq(X)
    PROVE  KeysOf(s) \in Seq({e.key : e \in X}) /\ Range(KeysOf(s)) = KeysIn(s) /\ ToSet(TypesOf(s)) = {e.type : e \in Range(s)}
<1>1. PICK n \in Nat : s \in [1..n -> X]
    OBVIOUS
<1>2. KeysOf(s) \in [1..n -> {e.key : e \in X}]
    BY <1>1 DEF KeysOf
<1>3. Range(KeysOf(s)) = KeysIn(s)
    BY <1>1 DEF KeysOf, KeysIn, Range
<1>4. ToSet(TypesOf(s)) = {e.type : e \in Range(s)}
    BY <1>1 DEF TypesOf, Range, ToSet
<1> QED BY <1>2, <1>3, <1>4

(* The rows after an upsert, by key: every key met has one.                    *)
FinalEdges(existing, key, row, update) ==
    IF key \in DOMAIN existing /\ ~update THEN existing ELSE Put(existing, key, row)

LEMMA FinalByKey ==
    ASSUME NEW existing, NEW key, NEW row, NEW update \in BOOLEAN, row.key = key,
           \A k \in DOMAIN existing : existing[k].key = k
    PROVE  \A k \in DOMAIN existing \cup {key} :
              /\ FinalEdges(existing, key, row, update)[k].key = k
              /\ \/ FinalEdges(existing, key, row, update)[k] = row
                 \/ k \in DOMAIN existing /\ FinalEdges(existing, key, row, update)[k] = existing[k]
<1>1. CASE key \in DOMAIN existing /\ ~update
    BY <1>1 DEF FinalEdges
<1>2. CASE ~(key \in DOMAIN existing /\ ~update)
    <2>1. FinalEdges(existing, key, row, update) =
            [k \in {key} \cup DOMAIN existing |-> IF k = key THEN row ELSE existing[k]]
        BY <1>2 DEF FinalEdges, Put
    <2> QED BY <2>1
<1> QED BY <1>1, <1>2

(* What an edge upsert is about to write: every keyed edge stored, once, and   *)
(* the row it was given.                                                       *)
LEMMA UpsertBegins ==
    ASSUME Shape, NEW r \in Relation, NEW from, NEW to, NEW key \in EdgeKeys, NEW update \in BOOLEAN,
           UpsertEdge(r, from, to, key, update)
    PROVE  /\ job' = [op |-> "upsertEdges", phase |-> "remove", todo |-> job'.todo]
           /\ Sq(job'.todo) /\ job'.todo # <<>> /\ \A w \in Range(job'.todo) : Writing(w)
           /\ \A i, j \in DOMAIN job'.todo : job'.todo[i].store = job'.todo[j].store => i = j
           /\ \A q \in Relation : \A k \in KeysIn(edges[q]) \ {NoKey} :
                 \E w \in Range(job'.todo) : k \in KeysIn(w.rows)
           /\ \A w \in Range(job'.todo) : \A e \in Range(w.rows) : e = Resolved(r, from, to, key) \/ e \in Stored
<1> DEFINE scanned == Those(AllEdges, LAMBDA e : Keyed(e.type))
           T == {i \in DOMAIN AllEdges : Keyed(AllEdges[i].type)}
           existing == LastByKey(scanned)
           row == Resolved(r, from, to, key)
           final == FinalEdges(existing, key, row, update)
           order == FirstOnly(Append(KeysOf(scanned), key))
           touched == {r} \cup ToSet(TypesOf(scanned))
           todo == Rewrites(Relations, touched, order, final)
<1>1. job' = [op |-> "upsertEdges", phase |-> "remove", todo |-> todo]
    BY DEF UpsertEdge, FinalEdges
<1>2. scanned = Pick(AllEdges, T)
    BY DEF Those
<1> HIDE DEF scanned
<1>3. scanned \in Seq(Stored) /\ Range(scanned) = {AllEdges[i] : i \in DOMAIN AllEdges \cap T}
    <2> HIDE DEF T
    <2> QED BY <1>2, AllEdgesStored, Picked
<1>4. Range(scanned) = {e \in Stored : Keyed(e.type)}
    BY <1>3, AllEdgesStored DEF Range
<1>5. \A e \in Range(scanned) : e.type \in Relation /\ e.key # NoKey
    <2> SUFFICES ASSUME NEW e \in Stored, Keyed(e.type) PROVE e.type \in Relation /\ e.key # NoKey
        BY <1>4
    <2>1. PICK q \in Relation : e \in Range(edges[q])
        BY DEF Stored
    <2> QED BY <2>1, KeyedRows
<1>6. \A q \in Relation : \A e \in Range(edges[q]) : e.key # NoKey => e \in Range(scanned)
    <2> SUFFICES ASSUME NEW q \in Relation, NEW e \in Range(edges[q]), e.key # NoKey PROVE e \in Range(scanned)
        OBVIOUS
    <2>1. e.type = q /\ Keyed(q)
        BY KeyedRows
    <2>2. e \in Stored
        BY DEF Stored
    <2> QED BY <1>4, <2>1, <2>2
<1>7. DOMAIN existing = KeysIn(scanned) /\ \A k \in DOMAIN existing : existing[k] \in Range(scanned) /\ existing[k].key = k
    BY <1>3, Lasts DEF KeysIn
<1>8. KeysOf(scanned) \in Seq({e.key : e \in Stored}) /\ Range(KeysOf(scanned)) = KeysIn(scanned) /\ ToSet(TypesOf(scanned)) = {e.type : e \in Range(scanned)}
    BY <1>3, KeysOfRows
<1> DEFINE K == {e.key : e \in Stored} \cup {key}
<1>9. order \in Seq(K) /\ Range(order) = KeysIn(scanned) \cup {key}
    <2>1. {e.key : e \in Stored} \subseteq K /\ key \in K
        OBVIOUS
    <2>2. KeysOf(scanned) \in Seq(K)
        <3>1. Sq(KeysOf(scanned)) /\ Range(KeysOf(scanned)) \subseteq {e.key : e \in Stored}
            <4> DEFINE Y == {e.key : e \in Stored}
            <4> HIDE DEF Y
            <4>1. KeysOf(scanned) \in Seq(Y)
                BY <1>8 DEF Y
            <4>2. Sq(KeysOf(scanned)) /\ Range(KeysOf(scanned)) \subseteq Y
                BY <4>1, SqDown
            <4> QED BY <4>2 DEF Y
        <3>2. Range(KeysOf(scanned)) \subseteq K
            BY <3>1, <2>1
        <3> HIDE DEF K
        <3> QED BY <3>1, <3>2, SqUp
    <2> HIDE DEF K
    <2>3. Append(KeysOf(scanned), key) \in Seq(K)
        BY <2>1, <2>2
    <2>4. Range(Append(KeysOf(scanned), key)) = KeysIn(scanned) \cup {key}
        BY <1>8, <2>1, <2>2, Appended
    <2> QED BY <2>3, <2>4, Firsts
<1>10. row.key = key /\ row.type = r
    BY DEF Resolved
<1>11. NoKey # key
    BY ConstantsAssumption
<1> HIDE DEF existing, row, order, K
<1>12. \A k \in Range(order) : /\ final[k].key = k
                               /\ final[k] = row \/ final[k] \in Range(scanned)
    <2>1. \A k \in DOMAIN existing : existing[k].key = k
        BY <1>7
    <2> HIDE DEF final
    <2>2. \A k \in DOMAIN existing \cup {key} :
             /\ final[k].key = k
             /\ \/ final[k] = row
                \/ k \in DOMAIN existing /\ final[k] = existing[k]
        BY <1>10, <2>1, FinalByKey DEF final
    <2> QED BY <1>7, <1>9, <2>2
<1>13. \A k \in Range(order) : final[k].type \in Relation \cap touched /\ final[k].key # NoKey
    BY <1>5, <1>8, <1>10, <1>11, <1>12
<1> HIDE DEF final, touched
<1>14. /\ Sq(todo)
       /\ \A w \in Range(todo) : w = [store |-> w.store, rows |-> RowsFor(w.store, order, final)] /\ w.store \in Range(Relations) \cap touched
       /\ \A t \in Range(Relations) \cap touched : \E w \in Range(todo) : w.store = t
       /\ \A i, j \in DOMAIN todo : todo[i].store = todo[j].store => i = j
    <2>1. Relations \in Seq(ToSet(Relations)) /\ IsInjective(Relations)
        BY ConstantsAssumption
    <2> QED BY <1>9, <2>1, RewritesOf
<1> HIDE DEF todo
<1>15. Relation = Range(Relations)
    BY DEF Relation, ToSet, Range
<1>16. \A t : /\ Sq(RowsFor(t, order, final))
              /\ Range(RowsFor(t, order, final)) = {final[k] : k \in {l \in Range(order) : final[l].type = t}}
    BY <1>9, RowsForStore
<1>17. ASSUME NEW w \in Range(todo) PROVE Writing(w)
    <2>1. w.rows = RowsFor(w.store, order, final) /\ w.store \in Relation
        BY <1>14, <1>15, <1>17
    <2>2. \A e \in Range(w.rows) : e.type = w.store /\ e.key # NoKey
        BY <1>13, <1>16, <2>1
    <2> QED BY <1>16, <2>1, <2>2 DEF Writing, Same
<1>18. ASSUME NEW k \in Range(order) PROVE \E w \in Range(todo) : k \in KeysIn(w.rows)
    <2>1. PICK w \in Range(todo) : w.store = final[k].type
        BY <1>13, <1>14, <1>15
    <2>2. w.rows = RowsFor(w.store, order, final)
        BY <1>14, <2>1
    <2>3. final[k] \in Range(w.rows)
        BY <1>16, <2>1, <2>2
    <2>4. k \in KeysIn(w.rows)
        BY <1>12, <2>3 DEF KeysIn
    <2> QED BY <2>4
<1>19. \A q \in Relation : \A k \in KeysIn(edges[q]) \ {NoKey} : k \in Range(order)
    BY <1>6, <1>9 DEF KeysIn
<1>20. todo # <<>>
    <2>1. key \in Range(order)
        BY <1>9
    <2>2. PICK w \in Range(todo) : TRUE
        BY <2>1, <1>18
    <2> QED BY <2>2 DEF Range
<1>21. job'.todo = todo
    BY <1>1
<1>22. ASSUME NEW w \in Range(todo), NEW e \in Range(w.rows) PROVE e = row \/ e \in Stored
    <2>1. w.rows = RowsFor(w.store, order, final)
        BY <1>14
    <2>2. PICK k \in Range(order) : e = final[k]
        BY <1>16, <2>1
    <2> QED BY <1>4, <1>12, <2>2
<1> QED BY <1>1, <1>14, <1>17, <1>18, <1>19, <1>20, <1>21, <1>22 DEF row

-----------------------------------------------------------------------------
(* The steps of a call.                                                        *)

LEMMA FirstAndRest ==
    ASSUME NEW s, Sq(s), s # <<>>
    PROVE  /\ Head(s) = s[1] /\ Head(s) \in Range(s) /\ Len(s) \in Nat /\ DOMAIN s = 1..Len(s)
           /\ Sq(Tail(s)) /\ Range(s) = {Head(s)} \cup Range(Tail(s))
           /\ DOMAIN Tail(s) = 1..(Len(s) - 1)
           /\ \A i \in DOMAIN Tail(s) : Tail(s)[i] = s[i + 1] /\ i + 1 \in DOMAIN s
           /\ (Len(s) = 1 => Range(s) = {Head(s)}) /\ (Len(s) # 1 => Tail(s) # <<>>)
<1>1. s \in Seq(Range(s))
    BY DEF Sq
<1>2. PICK n \in Nat : n = Len(s) /\ n # 0 /\ DOMAIN s = 1..n
    BY <1>1
<1>3. Head(s) = s[1] /\ Head(s) \in Range(s) /\ Tail(s) \in Seq(Range(s)) /\ Len(Tail(s)) = n - 1
    BY <1>1, <1>2 DEF Range
<1>4. Sq(Tail(s)) /\ DOMAIN Tail(s) = 1..(n - 1)
    BY <1>2, <1>3, SqDown
<1>5. \A i \in 1..(n - 1) : Tail(s)[i] = s[i + 1] /\ i + 1 \in 1..n
    BY <1>1, <1>2
<1>6. \A i \in 1..n : i = 1 \/ (i - 1 \in 1..(n - 1) /\ i - 1 + 1 = i)
    BY <1>2
<1>7. Range(s) \subseteq {Head(s)} \cup Range(Tail(s))
    <2> SUFFICES ASSUME NEW i \in 1..n PROVE s[i] \in {Head(s)} \cup Range(Tail(s))
        BY <1>2 DEF Range
    <2>1. CASE i = 1
        BY <1>3, <2>1
    <2>2. CASE i # 1
        <3>1. i - 1 \in 1..(n - 1) /\ Tail(s)[i - 1] = s[i]
            BY <1>5, <1>6, <2>2
        <3> QED BY <1>4, <3>1 DEF Range
    <2> QED BY <2>1, <2>2
<1>8. Range(Tail(s)) \subseteq Range(s)
    BY <1>2, <1>4, <1>5 DEF Range
<1>9. n = 1 => Range(s) = {Head(s)}
    BY <1>2, <1>3 DEF Range
<1>10. n # 1 => Tail(s) # <<>>
    <2>1. Len(Tail(s)) = n - 1
        BY <1>3
    <2>2. Tail(s) = <<>> => Len(Tail(s)) = 0
        OBVIOUS
    <2> QED BY <1>2, <2>1, <2>2
<1>11. Range(s) = {Head(s)} \cup Range(Tail(s))
    BY <1>3, <1>7, <1>8
<1>12. \A i \in DOMAIN Tail(s) : Tail(s)[i] = s[i + 1] /\ i + 1 \in DOMAIN s
    <2> SUFFICES ASSUME NEW i \in 1..(n - 1) PROVE Tail(s)[i] = s[i + 1] /\ i + 1 \in 1..n
        BY <1>2, <1>4
    <2> QED BY <1>5
<1>13. Len(s) \in Nat /\ DOMAIN s = 1..Len(s) /\ DOMAIN Tail(s) = 1..(Len(s) - 1)
    BY <1>2, <1>4
<1>14. (Len(s) = 1 => Range(s) = {Head(s)}) /\ (Len(s) # 1 => Tail(s) # <<>>)
    BY <1>2, <1>9, <1>10
<1> QED BY <1>3, <1>4, <1>11, <1>12, <1>13, <1>14

(* Calls on nodes, and lookups, touch no edges.                                *)
LEMMA Aside ==
    ASSUME GInv, edges' = edges, edgeLoss' = edgeLoss, acked' = acked,
           file' = file \/ file' = [r \in Relation |-> {}],
           reader' = reader \/ reader' = [r \in Relation |-> {}],
           ~OnEdges, job' = [op |-> job'.op, phase |-> job'.phase, todo |-> job'.todo],
           job'.op \in {"idle", "insertNodes", "upsertNodes"}, job'.op = "idle" => job'.phase = "idle"
    PROVE  GInv'
<1>1. Shape'
    BY DEF GInv, Shape, Same
<1>2. JobShape'
    BY DEF JobShape, OnEdges
<1>3. ASSUME ~edgeLoss, NEW r \in Relation PROVE ReadersGood(r)'
    <2>1. ReadersGood(r) /\ job.op \notin {"insertEdges", "upsertEdges"}
        BY <1>3 DEF GInv, OnEdges
    <2>2. /\ \A f \in file[r] : Before(f.adj, edges[r])
          /\ \A c \in reader[r] : c.adj = AdjOf(edges[r])
        BY <2>1 DEF ReadersGood
    <2>3. file'[r] \subseteq file[r] /\ reader'[r] \subseteq reader[r]
        OBVIOUS
    <2> QED BY <2>2, <2>3 DEF ReadersGood
<1>4. ASSUME ~edgeLoss, NEW k \in acked \ {NoKey} PROVE Kept(k)'
    <2>1. Kept(k) /\ job.op # "upsertEdges" /\ job'.op # "upsertEdges"
        BY <1>4 DEF GInv, OnEdges
    <2> QED BY <2>1 DEF Kept, Pending, Settled, InStore
<1> QED BY <1>1, <1>2, <1>3, <1>4 DEF GInv

(* A call ends without its last steps.                                         *)
LEMMA Ended ==
    ASSUME GInv, job' = Idle, edges' = edges, file' = file, acked' = acked,
           \/ reader' = reader /\ job.phase = "append"
           \/ reader' = [r \in Relation |-> {}],
           edgeLoss' = (edgeLoss \/ job.op = "upsertEdges")
    PROVE  GInv'
<1>1. Shape'
    BY DEF GInv, Shape, Same
<1>2. JobShape'
    BY DEF JobShape, OnEdges, Idle
<1>3. ASSUME ~edgeLoss', NEW r \in Relation PROVE ReadersGood(r)'
    <2>1. ReadersGood(r) /\ job.op # "upsertEdges"
        BY <1>3 DEF GInv, Shape
    <2>2. /\ \A f \in file[r] : Before(f.adj, edges[r])
          /\ \A c \in reader'[r] : c.adj = AdjOf(edges[r])
        BY <2>1 DEF ReadersGood
    <2> QED BY <2>2 DEF ReadersGood
<1>4. ASSUME ~edgeLoss', NEW k \in acked \ {NoKey} PROVE Kept(k)'
    <2>1. Kept(k) /\ job.op # "upsertEdges" /\ job'.op # "upsertEdges"
        BY <1>4 DEF GInv, Shape, Idle
    <2> QED BY <2>1 DEF Kept, Pending, Settled, InStore
<1> QED BY <1>1, <1>2, <1>3, <1>4 DEF GInv

LEMMA AdjacencyOf ==
    ASSUME NEW s, Sq(s)
    PROVE  /\ Before(AdjOf(s), s)
           /\ \A a : Before(a, s) /\ Len(a) = Len(s) => a = AdjOf(s)
<1>1. PICK n \in Nat : n = Len(s) /\ DOMAIN s = 1..n
    <2>1. s \in Seq(Range(s))
        BY DEF Sq
    <2> QED BY <2>1
<1>2. AdjOf(s) = [i \in 1..n |-> <<s[i].src, s[i].dst>>]
    BY <1>1 DEF AdjOf
<1>3. AdjOf(s) = [i \in 1..n |-> AdjOf(s)[i]]
    BY <1>2
<1>4. Len(AdjOf(s)) = n
    BY <1>3, FunctionSq
<1>5. Before(AdjOf(s), s)
    BY <1>1, <1>2, <1>4 DEF Before
<1>6. ASSUME NEW a, Before(a, s), Len(a) = Len(s) PROVE a = AdjOf(s)
    BY <1>1, <1>2, <1>6 DEF Before
<1> QED BY <1>5, <1>6

LEMMA BeforeGrows ==
    ASSUME NEW X, NEW s \in Seq(X), NEW t \in Seq(X), NEW a, Before(a, s)
    PROVE  Before(a, s \o t)
<1>1. /\ Len(s \o t) = Len(s) + Len(t) /\ Len(s) \in Nat /\ Len(t) \in Nat
      /\ \A i \in 1..Len(s) : (s \o t)[i] = s[i]
    BY Joined
<1>2. PICK n \in 0..Len(s) : Len(a) = n /\ a = [i \in 1..n |-> <<s[i].src, s[i].dst>>]
    BY DEF Before
<1>3. n \in 0..Len(s \o t) /\ \A i \in 1..n : i \in 1..Len(s)
    BY <1>1
<1>4. \A i \in 1..n : (s \o t)[i] = s[i]
    BY <1>1, <1>3
<1> HIDE DEF Before
<1> DEFINE u == s \o t
<1>5. n \in 0..Len(u) /\ \A i \in 1..n : u[i] = s[i]
    BY <1>3, <1>4
<1> HIDE DEF u
<1>6. a = [i \in 1..n |-> <<u[i].src, u[i].dst>>]
    BY <1>2, <1>5
<1>7. Before(a, u)
    BY <1>2, <1>5, <1>6 DEF Before
<1> QED BY <1>7 DEF u

LEMMA InsertStep ==
    ASSUME GInv, NEW r \in Relation, NEW from, NEW to, NEW key, InsertEdge(r, from, to, key)
    PROVE  GInv'
<1> DEFINE row == Resolved(r, from, to, key)
           w == [store |-> r, rows |-> <<row>>]
<1>1. /\ edges' = edges /\ reader' = reader /\ file' = file /\ edgeLoss' = edgeLoss /\ acked' = acked /\ job = Idle
      /\ job' = [op |-> "insertEdges", phase |-> "append", todo |-> <<w>>]
    BY DEF InsertEdge, losses
<1>2. row.type = r
    BY DEF Resolved
<1> HIDE DEF row
<1>3. Range(<<row>>) = {row} /\ Sq(<<row>>)
    <2>1. <<row>> \in Seq({row}) /\ Range(<<row>>) = {row}
        BY DEF Range
    <2> QED BY <2>1 DEF Sq
<1>4. Writing(w)
    BY <1>2, <1>3 DEF Writing, Same
<1> HIDE DEF w
<1>5. Range(<<w>>) = {w} /\ Sq(<<w>>) /\ Len(<<w>>) = 1 /\ Head(<<w>>) = w /\ DOMAIN <<w>> = {1}
    <2>1. <<w>> \in Seq({w}) /\ Range(<<w>>) = {w}
        BY DEF Range
    <2> QED BY <2>1 DEF Sq
<1>6. Shape'
    BY <1>1 DEF GInv, Shape, Same
<1>7. w.rows # <<>>
    BY DEF w
<1>8. JobShape'
    <2>1. job'.todo = <<w>> /\ job'.op = "insertEdges" /\ job'.phase = "append"
        BY <1>1
    <2>2. \A i, j \in DOMAIN <<w>> : i = j
        BY <1>5
    <2>3. <<w>> # <<>>
        OBVIOUS
    <2> QED BY <1>1, <1>4, <1>5, <1>7, <2>1, <2>2, <2>3 DEF JobShape, OnEdges, Rows, Writing, Same
<1>9. ASSUME ~edgeLoss, NEW q \in Relation PROVE ReadersGood(q)'
    <2>1. ReadersGood(q) /\ job.op = "idle" /\ job'.op = "insertEdges"
        BY <1>1, <1>9 DEF GInv, Idle
    <2> QED BY <1>1, <2>1 DEF ReadersGood
<1>10. ASSUME ~edgeLoss, NEW k \in acked \ {NoKey} PROVE Kept(k)'
    <2>1. Kept(k) /\ job.op = "idle" /\ job'.op = "insertEdges"
        BY <1>1, <1>10 DEF GInv, Idle
    <2> QED BY <1>1, <2>1 DEF Kept, Pending, Settled, InStore
<1> QED BY <1>1, <1>6, <1>8, <1>9, <1>10 DEF GInv

LEMMA UpsertStep ==
    ASSUME GInv, NEW r \in Relation, NEW from, NEW to, NEW key \in EdgeKeys, NEW update \in BOOLEAN,
           UpsertEdge(r, from, to, key, update)
    PROVE  GInv'
<1>1. edges' = edges /\ reader' = reader /\ file' = file /\ edgeLoss' = edgeLoss /\ acked' = acked /\ job = Idle
    BY DEF UpsertEdge, losses
<1>2. Shape
    BY DEF GInv
<1>3. /\ job' = [op |-> "upsertEdges", phase |-> "remove", todo |-> job'.todo]
      /\ Sq(job'.todo) /\ job'.todo # <<>> /\ \A w \in Range(job'.todo) : Writing(w)
      /\ \A i, j \in DOMAIN job'.todo : job'.todo[i].store = job'.todo[j].store => i = j
      /\ \A q \in Relation : \A k \in KeysIn(edges[q]) \ {NoKey} :
            \E w \in Range(job'.todo) : k \in KeysIn(w.rows)
    BY <1>2, UpsertBegins
<1>4. job'.op = "upsertEdges" /\ job'.phase = "remove"
    BY <1>3
<1>5. Shape'
    BY <1>1, <1>2 DEF Shape, Same
<1>6. JobShape'
    BY <1>3, <1>4 DEF JobShape, OnEdges, Writing, Same
<1>7. ASSUME ~edgeLoss, NEW q \in Relation PROVE ReadersGood(q)'
    <2>1. ReadersGood(q) /\ job.op = "idle"
        BY <1>1, <1>7 DEF GInv, Idle
    <2> QED BY <1>1, <1>4, <2>1 DEF ReadersGood
<1>8. ASSUME ~edgeLoss, NEW k \in acked \ {NoKey} PROVE Kept(k)'
    <2>1. Kept(k) /\ job.op = "idle"
        BY <1>1, <1>8 DEF GInv, Idle
    <2>2. PICK q \in Relation : k \in KeysIn(edges[q])
        BY <2>1 DEF Kept, Pending, InStore
    <2> QED BY <1>3, <1>4, <2>2 DEF Kept, Pending
<1> QED BY <1>1, <1>5, <1>6, <1>7, <1>8 DEF GInv

(* The call in progress is on edges and has a store to write.                  *)
LEMMA EdgeCall ==
    ASSUME GInv, job.phase # "idle", ~OnNodes
    PROVE  /\ OnEdges /\ Sq(job.todo) /\ job.todo # <<>> /\ Head(job.todo) \in Range(job.todo)
           /\ Store \in Relation /\ Sq(Rows) /\ Same(Rows) /\ \A e \in Range(Rows) : e.type = Store
<1>1. OnEdges /\ Sq(job.todo) /\ job.todo # <<>> /\ \A w \in Range(job.todo) : Writing(w)
    BY DEF GInv, JobShape, OnNodes, OnEdges
<1>2. Head(job.todo) \in Range(job.todo)
    BY <1>1, FirstAndRest
<1>3. Writing(Head(job.todo))
    BY <1>1, <1>2
<1> QED BY <1>1, <1>2, <1>3 DEF Writing, Store, Rows

LEMMA RemoveStep ==
    ASSUME GInv, RemoveStore, ~OnNodes
    PROVE  GInv'
<1>1. /\ job.phase = "remove" /\ edges' = [edges EXCEPT ![Store] = <<>>]
      /\ job' = [job EXCEPT !.phase = IF Rows # <<>> THEN "append" ELSE "invalidate"]
      /\ reader' = reader /\ file' = file /\ edgeLoss' = edgeLoss /\ acked' = acked
    BY DEF RemoveStore, losses
<1>2. /\ OnEdges /\ Sq(job.todo) /\ job.todo # <<>> /\ Store \in Relation
    BY <1>1, EdgeCall
<1>3. job.op = "upsertEdges" /\ job = [op |-> job.op, phase |-> job.phase, todo |-> job.todo]
    BY <1>1, <1>2 DEF GInv, JobShape, OnEdges
<1>4. /\ job' = [op |-> job'.op, phase |-> job'.phase, todo |-> job'.todo]
      /\ job'.op = "upsertEdges" /\ job'.todo = job.todo
      /\ job'.phase = IF Rows # <<>> THEN "append" ELSE "invalidate"
    BY <1>1, <1>3
<1>5. Store' = Store /\ Rows' = Rows
    BY <1>4 DEF Store, Rows
<1>6. /\ edges' = [r \in Relation |-> edges'[r]] /\ edges'[Store] = <<>>
      /\ \A r \in Relation : r # Store => edges'[r] = edges[r]
    BY <1>1, <1>2 DEF GInv, Shape
<1>7. Range(<<>>) = {} /\ Sq(<<>>)
    <2>1. Range(<<>>) = {} /\ <<>> \in Seq({})
        BY DEF Range
    <2> QED BY <2>1 DEF Sq
<1>8. Shape'
    <2>1. ASSUME NEW r \in Relation PROVE Sq(edges'[r]) /\ Same(edges'[r]) /\ \A e \in Range(edges'[r]) : e.type = r
        <3>1. CASE r = Store
            BY <1>6, <1>7, <3>1 DEF Same
        <3>2. CASE r # Store
            BY <1>6, <3>2 DEF GInv, Shape
        <3> QED BY <3>1, <3>2
    <2> QED BY <1>1, <1>6, <2>1 DEF GInv, Shape, Same
<1>9. JobShape'
    <2>1. /\ \A w \in Range(job.todo) : Writing(w)
          /\ \A i, j \in DOMAIN job.todo : job.todo[i].store = job.todo[j].store => i = j
        BY <1>2 DEF GInv, JobShape
    <2>2. job'.phase = "append" => Rows # <<>>
        BY <1>4
    <2>3. job'.phase = "invalidate" => Range(Rows) = {}
        BY <1>4, <1>7
    <2> QED BY <1>2, <1>4, <1>5, <2>1, <2>2, <2>3 DEF JobShape, OnEdges, Writing, Same
<1>10. ASSUME ~edgeLoss, NEW r \in Relation PROVE ReadersGood(r)'
    <2>1. ReadersGood(r)
        BY <1>10 DEF GInv
    <2>2. CASE r = Store
        BY <1>4, <1>5, <2>2 DEF ReadersGood
    <2>3. CASE r # Store
        BY <1>1, <1>3, <1>6, <2>1, <2>3 DEF ReadersGood
    <2> QED BY <2>2, <2>3
<1>11. ASSUME ~edgeLoss, NEW k \in acked \ {NoKey} PROVE Kept(k)'
    <2>1. Kept(k)
        BY <1>11 DEF GInv
    <2>2. CASE Pending(k)
        BY <1>3, <1>4, <2>2 DEF Kept, Pending
    <2>3. CASE ~Pending(k)
        <3>1. PICK r \in Relation : Settled(r) /\ InStore(k, r)
            BY <2>1, <2>3 DEF Kept
        <3>2. r # Store
            BY <1>1, <1>3, <3>1, EdgeCall DEF Settled, Store
        <3>3. Settled(r)' /\ InStore(k, r)'
            BY <1>3, <1>4, <1>6, <3>1, <3>2 DEF Settled, InStore
        <3> QED BY <3>3 DEF Kept
    <2> QED BY <2>2, <2>3
<1> QED BY <1>1, <1>8, <1>9, <1>10, <1>11 DEF GInv

LEMMA AppendStep ==
    ASSUME GInv, AppendRows, ~OnNodes
    PROVE  GInv'
<1> DEFINE X == Range(edges[Store]) \cup Range(Rows)
           both == edges[Store] \o Rows
<1>1. /\ job.phase = "append" /\ Fits /\ edges' = [edges EXCEPT ![Store] = both]
      /\ job' = [job EXCEPT !.phase = "invalidate"]
      /\ reader' = reader /\ file' = file /\ edgeLoss' = edgeLoss /\ acked' = acked
    BY DEF AppendRows, losses
<1>2. /\ OnEdges /\ Sq(job.todo) /\ job.todo # <<>> /\ Head(job.todo) \in Range(job.todo)
      /\ Store \in Relation /\ Sq(Rows) /\ Same(Rows) /\ \A e \in Range(Rows) : e.type = Store
    BY <1>1, EdgeCall
<1>3. /\ job'.op = job.op /\ job'.phase = "invalidate" /\ job'.todo = job.todo
      /\ job' = [op |-> job'.op, phase |-> job'.phase, todo |-> job'.todo]
    <2>1. job = [op |-> job.op, phase |-> job.phase, todo |-> job.todo]
        BY DEF GInv, JobShape
    <2> QED BY <1>1, <2>1
<1>4. Store' = Store /\ Rows' = Rows
    BY <1>3 DEF Store, Rows
<1>5. Sq(edges[Store]) /\ Same(edges[Store]) /\ \A e \in Range(edges[Store]) : e.type = Store
    BY <1>2 DEF GInv, Shape
<1>6. edges[Store] \in Seq(X) /\ Rows \in Seq(X)
    <2>1. Range(edges[Store]) \subseteq X /\ Range(Rows) \subseteq X
        OBVIOUS
    <2> HIDE DEF X
    <2> QED BY <1>2, <1>5, <2>1, SqUp
<1> HIDE DEF X
<1>7. both \in Seq(X) /\ Range(both) = Range(edges[Store]) \cup Range(Rows)
    BY <1>6, Joined
<1>8. ASSUME NEW a, Before(a, edges[Store]) PROVE Before(a, both)
    BY <1>6, <1>8, BeforeGrows
<1> HIDE DEF both
<1>9. Sq(both)
    BY <1>7, SqDown
<1>10. Same(both)
    <2>1. CASE edges[Store] = <<>>
        <3>1. Range(edges[Store]) = {}
            BY <2>1 DEF Range
        <3> QED BY <1>2, <1>7, <3>1 DEF Same
    <2>2. CASE edges[Store] # <<>>
        <3>1. Rows # <<>>
            BY <1>1, <1>2 DEF GInv, JobShape
        <3>2. 1 \in DOMAIN Rows /\ 1 \in DOMAIN edges[Store]
            BY <1>6, <2>2, <3>1
        <3>3. Rows[1] \in Range(Rows) /\ edges[Store][1] \in Range(edges[Store])
            BY <3>2 DEF Range
        <3>4. (edges[Store][1].key # NoKey) <=> (Rows[1].key # NoKey)
            BY <1>1, <2>2 DEF Fits, Keyed
        <3> QED BY <1>2, <1>5, <1>7, <3>3, <3>4 DEF Same
    <2> QED BY <2>1, <2>2
<1>11. /\ edges' = [r \in Relation |-> edges'[r]] /\ edges'[Store] = both
       /\ \A r \in Relation : r # Store => edges'[r] = edges[r]
    BY <1>1, <1>2 DEF GInv, Shape
<1>12. Shape'
    <2>1. ASSUME NEW r \in Relation PROVE Sq(edges'[r]) /\ Same(edges'[r]) /\ \A e \in Range(edges'[r]) : e.type = r
        <3>1. CASE r = Store
            BY <1>2, <1>5, <1>7, <1>9, <1>10, <1>11, <3>1
        <3>2. CASE r # Store
            BY <1>11, <3>2 DEF GInv, Shape
        <3> QED BY <3>1, <3>2
    <2> QED BY <1>1, <1>11, <2>1 DEF GInv, Shape, Same
<1>13. JobShape'
    <2>1. /\ \A w \in Range(job.todo) : Writing(w)
          /\ \A i, j \in DOMAIN job.todo : job.todo[i].store = job.todo[j].store => i = j
          /\ job.op = "insertEdges" => Len(job.todo) = 1
          /\ job.op \in {"insertEdges", "upsertEdges"}
        BY <1>2 DEF GInv, JobShape, OnEdges
    <2>2. Range(Rows') \subseteq Range(edges'[Store'])
        BY <1>4, <1>7, <1>11
    <2> QED BY <1>2, <1>3, <1>4, <2>1, <2>2 DEF JobShape, OnEdges, Writing, Same
<1>14. ASSUME ~edgeLoss, NEW r \in Relation PROVE ReadersGood(r)'
    <2>1. ReadersGood(r)
        BY <1>14 DEF GInv
    <2>2. CASE r # Store
        BY <1>1, <1>4, <1>11, <2>1, <2>2 DEF ReadersGood
    <2>3. CASE r = Store /\ job.op = "upsertEdges"
        BY <1>3, <1>4, <2>3 DEF ReadersGood
    <2>4. CASE r = Store /\ job.op = "insertEdges"
        <3>1. \A f \in file[r] : Before(f.adj, edges[r])
            BY <2>1, <2>4 DEF ReadersGood
        <3>2. \A f \in file[r] : Before(f.adj, both)
            BY <1>8, <2>4, <3>1
        <3> QED BY <1>1, <1>3, <1>4, <1>11, <2>4, <3>2 DEF ReadersGood
    <2> QED BY <1>2, <2>2, <2>3, <2>4 DEF OnEdges
<1>15. ASSUME ~edgeLoss, NEW k \in acked \ {NoKey} PROVE Kept(k)'
    <2>1. Kept(k)
        BY <1>15 DEF GInv
    <2>2. \A r \in Relation : KeysIn(edges[r]) \subseteq KeysIn(edges'[r])
        BY <1>7, <1>11 DEF KeysIn
    <2> QED BY <1>3, <2>1, <2>2 DEF Kept, Pending, Settled, InStore
<1> QED BY <1>1, <1>12, <1>13, <1>14, <1>15 DEF GInv

LEMMA InvalidateStep ==
    ASSUME GInv, InvalidateRelation
    PROVE  GInv'
<1>1. /\ job.phase = "invalidate" /\ ~OnNodes
      /\ reader' = [reader EXCEPT ![Store] = {}] /\ file' = [file EXCEPT ![Store] = {}]
      /\ job' = IF Len(job.todo) = 1 THEN Idle ELSE [job EXCEPT !.phase = "remove", !.todo = Tail(job.todo)]
      /\ acked' = acked \cup ToSet(KeysOf(Rows)) /\ edges' = edges /\ edgeLoss' = edgeLoss
    BY DEF InvalidateRelation, NextStore, losses
<1>2. /\ OnEdges /\ Sq(job.todo) /\ job.todo # <<>> /\ Head(job.todo) \in Range(job.todo)
      /\ Store \in Relation /\ Sq(Rows)
    BY <1>1, EdgeCall
<1>3. /\ job = [op |-> job.op, phase |-> job.phase, todo |-> job.todo]
      /\ \A w \in Range(job.todo) : Writing(w)
      /\ \A i, j \in DOMAIN job.todo : job.todo[i].store = job.todo[j].store => i = j
      /\ Range(Rows) \subseteq Range(edges[Store]) /\ job.op \in {"insertEdges", "upsertEdges"}
      /\ job.op = "insertEdges" => Len(job.todo) = 1
    BY <1>1, <1>2 DEF GInv, JobShape, OnEdges
<1>4. /\ Head(job.todo) = job.todo[1] /\ Len(job.todo) \in Nat /\ DOMAIN job.todo = 1..Len(job.todo)
      /\ Sq(Tail(job.todo)) /\ Range(job.todo) = {Head(job.todo)} \cup Range(Tail(job.todo))
      /\ DOMAIN Tail(job.todo) = 1..(Len(job.todo) - 1)
      /\ \A i \in DOMAIN Tail(job.todo) : Tail(job.todo)[i] = job.todo[i + 1] /\ i + 1 \in DOMAIN job.todo
      /\ Len(job.todo) = 1 => Range(job.todo) = {Head(job.todo)}
      /\ Len(job.todo) # 1 => Tail(job.todo) # <<>>
    BY <1>2, FirstAndRest
<1>5. /\ \A r \in Relation : r # Store => reader'[r] = reader[r] /\ file'[r] = file[r]
      /\ reader'[Store] = {} /\ file'[Store] = {}
      /\ reader' = [r \in Relation |-> reader'[r]] /\ file' = [r \in Relation |-> file'[r]]
    BY <1>1, <1>2 DEF GInv, Shape
<1>6. Shape'
    <2>1. \A r \in Relation : \A f, g \in file'[r] : f = g
        BY <1>5 DEF GInv, Shape
    <2> QED BY <1>1, <1>5, <2>1 DEF GInv, Shape, Same
<1>7. \A k \in KeysIn(Rows) : InStore(k, Store)
    BY <1>3 DEF KeysIn, InStore
<1>8. ToSet(KeysOf(Rows)) = KeysIn(Rows)
    BY DEF ToSet, KeysOf, KeysIn, Range
<1>9. CASE Len(job.todo) = 1
    <2>1. job' = Idle /\ job'.op = "idle" /\ job'.phase = "idle"
        BY <1>1, <1>9 DEF Idle
    <2>2. JobShape'
        BY <2>1 DEF JobShape, OnEdges, Idle
    <2>3. ASSUME ~edgeLoss, NEW r \in Relation PROVE ReadersGood(r)'
        <3>1. ReadersGood(r)
            BY <2>3 DEF GInv
        <3>2. CASE r = Store
            BY <1>5, <3>2 DEF ReadersGood
        <3>3. CASE r # Store
            BY <1>1, <1>5, <3>1, <3>3 DEF ReadersGood
        <3> QED BY <3>2, <3>3
    <2>4. ASSUME ~edgeLoss, NEW k \in acked' \ {NoKey} PROVE Kept(k)'
        <3>1. \E r \in Relation : InStore(k, r)
            <4>1. CASE k \in KeysIn(Rows)
                BY <1>2, <1>7, <4>1
            <4>2. CASE k \notin KeysIn(Rows)
                <5>1. Kept(k)
                    BY <1>1, <1>8, <2>4, <4>2 DEF GInv
                <5>2. ~Pending(k)
                    BY <1>4, <1>9, <4>2 DEF Pending, Rows
                <5> QED BY <5>1, <5>2 DEF Kept
            <4> QED BY <4>1, <4>2
        <3> QED BY <1>1, <2>1, <3>1 DEF Kept, Settled, InStore
    <2> QED BY <1>1, <1>6, <2>2, <2>3, <2>4 DEF GInv
<1>10. CASE Len(job.todo) # 1
    <2>1. /\ job'.op = "upsertEdges" /\ job.op = "upsertEdges" /\ job'.phase = "remove" /\ job'.todo = Tail(job.todo)
          /\ job' = [op |-> job'.op, phase |-> job'.phase, todo |-> job'.todo]
        BY <1>1, <1>3, <1>10
    <2>2. \A i, j \in DOMAIN Tail(job.todo) : Tail(job.todo)[i].store = Tail(job.todo)[j].store => i = j
        <3> SUFFICES ASSUME NEW i \in DOMAIN Tail(job.todo), NEW j \in DOMAIN Tail(job.todo),
                            Tail(job.todo)[i].store = Tail(job.todo)[j].store
                     PROVE  i = j
            OBVIOUS
        <3>1. i + 1 = j + 1
            BY <1>3, <1>4
        <3>2. i \in Int /\ j \in Int
            BY <1>4
        <3> QED BY <3>1, <3>2
    <2>3. \A w \in Range(Tail(job.todo)) : w.store # Store
        <3> SUFFICES ASSUME NEW i \in DOMAIN Tail(job.todo), Tail(job.todo)[i].store = Store PROVE FALSE
            BY DEF Range
        <3>1. job.todo[i + 1].store = job.todo[1].store /\ i + 1 \in DOMAIN job.todo
            BY <1>4 DEF Store
        <3>2. 1 \in DOMAIN job.todo
            BY <1>4, <3>1
        <3>3. i + 1 = 1
            BY <1>3, <3>1, <3>2
        <3>4. i \in Nat /\ i # 0
            BY <1>4
        <3> QED BY <3>3, <3>4
    <2>4. JobShape'
        <3>1. \A w \in Range(Tail(job.todo)) : Writing(w)
            BY <1>3, <1>4
        <3> QED BY <1>4, <1>10, <2>1, <2>2, <3>1 DEF JobShape, OnEdges, Writing, Same
    <2>5. ASSUME ~edgeLoss, NEW r \in Relation PROVE ReadersGood(r)'
        <3>1. ReadersGood(r)
            BY <2>5 DEF GInv
        <3>2. CASE r = Store
            BY <1>5, <3>2 DEF ReadersGood
        <3>3. CASE r # Store
            BY <1>1, <1>5, <3>1, <3>3 DEF ReadersGood
        <3> QED BY <3>2, <3>3
    <2>6. ASSUME ~edgeLoss, NEW k \in acked' \ {NoKey} PROVE Kept(k)'
        <3>1. PICK q \in Relation : q = Store
            BY <1>2
        <3>2. CASE k \in KeysIn(Rows)
            <4>1. InStore(k, q)'
                BY <1>1, <1>7, <3>1, <3>2 DEF InStore
            <4>2. Settled(q)'
                BY <2>1, <2>3, <3>1 DEF Settled
            <4> QED BY <4>1, <4>2 DEF Kept
        <3>3. CASE k \notin KeysIn(Rows)
            <4>1. Kept(k)
                BY <1>1, <1>8, <2>6, <3>3 DEF GInv
            <4>2. CASE Pending(k)
                <5>1. PICK w \in Range(job.todo) : k \in KeysIn(w.rows)
                    BY <4>2 DEF Pending
                <5>2. w \in Range(Tail(job.todo))
                    BY <1>4, <3>3, <5>1 DEF Rows
                <5> QED BY <2>1, <5>1, <5>2 DEF Kept, Pending
            <4>3. CASE ~Pending(k)
                <5>1. PICK r \in Relation : Settled(r) /\ InStore(k, r)
                    BY <4>1, <4>3 DEF Kept
                <5>2. Settled(r)' /\ InStore(k, r)'
                    BY <1>1, <1>4, <2>1, <5>1 DEF Settled, InStore
                <5> QED BY <5>2 DEF Kept
            <4> QED BY <4>2, <4>3
        <3> QED BY <3>2, <3>3
    <2> QED BY <1>1, <1>6, <2>4, <2>5, <2>6 DEF GInv
<1> QED BY <1>9, <1>10

LEMMA ReadStep ==
    ASSUME GInv, NEW r \in Relation, ReadRelation(r)
    PROVE  GInv'
<1> DEFINE kept == IF Fresh(r) # {} THEN file[r] ELSE Built(r)
<1>1. /\ job = Idle /\ reader[r] = {} /\ file' = [file EXCEPT ![r] = kept]
      /\ reader' = [reader EXCEPT ![r] = file'[r]]
      /\ edges' = edges /\ job' = job /\ edgeLoss' = edgeLoss /\ acked' = acked
    BY DEF ReadRelation, losses
<1>2. /\ \A f, g \in kept : f = g
      /\ ~edgeLoss => \A f \in kept : f.adj = AdjOf(edges[r])
    <2>1. CASE Fresh(r) # {}
        <3>1. PICK f \in file[r] : Len(f.adj) = Len(edges[r])
            BY <2>1 DEF Fresh
        <3>2. \A g, h \in file[r] : g = h
            BY DEF GInv, Shape
        <3>3. ~edgeLoss => Before(f.adj, edges[r])
            BY <1>1, <3>1 DEF GInv, ReadersGood, Idle
        <3>4. Sq(edges[r])
            BY DEF GInv, Shape
        <3>5. ~edgeLoss => f.adj = AdjOf(edges[r])
            BY <3>1, <3>3, <3>4, AdjacencyOf
        <3> QED BY <2>1, <3>1, <3>2, <3>5
    <2>2. CASE Fresh(r) = {}
        BY <2>2 DEF Built, Adjacency, AdjOf
    <2> QED BY <2>1, <2>2
<1> HIDE DEF kept
<1>3. /\ \A q \in Relation : q # r => reader'[q] = reader[q] /\ file'[q] = file[q]
      /\ reader'[r] = kept /\ file'[r] = kept
      /\ reader' = [q \in Relation |-> reader'[q]] /\ file' = [q \in Relation |-> file'[q]]
    BY <1>1 DEF GInv, Shape
<1>4. Shape'
    <2>1. \A q \in Relation : \A f, g \in file'[q] : f = g
        BY <1>2, <1>3 DEF GInv, Shape
    <2> QED BY <1>1, <1>3, <2>1 DEF GInv, Shape, Same
<1>5. JobShape'
    BY <1>1 DEF GInv, JobShape, OnEdges, Idle
<1>6. ASSUME ~edgeLoss, NEW q \in Relation PROVE ReadersGood(q)'
    <2>1. CASE q = r
        <3>1. Sq(edges[r])
            BY DEF GInv, Shape
        <3>2. Before(AdjOf(edges[r]), edges[r])
            BY <3>1, AdjacencyOf
        <3> QED BY <1>1, <1>2, <1>3, <1>6, <2>1, <3>2 DEF ReadersGood
    <2>2. CASE q # r
        <3>1. ReadersGood(q) /\ job.op = "idle"
            BY <1>1, <1>6 DEF GInv, Idle
        <3> QED BY <1>1, <1>3, <2>2, <3>1 DEF ReadersGood
    <2> QED BY <2>1, <2>2
<1>7. ASSUME ~edgeLoss, NEW k \in acked \ {NoKey} PROVE Kept(k)'
    <2>1. Kept(k)
        BY <1>7 DEF GInv
    <2> QED BY <1>1, <2>1 DEF Kept, Pending, Settled, InStore
<1> QED BY <1>1, <1>4, <1>5, <1>6, <1>7 DEF GInv

LEMMA NodeStep ==
    ASSUME GInv, OnNodes, RemoveStore \/ AppendRows \/ InvalidateAll
    PROVE  GInv'
<1>1. job = [op |-> job.op, phase |-> job.phase, todo |-> job.todo] /\ ~OnEdges /\ job.op \in {"insertNodes", "upsertNodes"}
    BY DEF GInv, JobShape, OnNodes, OnEdges
<1>2. CASE RemoveStore
    <2>1. /\ edges' = edges /\ reader' = reader /\ file' = file /\ edgeLoss' = edgeLoss /\ acked' = acked
          /\ job' = [job EXCEPT !.phase = IF Rows # <<>> THEN "append" ELSE "invalidate"]
        BY <1>2 DEF RemoveStore, losses
    <2>2. job' = [op |-> job'.op, phase |-> job'.phase, todo |-> job'.todo] /\ job'.op = job.op
        BY <1>1, <2>1
    <2> QED BY <1>1, <2>1, <2>2, Aside
<1>3. CASE AppendRows
    <2>1. /\ edges' = edges /\ reader' = reader /\ file' = file /\ edgeLoss' = edgeLoss /\ acked' = acked
          /\ job' = [job EXCEPT !.phase = "invalidate"]
        BY <1>3 DEF AppendRows, losses
    <2>2. job' = [op |-> job'.op, phase |-> job'.phase, todo |-> job'.todo] /\ job'.op = job.op
        BY <1>1, <2>1
    <2> QED BY <1>1, <2>1, <2>2, Aside
<1>4. CASE InvalidateAll
    <2> DEFINE p == IF job.op = "upsertNodes" THEN "remove" ELSE "append"
    <2>1. /\ edges' = edges /\ edgeLoss' = edgeLoss /\ acked' = acked
          /\ job' = IF Len(job.todo) = 1 THEN Idle ELSE [job EXCEPT !.phase = p, !.todo = Tail(job.todo)]
        BY <1>4 DEF InvalidateAll, NextStore, losses
    <2>2. /\ file' = file \/ file' = [r \in Relation |-> {}]
          /\ reader' = reader \/ reader' = [r \in Relation |-> {}]
        BY <1>4 DEF InvalidateAll
    <2> HIDE DEF p
    <2>3. CASE Len(job.todo) = 1
        <3>1. job' = [op |-> job'.op, phase |-> job'.phase, todo |-> job'.todo] /\ job'.op = "idle" /\ job'.phase = "idle"
            BY <2>1, <2>3 DEF Idle
        <3> QED BY <1>1, <2>1, <2>2, <3>1, Aside
    <2>4. CASE Len(job.todo) # 1
        <3>1. job' = [op |-> job'.op, phase |-> job'.phase, todo |-> job'.todo] /\ job'.op = job.op
            BY <1>1, <2>1, <2>4
        <3> QED BY <1>1, <2>1, <2>2, <3>1, Aside
    <2> QED BY <2>3, <2>4
<1> QED BY <1>2, <1>3, <1>4

(* Node calls begin, and lookups, with nothing in progress.                    *)
LEMMA BeginStep ==
    ASSUME GInv, job = Idle, edges' = edges, reader' = reader, file' = file, edgeLoss' = edgeLoss, acked' = acked,
           \/ job' = Idle
           \/ \E op \in {"insertNodes", "upsertNodes"} : \E p, t : job' = [op |-> op, phase |-> p, todo |-> t]
    PROVE  GInv'
<1>1. ~OnEdges
    BY DEF Idle, OnEdges
<1>2. /\ job' = [op |-> job'.op, phase |-> job'.phase, todo |-> job'.todo]
      /\ job'.op \in {"idle", "insertNodes", "upsertNodes"} /\ (job'.op = "idle" => job'.phase = "idle")
    BY DEF Idle
<1> QED BY <1>1, <1>2, Aside

LEMMA InitInv ==
    ASSUME Init PROVE GInv
<1>1. Range(<<>>) = {} /\ Sq(<<>>)
    <2>1. Range(<<>>) = {} /\ <<>> \in Seq({})
        BY DEF Range
    <2> QED BY <2>1 DEF Sq
<1>2. Shape
    BY <1>1 DEF Init, Shape, Same
<1>3. JobShape
    BY DEF Init, JobShape, Idle, OnEdges
<1>4. \A r \in Relation : ReadersGood(r)
    BY DEF Init, ReadersGood
<1>5. acked = {}
    BY DEF Init
<1> QED BY <1>2, <1>3, <1>4, <1>5 DEF GInv

LEMMA NextInv ==
    ASSUME GInv, [Next]_vars PROVE GInv'
<1>1. CASE UNCHANGED vars
    BY <1>1 DEF vars, losses, GInv, Shape, JobShape, OnEdges, Writing, Same, Rows, Store, ReadersGood, Kept, Pending, Settled, InStore
<1>2. ASSUME NEW table \in Tables, InsertNodes(table) PROVE GInv'
    <2>1. /\ job = Idle /\ edges' = edges /\ reader' = reader /\ file' = file /\ edgeLoss' = edgeLoss /\ acked' = acked
          /\ \E p, t : job' = [op |-> "insertNodes", phase |-> p, todo |-> t]
        BY <1>2 DEF InsertNodes, losses
    <2> QED BY <2>1, BeginStep
<1>3. ASSUME NEW table \in Tables, InsertNodesRefused(table) PROVE GInv'
    <2>1. job = Idle /\ edges' = edges /\ reader' = reader /\ file' = file /\ edgeLoss' = edgeLoss /\ acked' = acked /\ job' = Idle
        BY <1>3 DEF InsertNodesRefused
    <2> QED BY <2>1, BeginStep
<1>4. ASSUME NEW table \in Tables, NEW update \in BOOLEAN, UpsertNodes(table, update) PROVE GInv'
    <2>1. /\ job = Idle /\ edges' = edges /\ reader' = reader /\ file' = file /\ edgeLoss' = edgeLoss /\ acked' = acked
          /\ \E p, t : job' = [op |-> "upsertNodes", phase |-> p, todo |-> t]
        BY <1>4 DEF UpsertNodes, losses
    <2> QED BY <2>1, BeginStep
<1>5. ASSUME NEW r \in Relation, NEW p \in Pairs, NEW key \in EdgeKeys \cup {NoKey}, InsertEdge(r, p[1], p[2], key) PROVE GInv'
    BY <1>5, InsertStep
<1>6. ASSUME NEW r \in Relation, NEW p \in Pairs, NEW key \in EdgeKeys, NEW update \in BOOLEAN,
             UpsertEdge(r, p[1], p[2], key, update)
      PROVE  GInv'
    BY <1>6, UpsertStep
<1>7. CASE LookUp
    <2>1. job = Idle /\ edges' = edges /\ reader' = reader /\ file' = file /\ edgeLoss' = edgeLoss /\ acked' = acked /\ job' = Idle
        BY <1>7 DEF LookUp, losses
    <2> QED BY <2>1, BeginStep
<1>8. CASE RemoveStore
    BY <1>8, RemoveStep, NodeStep
<1>9. CASE AppendRows
    BY <1>9, AppendStep, NodeStep
<1>10. CASE AppendFails
    <2>1. /\ job' = Idle /\ edges' = edges /\ file' = file /\ acked' = acked /\ reader' = reader /\ job.phase = "append"
          /\ edgeLoss' = (edgeLoss \/ job.op = "upsertEdges")
        BY <1>10 DEF AppendFails
    <2> QED BY <2>1, Ended
<1>11. CASE InvalidateAll
    <2>1. OnNodes
        BY <1>11 DEF InvalidateAll
    <2> QED BY <1>11, <2>1, NodeStep
<1>12. CASE InvalidateRelation
    BY <1>12, InvalidateStep
<1>13. ASSUME NEW r \in Relation, ReadRelation(r) PROVE GInv'
    BY <1>13, ReadStep
<1>14. CASE Stop
    <2>1. /\ job' = Idle /\ edges' = edges /\ file' = file /\ acked' = acked /\ reader' = [r \in Relation |-> {}]
          /\ edgeLoss' = (edgeLoss \/ job.op = "upsertEdges")
        BY <1>14 DEF Stop
    <2> QED BY <2>1, Ended
<1> QED BY <1>1, <1>2, <1>3, <1>4, <1>5, <1>6, <1>7, <1>8, <1>9, <1>10, <1>11, <1>12, <1>13, <1>14 DEF Next

(* Between calls every adjacency reader in use, and every file that would be   *)
(* taken for fresh, is the adjacency of the rows stored.                       *)
LEMMA ReadersHold ==
    ASSUME GInv PROVE ReadersExact
<1> SUFFICES ASSUME job = Idle, ~edgeLoss, NEW r \in Relation, NEW c \in reader[r] \cup Fresh(r)
             PROVE  c.adj = Adjacency(r)
    BY DEF ReadersExact
<1>1. ReadersGood(r) /\ Sq(edges[r]) /\ job.op = "idle"
    BY DEF GInv, Shape, Idle
<1>2. (\A f \in file[r] : Before(f.adj, edges[r])) /\ \A d \in reader[r] : d.adj = AdjOf(edges[r])
    BY <1>1 DEF ReadersGood
<1>3. CASE c \in reader[r]
    BY <1>2, <1>3 DEF Adjacency, AdjOf
<1>4. CASE c \in Fresh(r)
    <2>1. Before(c.adj, edges[r]) /\ Len(c.adj) = Len(edges[r])
        BY <1>2, <1>4 DEF Fresh
    <2>2. c.adj = AdjOf(edges[r])
        BY <1>1, <2>1, AdjacencyOf
    <2> QED BY <2>2 DEF Adjacency, AdjOf
<1> QED BY <1>3, <1>4

LEMMA KeysHold ==
    ASSUME GInv PROVE EdgeKeysKept
<1> SUFFICES ASSUME job = Idle, ~edgeLoss, NEW k \in acked \ {NoKey}
             PROVE  k \in ToSet(KeysOf(AllEdges))
    BY DEF EdgeKeysKept
<1>1. Kept(k) /\ job.op = "idle" /\ Shape
    BY DEF GInv, Idle
<1>2. PICK r \in Relation : k \in KeysIn(edges[r])
    BY <1>1 DEF Kept, Pending, InStore
<1>3. PICK e \in Range(edges[r]) : e.key = k
    BY <1>2 DEF KeysIn
<1>4. e \in Range(AllEdges)
    BY <1>1, <1>3, AllEdgesStored DEF Stored
<1> QED BY <1>3, <1>4 DEF ToSet, KeysOf, Range

(* However calls are interleaved with failures and restarts, between calls the *)
(* adjacency readers that _readers_for_relation serves, and the CSR files it   *)
(* would accept by their counts, hold exactly the relation's edges, unless an  *)
(* edge upsert raised or was cut short.                                        *)
THEOREM ReadersAlwaysExact == Spec => []ReadersExact
<1>1. Init => GInv
    BY InitInv
<1>2. GInv /\ [Next]_vars => GInv'
    BY NextInv
<1>3. GInv => ReadersExact
    BY ReadersHold
<1> QED BY <1>1, <1>2, <1>3, PTL DEF Spec

(* Edge upserts that rewrite every relation, moving edges between them, lose   *)
(* no edge key that an earlier insert or upsert wrote.                         *)
THEOREM EdgeKeysNeverLost == Spec => []EdgeKeysKept
<1>1. Init => GInv
    BY InitInv
<1>2. GInv /\ [Next]_vars => GInv'
    BY NextInv
<1>3. GInv => EdgeKeysKept
    BY KeysHold
<1> QED BY <1>1, <1>2, <1>3, PTL DEF Spec

-----------------------------------------------------------------------------
(* Node keys and gids.                                                         *)

StoredNodes == UNION {Range(nodes[c]) : c \in Class}
InTodo == UNION {Range(w.rows) : w \in Range(job.todo)}
Due == IF OnNodes THEN InTodo ELSE {}  \* what a call on nodes is about to write

Maps == {m \in UNION {[D -> Nat] : D \in SUBSET Keys} : \E b \in Nat : \A k \in DOMAIN m : m[k] <= b}
RowMaps == {m \in UNION {[D -> NodeRow] : D \in SUBSET Keys} :
               (\A k \in DOMAIN m : m[k].key = k) /\ \E b \in Nat : \A k \in DOMAIN m : m[k].gid <= b}

Unique(R) == \A a, b \in R : a.key = b.key <=> a.gid = b.gid
OneToOne(m) == \A k, l \in DOMAIN m : m[k] = m[l] => k = l
Knows(m, R) == \A a \in R : a.key \in DOMAIN m /\ m[a.key] = a.gid

ClassWriting(w) == w.store \in Class /\ Sq(w.rows) /\ \A a \in Range(w.rows) : a \in NodeRow /\ a.type = w.store

NodeJob ==
    /\ job.op = "insertNodes" => job.phase # "remove"
    /\ OnNodes => /\ Sq(job.todo) /\ job.todo # <<>> /\ \A w \in Range(job.todo) : ClassWriting(w)
                  /\ job.phase = "invalidate" => Range(Rows) \subseteq Range(nodes[Store])
    /\ job.op = "upsertNodes" =>
          \A i, j \in DOMAIN job.todo : job.todo[i].store = job.todo[j].store => i = j

NodeShape ==
    /\ nodes = [c \in Class |-> nodes[c]] /\ nodeLoss \in BOOLEAN /\ ghosts \in BOOLEAN
    /\ \A c \in Class : Sq(nodes[c]) /\ \A a \in Range(nodes[c]) : a \in NodeRow /\ a.type = c
    /\ \A m \in ids : ids = {m} /\ m \in Maps
    /\ \E b \in Nat : \A a \in StoredNodes \cup Due : a.gid <= b

(* A cached map knows every row, and a gid belongs to one key.                 *)
Numbered ==
    /\ Unique(StoredNodes \cup Due)
    /\ job.op # "upsertNodes" => \A m \in ids : OneToOne(m) /\ Knows(m, StoredNodes \cup Due)

(* The gid of a key is on disk, or in the rows an upsert is about to write.    *)
Rewritten(c) == job.op = "upsertNodes" /\ \E w \in Range(job.todo) : w.store = c
Ground(k, g) ==
    \/ job.op = "upsertNodes" /\ \E a \in InTodo : a.key = k /\ a.gid = g
    \/ \E c \in Class : ~Rewritten(c) /\ \E a \in Range(nodes[c]) : a.key = k /\ a.gid = g
Joins(e) == Ground(e.from, e.src) /\ Ground(e.to, e.dst)

(* A cached map knows no more than the rows, and edges join nodes.             *)
Grounded ==
    /\ job.op # "upsertNodes" =>
          \A m \in ids : \A k \in DOMAIN m : \E a \in StoredNodes \cup Due : a.key = k /\ a.gid = m[k]
    /\ \A e \in Stored : Joins(e)
    /\ OnEdges => \A e \in InTodo : Joins(e)

NInv ==
    /\ GInv /\ NodeShape /\ NodeJob
    /\ ~nodeLoss => Numbered
    /\ ~nodeLoss /\ ~ghosts => Grounded

-----------------------------------------------------------------------------
LEMMA NodesStored ==
    ASSUME NodeShape
    PROVE  AllNodes \in Seq(StoredNodes) /\ Range(AllNodes) = StoredNodes /\ StoredNodes \subseteq NodeRow
<1> DEFINE ss == [i \in DOMAIN Classes |-> nodes[Classes[i]]]
<1>1. Classes \in Seq(Class) /\ Class = {Classes[i] : i \in DOMAIN Classes}
    BY ConstantsAssumption DEF Class, ToSet
<1>2. PICK n \in Nat : DOMAIN Classes = 1..n
    BY <1>1
<1>3. ASSUME NEW c \in Class PROVE nodes[c] \in Seq(StoredNodes)
    BY SqUp DEF NodeShape, StoredNodes
<1>4. ss \in [1..n -> Seq(StoredNodes)]
    BY <1>1, <1>2, <1>3
<1>5. ss \in Seq(Seq(StoredNodes))
    BY <1>4
<1>6. AllNodes = FlattenSeq(ss)
    BY DEF AllNodes
<1>7. {ss[i] : i \in DOMAIN ss} = {nodes[c] : c \in Class}
    BY <1>1
<1>8. UNION {Range(ss[i]) : i \in DOMAIN ss} = StoredNodes
    BY <1>1 DEF StoredNodes
<1>9. StoredNodes \subseteq NodeRow
    BY DEF StoredNodes, NodeShape
<1> HIDE DEF ss
<1> QED BY <1>5, <1>6, <1>8, <1>9, Flattened

LEMMA NextGidAbove ==
    ASSUME NEW G \in SUBSET Nat, NEW b \in Nat, \A g \in G : g <= b
    PROVE  NextGid(G) \in Nat /\ NextGid(G) <= b + 1 /\ \A g \in G : g < NextGid(G)
<1> DEFINE T == G \cup {-1}
<1>1. \E t \in T : \A u \in T : t >= u
    <2>1. CASE G = {}
        <3>1. T = {-1}
            BY <2>1
        <3>2. -1 \in T /\ \A u \in T : -1 >= u
            BY <3>1
        <3> QED BY <3>2
    <2>2. CASE G # {}
        <3>1. PICK t \in G : \A u \in G : u <= t
            BY <2>2, Greatest
        <3>2. t \in T /\ t \in Nat /\ \A u \in T : t >= u
            BY <3>1
        <3> QED BY <3>2
    <2> QED BY <2>1, <2>2
<1> DEFINE t == Max(T)
<1>2. t \in T /\ \A u \in T : t >= u
    BY <1>1 DEF Max
<1>3. NextGid(G) = t + 1
    BY DEF NextGid
<1> HIDE DEF t
<1>4. t \in Int /\ t >= -1 /\ t <= b /\ \A u \in G : t >= u
    BY <1>2
<1> QED BY <1>3, <1>4

LEMMA GiveGidStep ==
    ASSUME NEW m \in Maps, NEW k \in Keys
    PROVE  /\ GiveGid(m, k) \in Maps /\ DOMAIN GiveGid(m, k) = DOMAIN m \cup {k}
           /\ \A l \in DOMAIN m : GiveGid(m, k)[l] = m[l]
           /\ OneToOne(m) => OneToOne(GiveGid(m, k))
<1>1. CASE k \in DOMAIN m
    <2>1. GiveGid(m, k) = m
        BY <1>1 DEF GiveGid
    <2> QED BY <1>1, <2>1
<1>2. CASE k \notin DOMAIN m
    <2> DEFINE g == NextGid(Range(m))
    <2>1. PICK D \in SUBSET Keys : m \in [D -> Nat]
        BY DEF Maps
    <2>2. PICK b \in Nat : \A l \in DOMAIN m : m[l] <= b
        BY DEF Maps
    <2>3. Range(m) \in SUBSET Nat /\ \A u \in Range(m) : u <= b
        BY <2>1, <2>2 DEF Range
    <2>4. g \in Nat /\ g <= b + 1 /\ \A u \in Range(m) : u < g
        BY <2>3, NextGidAbove
    <2> HIDE DEF g
    <2> DEFINE n == [l \in D \cup {k} |-> IF l = k THEN g ELSE m[l]]
    <2>5. GiveGid(m, k) = n
        BY <1>2, <2>1 DEF GiveGid, Put, g
    <2>6. n \in [D \cup {k} -> Nat] /\ D \cup {k} \in SUBSET Keys
        BY <2>1, <2>4
    <2>7. \A l \in D : n[l] = m[l] /\ m[l] \in Range(m) /\ m[l] \in Nat
        BY <1>2, <2>1 DEF Range
    <2>8. n[k] = g
        OBVIOUS
    <2> HIDE DEF n
    <2>9. b + 1 \in Nat /\ \A l \in DOMAIN n : n[l] <= b + 1
        BY <2>1, <2>2, <2>4, <2>6, <2>7, <2>8
    <2>10. n \in Maps
        <3>1. n \in UNION {[E -> Nat] : E \in SUBSET Keys}
            BY <2>6
        <3> QED BY <2>9, <3>1 DEF Maps
    <2>11. \A l \in D : n[l] # g
        BY <2>4, <2>7
    <2>12. OneToOne(m) => OneToOne(n)
        BY <2>1, <2>6, <2>7, <2>8, <2>11 DEF OneToOne
    <2> QED BY <2>1, <2>5, <2>6, <2>7, <2>10, <2>12
<1> QED BY <1>1, <1>2

LEMMA TableRows ==
    ASSUME NEW table \in Tables
    PROVE  /\ table \in Seq([key : Keys, type : Class]) /\ table # <<>>
           /\ Len(table) \in Nat /\ DOMAIN table = 1..Len(table) /\ 1 \in DOMAIN table
           /\ \A i \in DOMAIN table :
                 table[i] \in [key : Keys, type : Class] /\ table[i].key \in Keys /\ table[i].type \in Class
<1> DEFINE R == [key : Keys, type : Class]
<1>1. table \in Seq(R) /\ table # <<>>
    BY ConstantsAssumption DEF Class
<1>2. \A a \in R : a.key \in Keys /\ a.type \in Class
    OBVIOUS
<1> HIDE DEF R
<1>3. \A i \in DOMAIN table : table[i] \in R
    BY <1>1
<1>4. Len(table) \in Nat /\ DOMAIN table = 1..Len(table) /\ 1 \in DOMAIN table
    BY <1>1
<1> QED BY <1>1, <1>2, <1>3, <1>4 DEF R

(* The map after the first rows of a table.                                    *)
GivenBy(f, map, table) ==
    /\ f \in [0..Len(table) -> Maps] /\ f[0] = map /\ AssignGids(map, table) = f[Len(table)]
    /\ \A i \in 1..Len(table) : f[i] = GiveGid(f[i - 1], table[i].key)

LEMMA GivenRec ==
    ASSUME NEW map \in Maps, NEW table \in Tables
    PROVE  \E f : GivenBy(f, map, table)
<1>1. PICK n \in Nat : n = Len(table) /\ DOMAIN table = 1..n
    BY TableRows
<1>2. \A i \in 1..n : table[i].key \in Keys
    BY <1>1, TableRows
<1> DEFINE g == [i \in 1..n |-> [m \in Maps |-> GiveGid(m, table[i].key)]]
           Body(f, i) == IF i = 0 THEN map ELSE GiveGid(f[i - 1], table[i].key)
           Fix(f) == f = [i \in 0..n |-> Body(f, i)]
<1>3. g \in [1..n -> [Maps -> Maps]]
    <2>1. \A i \in 1..n, m \in Maps : GiveGid(m, table[i].key) \in Maps
        BY <1>2, GiveGidStep
    <2> QED BY <2>1
<1>4. \A i \in 1..n : \A m \in Maps : g[i][m] = GiveGid(m, table[i].key)
    OBVIOUS
<1> HIDE DEF g
<1>5. PICK f \in [0..n -> Maps] : f[0] = map /\ \A i \in 1..n : f[i] = g[i][f[i - 1]]
    <2>1. PICK f : Steps(f, n, Maps, map, g)
        BY <1>3, Recursion
    <2> QED BY <2>1 DEF Steps
<1>6. ASSUME NEW i \in 1..n PROVE f[i] = GiveGid(f[i - 1], table[i].key)
    <2>1. f[i - 1] \in Maps
        BY <1>5
    <2> QED BY <1>4, <1>5, <2>1
<1>7. \A e : Body(e, 0) = map
    OBVIOUS
<1>8. \A e : \A i \in 1..n : Body(e, i) = GiveGid(e[i - 1], table[i].key)
    OBVIOUS
<1>9. AssignGids(map, table) = (CHOOSE e : Fix(e))[n]
    BY <1>1 DEF AssignGids
<1> HIDE DEF Body
<1>10. Fix(f)
    <2>1. f = [i \in 0..n |-> f[i]]
        BY <1>5
    <2>2. ASSUME NEW i \in 0..n PROVE f[i] = Body(f, i)
        <3>1. CASE i = 0
            BY <1>5, <1>7, <3>1
        <3>2. CASE i \in 1..n
            BY <1>6, <1>8, <3>2
        <3> QED BY <3>1, <3>2
    <2> QED BY <2>1, <2>2
<1> DEFINE h == CHOOSE e : Fix(e)
<1>11. Fix(h)
    <2> HIDE DEF Fix
    <2> QED BY <1>10
<1> HIDE DEF h
<1>12. \A i \in 0..n : h[i] = Body(h, i)
    BY <1>11
<1>13. h[0] = map
    BY <1>7, <1>12
<1>14. \A i \in 1..n : h[i] = GiveGid(h[i - 1], table[i].key)
    <2>1. \A i \in 1..n : i \in 0..n
        OBVIOUS
    <2> QED BY <1>8, <1>12, <2>1
<1> DEFINE P == {i \in Nat : i <= n => h[i] \in Maps}
<1>15. 0 \in P
    BY <1>13
<1>16. ASSUME NEW i \in Nat, i \in P PROVE i + 1 \in P
    <2> SUFFICES ASSUME i + 1 <= n PROVE h[i + 1] \in Maps
        OBVIOUS
    <2>1. h[i] \in Maps /\ i + 1 \in 1..n /\ i + 1 - 1 = i
        BY <1>16
    <2>2. h[i + 1] = GiveGid(h[i], table[i + 1].key) /\ table[i + 1].key \in Keys
        BY <1>2, <1>14, <2>1
    <2> QED BY <2>1, <2>2, GiveGidStep
<1> HIDE DEF P
<1>17. \A i \in Nat : i \in P
    BY <1>15, <1>16, Induct
<1>18. h \in [0..n -> Maps]
    <2>1. \A i \in 0..n : h[i] \in Maps
        BY <1>17 DEF P
    <2>2. h = [i \in 0..n |-> h[i]]
        BY <1>11
    <2> QED BY <2>1, <2>2
<1>19. GivenBy(h, map, table)
    BY <1>1, <1>9, <1>13, <1>14, <1>18 DEF h, GivenBy
<1> QED BY <1>19

(* Every key of the table has a gid, no two keys one, and none changes.        *)
LEMMA Assigned ==
    ASSUME NEW map \in Maps, NEW table \in Tables
    PROVE  /\ AssignGids(map, table) \in Maps
           /\ DOMAIN AssignGids(map, table) = DOMAIN map \cup {table[i].key : i \in DOMAIN table}
           /\ \A k \in DOMAIN map : AssignGids(map, table)[k] = map[k]
           /\ OneToOne(map) => OneToOne(AssignGids(map, table))
<1>1. PICK n \in Nat : n = Len(table) /\ DOMAIN table = 1..n
    BY TableRows
<1>2. \A i \in 1..n : table[i].key \in Keys
    BY <1>1, TableRows
<1>3. PICK f : GivenBy(f, map, table)
    BY GivenRec
<1>4. /\ f \in [0..n -> Maps] /\ f[0] = map /\ AssignGids(map, table) = f[n]
      /\ \A i \in 1..n : f[i] = GiveGid(f[i - 1], table[i].key)
    BY <1>1, <1>3 DEF GivenBy
<1> DEFINE Ks(j) == {table[i].key : i \in 1..j}
           Good(j) == /\ DOMAIN f[j] = DOMAIN map \cup Ks(j)
                      /\ \A k \in DOMAIN map : f[j][k] = map[k]
                      /\ OneToOne(map) => OneToOne(f[j])
           P == {j \in Nat : j <= n => Good(j)}
<1>5. 0 \in P
    <2>1. Ks(0) = {}
        OBVIOUS
    <2> HIDE DEF Ks
    <2> QED BY <1>4, <2>1
<1>6. ASSUME NEW j \in Nat, j \in P PROVE j + 1 \in P
    <2> SUFFICES ASSUME j + 1 <= n PROVE Good(j + 1)
        OBVIOUS
    <2>1. Good(j) /\ j \in 0..n /\ j + 1 \in 1..n /\ j + 1 - 1 = j
        BY <1>6
    <2>2. f[j] \in Maps /\ table[j + 1].key \in Keys /\ f[j + 1] = GiveGid(f[j], table[j + 1].key)
        BY <1>2, <1>4, <2>1
    <2>3. Ks(j + 1) = Ks(j) \cup {table[j + 1].key}
        <3>1. \A i \in 1..(j + 1) : i \in 1..j \/ i = j + 1
            OBVIOUS
        <3>2. j + 1 \in 1..(j + 1) /\ \A i \in 1..j : i \in 1..(j + 1)
            OBVIOUS
        <3> QED BY <3>1, <3>2
    <2> DEFINE k == table[j + 1].key
    <2>4. /\ DOMAIN GiveGid(f[j], k) = DOMAIN f[j] \cup {k}
          /\ \A l \in DOMAIN f[j] : GiveGid(f[j], k)[l] = f[j][l]
          /\ OneToOne(f[j]) => OneToOne(GiveGid(f[j], k))
        BY <2>2, GiveGidStep
    <2> HIDE DEF Ks
    <2> QED BY <2>1, <2>2, <2>3, <2>4
<1> HIDE DEF P
<1>7. n \in P
    BY <1>5, <1>6, Induct
<1>8. Good(n)
    BY <1>7 DEF P
<1> QED BY <1>1, <1>4, <1>8

OneGid(m) == \A k, l \in DOMAIN m : m[k].gid = m[l].gid => k = l

LEMMA PutNodeStep ==
    ASSUME NodeShape, NEW m \in RowMaps, NEW row \in [key : Keys, type : Class], NEW update \in BOOLEAN
    PROVE  /\ PutNode(m, row, update) \in RowMaps /\ DOMAIN PutNode(m, row, update) = DOMAIN m \cup {row.key}
           /\ \A k \in DOMAIN m : PutNode(m, row, update)[k].gid = m[k].gid
           /\ \A k \in DOMAIN m \cup {row.key} :
                 \/ PutNode(m, row, update)[k].type = row.type
                 \/ (k \in DOMAIN m /\ PutNode(m, row, update)[k].type = m[k].type)
           /\ OneGid(m) => OneGid(PutNode(m, row, update))
<1>1. PICK D \in SUBSET Keys : m \in [D -> NodeRow]
    BY DEF RowMaps
<1>2. PICK b \in Nat : \A k \in D : m[k].gid <= b
    BY <1>1 DEF RowMaps
<1>3. \A k \in D : m[k].key = k /\ m[k] \in NodeRow
    BY <1>1 DEF RowMaps
<1>4. row.key \in Keys /\ row.type \in Class
    OBVIOUS
<1>5. CASE row.key \notin D
    <2> DEFINE G == {m[k].gid : k \in DOMAIN m} \cup {stored.gid : stored \in ToSet(AllNodes)}
               g == NextGid(G)
               new == [key |-> row.key, type |-> row.type, gid |-> g]
               n == [l \in D \cup {row.key} |-> IF l = row.key THEN new ELSE m[l]]
    <2>1. PICK c \in Nat : \A a \in StoredNodes : a.gid <= c
        BY DEF NodeShape
    <2>2. ToSet(AllNodes) = StoredNodes /\ StoredNodes \subseteq NodeRow
        BY NodesStored DEF ToSet, Range
    <2>3. G \in SUBSET Nat
        BY <1>1, <1>3, <2>2 DEF NodeRow
    <2>4. PICK d \in Nat : b <= d /\ c <= d
        <3>1. b <= b + c /\ c <= b + c /\ b + c \in Nat
            OBVIOUS
        <3> QED BY <3>1
    <2>5. \A u \in G : u <= d
        <3>1. \A k \in D : m[k].gid \in Nat /\ m[k].gid <= d
            BY <1>2, <1>3, <2>4 DEF NodeRow
        <3>2. \A a \in StoredNodes : a.gid \in Nat /\ a.gid <= d
            BY <2>1, <2>2, <2>4 DEF NodeRow
        <3> QED BY <1>1, <2>2, <3>1, <3>2
    <2>6. \A k \in D : m[k].gid \in G
        BY <1>1
    <2> HIDE DEF G
    <2>7. g \in Nat /\ g <= d + 1 /\ \A u \in G : u < g
        BY <2>3, <2>5, NextGidAbove
    <2>8. PutNode(m, row, update) = n
        BY <1>1, <1>5 DEF PutNode, Put, G
    <2> HIDE DEF g
    <2>9. new \in NodeRow /\ new.key = row.key /\ new.type = row.type /\ new.gid = g
        BY <1>4, <2>7 DEF NodeRow
    <2> HIDE DEF new
    <2>10. n \in [D \cup {row.key} -> NodeRow] /\ n[row.key] = new /\ \A k \in D : n[k] = m[k] /\ k # row.key
        BY <1>1, <1>5, <2>9
    <2> HIDE DEF n
    <2>11. \A k \in DOMAIN n : n[k].key = k
        BY <1>3, <2>9, <2>10
    <2>12. d + 1 \in Nat /\ \A k \in DOMAIN n : n[k].gid <= d + 1
        <3>1. \A k \in D : n[k].gid <= d + 1
            <4> SUFFICES ASSUME NEW k \in D PROVE n[k].gid <= d + 1
                OBVIOUS
            <4>1. n[k].gid = m[k].gid /\ m[k].gid \in Nat /\ m[k].gid <= d
                BY <1>3, <2>5, <2>6, <2>10 DEF NodeRow
            <4> QED BY <4>1
        <3>2. n[row.key].gid <= d + 1
            BY <2>7, <2>9, <2>10
        <3> QED BY <2>10, <3>1, <3>2
    <2>13. n \in RowMaps
        <3>1. n \in UNION {[E -> NodeRow] : E \in SUBSET Keys}
            BY <1>4, <2>10
        <3> QED BY <2>11, <2>12, <3>1 DEF RowMaps
    <2>14. \A k \in D : n[k].gid # g
        <3> SUFFICES ASSUME NEW k \in D PROVE n[k].gid # g
            OBVIOUS
        <3>1. n[k].gid = m[k].gid /\ m[k].gid < g /\ m[k].gid \in Nat
            BY <1>3, <2>6, <2>7, <2>10 DEF NodeRow
        <3> QED BY <2>7, <3>1
    <2>15. OneGid(m) => OneGid(n)
        BY <1>1, <2>9, <2>10, <2>14 DEF OneGid
    <2>16. DOMAIN n = D \cup {row.key} /\ DOMAIN m = D
        BY <1>1, <2>10
    <2>17. \A k \in DOMAIN m : n[k].gid = m[k].gid
        BY <2>10, <2>16
    <2>18. ASSUME NEW k \in DOMAIN m \cup {row.key}
           PROVE  n[k].type = row.type \/ (k \in DOMAIN m /\ n[k].type = m[k].type)
        <3>1. CASE k = row.key
            BY <2>9, <2>10, <3>1
        <3>2. CASE k \in D
            BY <2>10, <2>16, <3>2
        <3> QED BY <2>16, <3>1, <3>2
    <2> QED BY <2>8, <2>13, <2>15, <2>16, <2>17, <2>18
<1>6. CASE row.key \in D /\ update
    <2> DEFINE old == m[row.key]
               new == [key |-> row.key, type |-> row.type, gid |-> old.gid]
               n == [l \in D |-> IF l = row.key THEN new ELSE m[l]]
    <2>1. old \in NodeRow /\ old.key = row.key
        BY <1>3, <1>6
    <2>2. new \in NodeRow /\ new.key = row.key /\ new.type = row.type /\ new.gid = old.gid
        BY <1>4, <2>1 DEF NodeRow
    <2>3. [m EXCEPT ![row.key].type = row.type] = n
        <3>1. [old EXCEPT !.type = row.type] = new
            BY <2>1 DEF NodeRow
        <3>2. [m EXCEPT ![row.key].type = row.type] = [l \in D |-> IF l = row.key THEN [old EXCEPT !.type = row.type] ELSE m[l]]
            BY <1>1
        <3> QED BY <3>1, <3>2
    <2>4. PutNode(m, row, update) = n
        BY <1>1, <1>6, <2>3 DEF PutNode
    <2> HIDE DEF new
    <2>5. n \in [D -> NodeRow] /\ n[row.key] = new /\ \A k \in D : k # row.key => n[k] = m[k]
        BY <1>1, <1>6, <2>2
    <2> HIDE DEF n
    <2>6. \A k \in D : n[k].gid = m[k].gid /\ n[k].key = k /\ (n[k].type = row.type \/ n[k].type = m[k].type)
        BY <1>3, <2>2, <2>5
    <2>7. n \in RowMaps
        <3>1. n \in UNION {[E -> NodeRow] : E \in SUBSET Keys}
            BY <2>5
        <3>2. \A k \in DOMAIN n : n[k].gid <= b
            BY <1>2, <2>5, <2>6
        <3> QED BY <2>5, <2>6, <3>1, <3>2 DEF RowMaps
    <2>8. OneGid(m) => OneGid(n)
        BY <1>1, <2>5, <2>6 DEF OneGid
    <2> QED BY <1>1, <1>6, <2>4, <2>5, <2>6, <2>7, <2>8
<1>7. CASE row.key \in D /\ ~update
    <2>1. PutNode(m, row, update) = m
        BY <1>1, <1>7 DEF PutNode
    <2> QED BY <1>1, <1>7, <2>1
<1> QED BY <1>5, <1>6, <1>7

(* The rows after the first rows of an upsert.                                 *)
PutBy(f, table, update) ==
    /\ f \in [0..Len(table) -> RowMaps] /\ f[0] = LastByKey(AllNodes) /\ FinalNodes(table, update) = f[Len(table)]
    /\ \A i \in 1..Len(table) : f[i] = PutNode(f[i - 1], table[i], update)

LEMMA PutRec ==
    ASSUME NodeShape, LastByKey(AllNodes) \in RowMaps, NEW table \in Tables, NEW update \in BOOLEAN
    PROVE  \E f : PutBy(f, table, update)
<1>1. PICK n \in Nat : n = Len(table) /\ DOMAIN table = 1..n
    BY TableRows
<1>2. \A i \in 1..n : table[i] \in [key : Keys, type : Class]
    BY <1>1, TableRows
<1> DEFINE g == [i \in 1..n |-> [m \in RowMaps |-> PutNode(m, table[i], update)]]
           Body(f, i) == IF i = 0 THEN LastByKey(AllNodes) ELSE PutNode(f[i - 1], table[i], update)
           Fix(f) == f = [i \in 0..n |-> Body(f, i)]
<1>3. g \in [1..n -> [RowMaps -> RowMaps]]
    <2>1. \A i \in 1..n, m \in RowMaps : PutNode(m, table[i], update) \in RowMaps
        BY <1>2, PutNodeStep
    <2> QED BY <2>1
<1>4. \A i \in 1..n : \A m \in RowMaps : g[i][m] = PutNode(m, table[i], update)
    OBVIOUS
<1> HIDE DEF g
<1>5. PICK f \in [0..n -> RowMaps] : f[0] = LastByKey(AllNodes) /\ \A i \in 1..n : f[i] = g[i][f[i - 1]]
    <2>1. PICK f : Steps(f, n, RowMaps, LastByKey(AllNodes), g)
        BY <1>3, Recursion
    <2> QED BY <2>1 DEF Steps
<1>6. ASSUME NEW i \in 1..n PROVE f[i] = PutNode(f[i - 1], table[i], update)
    <2>1. f[i - 1] \in RowMaps
        BY <1>5
    <2> QED BY <1>4, <1>5, <2>1
<1>7. \A e : Body(e, 0) = LastByKey(AllNodes)
    OBVIOUS
<1>8. \A e : \A i \in 1..n : Body(e, i) = PutNode(e[i - 1], table[i], update)
    OBVIOUS
<1>9. FinalNodes(table, update) = (CHOOSE e : Fix(e))[n]
    BY <1>1 DEF FinalNodes
<1> HIDE DEF Body
<1>10. Fix(f)
    <2>1. f = [i \in 0..n |-> f[i]]
        BY <1>5
    <2>2. ASSUME NEW i \in 0..n PROVE f[i] = Body(f, i)
        <3>1. CASE i = 0
            BY <1>5, <1>7, <3>1
        <3>2. CASE i \in 1..n
            BY <1>6, <1>8, <3>2
        <3> QED BY <3>1, <3>2
    <2> QED BY <2>1, <2>2
<1> DEFINE h == CHOOSE e : Fix(e)
<1>11. Fix(h)
    <2> HIDE DEF Fix
    <2> QED BY <1>10
<1> HIDE DEF h
<1>12. \A i \in 0..n : h[i] = Body(h, i)
    BY <1>11
<1>13. h[0] = LastByKey(AllNodes)
    BY <1>7, <1>12
<1>14. \A i \in 1..n : h[i] = PutNode(h[i - 1], table[i], update)
    <2>1. \A i \in 1..n : i \in 0..n
        OBVIOUS
    <2> QED BY <1>8, <1>12, <2>1
<1> DEFINE P == {i \in Nat : i <= n => h[i] \in RowMaps}
<1>15. 0 \in P
    BY <1>13
<1>16. ASSUME NEW i \in Nat, i \in P PROVE i + 1 \in P
    <2> SUFFICES ASSUME i + 1 <= n PROVE h[i + 1] \in RowMaps
        OBVIOUS
    <2>1. h[i] \in RowMaps /\ i + 1 \in 1..n /\ i + 1 - 1 = i
        BY <1>16
    <2>2. table[i + 1] \in [key : Keys, type : Class]
        BY <1>2, <2>1
    <2>3. h[i + 1] = PutNode(h[i], table[i + 1], update)
        BY <1>14, <2>1
    <2>4. PutNode(h[i], table[i + 1], update) \in RowMaps
        BY <2>1, <2>2, PutNodeStep
    <2> QED BY <2>3, <2>4
<1> HIDE DEF P
<1>17. \A i \in Nat : i \in P
    BY <1>15, <1>16, Induct
<1>18. h \in [0..n -> RowMaps]
    <2>1. \A i \in 0..n : h[i] \in RowMaps
        BY <1>17 DEF P
    <2>2. h = [i \in 0..n |-> h[i]]
        BY <1>11
    <2> QED BY <2>1, <2>2
<1>19. PutBy(h, table, update)
    BY <1>1, <1>9, <1>13, <1>14, <1>18 DEF h, PutBy
<1> QED BY <1>19


LEMMA StoredByKey ==
    ASSUME NodeShape
    PROVE  /\ LastByKey(AllNodes) \in RowMaps /\ DOMAIN LastByKey(AllNodes) = {a.key : a \in StoredNodes}
           /\ \A k \in DOMAIN LastByKey(AllNodes) :
                 LastByKey(AllNodes)[k] \in StoredNodes /\ LastByKey(AllNodes)[k].key = k
<1> DEFINE last == LastByKey(AllNodes)
           D == {a.key : a \in StoredNodes}
<1>1. AllNodes \in Seq(StoredNodes) /\ Range(AllNodes) = StoredNodes /\ StoredNodes \subseteq NodeRow
    BY NodesStored
<1>2. DOMAIN last = D /\ \A k \in D : last[k] \in StoredNodes /\ last[k].key = k
    BY <1>1, Lasts
<1>3. last = [k \in DOMAIN last |-> last[k]]
    BY DEF LastByKey
<1>4. D \in SUBSET Keys
    BY <1>1 DEF NodeRow
<1> HIDE DEF last, D
<1>5. last \in [D -> NodeRow]
    BY <1>1, <1>2, <1>3
<1>6. PICK b \in Nat : \A a \in StoredNodes : a.gid <= b
    BY DEF NodeShape
<1>7. last \in RowMaps
    <2>1. last \in UNION {[E -> NodeRow] : E \in SUBSET Keys}
        BY <1>4, <1>5
    <2> QED BY <1>2, <1>6, <2>1 DEF RowMaps
<1> QED BY <1>2, <1>7 DEF last, D

(* After an upsert, every key has one row, old keys with the gid they had.      *)
LEMMA Finals ==
    ASSUME NodeShape, NEW table \in Tables, NEW update \in BOOLEAN
    PROVE  /\ FinalNodes(table, update) \in RowMaps
           /\ DOMAIN FinalNodes(table, update) = {a.key : a \in StoredNodes} \cup {table[i].key : i \in DOMAIN table}
           /\ \A k \in DOMAIN LastByKey(AllNodes) : FinalNodes(table, update)[k].gid = LastByKey(AllNodes)[k].gid
           /\ \A k \in DOMAIN FinalNodes(table, update) :
                 FinalNodes(table, update)[k].type \in {a.type : a \in StoredNodes} \cup {table[i].type : i \in DOMAIN table}
           /\ OneGid(LastByKey(AllNodes)) => OneGid(FinalNodes(table, update))
<1> DEFINE last == LastByKey(AllNodes)
           D == {a.key : a \in StoredNodes}
           Y == {a.type : a \in StoredNodes} \cup {table[i].type : i \in DOMAIN table}
<1>1. PICK n \in Nat : n = Len(table) /\ DOMAIN table = 1..n
    BY TableRows
<1>2. \A i \in 1..n : table[i] \in [key : Keys, type : Class]
    BY <1>1, TableRows
<1>3. last \in RowMaps /\ DOMAIN last = D /\ \A k \in D : last[k] \in StoredNodes
    BY StoredByKey
<1>4. PICK f : PutBy(f, table, update)
    BY <1>3, PutRec
<1>5. /\ f \in [0..n -> RowMaps] /\ f[0] = last /\ FinalNodes(table, update) = f[n]
      /\ \A i \in 1..n : f[i] = PutNode(f[i - 1], table[i], update)
    BY <1>1, <1>4 DEF PutBy
<1>6. /\ \A k \in D : last[k].type \in Y
      /\ \A i \in 1..n : table[i].type \in Y
    BY <1>1, <1>3
<1> HIDE DEF last, D, Y
<1> DEFINE Ks(j) == {table[i].key : i \in 1..j}
           Good(j) == /\ DOMAIN f[j] = D \cup Ks(j)
                      /\ \A k \in D : f[j][k].gid = last[k].gid
                      /\ \A k \in DOMAIN f[j] : f[j][k].type \in Y
                      /\ OneGid(last) => OneGid(f[j])
           P == {j \in Nat : j <= n => Good(j)}
<1>7. 0 \in P
    <2>1. Ks(0) = {}
        OBVIOUS
    <2> HIDE DEF Ks
    <2> QED BY <1>3, <1>5, <1>6, <2>1
<1>8. ASSUME NEW j \in Nat, j \in P PROVE j + 1 \in P
    <2> SUFFICES ASSUME j + 1 <= n PROVE Good(j + 1)
        OBVIOUS
    <2>1. Good(j) /\ j \in 0..n /\ j + 1 \in 1..n /\ j + 1 - 1 = j
        BY <1>8
    <2>2. f[j] \in RowMaps /\ table[j + 1] \in [key : Keys, type : Class]
        BY <1>2, <1>5, <2>1
    <2>3. f[j + 1] = PutNode(f[j], table[j + 1], update)
        BY <1>5, <2>1
    <2>4. Ks(j + 1) = Ks(j) \cup {table[j + 1].key}
        <3>1. \A i \in 1..(j + 1) : i \in 1..j \/ i = j + 1
            OBVIOUS
        <3>2. j + 1 \in 1..(j + 1) /\ \A i \in 1..j : i \in 1..(j + 1)
            OBVIOUS
        <3> QED BY <3>1, <3>2
    <2> DEFINE m == f[j]
               row == table[j + 1]
               g == PutNode(m, row, update)
    <2>5. /\ DOMAIN g = DOMAIN m \cup {row.key}
          /\ \A k \in DOMAIN m : g[k].gid = m[k].gid
          /\ \A k \in DOMAIN m \cup {row.key} : g[k].type = row.type \/ (k \in DOMAIN m /\ g[k].type = m[k].type)
          /\ OneGid(m) => OneGid(g)
        <3> HIDE DEF m, row
        <3>1. m \in RowMaps /\ row \in [key : Keys, type : Class]
            BY <2>2 DEF m, row
        <3>2. DOMAIN PutNode(m, row, update) = DOMAIN m \cup {row.key}
            BY <3>1, PutNodeStep
        <3>3. \A k \in DOMAIN m : PutNode(m, row, update)[k].gid = m[k].gid
            BY <3>1, PutNodeStep
        <3>4. \A k \in DOMAIN m \cup {row.key} :
                 \/ PutNode(m, row, update)[k].type = row.type
                 \/ (k \in DOMAIN m /\ PutNode(m, row, update)[k].type = m[k].type)
            BY <3>1, PutNodeStep
        <3>5. OneGid(m) => OneGid(PutNode(m, row, update))
            BY <3>1, PutNodeStep
        <3> QED BY <3>2, <3>3, <3>4, <3>5
    <2>6. row.type \in Y
        BY <1>6, <2>1
    <2>7. /\ DOMAIN m = D \cup Ks(j) /\ \A k \in D : m[k].gid = last[k].gid
          /\ \A k \in DOMAIN m : m[k].type \in Y
          /\ OneGid(last) => OneGid(m)
        BY <2>1
    <2>8. f[j + 1] = g
        BY <2>3
    <2> HIDE DEF m, row, g, Ks
    <2>9. \A k \in D : g[k].gid = last[k].gid
        BY <2>5, <2>7
    <2>10. \A k \in DOMAIN g : g[k].type \in Y
        BY <2>5, <2>6, <2>7
    <2>11. DOMAIN g = D \cup Ks(j + 1)
        BY <2>4, <2>5, <2>7 DEF row
    <2> QED BY <2>5, <2>7, <2>8, <2>9, <2>10, <2>11
<1> HIDE DEF P
<1>9. n \in P
    BY <1>7, <1>8, Induct
<1>10. Good(n)
    BY <1>9 DEF P
<1>11. Ks(n) = {table[i].key : i \in DOMAIN table}
    BY <1>1
<1>12. f[n] \in RowMaps
    BY <1>5
<1> HIDE DEF Ks
<1> QED BY <1>3, <1>5, <1>10, <1>11, <1>12 DEF last, D, Y

(* The map a call takes: the cached one, or one made from the stores.          *)
LEMMA CachedOrMade ==
    ASSUME NodeShape
    PROVE  /\ ExternalIds \in Maps /\ \A m \in ids : ExternalIds = m
           /\ ids = {} => /\ DOMAIN ExternalIds = {a.key : a \in StoredNodes}
                          /\ \A k \in DOMAIN ExternalIds : \E a \in StoredNodes : a.key = k /\ a.gid = ExternalIds[k]
<1>1. CASE ids # {}
    <2>1. PICK m \in ids : ids = {m} /\ m \in Maps
        BY <1>1 DEF NodeShape
    <2>2. ExternalIds = m
        BY <2>1 DEF ExternalIds
    <2> QED BY <1>1, <2>1, <2>2
<1>2. CASE ids = {}
    <2> DEFINE last == LastByKey(AllNodes)
               m == [k \in DOMAIN last |-> last[k].gid]
    <2>1. ExternalIds = m
        BY <1>2 DEF ExternalIds
    <2>2. /\ last \in RowMaps /\ DOMAIN last = {a.key : a \in StoredNodes}
          /\ \A k \in DOMAIN last : last[k] \in StoredNodes /\ last[k].key = k
        BY StoredByKey
    <2> HIDE DEF last
    <2>3. PICK D \in SUBSET Keys : last \in [D -> NodeRow]
        BY <2>2 DEF RowMaps
    <2>4. PICK b \in Nat : \A k \in DOMAIN last : last[k].gid <= b
        BY <2>2 DEF RowMaps
    <2>5. m \in [D -> Nat]
        BY <2>3 DEF NodeRow
    <2>6. DOMAIN m = D /\ \A k \in D : m[k] = last[k].gid
        BY <2>3
    <2> HIDE DEF m
    <2>7. m \in Maps
        <3>1. m \in UNION {[E -> Nat] : E \in SUBSET Keys}
            BY <2>5
        <3> QED BY <2>3, <2>4, <2>6, <3>1 DEF Maps
    <2>8. \A k \in DOMAIN m : \E a \in StoredNodes : a.key = k /\ a.gid = m[k]
        BY <2>2, <2>3, <2>6
    <2> QED BY <1>2, <2>1, <2>2, <2>3, <2>6, <2>7, <2>8
<1> QED BY <1>1, <1>2

(* What an insert is about to write: the rows of the table with their gids.    *)
LEMMA GroupedRows ==
    ASSUME NEW table \in Tables, NEW map \in Maps, \A i \in DOMAIN table : table[i].key \in DOMAIN map
    PROVE  /\ Sq(Grouped(table, map)) /\ Grouped(table, map) # <<>>
           /\ \A w \in Range(Grouped(table, map)) :
                 ClassWriting(w) /\ \A a \in Range(w.rows) : a.key \in DOMAIN map /\ a.gid = map[a.key]
           /\ \A i \in DOMAIN table :
                 \E w \in Range(Grouped(table, map)) : \E a \in Range(w.rows) : a.key = table[i].key
<1> DEFINE row(i) == [key |-> table[i].key, type |-> table[i].type, gid |-> map[table[i].key]]
           rows == [i \in DOMAIN table |-> row(i)]
           order == FirstOnly(TypesOf(table))
           of(t) == Pick(rows, {i \in DOMAIN rows : rows[i].type = t})
           todo == Grouped(table, map)
           R == {a \in NodeRow : a.key \in DOMAIN map /\ a.gid = map[a.key]}
<1>1. PICK n \in Nat : DOMAIN table = 1..n /\ 1 \in 1..n
    BY TableRows
<1>2. \A i \in 1..n : table[i].key \in Keys /\ table[i].type \in Class
    BY <1>1, TableRows
<1>3. todo = [j \in DOMAIN order |-> [store |-> order[j], rows |-> of(order[j])]]
    BY DEF Grouped, Those
<1>4. map \in [DOMAIN map -> Nat]
    BY DEF Maps
<1>5. \A i \in 1..n : row(i) \in R /\ row(i).key = table[i].key /\ row(i).type = table[i].type
    BY <1>1, <1>2, <1>4 DEF NodeRow
<1> HIDE DEF row, R
<1>6. rows \in [1..n -> R] /\ \A i \in 1..n : rows[i] = row(i)
    BY <1>1, <1>5
<1>7. rows \in Seq(R) /\ DOMAIN rows = 1..n
    BY <1>6
<1>8. TypesOf(table) \in [1..n -> Class] /\ \A i \in 1..n : TypesOf(table)[i] = table[i].type
    BY <1>1, <1>2 DEF TypesOf
<1>9. TypesOf(table) \in Seq(Class)
    BY <1>8
<1>10. order \in Seq(Class) /\ Range(order) = {table[i].type : i \in 1..n}
    <2>1. Range(TypesOf(table)) = {table[i].type : i \in 1..n}
        BY <1>8 DEF Range
    <2> QED BY <1>9, <2>1, Firsts
<1> HIDE DEF rows, order
<1>11. \A t : of(t) \in Seq(R) /\ Range(of(t)) = {rows[i] : i \in {j \in 1..n : rows[j].type = t}}
    <2> SUFFICES ASSUME NEW t
                 PROVE  of(t) \in Seq(R) /\ Range(of(t)) = {rows[i] : i \in {j \in 1..n : rows[j].type = t}}
        OBVIOUS
    <2> DEFINE T == {i \in DOMAIN rows : rows[i].type = t}
    <2>1. T = {j \in 1..n : rows[j].type = t} /\ DOMAIN rows \cap T = T
        BY <1>7
    <2> HIDE DEF T
    <2>2. Pick(rows, T) \in Seq(R) /\ Range(Pick(rows, T)) = {rows[i] : i \in DOMAIN rows \cap T}
        BY <1>7, Picked
    <2> QED BY <2>1, <2>2 DEF T
<1> HIDE DEF of, todo
<1>12. \A t : Sq(of(t)) /\ Range(of(t)) \subseteq R /\ \A a \in Range(of(t)) : a.type = t
    <2> SUFFICES ASSUME NEW t PROVE Sq(of(t)) /\ Range(of(t)) \subseteq R /\ \A a \in Range(of(t)) : a.type = t
        OBVIOUS
    <2>1. of(t) \in Seq(R)
        BY <1>11
    <2>2. Sq(of(t)) /\ Range(of(t)) \subseteq R
        BY <2>1, SqDown
    <2> QED BY <1>11, <2>2
<1>13. PICK m \in Nat : DOMAIN order = 1..m
    BY <1>10
<1>14. todo = [j \in 1..m |-> todo[j]]
    BY <1>3, <1>13
<1>15. Sq(todo) /\ DOMAIN todo = 1..m
    BY <1>14, FunctionSq
<1>16. \A j \in 1..m : todo[j].store = order[j] /\ todo[j].rows = of(order[j]) /\ order[j] \in Range(order)
    BY <1>3, <1>13 DEF Range
<1>17. Range(order) \subseteq Class
    BY <1>2, <1>10
<1>18. ASSUME NEW w \in Range(todo)
       PROVE  ClassWriting(w) /\ \A a \in Range(w.rows) : a.key \in DOMAIN map /\ a.gid = map[a.key]
    <2>1. PICK j \in 1..m : w = todo[j]
        BY <1>15 DEF Range
    <2>2. w.store \in Class /\ w.rows = of(w.store)
        BY <1>16, <1>17, <2>1
    <2> QED BY <1>12, <2>2 DEF ClassWriting, R
<1>19. ASSUME NEW i \in 1..n PROVE \E w \in Range(todo) : \E a \in Range(w.rows) : a.key = table[i].key
    <2>1. table[i].type \in Range(order)
        BY <1>10
    <2>2. PICK j \in 1..m : order[j] = table[i].type
        BY <1>13, <2>1 DEF Range
    <2>3. rows[i] \in Range(of(order[j])) /\ rows[i].key = table[i].key
        BY <1>5, <1>6, <1>11, <2>2
    <2>4. todo[j] \in Range(todo) /\ todo[j].rows = of(order[j])
        BY <1>15, <1>16 DEF Range
    <2> QED BY <2>3, <2>4
<1>20. todo # <<>>
    <2>1. \E w \in Range(todo) : TRUE
        BY <1>1, <1>19
    <2> QED BY <2>1 DEF Range
<1> QED BY <1>1, <1>15, <1>18, <1>19, <1>20 DEF todo

(* What an upsert is about to write: all rows, each with the gid it had.       *)
LEMMA NodeUpsertBegins ==
    ASSUME NodeShape, NEW table \in Tables, NEW update \in BOOLEAN, UpsertNodes(table, update)
    PROVE  /\ job' = [op |-> "upsertNodes", phase |-> "remove", todo |-> job'.todo]
           /\ Sq(job'.todo) /\ job'.todo # <<>> /\ \A w \in Range(job'.todo) : ClassWriting(w)
           /\ \A i, j \in DOMAIN job'.todo : job'.todo[i].store = job'.todo[j].store => i = j
           /\ \A w \in Range(job'.todo) : \A a \in Range(w.rows) :
                 a.key \in DOMAIN FinalNodes(table, update) /\ a = FinalNodes(table, update)[a.key]
           /\ \A k \in DOMAIN FinalNodes(table, update) :
                 \E w \in Range(job'.todo) : FinalNodes(table, update)[k] \in Range(w.rows)
           /\ \A c \in Class : nodes[c] # <<>> => \E w \in Range(job'.todo) : w.store = c
<1> DEFINE order == FirstOnly(KeysOf(AllNodes) \o KeysOf(table))
           touched == ToSet(TypesOf(AllNodes)) \cup ToSet(TypesOf(table))
           final == FinalNodes(table, update)
           todo == Rewrites(Classes, touched, order, final)
           D == {a.key : a \in StoredNodes} \cup {table[i].key : i \in DOMAIN table}
<1>1. job' = [op |-> "upsertNodes", phase |-> "remove", todo |-> todo]
    BY DEF UpsertNodes
<1>2. AllNodes \in Seq(StoredNodes) /\ Range(AllNodes) = StoredNodes /\ StoredNodes \subseteq NodeRow
    BY NodesStored
<1>3. /\ table \in Seq([key : Keys, type : Class]) /\ 1 \in DOMAIN table
      /\ \A i \in DOMAIN table : table[i].key \in Keys /\ table[i].type \in Class
    BY TableRows
<1>4. /\ ToSet(TypesOf(AllNodes)) = {a.type : a \in StoredNodes}
      /\ KeysOf(AllNodes) \in Seq(D) /\ Range(KeysOf(AllNodes)) = {a.key : a \in StoredNodes}
    <2>1. KeysOf(AllNodes) \in Seq({a.key : a \in StoredNodes}) /\ Range(KeysOf(AllNodes)) = KeysIn(AllNodes)
        BY <1>2, KeysOfRows
    <2>2. ToSet(TypesOf(AllNodes)) = {a.type : a \in StoredNodes}
        BY <1>2, KeysOfRows
    <2>3. Range(KeysOf(AllNodes)) = {a.key : a \in StoredNodes}
        BY <1>2, <2>1 DEF KeysIn
    <2> DEFINE E == {a.key : a \in StoredNodes}
    <2>4. KeysOf(AllNodes) \in Seq(E)
        BY <2>1
    <2> HIDE DEF E
    <2>5. Sq(KeysOf(AllNodes))
        BY <2>4, SqDown
    <2>6. Range(KeysOf(AllNodes)) \subseteq D
        BY <2>3
    <2> HIDE DEF D
    <2> QED BY <2>2, <2>3, <2>5, <2>6, SqUp
<1>5. /\ ToSet(TypesOf(table)) = {table[i].type : i \in DOMAIN table}
      /\ KeysOf(table) \in Seq(D) /\ Range(KeysOf(table)) = {table[i].key : i \in DOMAIN table}
    <2>1. KeysOf(table) = [i \in DOMAIN table |-> table[i].key] /\ TypesOf(table) = [i \in DOMAIN table |-> table[i].type]
        BY DEF KeysOf, TypesOf
    <2>2. Range(KeysOf(table)) = {table[i].key : i \in DOMAIN table}
        BY <2>1 DEF Range
    <2>3. ToSet(TypesOf(table)) = {table[i].type : i \in DOMAIN table}
        BY <2>1 DEF ToSet
    <2>4. PICK n \in Nat : DOMAIN table = 1..n
        BY <1>3
    <2>5. KeysOf(table) \in [1..n -> D]
        BY <2>1, <2>4
    <2> QED BY <2>2, <2>3, <2>5
<1>6. order \in Seq(D) /\ Range(order) = D
    <2> DEFINE s == KeysOf(AllNodes) \o KeysOf(table)
    <2>1. s \in Seq(D) /\ Range(s) = Range(KeysOf(AllNodes)) \cup Range(KeysOf(table))
        <3> HIDE DEF D
        <3> QED BY <1>4, <1>5, Joined
    <2>2. Range(s) = D
        BY <1>4, <1>5, <2>1
    <2> HIDE DEF s, D
    <2>3. FirstOnly(s) \in Seq(D) /\ Range(FirstOnly(s)) = D
        BY <2>1, <2>2, Firsts
    <2> QED BY <2>3 DEF s
<1>7. /\ final \in RowMaps /\ DOMAIN final = D
      /\ \A k \in DOMAIN final : final[k].type \in {a.type : a \in StoredNodes} \cup {table[i].type : i \in DOMAIN table}
    BY Finals
<1>8. \A k \in D : final[k].type \in touched
    BY <1>4, <1>5, <1>7
<1>9. final \in [D -> NodeRow] /\ \A k \in D : final[k].key = k
    BY <1>7 DEF RowMaps
<1>10. \A k \in D : final[k] \in NodeRow /\ final[k].key = k /\ final[k].type \in Class \cap touched
    BY <1>8, <1>9 DEF NodeRow
<1> HIDE DEF order, D, final, touched
<1>11. Class = Range(Classes) /\ Classes \in Seq(Class) /\ IsInjective(Classes)
    BY ConstantsAssumption DEF Class, ToSet, Range
<1>12. /\ Sq(todo)
       /\ \A w \in Range(todo) : w = [store |-> w.store, rows |-> RowsFor(w.store, order, final)] /\ w.store \in Range(Classes) \cap touched
       /\ \A t \in Range(Classes) \cap touched : \E w \in Range(todo) : w.store = t
       /\ \A i, j \in DOMAIN todo : todo[i].store = todo[j].store => i = j
    BY <1>6, <1>11, RewritesOf
<1> HIDE DEF todo
<1>13. \A t : /\ Sq(RowsFor(t, order, final))
              /\ Range(RowsFor(t, order, final)) = {final[k] : k \in {l \in Range(order) : final[l].type = t}}
    BY <1>6, RowsForStore
<1>14. ASSUME NEW w \in Range(todo)
       PROVE  ClassWriting(w) /\ \A a \in Range(w.rows) : a.key \in D /\ a = final[a.key]
    <2>1. w.rows = RowsFor(w.store, order, final) /\ w.store \in Class
        BY <1>11, <1>12
    <2>2. Range(w.rows) = {final[k] : k \in {l \in D : final[l].type = w.store}}
        BY <1>6, <1>13, <2>1
    <2>3. \A a \in Range(w.rows) : a \in NodeRow /\ a.type = w.store /\ a.key \in D /\ a = final[a.key]
        BY <1>10, <2>2
    <2> QED BY <1>13, <2>1, <2>3 DEF ClassWriting
<1>15. ASSUME NEW k \in D PROVE \E w \in Range(todo) : final[k] \in Range(w.rows)
    <2>1. PICK w \in Range(todo) : w.store = final[k].type
        BY <1>10, <1>11, <1>12
    <2>2. w.rows = RowsFor(w.store, order, final)
        BY <1>12, <2>1
    <2>3. final[k] \in Range(w.rows)
        BY <1>6, <1>13, <2>1, <2>2
    <2> QED BY <2>3
<1>16. ASSUME NEW c \in Class, nodes[c] # <<>> PROVE \E w \in Range(todo) : w.store = c
    <2>1. Sq(nodes[c]) /\ \A a \in Range(nodes[c]) : a.type = c
        BY DEF NodeShape
    <2>2. nodes[c][1] \in Range(nodes[c])
        BY <1>16, <2>1, FirstAndRest
    <2>3. nodes[c][1] \in StoredNodes
        BY <2>2 DEF StoredNodes
    <2>4. c \in touched
        BY <1>4, <2>1, <2>2, <2>3 DEF touched
    <2> QED BY <1>11, <1>12, <2>4
<1>17. todo # <<>>
    <2>1. \E k \in D : TRUE
        BY <1>3 DEF D
    <2>2. PICK w \in Range(todo) : TRUE
        BY <1>15, <2>1
    <2> QED BY <2>2 DEF Range
<1>18. job'.todo = todo
    BY <1>1
<1> QED BY <1>1, <1>7, <1>12, <1>14, <1>15, <1>16, <1>17, <1>18 DEF final

-----------------------------------------------------------------------------
(* The steps keep the node side of the invariant.                              *)

EdgesAtHand == Stored \cup (IF OnEdges THEN InTodo ELSE {})

LEMMA KnownUnique ==
    ASSUME NEW m, NEW R, OneToOne(m), Knows(m, R)
    PROVE  Unique(R)
BY DEF OneToOne, Knows, Unique

LEMMA NotOnNodes ==
    ASSUME ~OnNodes
    PROVE  Due = {} /\ job.op # "upsertNodes" /\ job.op # "insertNodes"
BY DEF Due, OnNodes

LEMMA IdleJob ==
    ASSUME job = Idle
    PROVE  ~OnNodes /\ ~OnEdges /\ Due = {} /\ job.op = "idle" /\ InTodo = {} /\ NodeJob
BY DEF Idle, OnNodes, OnEdges, Due, InTodo, Range, NodeJob

LEMMA GroundStored ==
    ASSUME job.op # "upsertNodes", NEW k, NEW g
    PROVE  Ground(k, g) <=> \E a \in StoredNodes : a.key = k /\ a.gid = g
BY DEF Ground, Rewritten, StoredNodes

LEMMA CacheGood ==
    ASSUME NodeShape, Numbered, ~OnNodes
    PROVE  OneToOne(ExternalIds) /\ Knows(ExternalIds, StoredNodes)
<1>1. Due = {} /\ job.op # "upsertNodes"
    BY NotOnNodes
<1>2. Unique(StoredNodes) /\ \A m \in ids : OneToOne(m) /\ Knows(m, StoredNodes)
    BY <1>1 DEF Numbered
<1>3. CASE ids # {}
    <2>1. \A m \in ids : ExternalIds = m
        BY CachedOrMade
    <2> QED BY <1>2, <1>3, <2>1
<1>4. CASE ids = {}
    <2>1. /\ DOMAIN ExternalIds = {a.key : a \in StoredNodes}
          /\ \A k \in DOMAIN ExternalIds : \E a \in StoredNodes : a.key = k /\ a.gid = ExternalIds[k]
        BY <1>4, CachedOrMade
    <2> DEFINE m == ExternalIds
    <2> HIDE DEF m
    <2>2. /\ DOMAIN m = {a.key : a \in StoredNodes}
          /\ \A k \in DOMAIN m : \E a \in StoredNodes : a.key = k /\ a.gid = m[k]
        BY <2>1 DEF m
    <2>3. OneToOne(m)
        BY <1>2, <2>2 DEF OneToOne, Unique
    <2>4. Knows(m, StoredNodes)
        BY <1>2, <2>2 DEF Knows, Unique
    <2> QED BY <2>3, <2>4 DEF m
<1> QED BY <1>3, <1>4

LEMMA CacheGrounded ==
    ASSUME NodeShape, Grounded, ~OnNodes
    PROVE  \A k \in DOMAIN ExternalIds : \E a \in StoredNodes : a.key = k /\ a.gid = ExternalIds[k]
<1>1. Due = {} /\ job.op # "upsertNodes"
    BY NotOnNodes
<1>2. \A m \in ids : \A k \in DOMAIN m : \E a \in StoredNodes : a.key = k /\ a.gid = m[k]
    BY <1>1 DEF Grounded
<1>3. CASE ids # {}
    <2>1. \A m \in ids : ExternalIds = m
        BY CachedOrMade
    <2>2. PICK m \in ids : TRUE
        BY <1>3
    <2>3. ExternalIds = m
        BY <2>1
    <2> QED BY <1>2, <2>3
<1>4. CASE ids = {}
    BY <1>4, CachedOrMade
<1> QED BY <1>3, <1>4

(* Steps that leave the node stores alone, with no call on nodes.              *)
LEMMA EdgeSide ==
    ASSUME NInv, GInv', nodes' = nodes, ghosts' = ghosts, nodeLoss' = nodeLoss, ~OnNodes, ~OnNodes',
           ids' = ids \/ ids' = {ExternalIds} \/ ids' = {},
           NEW N, ~nodeLoss /\ ~ghosts => \A e \in N : Joins(e), EdgesAtHand' \subseteq EdgesAtHand \cup N
    PROVE  NInv'
<1>1. NodeShape /\ NodeJob /\ (~nodeLoss => Numbered) /\ (~nodeLoss /\ ~ghosts => Grounded)
    BY DEF NInv
<1>2. Due = {} /\ job.op # "upsertNodes" /\ job.op # "insertNodes"
    BY NotOnNodes
<1>3. Due' = {} /\ job'.op # "upsertNodes" /\ job'.op # "insertNodes"
    BY DEF Due, OnNodes
<1>4. StoredNodes' = StoredNodes
    BY DEF StoredNodes
<1>5. ExternalIds \in Maps
    BY <1>1, CachedOrMade
<1>6. NodeShape'
    BY <1>1, <1>2, <1>3, <1>4, <1>5 DEF NodeShape
<1>7. NodeJob'
    BY <1>3 DEF NodeJob, OnNodes
<1>8. ASSUME ~nodeLoss PROVE Numbered'
    <2>1. Unique(StoredNodes) /\ \A m \in ids : OneToOne(m) /\ Knows(m, StoredNodes)
        BY <1>1, <1>2, <1>8 DEF Numbered
    <2>2. OneToOne(ExternalIds) /\ Knows(ExternalIds, StoredNodes)
        BY <1>1, <1>8, CacheGood
    <2>3. \A m \in ids' : OneToOne(m) /\ Knows(m, StoredNodes)
        BY <2>1, <2>2
    <2> QED BY <1>3, <1>4, <2>1, <2>3 DEF Numbered
<1>9. ASSUME ~nodeLoss, ~ghosts PROVE Grounded'
    <2>1. \A m \in ids : \A k \in DOMAIN m : \E a \in StoredNodes : a.key = k /\ a.gid = m[k]
        BY <1>1, <1>2, <1>9 DEF Grounded
    <2>2. \A k \in DOMAIN ExternalIds : \E a \in StoredNodes : a.key = k /\ a.gid = ExternalIds[k]
        BY <1>1, <1>9, CacheGrounded
    <2>3. \A m \in ids' : \A k \in DOMAIN m : \E a \in StoredNodes : a.key = k /\ a.gid = m[k]
        BY <2>1, <2>2
    <2>4. \A e \in EdgesAtHand : Joins(e)
        BY <1>1, <1>9 DEF Grounded, EdgesAtHand
    <2>5. \A k, g : Ground(k, g) => Ground(k, g)'
        BY <1>2, <1>3 DEF Ground, Rewritten
    <2>6. \A e : Joins(e) => Joins(e)'
        BY <2>5 DEF Joins
    <2>7. \A e \in EdgesAtHand' : Joins(e)'
        BY <1>9, <2>4, <2>6
    <2> QED BY <1>3, <1>4, <2>3, <2>7 DEF Grounded, EdgesAtHand
<1> QED BY <1>6, <1>7, <1>8, <1>9 DEF NInv

(* A call on nodes ends before it is done.                                     *)
LEMMA NodeCallEnds ==
    ASSUME NInv, GInv', OnNodes, job' = Idle, nodes' = nodes, edges' = edges, ids' = ids \/ ids' = {},
           nodeLoss' = (nodeLoss \/ job.op = "upsertNodes"), ghosts' \in BOOLEAN, ghosts => ghosts',
           ids' # {} /\ job.op = "insertNodes" => ghosts'
    PROVE  NInv'
<1>1. NodeShape /\ NodeJob /\ (~nodeLoss => Numbered) /\ (~nodeLoss /\ ~ghosts => Grounded)
    BY DEF NInv
<1>2. ~OnNodes' /\ ~OnEdges' /\ Due' = {} /\ job'.op = "idle"
    BY DEF Idle, OnNodes, OnEdges, Due
<1>3. StoredNodes' = StoredNodes /\ Stored' = Stored
    BY DEF StoredNodes, Stored
<1>4. NodeShape'
    BY <1>1, <1>2, <1>3 DEF NodeShape
<1>5. NodeJob'
    BY <1>2 DEF NodeJob
<1>6. ASSUME ~nodeLoss' PROVE Numbered'
    <2>1. ~nodeLoss /\ job.op # "upsertNodes" /\ Numbered
        BY <1>1, <1>6 DEF NodeShape
    <2>2. Unique(StoredNodes)
        BY <2>1 DEF Numbered, Unique
    <2>3. \A m \in ids : OneToOne(m) /\ Knows(m, StoredNodes)
        BY <2>1 DEF Numbered, Knows
    <2> QED BY <1>2, <1>3, <2>2, <2>3 DEF Numbered
<1>7. ASSUME ~nodeLoss', ~ghosts' PROVE Grounded'
    <2>1. ~nodeLoss /\ ~ghosts /\ job.op = "insertNodes" /\ Grounded
        BY <1>1, <1>7 DEF NodeShape, OnNodes
    <2>2. ids' = {}
        BY <1>7, <2>1
    <2>3. \A k, g : Ground(k, g) => Ground(k, g)'
        BY <1>2, <2>1 DEF Ground, Rewritten
    <2>4. \A e \in Stored : Joins(e)
        BY <2>1 DEF Grounded
    <2>5. \A e \in Stored' : Joins(e)'
        BY <1>3, <2>3, <2>4 DEF Joins
    <2> QED BY <1>2, <2>2, <2>5 DEF Grounded
<1> QED BY <1>4, <1>5, <1>6, <1>7 DEF NInv

(* The map after an insert's gids are given.                                   *)
LEMMA GivenMap ==
    ASSUME NodeShape, ~OnNodes, NEW table \in Tables
    PROVE  /\ AssignGids(ExternalIds, table) \in Maps
           /\ \A i \in DOMAIN table : table[i].key \in DOMAIN AssignGids(ExternalIds, table)
           /\ Numbered => OneToOne(AssignGids(ExternalIds, table)) /\ Knows(AssignGids(ExternalIds, table), StoredNodes)
           /\ Grounded => \A k \in DOMAIN AssignGids(ExternalIds, table) :
                             \/ \E i \in DOMAIN table : k = table[i].key
                             \/ \E a \in StoredNodes : a.key = k /\ a.gid = AssignGids(ExternalIds, table)[k]
<1> DEFINE e == ExternalIds
           m == AssignGids(e, table)
<1>1. e \in Maps
    BY CachedOrMade
<1>2. Numbered => OneToOne(e) /\ Knows(e, StoredNodes)
    BY CacheGood
<1>3. Grounded => \A k \in DOMAIN e : \E a \in StoredNodes : a.key = k /\ a.gid = e[k]
    BY CacheGrounded
<1> HIDE DEF e
<1>4. /\ m \in Maps /\ DOMAIN m = DOMAIN e \cup {table[i].key : i \in DOMAIN table}
      /\ \A k \in DOMAIN e : m[k] = e[k]
      /\ OneToOne(e) => OneToOne(m)
    BY <1>1, Assigned
<1> HIDE DEF m
<1>5. Numbered => OneToOne(m) /\ Knows(m, StoredNodes)
    BY <1>2, <1>4 DEF Knows
<1>6. Grounded => \A k \in DOMAIN m :
                     \/ \E i \in DOMAIN table : k = table[i].key
                     \/ \E a \in StoredNodes : a.key = k /\ a.gid = m[k]
    BY <1>3, <1>4
<1> QED BY <1>4, <1>5, <1>6 DEF e, m

LEMMA InsertNodesStep ==
    ASSUME NInv, GInv', NEW table \in Tables, InsertNodes(table)
    PROVE  NInv'
<1> DEFINE map == AssignGids(ExternalIds, table)
           todo == Grouped(table, map)
<1>1. /\ job = Idle /\ ids' = {map} /\ nodes' = nodes /\ edges' = edges
      /\ nodeLoss' = nodeLoss /\ ghosts' = ghosts
      /\ job' = [op |-> "insertNodes", phase |-> "append", todo |-> todo]
    BY DEF InsertNodes, losses
<1>2. NodeShape /\ (~nodeLoss => Numbered) /\ (~nodeLoss /\ ~ghosts => Grounded)
    BY DEF NInv
<1>3. ~OnNodes /\ ~OnEdges /\ Due = {} /\ job.op = "idle"
    BY <1>1, IdleJob
<1>4. /\ map \in Maps
      /\ \A i \in DOMAIN table : table[i].key \in DOMAIN map
      /\ Numbered => OneToOne(map) /\ Knows(map, StoredNodes)
      /\ Grounded => \A k \in DOMAIN map :
                        \/ \E i \in DOMAIN table : k = table[i].key
                        \/ \E a \in StoredNodes : a.key = k /\ a.gid = map[k]
    BY <1>2, <1>3, GivenMap
<1> HIDE DEF map
<1>5. /\ Sq(todo) /\ todo # <<>>
      /\ \A w \in Range(todo) : ClassWriting(w) /\ \A a \in Range(w.rows) : a.key \in DOMAIN map /\ a.gid = map[a.key]
      /\ \A i \in DOMAIN table : \E w \in Range(todo) : \E a \in Range(w.rows) : a.key = table[i].key
    BY <1>4, GroupedRows
<1> HIDE DEF todo
<1>6. job'.op = "insertNodes" /\ job'.phase = "append" /\ job'.todo = todo
    BY <1>1
<1>7. OnNodes' /\ ~OnEdges' /\ StoredNodes' = StoredNodes /\ Stored' = Stored
    BY <1>1, <1>6 DEF OnNodes, OnEdges, StoredNodes, Stored
<1> DEFINE R == UNION {Range(w.rows) : w \in Range(todo)}
<1>8. Due' = R
    BY <1>6, <1>7 DEF Due, InTodo
<1>9. /\ Knows(map, R)
      /\ \A i \in DOMAIN table : \E a \in R : a.key = table[i].key
    BY <1>5 DEF Knows
<1> HIDE DEF R
<1>10. NodeJob'
    BY <1>5, <1>6 DEF NodeJob, ClassWriting
<1>11. NodeShape'
    <2>1. PICK b \in Nat : \A a \in StoredNodes : a.gid <= b
        BY <1>2 DEF NodeShape
    <2>2. PICK c \in Nat : \A k \in DOMAIN map : map[k] <= c
        BY <1>4 DEF Maps
    <2>3. map \in [DOMAIN map -> Nat] /\ StoredNodes \subseteq NodeRow
        BY <1>2, <1>4, NodesStored DEF Maps
    <2>4. \A a \in StoredNodes : a.gid \in Nat /\ a.gid <= b + c
        <3>1. \A a \in StoredNodes : a.gid \in Nat /\ a.gid <= b
            BY <2>1, <2>3 DEF NodeRow
        <3> QED BY <3>1
    <2>5. \A a \in R : a.gid <= b + c
        <3>1. \A a \in R : a.gid \in Nat /\ a.gid <= c
            BY <1>9, <2>2, <2>3 DEF Knows
        <3> QED BY <3>1
    <2>6. b + c \in Nat
        OBVIOUS
    <2>7. \E d \in Nat : \A a \in StoredNodes \cup R : a.gid <= d
        BY <2>4, <2>5, <2>6
    <2> QED BY <1>1, <1>2, <1>4, <1>7, <1>8, <2>7 DEF NodeShape
<1>12. ASSUME ~nodeLoss PROVE Numbered'
    <2>1. OneToOne(map) /\ Knows(map, StoredNodes)
        BY <1>2, <1>4, <1>12
    <2>2. Knows(map, StoredNodes \cup R)
        BY <1>9, <2>1 DEF Knows
    <2>3. Unique(StoredNodes \cup R)
        BY <2>1, <2>2, KnownUnique
    <2> QED BY <1>1, <1>7, <1>8, <2>1, <2>2, <2>3 DEF Numbered
<1>13. ASSUME ~nodeLoss, ~ghosts PROVE Grounded'
    <2>1. Grounded
        BY <1>2, <1>13
    <2>2. ASSUME NEW k \in DOMAIN map PROVE \E a \in StoredNodes \cup R : a.key = k /\ a.gid = map[k]
        <3>1. CASE \E i \in DOMAIN table : k = table[i].key
            BY <1>9, <3>1 DEF Knows
        <3>2. CASE \E a \in StoredNodes : a.key = k /\ a.gid = map[k]
            BY <3>2
        <3> QED BY <1>4, <2>1, <3>1, <3>2
    <2>3. \A k, g : Ground(k, g) => Ground(k, g)'
        BY <1>1, <1>3, <1>6 DEF Ground, Rewritten
    <2>4. \A e \in Stored : Joins(e)
        BY <2>1 DEF Grounded
    <2>5. \A e \in Stored' : Joins(e)'
        BY <1>7, <2>3, <2>4 DEF Joins
    <2> QED BY <1>1, <1>7, <1>8, <2>2, <2>5 DEF Grounded
<1> QED BY <1>1, <1>10, <1>11, <1>12, <1>13 DEF NInv

LEMMA InsertNodesRefusedStep ==
    ASSUME NInv, GInv', NEW table \in Tables, InsertNodesRefused(table)
    PROVE  NInv'
<1> DEFINE map == AssignGids(ExternalIds, table)
<1>1. job = Idle /\ ids' = {map} /\ nodes' = nodes /\ nodeLoss' = nodeLoss /\ ghosts' = TRUE /\ job' = job
    BY DEF InsertNodesRefused
<1>2. NodeShape /\ (~nodeLoss => Numbered)
    BY DEF NInv
<1>3. ~OnNodes /\ Due = {} /\ job.op = "idle" /\ NodeJob
    BY <1>1, IdleJob
<1>4. map \in Maps /\ (Numbered => OneToOne(map) /\ Knows(map, StoredNodes))
    BY <1>2, <1>3, GivenMap
<1> HIDE DEF map
<1>5. StoredNodes' = StoredNodes /\ Due' = {} /\ job'.op = "idle"
    BY <1>1, <1>3 DEF StoredNodes, Due, OnNodes
<1>6. NodeJob'
    BY <1>5 DEF NodeJob, OnNodes
<1>7. NodeShape'
    BY <1>1, <1>2, <1>3, <1>4, <1>5 DEF NodeShape
<1>8. ASSUME ~nodeLoss PROVE Numbered'
    <2>1. Unique(StoredNodes)
        BY <1>2, <1>3, <1>8 DEF Numbered
    <2> QED BY <1>1, <1>2, <1>4, <1>5, <1>8, <2>1 DEF Numbered
<1> QED BY <1>1, <1>6, <1>7, <1>8 DEF NInv

LEMMA UpsertNodesStep ==
    ASSUME NInv, GInv', NEW table \in Tables, NEW update \in BOOLEAN, UpsertNodes(table, update)
    PROVE  NInv'
<1> DEFINE final == FinalNodes(table, update)
           last == LastByKey(AllNodes)
           R == UNION {Range(w.rows) : w \in Range(job'.todo)}
<1>1. /\ job = Idle /\ ids' = ids /\ nodes' = nodes /\ edges' = edges /\ nodeLoss' = nodeLoss /\ ghosts' = ghosts
    BY DEF UpsertNodes, losses
<1>2. NodeShape /\ (~nodeLoss => Numbered) /\ (~nodeLoss /\ ~ghosts => Grounded)
    BY DEF NInv
<1>3. ~OnNodes /\ ~OnEdges /\ Due = {} /\ job.op = "idle"
    BY <1>1, IdleJob
<1>4. /\ job' = [op |-> "upsertNodes", phase |-> "remove", todo |-> job'.todo]
      /\ Sq(job'.todo) /\ job'.todo # <<>> /\ \A w \in Range(job'.todo) : ClassWriting(w)
      /\ \A i, j \in DOMAIN job'.todo : job'.todo[i].store = job'.todo[j].store => i = j
    BY <1>2, NodeUpsertBegins
<1>5. /\ \A a \in R : a.key \in DOMAIN final /\ a = final[a.key]
      /\ \A k \in DOMAIN final : final[k] \in R
    <2>1. /\ \A w \in Range(job'.todo) : \A a \in Range(w.rows) : a.key \in DOMAIN final /\ a = final[a.key]
          /\ \A k \in DOMAIN final : \E w \in Range(job'.todo) : final[k] \in Range(w.rows)
        BY <1>2, NodeUpsertBegins
    <2> HIDE DEF final
    <2> QED BY <2>1
<1>6. /\ final \in RowMaps /\ \A a \in StoredNodes : a.key \in DOMAIN final
      /\ \A k \in DOMAIN last : final[k].gid = last[k].gid
      /\ OneGid(last) => OneGid(final)
    BY <1>2, Finals
<1>7. /\ DOMAIN last = {a.key : a \in StoredNodes} /\ \A k \in DOMAIN last : last[k] \in StoredNodes /\ last[k].key = k
    BY <1>2, StoredByKey
<1> HIDE DEF final, last
<1>8. job'.op = "upsertNodes" /\ job'.phase = "remove"
    BY <1>4
<1>9. OnNodes' /\ ~OnEdges' /\ StoredNodes' = StoredNodes /\ Stored' = Stored /\ Due' = R /\ InTodo' = R
    BY <1>1, <1>8 DEF OnNodes, OnEdges, StoredNodes, Stored, Due, InTodo
<1> HIDE DEF R
<1>10. NodeJob'
    BY <1>4, <1>8 DEF NodeJob, ClassWriting
<1>11. NodeShape'
    <2>1. PICK b \in Nat : \A a \in StoredNodes : a.gid <= b
        BY <1>2 DEF NodeShape
    <2>2. PICK c \in Nat : \A k \in DOMAIN final : final[k].gid <= c
        BY <1>6 DEF RowMaps
    <2>3. final \in [DOMAIN final -> NodeRow] /\ StoredNodes \subseteq NodeRow
        BY <1>2, <1>6, NodesStored DEF RowMaps
    <2>4. \A a \in StoredNodes : a.gid <= b + c
        <3>1. \A a \in StoredNodes : a.gid \in Nat /\ a.gid <= b
            BY <2>1, <2>3 DEF NodeRow
        <3> QED BY <3>1
    <2>5. \A a \in R : a.gid <= b + c
        <3>1. \A k \in DOMAIN final : final[k].gid \in Nat /\ final[k].gid <= c
            BY <2>2, <2>3 DEF NodeRow
        <3>2. \A a \in R : a.gid \in Nat /\ a.gid <= c
            BY <1>5, <3>1
        <3> QED BY <3>2
    <2>6. b + c \in Nat
        OBVIOUS
    <2>7. \E d \in Nat : \A a \in StoredNodes \cup R : a.gid <= d
        BY <2>4, <2>5, <2>6
    <2> QED BY <1>1, <1>2, <1>9, <2>7 DEF NodeShape
<1>12. ASSUME ~nodeLoss PROVE Unique(StoredNodes) /\ \A a \in StoredNodes : a.gid = final[a.key].gid
    <2>1. Unique(StoredNodes)
        BY <1>2, <1>3, <1>12 DEF Numbered
    <2> QED BY <1>6, <1>7, <2>1 DEF Unique
<1>13. ASSUME ~nodeLoss PROVE Numbered'
    <2>1. OneGid(last)
        BY <1>7, <1>12, <1>13 DEF OneGid, Unique
    <2>2. \A a \in StoredNodes \cup R : a.key \in DOMAIN final /\ a.gid = final[a.key].gid
        BY <1>5, <1>6, <1>12, <1>13
    <2>3. OneGid(final)
        BY <1>6, <2>1
    <2>4. Unique(StoredNodes \cup R)
        BY <2>2, <2>3 DEF OneGid, Unique
    <2> QED BY <1>8, <1>9, <2>4 DEF Numbered
<1>14. ASSUME ~nodeLoss, ~ghosts PROVE Grounded'
    <2>1. Grounded
        BY <1>2, <1>14
    <2>2. ASSUME NEW k, NEW g, Ground(k, g) PROVE Ground(k, g)'
        <3>1. PICK a \in StoredNodes : a.key = k /\ a.gid = g
            BY <1>3, <2>2, GroundStored
        <3>2. final[k] \in R /\ final[k].gid = g
            BY <1>5, <1>6, <1>12, <1>14, <3>1
        <3>3. final[k].key = k
            BY <1>6, <3>1 DEF RowMaps
        <3> QED BY <1>8, <1>9, <3>2, <3>3 DEF Ground
    <2>3. \A e \in Stored : Joins(e)
        BY <2>1 DEF Grounded
    <2>4. \A e \in Stored' : Joins(e)'
        BY <1>9, <2>2, <2>3 DEF Joins
    <2> QED BY <1>8, <1>9, <2>4 DEF Grounded
<1> QED BY <1>1, <1>10, <1>11, <1>13, <1>14 DEF NInv

LEMMA ResolvedJoins ==
    ASSUME NInv, job = Idle, ~nodeLoss, ~ghosts, NEW r, NEW from, NEW to, NEW key,
           {from, to} \subseteq DOMAIN ExternalIds
    PROVE  Joins(Resolved(r, from, to, key))
<1>1. ~OnNodes /\ job.op # "upsertNodes" /\ NodeShape /\ Grounded
    BY IdleJob DEF NInv
<1>2. \A k \in DOMAIN ExternalIds : \E a \in StoredNodes : a.key = k /\ a.gid = ExternalIds[k]
    BY <1>1, CacheGrounded
<1> DEFINE m == ExternalIds
<1> HIDE DEF m
<1>3. \A k \in DOMAIN m : Ground(k, m[k])
    BY <1>1, <1>2, GroundStored DEF m
<1>4. Ground(from, m[from]) /\ Ground(to, m[to])
    BY <1>3 DEF m
<1> QED BY <1>4 DEF Joins, Resolved, m

LEMMA InsertEdgeStep ==
    ASSUME NInv, GInv', NEW r \in Relation, NEW from, NEW to, NEW key, InsertEdge(r, from, to, key)
    PROVE  NInv'
<1> DEFINE row == Resolved(r, from, to, key)
           w == [store |-> r, rows |-> <<row>>]
<1>1. /\ job = Idle /\ nodes' = nodes /\ ghosts' = ghosts /\ nodeLoss' = nodeLoss /\ ids' = {ExternalIds}
      /\ edges' = edges /\ {from, to} \subseteq DOMAIN ExternalIds
      /\ job' = [op |-> "insertEdges", phase |-> "append", todo |-> <<w>>]
    BY DEF InsertEdge, losses
<1>2. ~nodeLoss /\ ~ghosts => Joins(row)
    BY <1>1, ResolvedJoins
<1> HIDE DEF row
<1>3. job'.op = "insertEdges" /\ job'.todo = <<w>> /\ w.rows = <<row>>
    BY <1>1
<1>4. Range(<<w>>) = {w} /\ Range(<<row>>) = {row}
    BY DEF Range
<1> HIDE DEF w
<1>5. InTodo' = {row}
    BY <1>3, <1>4 DEF InTodo
<1>6. EdgesAtHand' \subseteq EdgesAtHand \cup {row}
    BY <1>1, <1>5 DEF EdgesAtHand, Stored
<1>7. ~OnNodes'
    BY <1>3 DEF OnNodes
<1>8. ~OnNodes
    BY <1>1, IdleJob
<1> QED BY <1>1, <1>2, <1>6, <1>7, <1>8, EdgeSide

LEMMA UpsertEdgeStep ==
    ASSUME NInv, GInv', NEW r \in Relation, NEW from, NEW to, NEW key \in EdgeKeys, NEW update \in BOOLEAN,
           UpsertEdge(r, from, to, key, update)
    PROVE  NInv'
<1> DEFINE row == Resolved(r, from, to, key)
<1>1. /\ job = Idle /\ nodes' = nodes /\ ghosts' = ghosts /\ nodeLoss' = nodeLoss /\ ids' = {ExternalIds}
      /\ edges' = edges /\ {from, to} \subseteq DOMAIN ExternalIds
    BY DEF UpsertEdge, losses
<1>2. ~nodeLoss /\ ~ghosts => Joins(row)
    BY <1>1, ResolvedJoins
<1>3. Shape
    BY DEF NInv, GInv
<1>4. /\ job' = [op |-> "upsertEdges", phase |-> "remove", todo |-> job'.todo]
      /\ \A w \in Range(job'.todo) : \A e \in Range(w.rows) : e = row \/ e \in Stored
    BY <1>3, UpsertBegins
<1> HIDE DEF row
<1>5. job'.op = "upsertEdges"
    BY <1>4
<1>6. EdgesAtHand' \subseteq EdgesAtHand \cup {row}
    BY <1>1, <1>4 DEF EdgesAtHand, Stored, InTodo
<1>7. ~OnNodes'
    BY <1>5 DEF OnNodes
<1>8. ~OnNodes
    BY <1>1, IdleJob
<1> QED BY <1>1, <1>2, <1>6, <1>7, <1>8, EdgeSide

(* Lookups and reads, and steps of a call on edges, put no new edge in hand.   *)
LEMMA NothingNew ==
    ASSUME NInv, GInv', nodes' = nodes, ghosts' = ghosts, nodeLoss' = nodeLoss, ~OnNodes, ~OnNodes',
           ids' = ids \/ ids' = {ExternalIds} \/ ids' = {}, EdgesAtHand' \subseteq EdgesAtHand
    PROVE  NInv'
<1>1. EdgesAtHand' \subseteq EdgesAtHand \cup {}
    OBVIOUS
<1>2. \A e \in {} : Joins(e)
    OBVIOUS
<1> QED BY <1>1, <1>2, EdgeSide

LEMMA LookUpStep ==
    ASSUME NInv, GInv', LookUp
    PROVE  NInv'
<1>1. job = Idle /\ job' = job /\ nodes' = nodes /\ ghosts' = ghosts /\ nodeLoss' = nodeLoss /\ ids' = {ExternalIds} /\ edges' = edges
    BY DEF LookUp, losses
<1>2. ~OnNodes /\ ~OnNodes'
    BY <1>1, IdleJob DEF OnNodes
<1>3. EdgesAtHand' = EdgesAtHand
    BY <1>1 DEF EdgesAtHand, Stored, InTodo, OnEdges
<1> QED BY <1>1, <1>2, <1>3, NothingNew

LEMMA ReadRelationStep ==
    ASSUME NInv, GInv', NEW r \in Relation, ReadRelation(r)
    PROVE  NInv'
<1>1. job = Idle /\ job' = job /\ nodes' = nodes /\ ghosts' = ghosts /\ nodeLoss' = nodeLoss /\ ids' = ids /\ edges' = edges
    BY DEF ReadRelation, losses
<1>2. ~OnNodes /\ ~OnNodes'
    BY <1>1, IdleJob DEF OnNodes
<1>3. EdgesAtHand' = EdgesAtHand
    BY <1>1 DEF EdgesAtHand, Stored, InTodo, OnEdges
<1> QED BY <1>1, <1>2, <1>3, NothingNew

LEMMA InvalidateRelationStep ==
    ASSUME NInv, GInv', InvalidateRelation
    PROVE  NInv'
<1>1. /\ job.phase = "invalidate" /\ ~OnNodes /\ nodes' = nodes /\ ghosts' = ghosts /\ nodeLoss' = nodeLoss
      /\ ids' = ids /\ edges' = edges
      /\ job' = IF Len(job.todo) = 1 THEN Idle ELSE [job EXCEPT !.phase = "remove", !.todo = Tail(job.todo)]
    BY DEF InvalidateRelation, NextStore, losses
<1>2. GInv
    BY DEF NInv
<1>3. OnEdges /\ Sq(job.todo) /\ job.todo # <<>> /\ job = [op |-> job.op, phase |-> job.phase, todo |-> job.todo]
    BY <1>1, <1>2, EdgeCall DEF GInv, JobShape
<1>4. Range(job.todo) = {Head(job.todo)} \cup Range(Tail(job.todo))
    BY <1>3, FirstAndRest
<1>5. Stored' = Stored
    BY <1>1 DEF Stored
<1>6. CASE Len(job.todo) = 1
    <2>1. job'.op = "idle"
        BY <1>1, <1>6 DEF Idle
    <2>2. ~OnNodes' /\ ~OnEdges'
        BY <2>1 DEF OnNodes, OnEdges
    <2>3. EdgesAtHand' \subseteq EdgesAtHand
        BY <1>5, <2>2 DEF EdgesAtHand
    <2> QED BY <1>1, <2>2, <2>3, NothingNew
<1>7. CASE Len(job.todo) # 1
    <2>1. job'.op = job.op /\ job'.todo = Tail(job.todo)
        BY <1>1, <1>3, <1>7
    <2>2. ~OnNodes' /\ InTodo' \subseteq InTodo
        BY <1>1, <1>4, <2>1 DEF OnNodes, InTodo
    <2>3. EdgesAtHand' \subseteq EdgesAtHand
        BY <1>3, <1>5, <2>2 DEF EdgesAtHand
    <2> QED BY <1>1, <2>2, <2>3, NothingNew
<1> QED BY <1>6, <1>7

LEMMA EdgeRemoveStep ==
    ASSUME NInv, GInv', RemoveStore, ~OnNodes
    PROVE  NInv'
<1>1. /\ job.phase = "remove" /\ nodes' = nodes /\ ghosts' = ghosts /\ nodeLoss' = nodeLoss /\ ids' = ids
      /\ edges' = [edges EXCEPT ![Store] = <<>>]
      /\ job' = [job EXCEPT !.phase = IF Rows # <<>> THEN "append" ELSE "invalidate"]
    BY DEF RemoveStore, losses
<1>2. GInv
    BY DEF NInv
<1>3. OnEdges /\ Store \in Relation /\ job = [op |-> job.op, phase |-> job.phase, todo |-> job.todo]
    BY <1>1, <1>2, EdgeCall DEF GInv, JobShape
<1>4. job'.op = job.op /\ job'.todo = job.todo
    BY <1>1, <1>3
<1>5. ASSUME NEW r \in Relation PROVE Range(edges'[r]) \subseteq Range(edges[r])
    <2>1. edges = [q \in Relation |-> edges[q]]
        BY <1>2 DEF GInv, Shape
    <2>2. CASE r = Store
        <3>1. edges'[r] = <<>>
            BY <1>1, <2>1, <2>2
        <3> QED BY <3>1 DEF Range
    <2>3. CASE r # Store
        <3>1. edges'[r] = edges[r]
            BY <1>1, <2>1, <2>3
        <3> QED BY <3>1
    <2> QED BY <2>2, <2>3
<1>6. ~OnNodes' /\ EdgesAtHand' \subseteq EdgesAtHand
    BY <1>3, <1>4, <1>5 DEF OnNodes, EdgesAtHand, Stored, InTodo, OnEdges
<1> QED BY <1>1, <1>6, NothingNew

LEMMA EdgeAppendStep ==
    ASSUME NInv, GInv', AppendRows, ~OnNodes
    PROVE  NInv'
<1>1. /\ job.phase = "append" /\ nodes' = nodes /\ ghosts' = ghosts /\ nodeLoss' = nodeLoss /\ ids' = ids
      /\ edges' = [edges EXCEPT ![Store] = edges[Store] \o Rows]
      /\ job' = [job EXCEPT !.phase = "invalidate"]
    BY DEF AppendRows, losses
<1>2. GInv
    BY DEF NInv
<1>3. /\ OnEdges /\ Sq(job.todo) /\ job.todo # <<>> /\ Head(job.todo) \in Range(job.todo) /\ Store \in Relation /\ Sq(Rows)
      /\ job = [op |-> job.op, phase |-> job.phase, todo |-> job.todo]
    BY <1>1, <1>2, EdgeCall DEF GInv, JobShape
<1>4. job'.op = job.op /\ job'.todo = job.todo
    BY <1>1, <1>3
<1>5. Range(Rows) \subseteq InTodo
    BY <1>3 DEF InTodo, Rows
<1>6. ASSUME NEW r \in Relation PROVE Range(edges'[r]) \subseteq Range(edges[r]) \cup Range(Rows)
    <2>1. edges = [q \in Relation |-> edges[q]] /\ Sq(edges[r])
        BY <1>2 DEF GInv, Shape
    <2>2. CASE r = Store
        <3>1. edges'[r] = edges[r] \o Rows
            BY <1>1, <2>1, <2>2
        <3> DEFINE X == Range(edges[r]) \cup Range(Rows)
        <3>2. Range(edges[r]) \subseteq X /\ Range(Rows) \subseteq X
            OBVIOUS
        <3> HIDE DEF X
        <3>3. edges[r] \in Seq(X) /\ Rows \in Seq(X)
            BY <1>3, <2>1, <3>2, SqUp
        <3>4. Range(edges[r] \o Rows) = Range(edges[r]) \cup Range(Rows)
            BY <3>3, Joined
        <3> QED BY <3>1, <3>4
    <2>3. CASE r # Store
        <3>1. edges'[r] = edges[r]
            BY <1>1, <2>1, <2>3
        <3> QED BY <3>1
    <2> QED BY <2>2, <2>3
<1>7. InTodo' = InTodo /\ OnEdges' /\ ~OnNodes'
    BY <1>3, <1>4 DEF InTodo, OnEdges, OnNodes
<1>8. Stored' \subseteq Stored \cup InTodo
    BY <1>5, <1>6 DEF Stored
<1>9. EdgesAtHand' \subseteq EdgesAtHand
    BY <1>3, <1>7, <1>8 DEF EdgesAtHand
<1> QED BY <1>1, <1>7, <1>9, NothingNew

LEMMA AppendFailsStep ==
    ASSUME NInv, GInv', AppendFails
    PROVE  NInv'
<1>1. /\ job.phase = "append" /\ job' = Idle /\ nodes' = nodes /\ edges' = edges /\ ids' = ids
      /\ ghosts' = (ghosts \/ job.op = "insertNodes") /\ nodeLoss' = (nodeLoss \/ job.op = "upsertNodes")
    BY DEF AppendFails
<1>2. nodeLoss \in BOOLEAN /\ ghosts \in BOOLEAN
    BY DEF NInv, NodeShape
<1>3. ~OnNodes' /\ ~OnEdges'
    BY <1>1 DEF Idle, OnNodes, OnEdges
<1>4. CASE OnNodes
    BY <1>1, <1>2, <1>4, NodeCallEnds
<1>5. CASE ~OnNodes
    <2>1. ghosts' = ghosts /\ nodeLoss' = nodeLoss
        BY <1>1, <1>2, <1>5, NotOnNodes
    <2>2. EdgesAtHand' \subseteq EdgesAtHand
        BY <1>1, <1>3 DEF EdgesAtHand, Stored
    <2> QED BY <1>1, <1>3, <1>5, <2>1, <2>2, NothingNew
<1> QED BY <1>4, <1>5

LEMMA StopStep ==
    ASSUME NInv, GInv', Stop
    PROVE  NInv'
<1>1. /\ job' = Idle /\ nodes' = nodes /\ edges' = edges /\ ids' = {}
      /\ ghosts' = ghosts /\ nodeLoss' = (nodeLoss \/ job.op = "upsertNodes")
    BY DEF Stop
<1>2. nodeLoss \in BOOLEAN /\ ghosts \in BOOLEAN
    BY DEF NInv, NodeShape
<1>3. ~OnNodes' /\ ~OnEdges'
    BY <1>1 DEF Idle, OnNodes, OnEdges
<1>4. CASE OnNodes
    BY <1>1, <1>2, <1>4, NodeCallEnds
<1>5. CASE ~OnNodes
    <2>1. nodeLoss' = nodeLoss
        BY <1>1, <1>2, <1>5, NotOnNodes
    <2>2. EdgesAtHand' \subseteq EdgesAtHand
        BY <1>1, <1>3 DEF EdgesAtHand, Stored
    <2> QED BY <1>1, <1>3, <1>5, <2>1, <2>2, NothingNew
<1> QED BY <1>4, <1>5

(* The call in progress is on nodes and has a store to write.                  *)
LEMMA NodeCall ==
    ASSUME NInv, OnNodes
    PROVE  /\ job = [op |-> job.op, phase |-> job.phase, todo |-> job.todo] /\ ~OnEdges
           /\ Sq(job.todo) /\ job.todo # <<>> /\ \A w \in Range(job.todo) : ClassWriting(w)
           /\ Head(job.todo) \in Range(job.todo) /\ Store \in Class /\ Sq(Rows) /\ Range(Rows) \subseteq InTodo
           /\ \A a \in Range(Rows) : a \in NodeRow /\ a.type = Store
<1>1. /\ job = [op |-> job.op, phase |-> job.phase, todo |-> job.todo] /\ ~OnEdges
      /\ Sq(job.todo) /\ job.todo # <<>> /\ \A w \in Range(job.todo) : ClassWriting(w)
    BY DEF NInv, GInv, JobShape, NodeJob, OnNodes, OnEdges
<1>2. Head(job.todo) \in Range(job.todo)
    BY <1>1, FirstAndRest
<1>3. ClassWriting(Head(job.todo))
    BY <1>1, <1>2
<1> QED BY <1>1, <1>2, <1>3 DEF ClassWriting, Store, Rows, InTodo

LEMMA NodeRemoveStep ==
    ASSUME NInv, GInv', RemoveStore, OnNodes
    PROVE  NInv'
<1>1. /\ job.phase = "remove" /\ nodes' = [nodes EXCEPT ![Store] = <<>>] /\ edges' = edges /\ ids' = ids
      /\ ghosts' = ghosts /\ nodeLoss' = nodeLoss
      /\ job' = [job EXCEPT !.phase = IF Rows # <<>> THEN "append" ELSE "invalidate"]
    BY DEF RemoveStore, losses
<1>2. NodeShape /\ NodeJob /\ (~nodeLoss => Numbered) /\ (~nodeLoss /\ ~ghosts => Grounded)
    BY DEF NInv
<1>3. /\ job = [op |-> job.op, phase |-> job.phase, todo |-> job.todo] /\ ~OnEdges
      /\ Sq(job.todo) /\ job.todo # <<>> /\ \A w \in Range(job.todo) : ClassWriting(w)
      /\ Head(job.todo) \in Range(job.todo) /\ Store \in Class
    BY NodeCall
<1>4. job.op = "upsertNodes"
    BY <1>1, <1>2 DEF NodeJob, OnNodes
<1>5. /\ job'.op = "upsertNodes" /\ job'.todo = job.todo
      /\ job'.phase = IF Rows # <<>> THEN "append" ELSE "invalidate"
    BY <1>1, <1>3, <1>4
<1>6. Store' = Store /\ Rows' = Rows /\ InTodo' = InTodo /\ Due' = InTodo /\ Due = InTodo /\ OnNodes' /\ ~OnEdges' /\ Stored' = Stored
    BY <1>1, <1>4, <1>5 DEF Store, Rows, InTodo, Due, OnNodes, OnEdges, Stored
<1>7. Range(<<>>) = {} /\ Sq(<<>>)
    <2>1. Range(<<>>) = {} /\ <<>> \in Seq({})
        BY DEF Range
    <2> QED BY <2>1 DEF Sq
<1>8. /\ nodes' = [c \in Class |-> nodes'[c]] /\ nodes'[Store] = <<>>
      /\ \A c \in Class : c # Store => nodes'[c] = nodes[c]
    BY <1>1, <1>2, <1>3 DEF NodeShape
<1>9. StoredNodes' \subseteq StoredNodes
    <2>1. \A c \in Class : Range(nodes'[c]) \subseteq Range(nodes[c])
        BY <1>7, <1>8
    <2> QED BY <2>1 DEF StoredNodes
<1>10. NodeJob'
    <2>1. job'.phase = "invalidate" => Range(Rows) = {}
        BY <1>5, <1>7
    <2>2. \A i, j \in DOMAIN job.todo : job.todo[i].store = job.todo[j].store => i = j
        BY <1>2, <1>4 DEF NodeJob
    <2> QED BY <1>3, <1>5, <1>6, <2>1, <2>2 DEF NodeJob, ClassWriting
<1>11. NodeShape'
    <2>1. ASSUME NEW c \in Class PROVE Sq(nodes'[c]) /\ \A a \in Range(nodes'[c]) : a \in NodeRow /\ a.type = c
        <3>1. CASE c = Store
            BY <1>7, <1>8, <3>1
        <3>2. CASE c # Store
            BY <1>2, <1>8, <3>2 DEF NodeShape
        <3> QED BY <3>1, <3>2
    <2>2. PICK b \in Nat : \A a \in StoredNodes \cup Due : a.gid <= b
        BY <1>2 DEF NodeShape
    <2>3. \A a \in StoredNodes' \cup Due' : a.gid <= b
        BY <1>6, <1>9, <2>2
    <2>4. \A m \in ids' : ids' = {m} /\ m \in Maps
        BY <1>1, <1>2 DEF NodeShape
    <2> QED BY <1>1, <1>2, <1>8, <2>1, <2>3, <2>4 DEF NodeShape
<1>12. ASSUME ~nodeLoss PROVE Numbered'
    <2>1. Unique(StoredNodes \cup Due)
        BY <1>2, <1>12 DEF Numbered
    <2>2. Unique(StoredNodes' \cup Due')
        BY <1>6, <1>9, <2>1 DEF Unique
    <2> QED BY <1>5, <2>2 DEF Numbered
<1>13. ASSUME ~nodeLoss, ~ghosts PROVE Grounded'
    <2>1. ASSUME NEW k, NEW g, Ground(k, g) PROVE Ground(k, g)'
        <3>1. CASE \E a \in InTodo : a.key = k /\ a.gid = g
            BY <1>5, <1>6, <3>1 DEF Ground
        <3>2. CASE ~\E a \in InTodo : a.key = k /\ a.gid = g
            <4>1. PICK c \in Class : ~Rewritten(c) /\ \E a \in Range(nodes[c]) : a.key = k /\ a.gid = g
                BY <2>1, <3>2 DEF Ground
            <4>2. c # Store
                BY <1>3, <1>4, <4>1 DEF Rewritten, Store
            <4>3. nodes'[c] = nodes[c] /\ ~Rewritten(c)'
                BY <1>4, <1>5, <1>8, <4>1, <4>2 DEF Rewritten
            <4> QED BY <4>1, <4>3 DEF Ground
        <3> QED BY <3>1, <3>2
    <2>2. \A e \in Stored : Joins(e)
        BY <1>2, <1>13 DEF Grounded
    <2>3. \A e \in Stored' : Joins(e)'
        BY <1>6, <2>1, <2>2 DEF Joins
    <2> QED BY <1>5, <1>6, <2>3 DEF Grounded
<1> QED BY <1>1, <1>10, <1>11, <1>12, <1>13 DEF NInv

LEMMA NodeAppendStep ==
    ASSUME NInv, GInv', AppendRows, OnNodes
    PROVE  NInv'
<1> DEFINE both == nodes[Store] \o Rows
           X == Range(nodes[Store]) \cup Range(Rows)
<1>1. /\ job.phase = "append" /\ nodes' = [nodes EXCEPT ![Store] = both] /\ edges' = edges /\ ids' = ids
      /\ ghosts' = ghosts /\ nodeLoss' = nodeLoss /\ job' = [job EXCEPT !.phase = "invalidate"]
    BY DEF AppendRows, losses
<1>2. NodeShape /\ NodeJob /\ (~nodeLoss => Numbered) /\ (~nodeLoss /\ ~ghosts => Grounded)
    BY DEF NInv
<1>3. /\ job = [op |-> job.op, phase |-> job.phase, todo |-> job.todo] /\ ~OnEdges
      /\ Sq(job.todo) /\ job.todo # <<>> /\ \A w \in Range(job.todo) : ClassWriting(w)
      /\ Store \in Class /\ Sq(Rows) /\ Range(Rows) \subseteq InTodo
      /\ \A a \in Range(Rows) : a \in NodeRow /\ a.type = Store
    BY NodeCall
<1>4. job'.op = job.op /\ job'.todo = job.todo /\ job'.phase = "invalidate"
    BY <1>1, <1>3
<1>5. Store' = Store /\ Rows' = Rows /\ InTodo' = InTodo /\ Due' = InTodo /\ Due = InTodo /\ OnNodes' /\ ~OnEdges' /\ Stored' = Stored
    BY <1>1, <1>3, <1>4 DEF Store, Rows, InTodo, Due, OnNodes, OnEdges, Stored
<1>6. Sq(nodes[Store]) /\ \A a \in Range(nodes[Store]) : a \in NodeRow /\ a.type = Store
    BY <1>2, <1>3 DEF NodeShape
<1>7. Sq(both) /\ Range(both) = Range(nodes[Store]) \cup Range(Rows)
    <2>1. Range(nodes[Store]) \subseteq X /\ Range(Rows) \subseteq X
        OBVIOUS
    <2> HIDE DEF X
    <2>2. nodes[Store] \in Seq(X) /\ Rows \in Seq(X)
        BY <1>3, <1>6, <2>1, SqUp
    <2>3. both \in Seq(X) /\ Range(both) = Range(nodes[Store]) \cup Range(Rows)
        BY <2>2, Joined
    <2> HIDE DEF both
    <2> QED BY <2>3, SqDown
<1> HIDE DEF both, X
<1>8. /\ nodes' = [c \in Class |-> nodes'[c]] /\ nodes'[Store] = both
      /\ \A c \in Class : c # Store => nodes'[c] = nodes[c]
    BY <1>1, <1>2, <1>3 DEF NodeShape
<1>9. \A c \in Class : Range(nodes[c]) \subseteq Range(nodes'[c]) /\ Range(nodes'[c]) \subseteq Range(nodes[c]) \cup Range(Rows)
    BY <1>7, <1>8
<1>10. StoredNodes' \cup Due' = StoredNodes \cup Due
    <2>1. StoredNodes \subseteq StoredNodes' /\ StoredNodes' \subseteq StoredNodes \cup Range(Rows)
        BY <1>9 DEF StoredNodes
    <2> QED BY <1>3, <1>5, <2>1
<1>11. NodeJob'
    <2>1. Range(Rows) \subseteq Range(nodes'[Store])
        BY <1>7, <1>8
    <2>2. job.op = "upsertNodes" => \A i, j \in DOMAIN job.todo : job.todo[i].store = job.todo[j].store => i = j
        BY <1>2 DEF NodeJob
    <2> QED BY <1>3, <1>4, <1>5, <2>1, <2>2 DEF NodeJob, ClassWriting
<1>12. NodeShape'
    <2>1. ASSUME NEW c \in Class PROVE Sq(nodes'[c]) /\ \A a \in Range(nodes'[c]) : a \in NodeRow /\ a.type = c
        <3>1. CASE c = Store
            BY <1>3, <1>6, <1>7, <1>8, <3>1
        <3>2. CASE c # Store
            BY <1>2, <1>8, <3>2 DEF NodeShape
        <3> QED BY <3>1, <3>2
    <2>2. \E b \in Nat : \A a \in StoredNodes' \cup Due' : a.gid <= b
        BY <1>2, <1>10 DEF NodeShape
    <2>3. \A m \in ids' : ids' = {m} /\ m \in Maps
        BY <1>1, <1>2 DEF NodeShape
    <2> QED BY <1>1, <1>2, <1>8, <2>1, <2>2, <2>3 DEF NodeShape
<1>13. ASSUME ~nodeLoss PROVE Numbered'
    BY <1>1, <1>2, <1>4, <1>10, <1>13 DEF Numbered
<1>14. ASSUME ~nodeLoss, ~ghosts PROVE Grounded'
    <2>1. ASSUME NEW k, NEW g, Ground(k, g) PROVE Ground(k, g)'
        <3>1. CASE job.op = "upsertNodes" /\ \E a \in InTodo : a.key = k /\ a.gid = g
            BY <1>4, <1>5, <3>1 DEF Ground
        <3>2. CASE ~(job.op = "upsertNodes" /\ \E a \in InTodo : a.key = k /\ a.gid = g)
            <4>1. PICK c \in Class : ~Rewritten(c) /\ \E a \in Range(nodes[c]) : a.key = k /\ a.gid = g
                BY <2>1, <3>2 DEF Ground
            <4>2. ~Rewritten(c)' /\ \E a \in Range(nodes'[c]) : a.key = k /\ a.gid = g
                BY <1>4, <1>9, <4>1 DEF Rewritten
            <4> QED BY <4>2 DEF Ground
        <3> QED BY <3>1, <3>2
    <2>2. \A e \in Stored : Joins(e)
        BY <1>2, <1>14 DEF Grounded
    <2>3. \A e \in Stored' : Joins(e)'
        BY <1>5, <2>1, <2>2 DEF Joins
    <2>4. job.op # "upsertNodes" => \A m \in ids : \A k \in DOMAIN m : \E a \in StoredNodes \cup Due : a.key = k /\ a.gid = m[k]
        BY <1>2, <1>14 DEF Grounded
    <2> QED BY <1>1, <1>4, <1>5, <1>10, <2>3, <2>4 DEF Grounded
<1> QED BY <1>1, <1>11, <1>12, <1>13, <1>14 DEF NInv

LEMMA InvalidateAllStep ==
    ASSUME NInv, GInv', InvalidateAll
    PROVE  NInv'
<1> DEFINE p == IF job.op = "upsertNodes" THEN "remove" ELSE "append"
<1>1. /\ job.phase = "invalidate" /\ OnNodes /\ nodes' = nodes /\ edges' = edges /\ ghosts' = ghosts /\ nodeLoss' = nodeLoss
      /\ IF job.op = "upsertNodes" /\ Len(job.todo) > 1 THEN ids' = ids ELSE ids' = {}
      /\ job' = IF Len(job.todo) = 1 THEN Idle ELSE [job EXCEPT !.phase = p, !.todo = Tail(job.todo)]
    BY DEF InvalidateAll, NextStore, losses
<1>2. NodeShape /\ NodeJob /\ (~nodeLoss => Numbered) /\ (~nodeLoss /\ ~ghosts => Grounded)
    BY DEF NInv
<1>3. /\ job = [op |-> job.op, phase |-> job.phase, todo |-> job.todo] /\ ~OnEdges
      /\ Sq(job.todo) /\ job.todo # <<>> /\ \A w \in Range(job.todo) : ClassWriting(w)
      /\ Store \in Class
    BY <1>1, NodeCall
<1>4. Range(Rows) \subseteq Range(nodes[Store])
    BY <1>1, <1>2 DEF NodeJob
<1>5. /\ Head(job.todo) = job.todo[1] /\ Len(job.todo) \in Nat /\ DOMAIN job.todo = 1..Len(job.todo)
      /\ Sq(Tail(job.todo)) /\ Range(job.todo) = {Head(job.todo)} \cup Range(Tail(job.todo))
      /\ DOMAIN Tail(job.todo) = 1..(Len(job.todo) - 1)
      /\ \A i \in DOMAIN Tail(job.todo) : Tail(job.todo)[i] = job.todo[i + 1] /\ i + 1 \in DOMAIN job.todo
      /\ Len(job.todo) = 1 => Range(job.todo) = {Head(job.todo)}
      /\ Len(job.todo) # 1 => Tail(job.todo) # <<>>
    BY <1>3, FirstAndRest
<1>6. Due = InTodo /\ StoredNodes' = StoredNodes /\ Stored' = Stored
    BY <1>1 DEF Due, StoredNodes, Stored
<1>7. CASE Len(job.todo) = 1
    <2>1. job'.op = "idle" /\ ~OnNodes' /\ ~OnEdges' /\ Due' = {} /\ ids' = {}
        BY <1>1, <1>7 DEF Idle, OnNodes, OnEdges, Due
    <2>2. NodeJob'
        BY <2>1 DEF NodeJob
    <2>3. NodeShape'
        BY <1>1, <1>2, <1>6, <2>1 DEF NodeShape
    <2>4. ASSUME ~nodeLoss PROVE Numbered'
        <3>1. Unique(StoredNodes)
            BY <1>2, <2>4 DEF Numbered, Unique
        <3> QED BY <1>6, <2>1, <3>1 DEF Numbered
    <2>5. ASSUME ~nodeLoss, ~ghosts PROVE Grounded'
        <3>1. InTodo = Range(Rows)
            BY <1>5, <1>7 DEF InTodo, Rows
        <3>2. InTodo \subseteq StoredNodes
            BY <1>3, <1>4, <3>1 DEF StoredNodes
        <3>3. \A k, g : Ground(k, g) => \E a \in StoredNodes : a.key = k /\ a.gid = g
            BY <3>2 DEF Ground, StoredNodes
        <3>4. \A k, g : Ground(k, g)' <=> \E c \in Class : \E a \in Range(nodes[c]) : a.key = k /\ a.gid = g
            BY <1>1, <2>1 DEF Ground, Rewritten
        <3>5. \A k, g : Ground(k, g) => Ground(k, g)'
            BY <3>3, <3>4 DEF StoredNodes
        <3>6. \A e \in Stored : Joins(e)
            BY <1>2, <2>5 DEF Grounded
        <3>7. \A e \in Stored' : Joins(e)'
            BY <1>6, <3>5, <3>6 DEF Joins
        <3> QED BY <2>1, <3>7 DEF Grounded
    <2> QED BY <1>1, <2>2, <2>3, <2>4, <2>5 DEF NInv
<1>8. CASE Len(job.todo) # 1
    <2>1. job'.op = job.op /\ job'.todo = Tail(job.todo) /\ job'.phase = p
        BY <1>1, <1>3, <1>8
    <2>2. OnNodes' /\ ~OnEdges' /\ InTodo' \subseteq InTodo /\ Due' = InTodo'
        BY <1>1, <1>3, <1>5, <2>1 DEF OnNodes, OnEdges, InTodo, Due
    <2>3. NodeJob'
        <3>1. \A w \in Range(Tail(job.todo)) : ClassWriting(w)
            BY <1>3, <1>5
        <3>2. ASSUME job.op = "upsertNodes", NEW i \in DOMAIN Tail(job.todo), NEW j \in DOMAIN Tail(job.todo),
                     Tail(job.todo)[i].store = Tail(job.todo)[j].store
              PROVE  i = j
            <4>1. i + 1 = j + 1
                BY <1>2, <1>5, <3>2 DEF NodeJob
            <4>2. i \in Int /\ j \in Int
                BY <1>5
            <4> QED BY <4>1, <4>2
        <3>3. (job.op = "insertNodes" => p # "remove") /\ p # "invalidate"
            OBVIOUS
        <3> HIDE DEF p
        <3> QED BY <1>5, <1>8, <2>1, <3>1, <3>2, <3>3 DEF NodeJob, ClassWriting
    <2>4. NodeShape'
        <3>1. PICK b \in Nat : \A a \in StoredNodes \cup Due : a.gid <= b
            BY <1>2 DEF NodeShape
        <3>2. \A a \in StoredNodes' \cup Due' : a.gid <= b
            BY <1>6, <2>2, <3>1
        <3>3. \A m \in ids' : ids' = {m} /\ m \in Maps
            BY <1>1, <1>2 DEF NodeShape
        <3> QED BY <1>1, <1>2, <3>2, <3>3 DEF NodeShape
    <2>5. job'.op # "upsertNodes" => ids' = {}
        BY <1>1, <2>1
    <2>6. ASSUME ~nodeLoss PROVE Numbered'
        <3>1. Unique(StoredNodes \cup Due)
            BY <1>2, <2>6 DEF Numbered
        <3>2. Unique(StoredNodes' \cup Due')
            BY <1>6, <2>2, <3>1 DEF Unique
        <3> QED BY <2>5, <3>2 DEF Numbered
    <2>7. ASSUME ~nodeLoss, ~ghosts PROVE Grounded'
        <3>1. job.op = "upsertNodes" => \A w \in Range(Tail(job.todo)) : w.store # Store
            <4> SUFFICES ASSUME job.op = "upsertNodes", NEW i \in DOMAIN Tail(job.todo), Tail(job.todo)[i].store = Store
                         PROVE  FALSE
                BY DEF Range
            <4>1. job.todo[i + 1].store = job.todo[1].store /\ i + 1 \in DOMAIN job.todo
                BY <1>5 DEF Store
            <4>2. 1 \in DOMAIN job.todo
                BY <1>5, <4>1
            <4>3. i + 1 = 1
                BY <1>2, <4>1, <4>2 DEF NodeJob
            <4>4. i \in Nat /\ i # 0
                BY <1>5
            <4> QED BY <4>3, <4>4
        <3>2. \A c : Rewritten(c)' => Rewritten(c)
            BY <1>5, <2>1 DEF Rewritten
        <3>4. ASSUME NEW k, NEW g, Ground(k, g) PROVE Ground(k, g)'
            <4>1. CASE \E c \in Class : ~Rewritten(c) /\ \E a \in Range(nodes[c]) : a.key = k /\ a.gid = g
                BY <1>1, <3>2, <4>1 DEF Ground
            <4>2. CASE job.op = "upsertNodes" /\ \E a \in InTodo : a.key = k /\ a.gid = g
                <5>1. PICK w \in Range(job.todo) : \E a \in Range(w.rows) : a.key = k /\ a.gid = g
                    BY <4>2 DEF InTodo
                <5>2. CASE w \in Range(Tail(job.todo))
                    BY <2>1, <4>2, <5>1, <5>2 DEF Ground, InTodo
                <5>3. CASE w = Head(job.todo)
                    <6>1. PICK q \in Class : q = Store
                        BY <1>3
                    <6>2. \E a \in Range(nodes[q]) : a.key = k /\ a.gid = g
                        BY <1>4, <5>1, <5>3, <6>1 DEF Rows
                    <6>3. ~Rewritten(q)'
                        BY <2>1, <3>1, <6>1 DEF Rewritten
                    <6> QED BY <1>1, <6>2, <6>3 DEF Ground
                <5> QED BY <1>5, <5>1, <5>2, <5>3
            <4> QED BY <3>4, <4>1, <4>2 DEF Ground
        <3>5. \A e \in Stored : Joins(e)
            BY <1>2, <2>7 DEF Grounded
        <3>6. \A e \in Stored' : Joins(e)'
            BY <1>6, <3>4, <3>5 DEF Joins
        <3> QED BY <2>2, <2>5, <3>6 DEF Grounded
    <2> QED BY <1>1, <2>3, <2>4, <2>6, <2>7 DEF NInv
<1> QED BY <1>7, <1>8

LEMMA InitNInv ==
    ASSUME Init PROVE NInv
<1>1. GInv
    BY InitInv
<1>2. /\ nodes = [c \in Class |-> <<>>] /\ edges = [r \in Relation |-> <<>>] /\ ids = {} /\ job = Idle
      /\ nodeLoss = FALSE /\ ghosts = FALSE
    BY DEF Init
<1>3. ~OnNodes /\ ~OnEdges /\ Due = {} /\ NodeJob
    BY <1>2, IdleJob
<1>4. Range(<<>>) = {} /\ Sq(<<>>)
    <2>1. Range(<<>>) = {} /\ <<>> \in Seq({})
        BY DEF Range
    <2> QED BY <2>1 DEF Sq
<1>5. StoredNodes = {} /\ Stored = {}
    BY <1>2, <1>4 DEF StoredNodes, Stored
<1>6. NodeShape
    <2>1. 0 \in Nat /\ \A a \in StoredNodes \cup Due : a.gid <= 0
        BY <1>3, <1>5
    <2> QED BY <1>2, <1>4, <2>1 DEF NodeShape
<1>7. Numbered
    BY <1>2, <1>3, <1>5 DEF Numbered, Unique
<1>8. Grounded
    BY <1>2, <1>3, <1>5 DEF Grounded
<1> QED BY <1>1, <1>3, <1>6, <1>7, <1>8 DEF NInv

LEMMA NextNInv ==
    ASSUME NInv, [Next]_vars PROVE NInv'
<1>1. GInv'
    BY NextInv DEF NInv
<1>2. CASE UNCHANGED vars
    <2>1. UNCHANGED <<nodes, edges, ids, job, nodeLoss, ghosts>>
        BY <1>2 DEF vars, losses
    <2>2. StoredNodes' = StoredNodes /\ Stored' = Stored /\ InTodo' = InTodo /\ OnNodes' = OnNodes /\ OnEdges' = OnEdges
        BY <2>1 DEF StoredNodes, Stored, InTodo, OnNodes, OnEdges
    <2>3. Due' = Due
        BY <2>2 DEF Due
    <2>4. NodeShape' /\ NodeJob'
        BY <2>1, <2>2, <2>3 DEF NInv, NodeShape, NodeJob, ClassWriting, Rows, Store
    <2>5. ~nodeLoss' => Numbered'
        BY <2>1, <2>2, <2>3 DEF NInv, Numbered
    <2>6. \A e : Joins(e) => Joins(e)'
        BY <2>1, <2>2 DEF Joins, Ground, Rewritten
    <2>7. ~nodeLoss' /\ ~ghosts' => Grounded'
        BY <2>1, <2>2, <2>3, <2>6 DEF NInv, Grounded
    <2> QED BY <1>1, <2>4, <2>5, <2>7 DEF NInv
<1>3. ASSUME NEW table \in Tables, InsertNodes(table) PROVE NInv'
    BY <1>1, <1>3, InsertNodesStep
<1>4. ASSUME NEW table \in Tables, InsertNodesRefused(table) PROVE NInv'
    BY <1>1, <1>4, InsertNodesRefusedStep
<1>5. ASSUME NEW table \in Tables, NEW update \in BOOLEAN, UpsertNodes(table, update) PROVE NInv'
    BY <1>1, <1>5, UpsertNodesStep
<1>6. ASSUME NEW r \in Relation, NEW p \in Pairs, NEW key \in EdgeKeys \cup {NoKey}, InsertEdge(r, p[1], p[2], key) PROVE NInv'
    BY <1>1, <1>6, InsertEdgeStep
<1>7. ASSUME NEW r \in Relation, NEW p \in Pairs, NEW key \in EdgeKeys, NEW update \in BOOLEAN,
             UpsertEdge(r, p[1], p[2], key, update)
      PROVE  NInv'
    BY <1>1, <1>7, UpsertEdgeStep
<1>8. CASE LookUp
    BY <1>1, <1>8, LookUpStep
<1>9. CASE RemoveStore
    BY <1>1, <1>9, NodeRemoveStep, EdgeRemoveStep
<1>10. CASE AppendRows
    BY <1>1, <1>10, NodeAppendStep, EdgeAppendStep
<1>11. CASE AppendFails
    BY <1>1, <1>11, AppendFailsStep
<1>12. CASE InvalidateAll
    BY <1>1, <1>12, InvalidateAllStep
<1>13. CASE InvalidateRelation
    BY <1>1, <1>13, InvalidateRelationStep
<1>14. ASSUME NEW r \in Relation, ReadRelation(r) PROVE NInv'
    BY <1>1, <1>14, ReadRelationStep
<1>15. CASE Stop
    BY <1>1, <1>15, StopStep
<1> QED BY <1>2, <1>3, <1>4, <1>5, <1>6, <1>7, <1>8, <1>9, <1>10, <1>11, <1>12, <1>13, <1>14, <1>15 DEF Next

LEMMA GidsHold ==
    ASSUME NInv PROVE GidsUnique
<1>1. NodeShape /\ (~nodeLoss => Unique(StoredNodes \cup Due))
    BY DEF NInv, Numbered
<1>2. Range(AllNodes) = StoredNodes
    BY <1>1, NodesStored
<1>3. ToSet(AllNodes) = StoredNodes
    BY <1>2 DEF ToSet, Range
<1> QED BY <1>1, <1>3 DEF GidsUnique, Unique

(* Off the node calls, what grounds an edge is on disk.                        *)
LEMMA GroundsHold ==
    ASSUME NInv PROVE EdgesGrounded
<1> SUFFICES ASSUME ~ghosts, ~nodeLoss, ~OnNodes, NEW e \in ToSet(AllEdges)
             PROVE  \E a, b \in ToSet(AllNodes) :
                       a.gid = e.src /\ a.key = e.from /\ b.gid = e.dst /\ b.key = e.to
    BY DEF EdgesGrounded
<1>1. NodeShape /\ Shape /\ Grounded
    BY DEF NInv, GInv
<1>2. ToSet(AllNodes) = StoredNodes
    BY <1>1, NodesStored DEF ToSet, Range
<1>3. e \in Stored
    BY <1>1, AllEdgesStored DEF ToSet, Range
<1>4. Ground(e.from, e.src) /\ Ground(e.to, e.dst)
    BY <1>1, <1>3 DEF Grounded, Joins
<1>5. job.op # "upsertNodes"
    BY NotOnNodes
<1>6. PICK a \in StoredNodes : a.key = e.from /\ a.gid = e.src
    BY <1>4, <1>5, GroundStored
<1>7. PICK b \in StoredNodes : b.key = e.to /\ b.gid = e.dst
    BY <1>4, <1>5, GroundStored
<1> QED BY <1>2, <1>6, <1>7

(* Node inserts that raised or were cut short, and lookups that fill the cache *)
(* in between, never make insert_node_table or _upsert_node_table_arrow give a *)
(* gid twice, or a key two gids, over all stores, unless a node upsert raised  *)
(* or was cut short.                                                           *)
THEOREM GidsAlwaysUnique == Spec => []GidsUnique
<1>1. Init => NInv
    BY InitNInv
<1>2. NInv /\ [Next]_vars => NInv'
    BY NextNInv
<1>3. NInv => GidsUnique
    BY GidsHold
<1> QED BY <1>1, <1>2, <1>3, PTL DEF Spec

(* The gids that insert_edge_table and edge upserts resolve from the cached    *)
(* map stay those of the nodes asked for, across node upserts that remove and  *)
(* rewrite every store, unless a node write raised or a node upsert was cut    *)
(* short.                                                                      *)
THEOREM EdgesAlwaysGrounded == Spec => []EdgesGrounded
<1>1. Init => NInv
    BY InitNInv
<1>2. NInv /\ [Next]_vars => NInv'
    BY NextNInv
<1>3. NInv => EdgesGrounded
    BY GroundsHold
<1> QED BY <1>1, <1>2, <1>3, PTL DEF Spec
=============================================================================
