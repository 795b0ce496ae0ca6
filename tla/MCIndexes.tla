----------------------------- MODULE MCIndexes -----------------------------
(* Model checking of Indexes: two handles of one process.                      *)
EXTENDS Indexes, TLC

CONSTANTS A, B, R, V, P, T, h1, h2

(* The vector index may move between types; the others have one store each.   *)
MCDeclared == {<<V, A>>, <<V, B>>, <<P, R>>, <<T, A>>}
(* The IRI of B ends in the local name of A, as an IRI of another vocabulary may. *)
MCIriTail == [t \in Types |-> A]
(* Vector and property indexes, and what traversals and text searches cache,   *)
(* are explored apart: no such index is read or built from those caches.       *)
Apart ==
    \/ \A n \in VNames \cup PNames : man[n] = None
    \/ /\ pool = Empty(Rels)
       /\ \A h \in Handles : look[h] = None /\ prior[h] = None /\ adj[h] = Empty(Rels) /\ rows[h] = Empty(Types)
MCSymmetry == Permutations({h1, h2})
=============================================================================
