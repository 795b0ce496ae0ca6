---------------------------- MODULE MCSnapshots ----------------------------
(* Instance of Snapshots for TLC: two classes, so that an upsert may move a    *)
(* row between stores.  Keys are interchangeable.                              *)
EXTENDS Snapshots, TLC

CONSTANTS k1, k2
MCKeys == {k1, k2}
MCClasses == <<"A", "B">>
MCTypeOf == [v \in Values |-> IF v = "one" THEN "int64" ELSE "string"]
KeySymmetry == Permutations(MCKeys)
=============================================================================
