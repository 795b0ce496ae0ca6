----------------------------- MODULE MCRecovery -----------------------------
(* Instance of Recovery for TLC: two kinds of record of different sizes, and   *)
(* a roll size that two of the larger ones do not fill exactly, so that a      *)
(* resumed tail segment may have to be rolled at once.                         *)
EXTENDS Recovery

MCKinds == {"INSERT", "CHECKPOINT"}
MCSize == [k \in MCKinds |-> IF k = "INSERT" THEN 3 ELSE 2]

(* Bound on the segment files: one that a power failure has emptied stays for  *)
(* good, and crash after crash would add another.  Once the checkpoint has     *)
(* outrun the log the properties of the run say no more.                       *)
Bounded == Len(segs) <= 3 /\ ~outran
=============================================================================
