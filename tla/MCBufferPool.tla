---------------------------- MODULE MCBufferPool ----------------------------
(* Instance of BufferPool for TLC: more pages than frames, two users, and a    *)
(* clock long enough for the LRU-K histories to fill and be trimmed.           *)
EXTENDS BufferPool, TLC

CONSTANTS p1, p2, p3, g1, g2
MCPages == {p1, p2, p3}
MCGuards == {g1, g2}
MCSymmetry == Permutations(MCPages) \cup Permutations(MCGuards)
=============================================================================
