---------------------------- MODULE MCTxManager ----------------------------
(* Instance of TxManager for TLC.  Keys are interchangeable.                   *)
EXTENDS TxManager, TLC

CONSTANTS k1, k2
MCKeys == {k1, k2}
KeySymmetry == Permutations(MCKeys)
=============================================================================
