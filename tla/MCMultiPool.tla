----------------------------- MODULE MCMultiPool -----------------------------
(***************************************************************************)
(* Instance for TLC: three classes, of 2, 4 and 8 bytes, sizes of 5 bits.  *)
(***************************************************************************)
EXTENDS MultiPool, TLC

CONSTANTS u1, b1, b2, b3

OneUser == {u1}
ThreeBlocks == {b1, b2, b3}
BlockSymmetry == Permutations(ThreeBlocks)
=============================================================================
