---------------------------- MODULE MCDynMemPool ----------------------------
(***************************************************************************)
(* Instances for TLC of the memory pool.  Node addresses are               *)
(* interchangeable, and so are threads that play the same part.            *)
(***************************************************************************)
EXTENDS DynMemPool, TLC

CONSTANTS t1, t2, t3, n1, n2, n3, n4

OneThread == {t1}
ThreeThreads == {t1, t2, t3}
ThreeNodes == {n1, n2, n3}
FourNodes == {n1, n2, n3, n4}

\* t1 alone acquires.
SingleAcquirerSymmetry == Permutations({t2, t3}) \cup Permutations(FourNodes)

AllSymmetry == Permutations(ThreeThreads) \cup Permutations(ThreeNodes)
=============================================================================
