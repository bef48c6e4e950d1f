------------------------ MODULE MCConcurrentIndexer ------------------------
(***************************************************************************)
(* Instances for TLC of the lock-free indexer: two or three callers.       *)
(***************************************************************************)
EXTENDS ConcurrentIndexer

CONSTANTS t1, t2, t3

TwoThreads == {t1, t2}
ThreeThreads == {t1, t2, t3}
=============================================================================
