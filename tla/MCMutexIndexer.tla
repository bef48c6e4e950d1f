--------------------------- MODULE MCMutexIndexer ---------------------------
(***************************************************************************)
(* Instance for TLC: three callers of an indexer of two indices, so that   *)
(* the pool runs dry while two calls compete for the mutex.                *)
(***************************************************************************)
EXTENDS MutexIndexer

CONSTANTS t1, t2, t3

MCThreads == {t1, t2, t3}
=============================================================================
