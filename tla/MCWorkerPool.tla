---------------------------- MODULE MCWorkerPool ----------------------------
(***************************************************************************)
(* Instances for TLC of the worker pool.                                   *)
(***************************************************************************)
EXTENDS WorkerPool

CONSTANTS c1, c2, k1, k2

OneCloser == {c1}
TwoClosers == {c1, c2}
NoTasks == {}
TwoTasks == {k1, k2}
LastTask == {k2}
=============================================================================
