------------------------- MODULE MCWorkerPoolBuilder -------------------------
(***************************************************************************)
(* Instance for TLC: three cores on two nodes, at most two threads for a   *)
(* core.  Clients also pass no core, a core that is not on the machine,    *)
(* and nodes of their own: one without a core and one with an ID only.     *)
(***************************************************************************)
EXTENDS WorkerPoolBuilder

MCCore == 0 .. 2
MCNodeOf == [c \in MCCore |-> IF c = 2 THEN 1 ELSE 0]
MCOtherCores == {{}, {0, 3}}
MCOtherNodes == {DefaultNode, SetID(DefaultNode, 1), NUMANode(1, {})}
MCThreadCounts == 0 .. 2
=============================================================================
