-------------------------- MODULE WorkerPoolBuilder --------------------------
(***************************************************************************)
(* The construction of a worker pool (WorkerPoolBuilder and the            *)
(* constructor of WorkerPool in src/src/WorkerPool.h) by a client that     *)
(* first asks ProcessorLinux for cores or nodes.  The constructor creates  *)
(* the threads one by one; each inherits the affinity of its creator and   *)
(* pins itself to its core whenever it first runs.  What the workers do    *)
(* then is the matter of WorkerPool.                                       *)
(***************************************************************************)
EXTENDS ProcessorLinux, Sequences

CONSTANTS ThreadCounts,  \* what clients pass to WithThreadsPerCore
          OtherCores,    \* sets of cores clients think of themselves
          OtherNodes     \* NUMANodes clients make themselves

ASSUME ThreadCountAssumption == ThreadCounts \subseteq Nat

\* Cores and nodes clients pass are a std::set of core IDs and a NUMANode.
ASSUME OtherAssumption ==
  /\ \A mask \in OtherCores : mask \subseteq Nat /\ IsFiniteSet(mask)
  /\ OtherNodes \subseteq [id : Nat, cores : SUBSET Nat, empty : BOOLEAN]
  /\ \A node \in OtherNodes : IsFiniteSet(node.cores)

VARIABLES cpuCores, numaNode, threadsPerCore,  \* the builder
          build,       \* how far Build() is, or how it ended
          coresLeft,   \* cores buildWorkerPool has not finished with
          threadNum,
          threads,     \* threads[w]: the core that worker w was given
          started      \* workers that have called SetThreadAffinity

builderVars == <<cpuCores, numaNode, threadsPerCore>>
buildVars == <<build, coresLeft, threadNum, threads, started>>
vars == <<processorVars, builderVars, buildVars>>

Init ==
  /\ ProcessorInit
  /\ cpuCores = {}
  /\ numaNode = DefaultNode
  /\ threadsPerCore = 0
  /\ build = "idle"
  /\ coresLeft = {}
  /\ threadNum = 0
  /\ threads = <<>>
  /\ started = {}

-----------------------------------------------------------------------------
\* The client's thread, between its calls.
ClientFree == scan = "idle" /\ build \in {"idle", "threw"}

WithThreadsPerCore(num) ==
  /\ ClientFree
  /\ threadsPerCore' = num
  /\ UNCHANGED <<processorVars, cpuCores, numaNode, buildVars>>

OnCores(mask) ==
  /\ ClientFree
  /\ cpuCores' = mask
  /\ UNCHANGED <<processorVars, numaNode, threadsPerCore, buildVars>>

OnNUMANode(node) ==
  /\ ClientFree
  /\ numaNode' = node
  /\ UNCHANGED <<processorVars, cpuCores, threadsPerCore, buildVars>>

Invalid ==
  \/ threadsPerCore < 1
  \/ cpuCores = {} /\ numaNode.empty
  \/ cpuCores # {} /\ ~ numaNode.empty

Chosen == IF cpuCores # {} THEN cpuCores ELSE numaNode.cores

Build ==
  /\ ClientFree
  /\ IF Invalid THEN build' = "threw" /\ UNCHANGED coresLeft
     ELSE build' = "creating" /\ coresLeft' = Chosen
  /\ threadNum' = 0
  /\ UNCHANGED <<processorVars, builderVars, threads, started>>

\* buildWorkerPool: one turn of the inner loop, up to n threads for a core.
CreateUpTo(n) ==
  /\ build = "creating"
  /\ coresLeft # {}
  /\ threadNum < n
  /\ threads' = Append(threads, First(coresLeft))
  /\ affinity' = [t \in 0 .. Len(threads) + 1 |->
                    IF t \in DOMAIN affinity THEN affinity[t] ELSE affinity[Caller]]
  /\ threadNum' = threadNum + 1
  /\ UNCHANGED <<allowed, answers, moves, scanVars, cores, nodes, builderVars,
                 build, coresLeft, started>>

\* Mutation: <= for <.
CreateThreadOneMore == CreateUpTo(threadsPerCore + 1)

CreateThread == CreateUpTo(threadsPerCore)

\* The inner loop ends, and with the last core the constructor.
NextCore ==
  /\ build = "creating"
  /\ \/ /\ coresLeft # {}
        /\ threadNum = threadsPerCore
        /\ coresLeft' = coresLeft \ {First(coresLeft)}
        /\ threadNum' = 0
        /\ UNCHANGED build
     \/ /\ coresLeft = {}
        /\ build' = "built"
        /\ UNCHANGED <<coresLeft, threadNum>>
  /\ UNCHANGED <<processorVars, builderVars, threads, started>>

CreateFailsAs(outcome) ==
  /\ build = "creating"
  /\ coresLeft # {}
  /\ threadNum < threadsPerCore
  /\ build' = outcome
  /\ coresLeft' = {}
  /\ threadNum' = 0
  /\ UNCHANGED <<processorVars, builderVars, threads, started>>

\* Mutation: the threads that exist are left to themselves.
CreateFailsQuietly == CreateFailsAs("threw")

\* std::thread throws.  The members are destroyed, the queue first, which workers
\* that already run may be using, and then the vector with any joinable thread,
\* which is std::terminate.  The model goes to that end at once.  With no thread
\* yet the exception leaves Build().
CreateFails == CreateFailsAs(IF threads = <<>> THEN "threw" ELSE "terminated")

StartOn(w, core) ==
  /\ w \notin started
  /\ SetThreadAffinity(w, {core})
  /\ started' = started \cup {w}
  /\ UNCHANGED <<allowed, answers, moves, scanVars, cores, nodes, builderVars,
                 build, coresLeft, threadNum, threads>>

\* Mutation: the thread's function has a reference to the loop's core.
WorkerStartByReference(w) ==
  StartOn(w, IF build = "creating" /\ coresLeft # {} THEN First(coresLeft) ELSE threads[w])

\* startThread, up to its loop; the result of SetThreadAffinity is not looked at.
WorkerStart(w) == StartOn(w, threads[w])

-----------------------------------------------------------------------------
Next ==
  /\ build # "terminated"
  /\ \/ \E num \in ThreadCounts : WithThreadsPerCore(num)
     \/ \E mask \in OtherCores \cup {cores} : OnCores(mask)
     \/ \E node \in OtherNodes \cup nodes : OnNUMANode(node)
     \/ Build \/ CreateThread \/ NextCore \/ CreateFails
     \/ \E w \in DOMAIN threads : WorkerStart(w)
     \/ /\ \/ ClientFree /\ (FindAvailableCores \/ ScanSave)
           \/ ScanStep
           \/ \E new \in (SUBSET Core) \ {{}} : Repartition(new)
        /\ UNCHANGED <<builderVars, buildVars>>

Spec == Init /\ [][Next]_vars

-----------------------------------------------------------------------------
(***************************************************************************)
(* Type invariant: the kernel knows the caller and the created threads, no *)
(* thread is ever without a core, and the inner loop of buildWorkerPool    *)
(* stays within its bound.                                                 *)
(***************************************************************************)
TypeOK ==
  /\ ProcessorTypeOK
  /\ DOMAIN affinity = 0 .. Len(threads)
  /\ cpuCores \subseteq Nat
  /\ numaNode \in [id : Nat, cores : SUBSET Nat, empty : BOOLEAN]
  /\ threadsPerCore \in ThreadCounts \cup {0}
  /\ build \in {"idle", "creating", "built", "threw", "terminated"}
  /\ coresLeft \subseteq Chosen
  /\ threadNum \in 0 .. threadsPerCore
  /\ threads \in Seq(Nat)
  /\ started \subseteq DOMAIN threads

\* The workers given to core c.
WorkersOf(c) == {w \in DOMAIN threads : threads[w] = c}

(***************************************************************************)
(* Build() hands out a whole pool or none: a pool has threadsPerCore       *)
(* workers for each core that was chosen and no other worker, and when     *)
(* Build() ends with an exception no thread was left behind, wherever the  *)
(* creation of a thread failed.                                            *)
(***************************************************************************)
BuildAllOrNothing ==
  /\ build = "threw" => threads = <<>>
  /\ build = "built" =>
       /\ \A c \in Chosen : Cardinality(WorkersOf(c)) = threadsPerCore
       /\ Len(threads) = threadsPerCore * Cardinality(Chosen)

(***************************************************************************)
(* From the scan to the running threads: once all workers of a pool on a   *)
(* node that FindAvailableNumaNodes answered have started, exactly         *)
(* threadsPerCore of them are pinned to each core of that node the caller  *)
(* may use, and none elsewhere, provided the kernel answered the scan and  *)
(* left the process its cores.                                             *)
(***************************************************************************)
NodePoolPlaced ==
  /\ build = "built" /\ started = DOMAIN threads
  /\ cpuCores = {} /\ numaNode \in nodes \ OtherNodes
  /\ moves = 0
  =>
  \A c \in Core :
    Cardinality({w \in started : affinity[w] = {c}}) =
      IF c \in affinity[Caller] /\ NodeOf[c] = numaNode.id THEN threadsPerCore ELSE 0
=============================================================================
