--------------------------- MODULE ProcessorLinux ---------------------------
(***************************************************************************)
(* Cores, NUMA nodes and thread affinity on Linux                          *)
(* (src/src/ProcessorLinux.h).  The kernel keeps an affinity for every     *)
(* thread inside the set of cores the process may use, and may change that *)
(* set at any time.  FindAvailableNumaNodes moves the calling thread from  *)
(* core to core to learn where it is, and restores its affinity at the     *)
(* end; each system call is one step.  Masks are sets of core IDs.         *)
(***************************************************************************)
EXTENDS Naturals, FiniteSetsExt

CONSTANTS Core,       \* core IDs of the machine, below MaxCoreCount
          NodeOf,     \* NodeOf[c]: the NUMA node of core c
          MaxMoves    \* bound: how often the kernel changes `allowed`

ASSUME CoreAssumption == Core \subseteq Nat /\ IsFiniteSet(Core) /\ Core # {}
ASSUME NodeAssumption == NodeOf \in [Core -> Nat] /\ MaxMoves \in Nat

Caller == 0  \* the client's thread; the others are numbered from one

NodeID == {NodeOf[c] : c \in Core}

\* src/src/NUMANode.h.  Only the constructor with an ID clears `empty`.
DefaultNode == [id |-> 0, cores |-> {}, empty |-> TRUE]
NUMANode(nodeID, cpuCores) == [id |-> nodeID, cores |-> cpuCores, empty |-> FALSE]
SetID(node, nodeID) == [node EXCEPT !.id = nodeID]

VARIABLES allowed,      \* cores the process may run on
          answers,      \* the system calls that succeed on this kernel
          moves,
          affinity,     \* affinity[t], for every thread there is
          due,          \* the affinity the caller would have, had it not called
                        \* FindAvailableNumaNodes
          kept,         \* cores of `original` that were allowed throughout the call
          scan,         \* where the caller is in FindAvailableNumaNodes
          original,     \* originalCPUSetMask
          todo,         \* cores of the second mask not yet visited
          nodeCoreMap,  \* nodeCoreMap[n]; {} for a node that is no key
          cores, nodes  \* what the client was answered last

scanVars == <<scan, original, todo, nodeCoreMap, due, kept>>
processorVars == <<allowed, answers, moves, affinity, scanVars, cores, nodes>>

ProcessorInit ==
  /\ allowed \in (SUBSET Core) \ {{}}
  /\ answers \in SUBSET {"getaffinity", "getcpu"}
  /\ moves = 0
  /\ \E mask \in (SUBSET allowed) \ {{}} : affinity = [t \in {Caller} |-> mask]
  /\ due = affinity[Caller]
  /\ scan = "idle"
  /\ original = {}
  /\ kept = {}
  /\ todo = {}
  /\ nodeCoreMap = [n \in NodeID |-> {}]
  /\ cores = {}
  /\ nodes = {}

\* The least core: std::set and ForEachCPUSet visit them by ID.
First(mask) == Min(mask)

-----------------------------------------------------------------------------
\* The kernel.

\* pthread_setaffinity_np fails, and changes nothing, if no core of the mask is allowed.
SetAffinity(t, mask) ==
  affinity' = IF mask \cap allowed = {} THEN affinity
              ELSE [affinity EXCEPT ![t] = mask \cap allowed]

Confine(mask, new) == IF mask \cap new = {} THEN new ELSE mask \cap new

\* The process gets other cores; a thread that keeps none of its own may use all.
Repartition(new) ==
  /\ moves < MaxMoves
  /\ new # allowed
  /\ moves' = moves + 1
  /\ allowed' = new
  /\ affinity' = [t \in DOMAIN affinity |-> Confine(affinity[t], new)]
  /\ due' = Confine(due, new)
  /\ kept' = kept \cap new
  /\ UNCHANGED <<answers, scan, original, todo, nodeCoreMap, cores, nodes>>

-----------------------------------------------------------------------------
getCurrentThreadCoresAffinityMask ==
  IF "getaffinity" \in answers THEN affinity[Caller] ELSE {}

FindAvailableCores ==
  /\ scan = "idle"
  /\ cores' = getCurrentThreadCoresAffinityMask
  /\ UNCHANGED <<allowed, answers, moves, affinity, scanVars, nodes>>

\* FindAvailableNumaNodes saves the mask, and ForEachCPUSet reads it once more.
ScanSave ==
  /\ scan = "idle"
  /\ original' = getCurrentThreadCoresAffinityMask
  /\ kept' = original'
  /\ due' = affinity[Caller]
  /\ scan' = "saved"
  /\ UNCHANGED <<allowed, answers, moves, affinity, todo, nodeCoreMap, cores, nodes>>

ScanRead ==
  /\ scan = "saved"
  /\ todo' = getCurrentThreadCoresAffinityMask
  /\ scan' = "pin"
  /\ UNCHANGED <<allowed, answers, moves, affinity, due, kept, original, nodeCoreMap,
                 cores, nodes>>

\* collectNUMANodes pins the thread to the next core; if it cannot, the core is left out.
ScanPin ==
  /\ scan = "pin"
  /\ todo # {}
  /\ SetAffinity(Caller, {First(todo)})
  /\ todo' = todo \ {First(todo)}
  /\ scan' = IF First(todo) \in allowed THEN "ask" ELSE "pin"
  /\ UNCHANGED <<allowed, answers, moves, due, kept, original, nodeCoreMap, cores, nodes>>

\* getcpu tells the core the thread is on and its node.
ScanAsk ==
  /\ scan = "ask"
  /\ IF "getcpu" \in answers
     THEN \E c \in affinity[Caller] :
            nodeCoreMap' = [nodeCoreMap EXCEPT ![NodeOf[c]] = @ \cup {c}]
     ELSE UNCHANGED nodeCoreMap
  /\ scan' = "pin"
  /\ UNCHANGED <<allowed, answers, moves, affinity, due, kept, original, todo, cores, nodes>>

\* The nodes are built and the affinity is set to `mask`; nobody looks at the result.
ScanEndWith(mask) ==
  /\ scan = "pin"
  /\ todo = {}
  /\ nodes' = {NUMANode(n, nodeCoreMap[n]) : n \in {m \in NodeID : nodeCoreMap[m] # {}}}
  /\ SetAffinity(Caller, mask)
  /\ scan' = "idle"
  /\ original' = {}
  /\ kept' = {}
  /\ nodeCoreMap' = [n \in NodeID |-> {}]
  /\ UNCHANGED <<allowed, answers, moves, due, todo, cores>>

\* Mutation: the affinity is not restored.
ScanEndForgets == ScanEndWith({})

ScanEnd == ScanEndWith(original)

\* Called by a thread for itself.
SetThreadAffinity(t, mask) == SetAffinity(t, mask)

ScanStep == ScanRead \/ ScanPin \/ ScanAsk \/ ScanEnd

-----------------------------------------------------------------------------
ProcessorTypeOK ==
  /\ allowed \in (SUBSET Core) \ {{}}
  /\ answers \subseteq {"getaffinity", "getcpu"}
  /\ moves \in 0 .. MaxMoves
  /\ affinity \in [DOMAIN affinity -> (SUBSET allowed) \ {{}}]
  /\ due \in (SUBSET allowed) \ {{}}
  /\ scan \in {"idle", "saved", "pin", "ask"}
  /\ original \subseteq Core
  /\ kept \subseteq original
  /\ todo \subseteq Core
  /\ nodeCoreMap \in [NodeID -> SUBSET Core]
  /\ cores \subseteq Core
  /\ nodes \subseteq [id : NodeID, cores : SUBSET Core, empty : {FALSE}]

(***************************************************************************)
(* FindAvailableNumaNodes leaves the calling thread with the affinity it   *)
(* would have had without the call, although cores may be taken away or    *)
(* given any number of times between its system calls.  The exceptions:    *)
(* nothing of the saved mask is left to restore, and a core of that mask   *)
(* was taken away and given back, which the restored affinity forgets.     *)
(***************************************************************************)
ScanRestores ==
  [][scan # "idle" /\ scan' = "idle" =>
       \/ affinity'[Caller] = due
       \/ original \cap allowed = {}
       \/ original \cap allowed # kept]_processorVars
=============================================================================
