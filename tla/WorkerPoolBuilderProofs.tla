----------------------- MODULE WorkerPoolBuilderProofs -----------------------
(***************************************************************************)
(* Proofs about the construction of a worker pool and the scan for NUMA    *)
(* nodes, for every machine, every choice of the client and any number of  *)
(* changes of the cores the process may use.                               *)
(***************************************************************************)
EXTENDS WorkerPoolBuilder, FiniteSetTheorems, NaturalsInduction, WellFoundedInduction, TLAPS

-----------------------------------------------------------------------------
\* The least core of a mask is in the mask.

LEMMA FirstIn == ASSUME NEW S, S \subseteq Nat, S # {} PROVE First(S) \in S
<1>1. PICK x \in S : \A y \in S : ~ (<<y, x>> \in OpToRel(<, Nat))
  BY NatLessThanWellFounded, WFMin
<1>2. \A y \in S : ~ (y < x)
  BY <1>1 DEF OpToRel
<1> DEFINE P(z) == \A y \in S : z <= y
<1>3. P(x)
  BY <1>2
<1> HIDE DEF P
<1>4. (CHOOSE z \in S : P(z)) \in S
  BY <1>3, Zenon
<1> QED
  BY <1>4 DEF P, First, Min

\* Setting an affinity touches that of one thread, which gets what is allowed of the mask.
LEMMA SetEffect ==
  ASSUME ProcessorTypeOK, NEW t \in DOMAIN affinity, NEW mask, SetAffinity(t, mask)
  PROVE  /\ DOMAIN affinity' = DOMAIN affinity
         /\ affinity' \in [DOMAIN affinity -> (SUBSET allowed) \ {{}}]
         /\ \A u \in DOMAIN affinity : u # t => affinity'[u] = affinity[u]
         /\ mask \cap allowed = {} => affinity' = affinity
         /\ mask \cap allowed # {} => affinity'[t] = mask \cap allowed
<1>1. affinity \in [DOMAIN affinity -> (SUBSET allowed) \ {{}}]
  BY DEF ProcessorTypeOK
<1>2. CASE mask \cap allowed = {}
  BY <1>1, <1>2 DEF SetAffinity
<1>3. CASE mask \cap allowed # {}
  <2>1. affinity' = [affinity EXCEPT ![t] = mask \cap allowed]
    BY <1>3 DEF SetAffinity
  <2>2. mask \cap allowed \in (SUBSET allowed) \ {{}}
    BY <1>3, Zenon
  <2> QED
    BY <1>1, <1>3, <2>1, <2>2
<1> QED
  BY <1>2, <1>3

LEMMA ConfineIn ==
  ASSUME NEW mask, NEW new, new # {}
  PROVE  Confine(mask, new) \in (SUBSET new) \ {{}}
<1>1. mask \cap new # {} => mask \cap new \in (SUBSET new) \ {{}}
  BY Zenon
<1> QED
  BY <1>1 DEF Confine

-----------------------------------------------------------------------------
\* The processor: its steps keep its types and the threads there are.

ProcessorStep ==
  \/ FindAvailableCores \/ ScanSave \/ ScanStep
  \/ \E new \in (SUBSET Core) \ {{}} : Repartition(new)

LEMMA MaskIn ==
  ASSUME ProcessorTypeOK, Caller \in DOMAIN affinity
  PROVE  getCurrentThreadCoresAffinityMask \subseteq Core
<1>1. affinity[Caller] \subseteq allowed /\ allowed \subseteq Core
  BY DEF ProcessorTypeOK
<1> QED
  BY <1>1 DEF getCurrentThreadCoresAffinityMask

LEMMA ProcessorType ==
  ASSUME ProcessorTypeOK, Caller \in DOMAIN affinity, ProcessorStep
  PROVE  ProcessorTypeOK' /\ DOMAIN affinity' = DOMAIN affinity
<1> USE MaskIn
<1>1. CASE FindAvailableCores
  BY <1>1 DEF FindAvailableCores, scanVars, ProcessorTypeOK
<1>2. CASE ScanSave
  <2>1. affinity[Caller] \in (SUBSET allowed) \ {{}}
    BY DEF ProcessorTypeOK
  <2> QED
    BY <1>2, <2>1 DEF ScanSave, ProcessorTypeOK
<1>3. CASE ScanRead
  BY <1>3 DEF ScanRead, ProcessorTypeOK
<1>4. CASE ScanPin
  <2>1. /\ DOMAIN affinity' = DOMAIN affinity
        /\ affinity' \in [DOMAIN affinity -> (SUBSET allowed) \ {{}}]
    BY <1>4, SetEffect DEF ScanPin
  <2>2. todo' \subseteq Core /\ scan' \in {"idle", "saved", "pin", "ask"}
    BY <1>4 DEF ScanPin, ProcessorTypeOK
  <2> QED
    BY <1>4, <2>1, <2>2 DEF ScanPin, ProcessorTypeOK
<1>5. CASE ScanAsk
  <2>1. nodeCoreMap' \in [NodeID -> SUBSET Core]
    <3>1. CASE "getcpu" \in answers
      <4>1. PICK c \in affinity[Caller] :
              nodeCoreMap' = [nodeCoreMap EXCEPT ![NodeOf[c]] = @ \cup {c}]
        BY <1>5, <3>1 DEF ScanAsk
      <4>2. c \in Core
        BY DEF ProcessorTypeOK
      <4>3. NodeOf[c] \in NodeID
        BY <4>2 DEF NodeID
      <4> QED
        BY <4>1, <4>2, <4>3 DEF ProcessorTypeOK
    <3>2. CASE "getcpu" \notin answers
      BY <1>5, <3>2 DEF ScanAsk, ProcessorTypeOK
    <3> QED
      BY <3>1, <3>2
  <2> QED
    BY <1>5, <2>1 DEF ScanAsk, ProcessorTypeOK
<1>6. CASE ScanEnd
  <2>1. /\ DOMAIN affinity' = DOMAIN affinity
        /\ affinity' \in [DOMAIN affinity -> (SUBSET allowed) \ {{}}]
    BY <1>6, SetEffect DEF ScanEnd, ScanEndWith
  <2>2. nodes' \subseteq [id : NodeID, cores : SUBSET Core, empty : {FALSE}]
    <3>1. nodes' = {NUMANode(n, nodeCoreMap[n]) : n \in {m \in NodeID : nodeCoreMap[m] # {}}}
      BY <1>6 DEF ScanEnd, ScanEndWith
    <3>2. SUFFICES ASSUME NEW n \in NodeID
                   PROVE  NUMANode(n, nodeCoreMap[n])
                            \in [id : NodeID, cores : SUBSET Core, empty : {FALSE}]
      BY <3>1
    <3>3. nodeCoreMap[n] \in SUBSET Core
      BY DEF ProcessorTypeOK
    <3> QED
      BY <3>3 DEF NUMANode
  <2>3. nodeCoreMap' \in [NodeID -> SUBSET Core]
    BY <1>6 DEF ScanEnd, ScanEndWith
  <2> QED
    BY <1>6, <2>1, <2>2, <2>3 DEF ScanEnd, ScanEndWith, ProcessorTypeOK
<1>7. ASSUME NEW new \in (SUBSET Core) \ {{}}, Repartition(new)
      PROVE  ProcessorTypeOK' /\ DOMAIN affinity' = DOMAIN affinity
  <2>1. affinity' = [t \in DOMAIN affinity |-> Confine(affinity[t], new)]
    BY <1>7 DEF Repartition
  <2>0. new # {}
    BY <1>7
  <2>2. \A t \in DOMAIN affinity : Confine(affinity[t], new) \in (SUBSET new) \ {{}}
    BY <2>0, ConfineIn
  <2>3. affinity' \in [DOMAIN affinity' -> (SUBSET new) \ {{}}] /\ DOMAIN affinity' = DOMAIN affinity
    BY <2>1, <2>2
  <2>4. due' \in (SUBSET new) \ {{}}
    BY <1>7, <2>0, ConfineIn DEF Repartition
  <2>5. moves' \in 0 .. MaxMoves
    BY <1>7, NodeAssumption DEF Repartition, ProcessorTypeOK
  <2>6. allowed' = new /\ kept' \subseteq original
        /\ UNCHANGED <<answers, scan, original, todo, nodeCoreMap, cores, nodes>>
    BY <1>7 DEF Repartition, ProcessorTypeOK
  <2> QED
    BY <1>7, <2>3, <2>4, <2>5, <2>6 DEF ProcessorTypeOK
<1> QED
  BY <1>1, <1>2, <1>3, <1>4, <1>5, <1>6, <1>7 DEF ProcessorStep, ScanStep

-----------------------------------------------------------------------------
\* The types of builder and constructor, and how many workers there are.

FiniteChoice == IsFiniteSet(cpuCores) /\ IsFiniteSet(numaNode.cores)

\* Cores done with have all their workers, the first one left has threadNum, the
\* others none yet.
Counted ==
  /\ coresLeft = {} => threadNum = 0
  /\ \A w \in DOMAIN threads : threads[w] \in Chosen
  /\ \A c \in Chosen \ coresLeft : Cardinality(WorkersOf(c)) = threadsPerCore
  /\ coresLeft # {} => Cardinality(WorkersOf(First(coresLeft))) = threadNum
  /\ \A c \in coresLeft : c # First(coresLeft) => WorkersOf(c) = {}
  /\ Len(threads) = threadsPerCore * Cardinality(Chosen \ coresLeft) + threadNum

CountInv ==
  /\ build \in {"idle", "threw"} => threads = <<>> /\ coresLeft = {} /\ threadNum = 0
  /\ build \in {"creating", "built"} => Counted /\ scan = "idle"
  /\ build = "built" => coresLeft = {}

BuildInv == TypeOK /\ FiniteChoice /\ CountInv

LEMMA CallerKnown == TypeOK => Caller \in DOMAIN affinity
<1> SUFFICES ASSUME TypeOK PROVE Caller \in DOMAIN affinity
  OBVIOUS
<1>1. DOMAIN affinity = 0 .. Len(threads) /\ Len(threads) \in Nat
  BY DEF TypeOK
<1> QED
  BY <1>1 DEF Caller

LEMMA ChosenNat == TypeOK => Chosen \subseteq Nat
  BY DEF TypeOK, Chosen

LEMMA ChosenFinite == FiniteChoice => IsFiniteSet(Chosen)
  BY DEF FiniteChoice, Chosen

LEMMA BuildInit == Init => BuildInv
<1> SUFFICES ASSUME Init PROVE BuildInv
  OBVIOUS
<1>1. PICK mask \in (SUBSET allowed) \ {{}} : affinity = [t \in {Caller} |-> mask]
  BY DEF Init, ProcessorInit
<1>2. affinity \in [{Caller} -> (SUBSET allowed) \ {{}}] /\ due = mask /\ DOMAIN affinity = {Caller}
  BY <1>1 DEF Init, ProcessorInit
<1>3. ProcessorTypeOK
  BY <1>1, <1>2, NodeAssumption DEF Init, ProcessorInit, ProcessorTypeOK
<1>4. DOMAIN affinity = 0 .. Len(threads)
  <2>1. threads = <<>> /\ Len(threads) = 0
    BY DEF Init
  <2> QED
    BY <1>2, <2>1 DEF Caller
<1>5. numaNode \in [id : Nat, cores : SUBSET Nat, empty : BOOLEAN] /\ numaNode.cores = {}
  BY DEF Init, DefaultNode
<1>6. threads \in Seq(Nat) /\ started \subseteq DOMAIN threads
  BY DEF Init
<1>7. TypeOK
  BY <1>3, <1>4, <1>5, <1>6 DEF Init, TypeOK
<1>8. FiniteChoice
  BY <1>5, FS_EmptySet DEF Init, FiniteChoice
<1> QED
  BY <1>7, <1>8 DEF Init, BuildInv, CountInv

\* Steps of the processor leave builder and constructor alone.
LEMMA ProcessorBuild ==
  ASSUME BuildInv, ProcessorStep, scan = "idle" /\ scan' # "idle" => ClientFree,
         UNCHANGED <<builderVars, buildVars>>
  PROVE  BuildInv'
<1> USE DEF BuildInv, builderVars, buildVars
<1>1. ProcessorTypeOK' /\ DOMAIN affinity' = DOMAIN affinity
  BY CallerKnown, ProcessorType DEF TypeOK
<1>2. TypeOK'
  BY <1>1 DEF TypeOK, Chosen
<1>3. FiniteChoice'
  BY DEF FiniteChoice
<1>4. CountInv'
  <2>1. Counted => Counted'
    BY DEF Counted, Chosen, WorkersOf
  <2>2. build \in {"creating", "built"} => scan' = "idle"
    BY DEF CountInv, ClientFree
  <2> QED
    BY <2>1, <2>2 DEF CountInv
<1> QED
  BY <1>2, <1>3, <1>4

\* The client sets up the builder while no pool is being built.
LEMMA ClientBuild ==
  ASSUME BuildInv,
         \/ \E num \in ThreadCounts : WithThreadsPerCore(num)
         \/ \E mask \in OtherCores \cup {cores} : OnCores(mask)
         \/ \E node \in OtherNodes \cup nodes : OnNUMANode(node)
  PROVE  BuildInv'
<1> USE DEF BuildInv
<1>1. ClientFree /\ UNCHANGED <<processorVars, buildVars>>
  BY DEF WithThreadsPerCore, OnCores, OnNUMANode
<1>2. UNCHANGED <<allowed, answers, moves, affinity, scan, original, todo, nodeCoreMap, due, kept,
                  cores, nodes, build, coresLeft, threadNum, threads, started>>
  BY <1>1 DEF processorVars, scanVars, buildVars
<1>3. threads = <<>> /\ coresLeft = {} /\ threadNum = 0 /\ build \in {"idle", "threw"}
  BY <1>1 DEF ClientFree, CountInv
<1>4. threadsPerCore' \in ThreadCounts \cup {0}
  BY DEF WithThreadsPerCore, OnCores, OnNUMANode, TypeOK
<1>5. cpuCores' \subseteq Nat /\ IsFiniteSet(cpuCores')
  <2>1. cores \subseteq Core
    BY DEF TypeOK, ProcessorTypeOK
  <2>2. cores \subseteq Nat /\ IsFiniteSet(cores)
    BY <2>1, CoreAssumption, FS_Subset
  <2> QED
    BY <2>2, OtherAssumption DEF WithThreadsPerCore, OnCores, OnNUMANode, TypeOK, FiniteChoice
<1>6. numaNode' \in [id : Nat, cores : SUBSET Nat, empty : BOOLEAN] /\ IsFiniteSet(numaNode'.cores)
  <2>1. ASSUME NEW node \in nodes
        PROVE  node \in [id : Nat, cores : SUBSET Nat, empty : BOOLEAN] /\ IsFiniteSet(node.cores)
    <3>1. node \in [id : NodeID, cores : SUBSET Core, empty : {FALSE}]
      BY DEF TypeOK, ProcessorTypeOK
    <3>2. NodeID \subseteq Nat
      BY NodeAssumption DEF NodeID
    <3>3. node.cores \subseteq Core /\ node.cores \subseteq Nat
      BY <3>1, CoreAssumption
    <3>4. IsFiniteSet(node.cores)
      BY <3>3, CoreAssumption, FS_Subset
    <3>5. node \in [id : Nat, cores : SUBSET Nat, empty : BOOLEAN]
      BY <3>1, <3>2, CoreAssumption, Zenon
    <3> QED
      BY <3>4, <3>5
  <2> QED
    BY <2>1, OtherAssumption DEF WithThreadsPerCore, OnCores, OnNUMANode, TypeOK, FiniteChoice
<1>7. TypeOK'
  <2>1. threadNum' \in 0 .. threadsPerCore'
    BY <1>2, <1>3, <1>4, ThreadCountAssumption
  <2>2. ProcessorTypeOK'
    BY <1>2 DEF TypeOK, ProcessorTypeOK
  <2> QED
    BY <1>2, <1>3, <1>4, <1>5, <1>6, <2>1, <2>2 DEF TypeOK
<1> QED
  BY <1>2, <1>3, <1>5, <1>6, <1>7 DEF FiniteChoice, CountInv

LEMMA BuildBuild == ASSUME BuildInv, Build PROVE BuildInv'
<1> USE DEF BuildInv
<1>1. /\ ClientFree /\ threadNum' = 0
      /\ UNCHANGED <<allowed, answers, moves, affinity, scan, original, todo, nodeCoreMap, due, kept,
                     cores, nodes, cpuCores, numaNode, threadsPerCore, threads, started>>
  BY DEF Build, processorVars, scanVars, builderVars
<1>2. threads = <<>> /\ coresLeft = {} /\ scan = "idle" /\ build \in {"idle", "threw"}
  BY <1>1 DEF ClientFree, CountInv
<1>3. FiniteChoice'
  BY <1>1 DEF FiniteChoice
<1>4. 0 \in 0 .. threadsPerCore
  BY ThreadCountAssumption DEF TypeOK
<1>5. CASE Invalid
  <2>1. build' = "threw" /\ coresLeft' = {}
    BY <1>2, <1>5 DEF Build
  <2>2. TypeOK'
    BY <1>1, <1>4, <2>1 DEF TypeOK, ProcessorTypeOK, Chosen
  <2>3. CountInv'
    BY <1>1, <1>2, <2>1 DEF CountInv
  <2> QED
    BY <1>3, <2>2, <2>3
<1>6. CASE ~ Invalid
  <2>1. build' = "creating" /\ coresLeft' = Chosen /\ Chosen' = Chosen
    BY <1>1, <1>6 DEF Build, Chosen
  <2>2. TypeOK'
    BY <1>1, <1>4, <2>1 DEF TypeOK, ProcessorTypeOK
  <2>3. Counted'
    <3>1. DOMAIN threads' = {} /\ Len(threads') = 0
      BY <1>1, <1>2
    <3>2. \A c : WorkersOf(c)' = {}
      BY <3>1 DEF WorkersOf
    <3>3. Chosen' \ coresLeft' = {}
      BY <2>1
    <3>4. Cardinality(Chosen' \ coresLeft') = 0
      BY <3>3, FS_EmptySet, Zenon
    <3>5. Len(threads') = threadsPerCore' * Cardinality(Chosen' \ coresLeft') + threadNum'
      BY <1>1, <3>1, <3>4, ThreadCountAssumption DEF TypeOK
    <3>6. coresLeft' # {} => Cardinality(WorkersOf(First(coresLeft))') = threadNum'
      BY <1>1, <3>2, FS_EmptySet
    <3>7. \A w \in DOMAIN threads' : threads'[w] \in Chosen'
      BY <3>1
    <3> QED
      BY <1>1, <3>2, <3>3, <3>5, <3>6, <3>7 DEF Counted
  <2>4. CountInv'
    BY <1>1, <1>2, <2>1, <2>3 DEF CountInv
  <2> QED
    BY <1>3, <2>2, <2>4
<1> QED
  BY <1>5, <1>6

LEMMA WorkersFinite ==
  ASSUME TypeOK, NEW c PROVE IsFiniteSet(WorkersOf(c))
<1>1. DOMAIN threads = 1 .. Len(threads) /\ Len(threads) \in Nat
  BY DEF TypeOK
<1>2. IsFiniteSet(1 .. Len(threads))
  BY <1>1, FS_Interval
<1>3. WorkersOf(c) \subseteq 1 .. Len(threads)
  BY <1>1 DEF WorkersOf
<1> QED
  BY <1>2, <1>3, FS_Subset

\* What one turn of the inner loop does to the threads and their affinities.
LEMMA CreateEffect ==
  ASSUME BuildInv, CreateThread
  PROVE  /\ build = "creating" /\ coresLeft # {} /\ First(coresLeft) \in coresLeft
         /\ First(coresLeft) \in Nat
         /\ threadNum < threadsPerCore /\ threadNum' = threadNum + 1
         /\ threads' \in Seq(Nat) /\ Len(threads') = Len(threads) + 1 /\ Len(threads) \in Nat
         /\ DOMAIN threads = 1 .. Len(threads) /\ DOMAIN threads' = 1 .. Len(threads) + 1
         /\ threads'[Len(threads) + 1] = First(coresLeft)
         /\ \A w \in DOMAIN threads : threads'[w] = threads[w]
         /\ DOMAIN affinity = 0 .. Len(threads) /\ DOMAIN affinity' = 0 .. Len(threads) + 1
         /\ \A t \in DOMAIN affinity : affinity'[t] = affinity[t]
         /\ affinity' \in [0 .. Len(threads) + 1 -> (SUBSET allowed) \ {{}}]
         /\ UNCHANGED <<allowed, answers, moves, scan, original, todo, nodeCoreMap, due, kept,
                        cores, nodes, cpuCores, numaNode, threadsPerCore, build, coresLeft, started>>
<1>1. /\ build = "creating" /\ coresLeft # {} /\ threadNum < threadsPerCore
      /\ threadNum' = threadNum + 1 /\ threads' = Append(threads, First(coresLeft))
      /\ affinity' = [t \in 0 .. Len(threads) + 1 |->
                        IF t \in DOMAIN affinity THEN affinity[t] ELSE affinity[Caller]]
      /\ UNCHANGED <<allowed, answers, moves, scan, original, todo, nodeCoreMap, due, kept,
                     cores, nodes, cpuCores, numaNode, threadsPerCore, build, coresLeft, started>>
  BY DEF CreateThread, CreateUpTo, scanVars, builderVars
<1>2. coresLeft \subseteq Nat
  BY ChosenNat DEF BuildInv, TypeOK
<1>3. First(coresLeft) \in coresLeft /\ First(coresLeft) \in Nat
  BY <1>1, <1>2, FirstIn
<1>4. threads \in Seq(Nat) /\ Len(threads) \in Nat /\ DOMAIN threads = 1 .. Len(threads)
  BY DEF BuildInv, TypeOK
<1>5. /\ threads' \in Seq(Nat) /\ Len(threads') = Len(threads) + 1
      /\ DOMAIN threads' = 1 .. Len(threads) + 1
      /\ threads'[Len(threads) + 1] = First(coresLeft)
      /\ \A w \in DOMAIN threads : threads'[w] = threads[w]
  BY <1>1, <1>3, <1>4
<1>6. DOMAIN affinity = 0 .. Len(threads) /\ affinity \in [DOMAIN affinity -> (SUBSET allowed) \ {{}}]
      /\ Caller \in DOMAIN affinity
  BY CallerKnown DEF BuildInv, TypeOK, ProcessorTypeOK
<1>7. \A t \in DOMAIN affinity : t \in 0 .. Len(threads) + 1
  BY <1>4, <1>6
<1>8. /\ DOMAIN affinity' = 0 .. Len(threads) + 1
      /\ \A t \in DOMAIN affinity : affinity'[t] = affinity[t]
  BY <1>1, <1>7
<1>9. affinity' \in [0 .. Len(threads) + 1 -> (SUBSET allowed) \ {{}}]
  BY <1>1, <1>6
<1> QED
  BY <1>1, <1>3, <1>4, <1>5, <1>6, <1>8, <1>9

LEMMA CreateBuild == ASSUME BuildInv, CreateThread PROVE BuildInv'
<1> DEFINE f == First(coresLeft)
           n == Len(threads) + 1
<1> USE CreateEffect DEF BuildInv
<1>0. threadsPerCore \in Nat /\ threadNum \in Nat
  BY ThreadCountAssumption DEF TypeOK
<1>1. Chosen' = Chosen
  BY DEF Chosen
<1>2. TypeOK'
  <2>1. ProcessorTypeOK'
    BY DEF TypeOK, ProcessorTypeOK
  <2>2. threadNum' \in 0 .. threadsPerCore'
    BY <1>0
  <2>3. started' \subseteq DOMAIN threads'
    BY DEF TypeOK
  <2> QED
    BY <1>1, <2>1, <2>2, <2>3 DEF TypeOK
<1>3. FiniteChoice'
  BY DEF FiniteChoice
<1>4. Counted'
  <2>0. Counted /\ f \in Chosen
    BY DEF CountInv, TypeOK
  <2>1. WorkersOf(f)' = WorkersOf(f) \cup {n}
    BY DEF WorkersOf
  <2>2. n \notin WorkersOf(f) /\ IsFiniteSet(WorkersOf(f))
    <3>1. n \notin DOMAIN threads
      OBVIOUS
    <3>2. IsFiniteSet(WorkersOf(f))
      BY WorkersFinite
    <3> QED
      BY <3>1, <3>2 DEF WorkersOf
  <2>3. Cardinality(WorkersOf(f) \cup {n}) = Cardinality(WorkersOf(f)) + 1
    BY <2>2, FS_AddElement
  <2>4. Cardinality(WorkersOf(f)') = threadNum'
    <3>1. Cardinality(WorkersOf(f)') = Cardinality(WorkersOf(f) \cup {n})
      BY <2>1, Zenon
    <3>2. Cardinality(WorkersOf(f)) = threadNum
      BY <2>0 DEF Counted
    <3> QED
      BY <2>3, <3>1, <3>2
  <2>5. \A c : c # f => WorkersOf(c)' = WorkersOf(c)
    BY DEF WorkersOf
  <2>6. \A c \in Chosen \ coresLeft : Cardinality(WorkersOf(c)') = threadsPerCore
    BY <2>0, <2>5 DEF Counted
  <2>7. \A c \in coresLeft : c # f => WorkersOf(c)' = {}
    BY <2>0, <2>5 DEF Counted
  <2>8. Len(threads') = threadsPerCore * Cardinality(Chosen \ coresLeft) + threadNum'
    <3>1. IsFiniteSet(Chosen \ coresLeft)
      BY ChosenFinite, FS_Subset
    <3>2. Cardinality(Chosen \ coresLeft) \in Nat
      BY <3>1, FS_CardinalityType
    <3>3. threadsPerCore * Cardinality(Chosen \ coresLeft) \in Nat
      BY <1>0, <3>2
    <3>4. Len(threads) = threadsPerCore * Cardinality(Chosen \ coresLeft) + threadNum
      BY <2>0 DEF Counted
    <3> QED
      BY <1>0, <3>3, <3>4
  <2>9. \A w \in DOMAIN threads' : threads'[w] \in Chosen
    BY <2>0 DEF Counted
  <2> QED
    BY <1>1, <2>4, <2>6, <2>7, <2>8, <2>9 DEF Counted
<1>5. CountInv'
  BY <1>4 DEF CountInv
<1> QED
  BY <1>2, <1>3, <1>5

LEMMA NextCoreBuild == ASSUME BuildInv, NextCore PROVE BuildInv'
<1> DEFINE f == First(coresLeft)
<1> USE DEF BuildInv
<1>0. threadsPerCore \in Nat /\ threadNum \in Nat
  BY ThreadCountAssumption DEF TypeOK
<1>1. /\ build = "creating" /\ Counted /\ scan = "idle"
      /\ UNCHANGED <<allowed, answers, moves, affinity, scan, original, todo, nodeCoreMap, due, kept,
                     cores, nodes, cpuCores, numaNode, threadsPerCore, threads, started>>
  BY DEF NextCore, processorVars, scanVars, builderVars, CountInv
<1>2. Chosen' = Chosen /\ \A c : WorkersOf(c)' = WorkersOf(c)
  BY <1>1 DEF Chosen, WorkersOf
<1>3. FiniteChoice' /\ ProcessorTypeOK'
  BY <1>1 DEF FiniteChoice, TypeOK, ProcessorTypeOK
<1>4. CASE coresLeft # {}
  <2>1. /\ threadNum = threadsPerCore /\ coresLeft' = coresLeft \ {f} /\ threadNum' = 0
        /\ build' = build
    BY <1>4 DEF NextCore
  <2>2. coresLeft \subseteq Chosen /\ coresLeft \subseteq Nat
    BY ChosenNat DEF TypeOK
  <2>3. f \in coresLeft
    BY <1>4, <2>2, FirstIn
  <2>4. TypeOK'
    <3>1. 0 \in 0 .. threadsPerCore
      BY <1>0
    <3> QED
      BY <1>1, <1>2, <1>3, <2>1, <3>1 DEF TypeOK
  <2>5. Counted'
    <3>1. \A c \in Chosen \ coresLeft' : Cardinality(WorkersOf(c)) = threadsPerCore
      BY <1>1, <1>4, <2>1 DEF Counted
    <3>2. \A c \in coresLeft' : WorkersOf(c) = {}
      BY <1>1, <2>1 DEF Counted
    <3>3. coresLeft' # {} => Cardinality(WorkersOf(First(coresLeft'))) = 0
      <4> SUFFICES ASSUME coresLeft' # {} PROVE Cardinality(WorkersOf(First(coresLeft'))) = 0
        OBVIOUS
      <4>1. First(coresLeft') \in coresLeft'
        BY <2>1, <2>2, FirstIn
      <4>2. WorkersOf(First(coresLeft')) = {}
        BY <3>2, <4>1
      <4> QED
        BY <4>2, FS_EmptySet, Zenon
    <3>4. Len(threads) = threadsPerCore * Cardinality(Chosen \ coresLeft') + 0
      <4>1. Chosen \ coresLeft' = (Chosen \ coresLeft) \cup {f}
        BY <2>1, <2>2, <2>3
      <4>2. IsFiniteSet(Chosen \ coresLeft)
        BY ChosenFinite, FS_Subset
      <4>3. Cardinality(Chosen \ coresLeft) \in Nat
        BY <4>2, FS_CardinalityType
      <4>4. Cardinality((Chosen \ coresLeft) \cup {f}) = Cardinality(Chosen \ coresLeft) + 1
        BY <2>3, <4>2, FS_AddElement
      <4>5. Cardinality(Chosen \ coresLeft') = Cardinality((Chosen \ coresLeft) \cup {f})
        BY <4>1, Zenon
      <4>6. Len(threads) = threadsPerCore * Cardinality(Chosen \ coresLeft) + threadsPerCore
        BY <1>1, <2>1 DEF Counted
      <4>7. \A a, b \in Nat : a * (b + 1) + 0 = a * b + a
        OBVIOUS
      <4>8. threadsPerCore * (Cardinality(Chosen \ coresLeft) + 1) + 0
              = threadsPerCore * Cardinality(Chosen \ coresLeft) + threadsPerCore
        BY <1>0, <4>3, <4>7
      <4> QED
        BY <4>4, <4>5, <4>6, <4>8
    <3>5. \A w \in DOMAIN threads : threads[w] \in Chosen
      BY <1>1 DEF Counted
    <3>6. Cardinality(Chosen' \ coresLeft') = Cardinality(Chosen \ coresLeft')
      BY <1>2, Zenon
    <3>7. Len(threads') = threadsPerCore' * Cardinality(Chosen' \ coresLeft') + threadNum'
      BY <1>1, <2>1, <3>4, <3>6
    <3>8. coresLeft' # {} => Cardinality(WorkersOf(First(coresLeft))') = threadNum'
      <4> SUFFICES ASSUME coresLeft' # {}
                   PROVE  Cardinality(WorkersOf(First(coresLeft))') = threadNum'
        OBVIOUS
      <4>1. WorkersOf(First(coresLeft))' = WorkersOf(First(coresLeft'))
        BY <1>1 DEF WorkersOf
      <4>2. Cardinality(WorkersOf(First(coresLeft))') = Cardinality(WorkersOf(First(coresLeft')))
        BY <4>1, Zenon
      <4> QED
        BY <2>1, <3>3, <4>2
    <3> QED
      BY <1>1, <1>2, <2>1, <3>1, <3>2, <3>5, <3>7, <3>8 DEF Counted
  <2>6. CountInv'
    BY <1>1, <2>1, <2>5 DEF CountInv
  <2> QED
    BY <1>3, <2>4, <2>6
<1>5. CASE coresLeft = {}
  <2>1. build' = "built" /\ UNCHANGED <<coresLeft, threadNum>>
    BY <1>5 DEF NextCore
  <2>2. TypeOK'
    BY <1>1, <1>2, <1>3, <2>1 DEF TypeOK
  <2>3. Counted'
    BY <1>1, <1>2, <2>1 DEF Counted
  <2>4. CountInv'
    BY <1>1, <1>5, <2>1, <2>3 DEF CountInv
  <2> QED
    BY <1>3, <2>2, <2>4
<1> QED
  BY <1>4, <1>5

LEMMA CreateFailsBuild == ASSUME BuildInv, CreateFails PROVE BuildInv'
<1> USE DEF BuildInv
<1>1. /\ build' = (IF threads = <<>> THEN "threw" ELSE "terminated")
      /\ coresLeft' = {} /\ threadNum' = 0
      /\ UNCHANGED <<allowed, answers, moves, affinity, scan, original, todo, nodeCoreMap, due, kept,
                     cores, nodes, cpuCores, numaNode, threadsPerCore, threads, started>>
  BY DEF CreateFails, CreateFailsAs, processorVars, scanVars, builderVars
<1>2. 0 \in 0 .. threadsPerCore
  BY ThreadCountAssumption DEF TypeOK
<1>3. TypeOK'
  BY <1>1, <1>2 DEF TypeOK, ProcessorTypeOK
<1>4. FiniteChoice'
  BY <1>1 DEF FiniteChoice
<1>5. CountInv'
  BY <1>1 DEF CountInv
<1> QED
  BY <1>3, <1>4, <1>5

LEMMA WorkerBuild ==
  ASSUME BuildInv, NEW w \in DOMAIN threads, WorkerStart(w) PROVE BuildInv'
<1> USE DEF BuildInv
<1>1. /\ SetAffinity(w, {threads[w]}) /\ started' = started \cup {w}
      /\ UNCHANGED <<allowed, answers, moves, scan, original, todo, nodeCoreMap, due, kept,
                     cores, nodes, cpuCores, numaNode, threadsPerCore,
                     build, coresLeft, threadNum, threads>>
  BY DEF WorkerStart, StartOn, SetThreadAffinity, scanVars, builderVars
<1>2. w \in DOMAIN affinity
  <2>1. DOMAIN threads = 1 .. Len(threads) /\ Len(threads) \in Nat
    BY DEF TypeOK
  <2> QED
    BY <2>1 DEF TypeOK
<1>3. DOMAIN affinity' = DOMAIN affinity /\ affinity' \in [DOMAIN affinity -> (SUBSET allowed) \ {{}}]
  BY <1>1, <1>2, SetEffect DEF TypeOK
<1>4. TypeOK'
  BY <1>1, <1>3 DEF TypeOK, ProcessorTypeOK, Chosen
<1>5. FiniteChoice' /\ (Counted => Counted')
  BY <1>1 DEF FiniteChoice, Counted, Chosen, WorkersOf
<1>6. CountInv'
  BY <1>1, <1>5 DEF CountInv
<1> QED
  BY <1>4, <1>5, <1>6

\* The steps of the processor are the last disjunct of Next.
LEMMA NextCases ==
  ASSUME Next
  PROVE  \/ \/ \E num \in ThreadCounts : WithThreadsPerCore(num)
            \/ \E mask \in OtherCores \cup {cores} : OnCores(mask)
            \/ \E node \in OtherNodes \cup nodes : OnNUMANode(node)
         \/ Build \/ CreateThread \/ NextCore \/ CreateFails
         \/ \E w \in DOMAIN threads : WorkerStart(w)
         \/ /\ ProcessorStep
            /\ scan = "idle" /\ scan' # "idle" => ClientFree
            /\ UNCHANGED <<builderVars, buildVars>>
<1>1. CASE ScanStep /\ UNCHANGED <<builderVars, buildVars>>
  BY <1>1 DEF ProcessorStep, ScanStep, ScanRead, ScanPin, ScanAsk, ScanEnd, ScanEndWith
<1>2. CASE /\ \E new \in (SUBSET Core) \ {{}} : Repartition(new)
           /\ UNCHANGED <<builderVars, buildVars>>
  BY <1>2 DEF ProcessorStep, Repartition
<1>3. CASE ClientFree /\ (FindAvailableCores \/ ScanSave) /\ UNCHANGED <<builderVars, buildVars>>
  BY <1>3 DEF ProcessorStep
<1> QED
  BY <1>1, <1>2, <1>3 DEF Next

LEMMA BuildStep == BuildInv /\ [Next]_vars => BuildInv'
<1> SUFFICES ASSUME BuildInv, [Next]_vars PROVE BuildInv'
  OBVIOUS
<1>1. CASE Next
  BY <1>1, NextCases, ClientBuild, BuildBuild, CreateBuild, NextCoreBuild, CreateFailsBuild,
     WorkerBuild, ProcessorBuild
<1>2. CASE UNCHANGED vars
  <2>1. UNCHANGED <<allowed, answers, moves, affinity, scan, original, todo, nodeCoreMap, due, kept,
                    cores, nodes, cpuCores, numaNode, threadsPerCore,
                    build, coresLeft, threadNum, threads, started>>
    BY <1>2 DEF vars, processorVars, scanVars, builderVars, buildVars
  <2>2. TypeOK' /\ FiniteChoice'
    BY <2>1 DEF BuildInv, TypeOK, ProcessorTypeOK, FiniteChoice, Chosen
  <2>3. Counted => Counted'
    BY <2>1 DEF Counted, Chosen, WorkersOf
  <2> QED
    BY <2>1, <2>2, <2>3 DEF BuildInv, CountInv
<1> QED
  BY <1>1, <1>2

LEMMA BuildInvariance == Spec => []BuildInv
  BY BuildInit, BuildStep, PTL DEF Spec

(***************************************************************************)
(* Type correctness for every machine and every client: no thread is ever  *)
(* left without a core, and buildWorkerPool stays within the cores it was  *)
(* given and the threads it was asked for.                                 *)
(***************************************************************************)
THEOREM TypeCorrect == Spec => []TypeOK
<1>1. BuildInv => TypeOK
  BY DEF BuildInv
<1> QED
  BY <1>1, BuildInvariance, PTL

(***************************************************************************)
(* Build() is all or nothing, whatever the cores and wherever the creation *)
(* of a thread fails: the pool has threadsPerCore workers on each chosen   *)
(* core and no other, and an exception leaves no thread behind.            *)
(***************************************************************************)
THEOREM BuildWholeOrNone == Spec => []BuildAllOrNothing
<1>1. ASSUME BuildInv PROVE BuildAllOrNothing
  <2>1. build = "threw" => threads = <<>>
    BY <1>1 DEF BuildInv, CountInv
  <2>2. ASSUME build = "built"
        PROVE  /\ \A c \in Chosen : Cardinality(WorkersOf(c)) = threadsPerCore
               /\ Len(threads) = threadsPerCore * Cardinality(Chosen)
    <3>1. Counted /\ coresLeft = {} /\ threadNum = 0
      BY <1>1, <2>2 DEF BuildInv, CountInv, Counted
    <3>2. Chosen \ coresLeft = Chosen
      BY <3>1
    <3>3. Cardinality(Chosen \ coresLeft) = Cardinality(Chosen)
      BY <3>2, Zenon
    <3>4. Len(threads) = threadsPerCore * Cardinality(Chosen) + 0
      BY <3>1, <3>3 DEF Counted
    <3>5. threadsPerCore \in Nat /\ Cardinality(Chosen) \in Nat
      BY <1>1, ThreadCountAssumption, ChosenFinite, FS_CardinalityType DEF BuildInv, TypeOK
    <3>6. threadsPerCore * Cardinality(Chosen) \in Nat
      BY <3>5
    <3> QED
      BY <3>1, <3>2, <3>4, <3>6 DEF Counted
  <2> QED
    BY <2>1, <2>2 DEF BuildAllOrNothing
<1> QED
  BY <1>1, BuildInvariance, PTL

-----------------------------------------------------------------------------
\* The scan gives the affinity back.

\* While some core of the saved mask was allowed throughout, those cores are what the
\* caller would have had.
ScanInv == scan # "idle" => kept \subseteq allowed /\ (kept # {} => due = kept)

LEMMA ScanInvInit == Init => ScanInv
  BY DEF Init, ProcessorInit, ScanInv

LEMMA ScanInvStep == BuildInv /\ ScanInv /\ [Next]_vars => ScanInv'
<1> SUFFICES ASSUME BuildInv, ScanInv, [Next]_vars PROVE ScanInv'
  OBVIOUS
<1>0. TypeOK /\ ProcessorTypeOK /\ Caller \in DOMAIN affinity
  BY CallerKnown DEF BuildInv, TypeOK
<1>1. CASE UNCHANGED <<allowed, scan, due, kept>>
  BY <1>1 DEF ScanInv
<1>2. CASE ScanSave
  <2>1. affinity[Caller] \subseteq allowed
    BY <1>0 DEF ProcessorTypeOK
  <2>2. kept' = {} \/ kept' = affinity[Caller]
    BY <1>2 DEF ScanSave, getCurrentThreadCoresAffinityMask
  <2> QED
    BY <1>2, <2>1, <2>2 DEF ScanSave, ScanInv
<1>3. CASE ScanStep
  BY <1>3 DEF ScanStep, ScanRead, ScanPin, ScanAsk, ScanEnd, ScanEndWith, ScanInv
<1>4. ASSUME NEW new \in (SUBSET Core) \ {{}}, Repartition(new) PROVE ScanInv'
  <2>1. allowed' = new /\ kept' = kept \cap new /\ due' = Confine(due, new) /\ scan' = scan
    BY <1>4 DEF Repartition
  <2>2. scan # "idle" /\ kept' # {} => due = kept /\ due' = kept'
    BY <2>1 DEF ScanInv, Confine
  <2> QED
    BY <2>1, <2>2 DEF ScanInv
<1>5. CASE \/ \E num \in ThreadCounts : WithThreadsPerCore(num)
           \/ \E mask \in OtherCores \cup {cores} : OnCores(mask)
           \/ \E node \in OtherNodes \cup nodes : OnNUMANode(node)
  BY <1>1, <1>5 DEF WithThreadsPerCore, OnCores, OnNUMANode, processorVars, scanVars
<1>6. CASE Build \/ CreateThread \/ NextCore \/ CreateFails
  BY <1>1, <1>6 DEF Build, CreateThread, CreateUpTo, NextCore, CreateFails, CreateFailsAs,
     processorVars, scanVars
<1>7. CASE \E w \in DOMAIN threads : WorkerStart(w)
  BY <1>1, <1>7 DEF WorkerStart, StartOn, scanVars
<1>8. CASE FindAvailableCores
  BY <1>1, <1>8 DEF FindAvailableCores, scanVars
<1>9. CASE UNCHANGED vars
  BY <1>1, <1>9 DEF vars, processorVars, scanVars
<1> QED
  BY <1>2, <1>3, <1>4, <1>5, <1>6, <1>7, <1>8, <1>9, NextCases DEF ProcessorStep

(***************************************************************************)
(* FindAvailableNumaNodes gives the caller its affinity back, however      *)
(* often the kernel changes the process's cores meanwhile, but for the two *)
(* exceptions of ScanRestores.                                             *)
(***************************************************************************)
THEOREM ScanGivesBack == Spec => ScanRestores
<1> DEFINE Ends == scan # "idle" /\ scan' = "idle" =>
                     \/ affinity'[Caller] = due
                     \/ original \cap allowed = {}
                     \/ original \cap allowed # kept
<1>1. ASSUME BuildInv, ScanInv, Next, scan # "idle", scan' = "idle",
             original \cap allowed # {}, original \cap allowed = kept
      PROVE  affinity'[Caller] = due
  <2>0. ProcessorTypeOK /\ Caller \in DOMAIN affinity
    BY <1>1, CallerKnown DEF BuildInv, TypeOK
  <2>1. ScanEnd
    <3>1. ScanStep \/ scan' = scan \/ scan = "idle"
      BY <1>1, NextCases DEF ProcessorStep, FindAvailableCores, ScanSave, Repartition,
         WithThreadsPerCore, OnCores, OnNUMANode, Build, CreateThread, CreateUpTo, NextCore,
         CreateFails, CreateFailsAs, WorkerStart, StartOn, processorVars, scanVars
    <3>2. ScanRead \/ ScanPin \/ ScanAsk => scan' # "idle"
      BY DEF ScanRead, ScanPin, ScanAsk
    <3> QED
      BY <1>1, <3>1, <3>2 DEF ScanStep
  <2>2. SetAffinity(Caller, original)
    BY <2>1 DEF ScanEnd, ScanEndWith
  <2>3. affinity'[Caller] = original \cap allowed
    BY <1>1, <2>0, <2>2, SetEffect
  <2> QED
    BY <1>1, <2>3 DEF ScanInv
<1>2. BuildInv /\ ScanInv /\ [Next]_vars => [Ends]_processorVars
  <2>1. UNCHANGED vars => UNCHANGED processorVars
    BY DEF vars
  <2> QED
    BY <1>1, <2>1
<1>3. Spec => [](BuildInv /\ ScanInv)
  BY BuildInit, BuildStep, ScanInvInit, ScanInvStep, PTL DEF Spec
<1> QED
  BY <1>2, <1>3, PTL DEF Spec, ScanRestores

-----------------------------------------------------------------------------
\* From the scan to the running threads, while the process keeps its cores.

\* The affinity of the caller, but for what the scan does to it.
Home == IF scan = "idle" THEN affinity[Caller] ELSE due

\* The scan on its way through the mask.
Scanning ==
  /\ "getaffinity" \in answers => original = due
  /\ "getaffinity" \notin answers => original = {} /\ todo = {} /\ affinity[Caller] = due
  /\ todo \subseteq due
  /\ scan = "saved" => affinity[Caller] = due
  /\ scan = "ask" => "getaffinity" \in answers /\ \E c \in due : affinity[Caller] = {c}

\* What it has found: cores of the caller, under their nodes, ...
Found ==
  \A n \in NodeID : \A c \in nodeCoreMap[n] :
    c \in due /\ NodeOf[c] = n /\ "getcpu" \in answers /\ "getaffinity" \in answers

\* ... and all but those it has still to visit.
Complete ==
  "getaffinity" \in answers /\ "getcpu" \in answers =>
    \A c \in due : \/ c \in todo
                   \/ c \in nodeCoreMap[NodeOf[c]]
                   \/ scan = "ask" /\ affinity[Caller] = {c}

Pinned == \A w \in started : threads[w] \in allowed => affinity[w] = {threads[w]}

NodesTrue == \A node \in nodes : node.cores = {c \in Home : NodeOf[c] = node.id}

PlaceInv ==
  moves = 0 =>
    /\ scan # "idle" => Scanning
    /\ scan \in {"idle", "saved"} => todo = {} /\ \A n \in NodeID : nodeCoreMap[n] = {}
    /\ scan \in {"pin", "ask"} => Found /\ Complete
    /\ NodesTrue
    /\ Pinned

LEMMA PlaceInit == Init => PlaceInv
  BY DEF Init, ProcessorInit, PlaceInv, NodesTrue, Pinned

\* Steps that do not touch the caller's affinity or the scan.
LEMMA PlaceFrame ==
  ASSUME PlaceInv, affinity'[Caller] = affinity[Caller], Pinned => Pinned',
         UNCHANGED <<allowed, answers, moves, scan, original, todo, nodeCoreMap, due, nodes>>
  PROVE  PlaceInv'
<1>1. Scanning => Scanning'
  BY DEF Scanning
<1>2. (Found => Found') /\ (Complete => Complete')
  BY DEF Found, Complete
<1>3. Home' = Home
  BY DEF Home
<1>4. NodesTrue => NodesTrue'
  BY <1>3 DEF NodesTrue
<1> QED
  BY <1>1, <1>2, <1>4 DEF PlaceInv

\* Steps of the scan leave the workers alone.
LEMMA PinnedScan ==
  ASSUME TypeOK, Pinned, UNCHANGED <<allowed, started, threads>>,
         \A t \in DOMAIN affinity : t # Caller => affinity'[t] = affinity[t]
  PROVE  Pinned'
<1> SUFFICES ASSUME NEW w \in started PROVE affinity'[w] = affinity[w]
  BY DEF Pinned
<1>1. DOMAIN threads = 1 .. Len(threads) /\ Len(threads) \in Nat
      /\ DOMAIN affinity = 0 .. Len(threads) /\ w \in DOMAIN threads
  BY DEF TypeOK
<1>2. w \in DOMAIN affinity /\ w # Caller
  BY <1>1 DEF Caller
<1> QED
  BY <1>2

LEMMA PlaceSave ==
  ASSUME TypeOK, PlaceInv, moves = 0, ScanSave, UNCHANGED <<started, threads>> PROVE PlaceInv'
<1>1. /\ scan = "idle" /\ scan' = "saved" /\ due' = affinity[Caller]
      /\ original' = getCurrentThreadCoresAffinityMask
      /\ UNCHANGED <<allowed, answers, moves, affinity, todo, nodeCoreMap, nodes>>
  BY DEF ScanSave
<1>2. todo = {} /\ (\A n \in NodeID : nodeCoreMap[n] = {}) /\ NodesTrue /\ Pinned
  BY <1>1 DEF PlaceInv
<1>3. Scanning'
  BY <1>1, <1>2 DEF Scanning, getCurrentThreadCoresAffinityMask
<1>4. Home' = Home
  BY <1>1 DEF Home
<1>5. NodesTrue'
  BY <1>1, <1>2, <1>4 DEF NodesTrue
<1>6. Pinned'
  BY <1>1, <1>2 DEF Pinned
<1> QED
  BY <1>1, <1>2, <1>3, <1>5, <1>6 DEF PlaceInv

LEMMA PlaceRead ==
  ASSUME TypeOK, PlaceInv, moves = 0, ScanRead, UNCHANGED <<started, threads>> PROVE PlaceInv'
<1>1. /\ scan = "saved" /\ scan' = "pin"
      /\ todo' = getCurrentThreadCoresAffinityMask
      /\ UNCHANGED <<allowed, answers, moves, affinity, due, original, nodeCoreMap, nodes>>
  BY DEF ScanRead
<1>2. Scanning /\ (\A n \in NodeID : nodeCoreMap[n] = {}) /\ NodesTrue /\ Pinned
  BY <1>1 DEF PlaceInv
<1>3. Scanning'
  BY <1>1, <1>2 DEF Scanning, getCurrentThreadCoresAffinityMask
<1>4. Found'
  BY <1>1, <1>2 DEF Found
<1>5. Complete'
  BY <1>1, <1>2 DEF Complete, Scanning, getCurrentThreadCoresAffinityMask
<1>6. Home' = Home
  BY <1>1 DEF Home
<1>7. NodesTrue'
  BY <1>1, <1>2, <1>6 DEF NodesTrue
<1>8. Pinned'
  BY <1>1, <1>2 DEF Pinned
<1> QED
  BY <1>1, <1>3, <1>4, <1>5, <1>7, <1>8 DEF PlaceInv

LEMMA PlacePin ==
  ASSUME TypeOK, PlaceInv, moves = 0, ScanPin, UNCHANGED <<started, threads>> PROVE PlaceInv'
<1> DEFINE f == First(todo)
<1>1. /\ scan = "pin" /\ todo # {} /\ SetAffinity(Caller, {f}) /\ todo' = todo \ {f}
      /\ scan' = (IF f \in allowed THEN "ask" ELSE "pin")
      /\ UNCHANGED <<allowed, answers, moves, due, original, nodeCoreMap, nodes>>
  BY DEF ScanPin
<1>2. Scanning /\ Found /\ Complete /\ NodesTrue /\ Pinned
  BY <1>1 DEF PlaceInv
<1>3. f \in todo /\ f \in due /\ f \in allowed
  <2>1. todo \subseteq Nat /\ due \subseteq allowed
    BY CoreAssumption DEF TypeOK, ProcessorTypeOK
  <2> QED
    BY <1>1, <1>2, <2>1, FirstIn DEF Scanning
<1>4. ProcessorTypeOK /\ Caller \in DOMAIN affinity
  BY CallerKnown DEF TypeOK
<1>5. {f} \cap allowed = {f} /\ {f} # {}
  BY <1>3
<1>6. affinity'[Caller] = {f} /\ \A t \in DOMAIN affinity : t # Caller => affinity'[t] = affinity[t]
  BY <1>1, <1>4, <1>5, SetEffect
<1>7. scan' = "ask" /\ "getaffinity" \in answers
  BY <1>1, <1>2, <1>3 DEF Scanning
<1>8. Scanning'
  BY <1>1, <1>2, <1>3, <1>6, <1>7 DEF Scanning
<1>9. Found'
  BY <1>1, <1>2 DEF Found
<1>10. Complete'
  BY <1>1, <1>2, <1>6, <1>7 DEF Complete
<1>11. Home' = Home
  BY <1>1, <1>7 DEF Home
<1>12. NodesTrue'
  BY <1>1, <1>2, <1>11 DEF NodesTrue
<1>13. Pinned'
  BY <1>1, <1>2, <1>6, PinnedScan
<1> QED
  BY <1>7, <1>8, <1>9, <1>10, <1>12, <1>13 DEF PlaceInv

LEMMA PlaceAsk ==
  ASSUME TypeOK, PlaceInv, moves = 0, ScanAsk, UNCHANGED <<started, threads>> PROVE PlaceInv'
<1>1. /\ scan = "ask" /\ scan' = "pin"
      /\ UNCHANGED <<allowed, answers, moves, affinity, due, original, todo, nodes>>
  BY DEF ScanAsk
<1>2. Scanning /\ Found /\ Complete /\ NodesTrue /\ Pinned
  BY <1>1 DEF PlaceInv
<1>3. PICK c \in due : affinity[Caller] = {c}
  BY <1>1, <1>2 DEF Scanning
<1>4. c \in Core /\ NodeOf[c] \in NodeID
  BY DEF TypeOK, ProcessorTypeOK, NodeID
<1>5. "getaffinity" \in answers
  BY <1>1, <1>2 DEF Scanning
<1>6. Scanning'
  BY <1>1, <1>2, <1>5 DEF Scanning
<1>7. Found' /\ Complete'
  <2>1. CASE "getcpu" \in answers
    <3>1. nodeCoreMap' = [nodeCoreMap EXCEPT ![NodeOf[c]] = @ \cup {c}]
      BY <1>3, <2>1 DEF ScanAsk
    <3>2. nodeCoreMap \in [NodeID -> SUBSET Core]
      BY DEF TypeOK, ProcessorTypeOK
    <3>3. Found'
      BY <1>1, <1>2, <1>4, <1>5, <2>1, <3>1, <3>2 DEF Found
    <3>4. \A d \in due : NodeOf[d] \in NodeID
      BY DEF TypeOK, ProcessorTypeOK, NodeID
    <3>5. \A d \in due : d \in nodeCoreMap[NodeOf[d]] => d \in nodeCoreMap'[NodeOf[d]]
      BY <1>4, <3>1, <3>2, <3>4
    <3>6. c \in nodeCoreMap'[NodeOf[c]]
      BY <1>4, <3>1, <3>2
    <3>7. Complete'
      BY <1>1, <1>2, <1>3, <3>5, <3>6 DEF Complete
    <3> QED
      BY <3>3, <3>7
  <2>2. CASE "getcpu" \notin answers
    <3>1. nodeCoreMap' = nodeCoreMap
      BY <2>2 DEF ScanAsk
    <3> QED
      BY <1>1, <1>2, <2>2, <3>1 DEF Found, Complete
  <2> QED
    BY <2>1, <2>2
<1>8. Home' = Home
  BY <1>1 DEF Home
<1>9. NodesTrue'
  BY <1>1, <1>2, <1>8 DEF NodesTrue
<1>10. Pinned'
  BY <1>1, <1>2 DEF Pinned
<1> QED
  BY <1>1, <1>6, <1>7, <1>9, <1>10 DEF PlaceInv

LEMMA PlaceEnd ==
  ASSUME TypeOK, PlaceInv, moves = 0, ScanEnd, UNCHANGED <<started, threads>> PROVE PlaceInv'
<1>1. /\ scan = "pin" /\ todo = {} /\ scan' = "idle" /\ SetAffinity(Caller, original)
      /\ nodes' = {NUMANode(n, nodeCoreMap[n]) : n \in {m \in NodeID : nodeCoreMap[m] # {}}}
      /\ nodeCoreMap' = [n \in NodeID |-> {}]
      /\ UNCHANGED <<allowed, answers, moves, due, todo>>
  BY DEF ScanEnd, ScanEndWith
<1>2. Scanning /\ Found /\ Complete /\ NodesTrue /\ Pinned
  BY <1>1 DEF PlaceInv
<1>3. ProcessorTypeOK /\ Caller \in DOMAIN affinity /\ due \subseteq allowed /\ due # {}
  BY CallerKnown DEF TypeOK, ProcessorTypeOK
<1>4. \A t \in DOMAIN affinity : t # Caller => affinity'[t] = affinity[t]
  BY <1>1, <1>3, SetEffect
<1>5. affinity'[Caller] = due
  <2>1. CASE "getaffinity" \in answers
    <3>1. original \cap allowed = due
      BY <1>2, <1>3, <2>1 DEF Scanning
    <3> QED
      BY <1>1, <1>3, <3>1, SetEffect
  <2>2. CASE "getaffinity" \notin answers
    <3>1. original \cap allowed = {} /\ affinity[Caller] = due
      BY <1>2, <2>2 DEF Scanning
    <3> QED
      BY <1>1, <1>3, <3>1, SetEffect
  <2> QED
    BY <2>1, <2>2
<1>6. NodesTrue'
  <2> SUFFICES ASSUME NEW node \in nodes'
               PROVE  node.cores = {c \in Home' : NodeOf[c] = node.id}
    BY DEF NodesTrue
  <2>1. PICK n \in NodeID : nodeCoreMap[n] # {} /\ node = NUMANode(n, nodeCoreMap[n])
    BY <1>1
  <2>2. node.id = n /\ node.cores = nodeCoreMap[n]
    BY <2>1 DEF NUMANode
  <2>3. "getcpu" \in answers /\ "getaffinity" \in answers
    BY <1>2, <2>1 DEF Found
  <2>4. Home' = due
    BY <1>1, <1>5 DEF Home
  <2>5. nodeCoreMap[n] \subseteq {c \in due : NodeOf[c] = n}
    BY <1>2 DEF Found
  <2>6. {c \in due : NodeOf[c] = n} \subseteq nodeCoreMap[n]
    BY <1>1, <1>2, <2>3 DEF Complete
  <2> QED
    BY <2>2, <2>4, <2>5, <2>6
<1>7. Pinned'
  BY <1>1, <1>2, <1>4, PinnedScan
<1> QED
  BY <1>1, <1>6, <1>7 DEF PlaceInv

LEMMA PlaceCreate == ASSUME BuildInv, PlaceInv, CreateThread PROVE PlaceInv'
<1> USE CreateEffect DEF BuildInv
<1>1. affinity'[Caller] = affinity[Caller]
  BY CallerKnown
<1>2. Pinned => Pinned'
  <2> SUFFICES ASSUME Pinned, NEW w \in started, threads'[w] \in allowed
               PROVE  affinity'[w] = {threads'[w]}
    BY DEF Pinned
  <2>1. w \in DOMAIN threads
    BY DEF TypeOK
  <2>2. w \in DOMAIN affinity
    BY <2>1
  <2> QED
    BY <2>1, <2>2 DEF Pinned
<1> QED
  BY <1>1, <1>2, PlaceFrame

LEMMA PlaceStart ==
  ASSUME BuildInv, PlaceInv, NEW w \in DOMAIN threads, WorkerStart(w) PROVE PlaceInv'
<1>1. /\ SetAffinity(w, {threads[w]}) /\ started' = started \cup {w}
      /\ UNCHANGED <<allowed, answers, moves, scan, original, todo, nodeCoreMap, due, nodes, threads>>
  BY DEF WorkerStart, StartOn, SetThreadAffinity, scanVars
<1>2. TypeOK /\ ProcessorTypeOK
  BY DEF BuildInv, TypeOK
<1>3. /\ DOMAIN threads = 1 .. Len(threads) /\ Len(threads) \in Nat
      /\ DOMAIN affinity = 0 .. Len(threads) /\ started \subseteq DOMAIN threads
  BY <1>2 DEF TypeOK
<1>4. w \in DOMAIN affinity /\ w # Caller /\ Caller \in DOMAIN affinity
  BY <1>3 DEF Caller
<1>5. \A u \in DOMAIN affinity : u # w => affinity'[u] = affinity[u]
  BY <1>1, <1>2, <1>4, SetEffect
<1>6. threads[w] \in allowed => affinity'[w] = {threads[w]}
  <2> SUFFICES ASSUME threads[w] \in allowed PROVE affinity'[w] = {threads[w]}
    OBVIOUS
  <2>1. {threads[w]} \cap allowed = {threads[w]} /\ {threads[w]} \cap allowed # {}
    OBVIOUS
  <2> QED
    BY <1>1, <1>2, <1>4, <2>1, SetEffect
<1>7. Pinned => Pinned'
  <2> SUFFICES ASSUME Pinned, NEW v \in started', threads[v] \in allowed
               PROVE  affinity'[v] = {threads[v]}
    BY <1>1 DEF Pinned
  <2>1. CASE v = w
    BY <1>6, <2>1
  <2>2. CASE v # w
    <3>1. v \in started
      BY <1>1, <2>2
    <3>2. v \in DOMAIN affinity
      BY <1>3, <3>1
    <3> QED
      BY <1>5, <2>2, <3>1, <3>2 DEF Pinned
  <2> QED
    BY <2>1, <2>2
<1> QED
  BY <1>1, <1>4, <1>5, <1>7, PlaceFrame

LEMMA PlaceStep == BuildInv /\ PlaceInv /\ [Next]_vars => PlaceInv'
<1> SUFFICES ASSUME BuildInv, PlaceInv, [Next]_vars PROVE PlaceInv'
  OBVIOUS
<1>0. TypeOK
  BY DEF BuildInv
<1>1. CASE UNCHANGED <<allowed, answers, moves, affinity, scan, original, todo, nodeCoreMap, due,
                       nodes, threads, started>>
  <2>1. Pinned => Pinned'
    BY <1>1 DEF Pinned
  <2> QED
    BY <1>1, <2>1, PlaceFrame
<1>2. CASE ProcessorStep /\ UNCHANGED <<builderVars, buildVars>>
  <2>1. UNCHANGED <<started, threads>>
    BY <1>2 DEF buildVars
  <2>2. CASE FindAvailableCores
    BY <1>1, <2>1, <2>2 DEF FindAvailableCores, scanVars
  <2>3. CASE \E new \in (SUBSET Core) \ {{}} : Repartition(new)
    <3>1. moves' = moves + 1 /\ moves \in Nat
      BY <1>0, <2>3, NodeAssumption DEF Repartition, TypeOK, ProcessorTypeOK
    <3> QED
      BY <3>1 DEF PlaceInv
  <2>4. CASE moves # 0 /\ (ScanSave \/ ScanStep)
    BY <2>4 DEF PlaceInv, ScanSave, ScanStep, ScanRead, ScanPin, ScanAsk, ScanEnd, ScanEndWith
  <2>5. CASE moves = 0 /\ (ScanSave \/ ScanStep)
    BY <1>0, <2>1, <2>5, PlaceSave, PlaceRead, PlacePin, PlaceAsk, PlaceEnd DEF ScanStep
  <2> QED
    BY <1>2, <2>2, <2>3, <2>4, <2>5 DEF ProcessorStep
<1>3. CASE \/ \E num \in ThreadCounts : WithThreadsPerCore(num)
           \/ \E mask \in OtherCores \cup {cores} : OnCores(mask)
           \/ \E node \in OtherNodes \cup nodes : OnNUMANode(node)
  BY <1>1, <1>3 DEF WithThreadsPerCore, OnCores, OnNUMANode, processorVars, scanVars, buildVars
<1>4. CASE Build \/ NextCore \/ CreateFails
  BY <1>1, <1>4 DEF Build, NextCore, CreateFails, CreateFailsAs, processorVars, scanVars
<1>5. CASE UNCHANGED vars
  BY <1>1, <1>5 DEF vars, processorVars, scanVars, buildVars
<1> QED
  BY <1>2, <1>3, <1>4, <1>5, NextCases, PlaceCreate, PlaceStart

(***************************************************************************)
(* From the scan to the running threads, for every machine: the workers of *)
(* a pool on a node that FindAvailableNumaNodes answered are pinned,       *)
(* threadsPerCore to each, to the cores of that node the caller may use,   *)
(* and none is anywhere else.                                              *)
(***************************************************************************)
THEOREM WorkersPlaced == Spec => []NodePoolPlaced
<1>1. ASSUME BuildInv, PlaceInv, build = "built", started = DOMAIN threads,
             cpuCores = {}, numaNode \in nodes \ OtherNodes, moves = 0, NEW c \in Core
      PROVE  Cardinality({w \in started : affinity[w] = {c}}) =
               IF c \in affinity[Caller] /\ NodeOf[c] = numaNode.id THEN threadsPerCore ELSE 0
  <2>1. Counted /\ scan = "idle" /\ coresLeft = {}
    BY <1>1 DEF BuildInv, CountInv
  <2>2. NodesTrue /\ Pinned
    BY <1>1 DEF PlaceInv
  <2>3. Chosen = {d \in affinity[Caller] : NodeOf[d] = numaNode.id}
    BY <1>1, <2>1, <2>2 DEF Chosen, NodesTrue, Home
  <2>4. affinity[Caller] \subseteq allowed
    BY <1>1, CallerKnown DEF BuildInv, TypeOK, ProcessorTypeOK
  <2>5. \A w \in DOMAIN threads : affinity[w] = {threads[w]} /\ threads[w] \in Chosen
    BY <1>1, <2>1, <2>2, <2>3, <2>4 DEF Counted, Pinned
  <2>6. {w \in started : affinity[w] = {c}} = WorkersOf(c)
    BY <1>1, <2>5 DEF WorkersOf
  <2>7. Cardinality({w \in started : affinity[w] = {c}}) = Cardinality(WorkersOf(c))
    BY <2>6, Zenon
  <2>8. CASE c \in Chosen
    BY <2>1, <2>3, <2>7, <2>8 DEF Counted
  <2>9. CASE c \notin Chosen
    <3>1. WorkersOf(c) = {}
      BY <2>5, <2>9 DEF WorkersOf
    <3>2. Cardinality(WorkersOf(c)) = 0
      BY <3>1, FS_EmptySet, Zenon
    <3> QED
      BY <2>3, <2>7, <2>9, <3>2
  <2> QED
    BY <2>8, <2>9
<1>2. BuildInv /\ PlaceInv => NodePoolPlaced
  BY <1>1 DEF NodePoolPlaced
<1>3. Spec => [](BuildInv /\ PlaceInv)
  BY BuildInit, BuildStep, PlaceInit, PlaceStep, PTL DEF Spec
<1> QED
  BY <1>2, <1>3, PTL
=============================================================================
