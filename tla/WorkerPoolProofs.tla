-------------------------- MODULE WorkerPoolProofs --------------------------
(***************************************************************************)
(* Proofs about the worker pool, for every number of threads, tasks and    *)
(* callers of Shutdown(): the condition variable of its queue loses no     *)
(* wakeup, and a call of Shutdown() that returns has stopped the workers.  *)
(***************************************************************************)
EXTENDS WorkerPool, FiniteSetTheorems, TLAPS

QueueInv == Queue!TypeOK /\ NoStrandedTask

\* The threads awake in Take() are finitely many.
LEMMA AwakeFinite ==
  ASSUME Queue!TypeOK
  PROVE  IsFiniteSet(awake) /\ Cardinality(awake) \in Nat
<1>1. IsFiniteSet(Worker)
  BY NumThreadsAssumption, FS_Interval DEF Worker
<1>2. IsFiniteSet(awake)
  BY <1>1, FS_Subset DEF Queue!TypeOK
<1> QED
  BY <1>2, FS_CardinalityType

\* Add() puts one item in the queue and, if a thread is blocked, one thread awake.
LEMMA AddInv ==
  ASSUME QueueInv, NEW x \in Task \cup {Noop}, Queue!Add(x) PROVE QueueInv'
<1> USE DEF QueueInv
<1>1. tasks' \in Seq(Task \cup {Noop}) /\ Len(tasks') = Len(tasks) + 1 /\ Len(tasks) \in Nat
  BY DEF Queue!TypeOK, Queue!Add
<1>2. CASE waiting = {} /\ UNCHANGED <<awake, waiting>>
  BY <1>1, <1>2 DEF Queue!TypeOK, NoStrandedTask
<1>3. ASSUME NEW t \in waiting, waiting' = waiting \ {t}, awake' = awake \cup {t}
      PROVE  QueueInv'
  <2>1. Queue!TypeOK'
    BY <1>1, <1>3 DEF Queue!TypeOK
  <2>2. Cardinality(awake') = Cardinality(awake) + 1
    BY <1>3, AwakeFinite, FS_AddElement DEF Queue!TypeOK
  <2>3. Len(tasks) <= Cardinality(awake)
    BY <1>3 DEF NoStrandedTask
  <2>4. Len(tasks') <= Cardinality(awake')
    BY <1>1, <2>2, <2>3, AwakeFinite
  <2> QED
    BY <2>1, <2>4 DEF NoStrandedTask
<1> QED
  BY <1>2, <1>3 DEF Queue!Add, Queue!NotifyOne

\* A thread that arrives, or wakes by itself, only adds to those awake.
LEMMA ArriveInv ==
  ASSUME QueueInv, NEW t \in Worker, Queue!TakeBegin(t) \/ Queue!SpuriousWakeup(t)
  PROVE  QueueInv'
<1> USE DEF QueueInv
<1>1. Queue!TypeOK'
  BY DEF Queue!TypeOK, Queue!TakeBegin, Queue!SpuriousWakeup
<1>2. awake' = awake \cup {t} /\ t \notin awake /\ tasks' = tasks
  BY DEF Queue!TypeOK, Queue!TakeBegin, Queue!SpuriousWakeup
<1>3. Cardinality(awake') = Cardinality(awake) + 1
  BY <1>2, AwakeFinite, FS_AddElement
<1>4. waiting' # {} => waiting # {}
  BY DEF Queue!TakeBegin, Queue!SpuriousWakeup
<1>5. Len(tasks) \in Nat
  BY DEF Queue!TypeOK
<1>6. waiting' # {} => Len(tasks') <= Cardinality(awake')
  BY <1>2, <1>3, <1>4, <1>5, AwakeFinite DEF NoStrandedTask
<1> QED
  BY <1>1, <1>6 DEF NoStrandedTask

\* A thread blocks only on an empty queue.
LEMMA BlockInv == ASSUME QueueInv, NEW t \in Worker, Queue!TakeBlock(t) PROVE QueueInv'
<1> USE DEF QueueInv
<1>1. Queue!TypeOK'
  BY DEF Queue!TypeOK, Queue!TakeBlock
<1>2. tasks' = <<>>
  BY DEF Queue!TakeBlock
<1>3. Len(tasks') = 0
  BY <1>2
<1>4. Cardinality(awake') \in Nat
  BY AwakeFinite, FS_Subset, FS_CardinalityType DEF Queue!TakeBlock
<1> QED
  BY <1>1, <1>3, <1>4 DEF NoStrandedTask

\* A thread that takes an item leaves with it: both sides lose one.
LEMMA PopInv == ASSUME QueueInv, NEW t \in Worker, Queue!TakePop(t) PROVE QueueInv'
<1> USE DEF QueueInv, Queue!TakePop, Queue!PopLeaving
<1>1. tasks' \in Seq(Task \cup {Noop}) /\ Len(tasks') = Len(tasks) - 1 /\ Len(tasks) \in Nat
  BY DEF Queue!TypeOK
<1>2. Queue!TypeOK'
  BY <1>1 DEF Queue!TypeOK
<1>3. Cardinality(awake') = Cardinality(awake) - 1
  BY AwakeFinite, FS_RemoveElement
<1>4. waiting' = waiting
  OBVIOUS
<1>5. waiting' # {} => Len(tasks') <= Cardinality(awake')
  BY <1>1, <1>3, <1>4, AwakeFinite DEF NoStrandedTask
<1> QED
  BY <1>2, <1>5 DEF NoStrandedTask

\* A step that leaves the queue alone.
LEMMA IdleInv == ASSUME QueueInv, UNCHANGED queueVars PROVE QueueInv'
  BY DEF QueueInv, queueVars, Queue!TypeOK, NoStrandedTask

-----------------------------------------------------------------------------
\* The workers a call of Shutdown() has passed in its joins have stopped, and it
\* returns only past the last one.
JoinInv ==
  \A c \in Caller :
    /\ \A w \in Worker : w < joining[c] => pc[w] = "exited"
    /\ cpc[c] = "returned" => joining[c] = NumThreads + 1

PoolInv == TypeOK /\ NoStrandedTask /\ JoinInv

LEMMA PoolInit == Init => PoolInv
<1> SUFFICES ASSUME Init PROVE PoolInv
  OBVIOUS
<1> USE NumThreadsAssumption DEF Init, Queue!Init
<1>1. TypeOK
  <2>1. Queue!TypeOK
    BY DEF Queue!TypeOK
  <2>2. isAlive \in BOOLEAN /\ terminated \in BOOLEAN
    OBVIOUS
  <2>3. sent \in [Caller -> 0 .. NumThreads] /\ joining \in [Caller -> 1 .. NumThreads + 1]
    OBVIOUS
  <2>4. \A w \in Worker : pc[w] = "take" <=> w \in awake \cup waiting
    OBVIOUS
  <2> QED
    BY <2>1, <2>2, <2>3, <2>4 DEF TypeOK
<1>2. NoStrandedTask
  BY DEF NoStrandedTask
<1>3. JoinInv
  BY DEF JoinInv, Caller, Worker
<1> QED
  BY <1>1, <1>2, <1>3 DEF PoolInv

\* What the queue's part of an action keeps, every action needs.
LEMMA QueuePart == PoolInv => QueueInv
  BY DEF PoolInv, QueueInv, TypeOK

\* A worker's step: it leaves "exited" to nobody and enters Take() as the queue says.
LEMMA WorkerInv ==
  ASSUME PoolInv, NEW w \in Worker, WorkerStep(w) \/ SpuriousWakeup(w) PROVE PoolInv'
<1> USE NumThreadsAssumption, QueuePart DEF workerVars, closerVars
<1>1. CASE LoopCheck(w)
  <2>1. QueueInv'
    BY <1>1, ArriveInv, IdleInv DEF LoopCheck
  <2>2. TypeOK'
    BY <1>1, <2>1 DEF LoopCheck, PoolInv, TypeOK, QueueInv, Queue!TakeBegin, queueVars
  <2>3. JoinInv'
    BY <1>1 DEF LoopCheck, PoolInv, TypeOK, JoinInv
  <2> QED
    BY <2>1, <2>2, <2>3 DEF PoolInv, QueueInv
<1>2. CASE TakeBlock(w)
  <2>1. QueueInv'
    BY <1>2, BlockInv DEF TakeBlock
  <2>2. TypeOK'
    BY <1>2, <2>1 DEF TakeBlock, PoolInv, TypeOK, QueueInv, Queue!TakeBlock
  <2>3. JoinInv'
    BY <1>2 DEF TakeBlock, PoolInv, JoinInv
  <2> QED
    BY <2>1, <2>2, <2>3 DEF PoolInv, QueueInv
<1>3. CASE SpuriousWakeup(w)
  <2>1. QueueInv'
    BY <1>3, ArriveInv DEF SpuriousWakeup
  <2>2. TypeOK'
    BY <1>3, <2>1 DEF SpuriousWakeup, PoolInv, TypeOK, QueueInv, Queue!SpuriousWakeup
  <2>3. JoinInv'
    BY <1>3 DEF SpuriousWakeup, PoolInv, JoinInv
  <2> QED
    BY <2>1, <2>2, <2>3 DEF PoolInv, QueueInv
<1>4. CASE TakeTask(w)
  <2>1. QueueInv'
    BY <1>4, PopInv DEF TakeTask
  <2>2. Head(tasks) \in Task \cup {Noop}
    BY <1>4 DEF TakeTask, Queue!TakePop, Queue!PopLeaving, PoolInv, TypeOK, Queue!TypeOK
  <2>3. TypeOK'
    BY <1>4, <2>1, <2>2
    DEF TakeTask, PoolInv, TypeOK, QueueInv, Queue!TypeOK, Queue!TakePop, Queue!PopLeaving
  <2>4. pc[w] = "take"
    BY <1>4 DEF TakeTask, PoolInv, TypeOK, Queue!TakePop, Queue!PopLeaving
  <2>5. JoinInv'
    BY <1>4, <2>4 DEF TakeTask, PoolInv, TypeOK, JoinInv
  <2> QED
    BY <2>1, <2>3, <2>5 DEF PoolInv, QueueInv
<1>5. CASE TaskReturns(w)
  <2>1. QueueInv'
    BY <1>5, IdleInv DEF TaskReturns
  <2>2. w \in Caller /\ pc[w] = "run"
    BY <1>5 DEF TaskReturns, TaskAtEnd, Caller
  <2>3. TypeOK'
    BY <1>5, <2>1, <2>2 DEF TaskReturns, PoolInv, TypeOK, QueueInv, queueVars
  <2>4. JoinInv'
    BY <1>5, <2>2 DEF TaskReturns, PoolInv, TypeOK, JoinInv
  <2> QED
    BY <2>1, <2>3, <2>4 DEF PoolInv, QueueInv
<1>6. CASE TaskThrows(w)
  <2>1. QueueInv'
    BY <1>6, IdleInv DEF TaskThrows
  <2>2. TypeOK'
    BY <1>6, <2>1 DEF TaskThrows, PoolInv, TypeOK, QueueInv, queueVars
  <2>3. JoinInv'
    BY <1>6 DEF TaskThrows, PoolInv, JoinInv
  <2> QED
    BY <2>1, <2>2, <2>3 DEF PoolInv, QueueInv
<1>7. CASE ShutdownCheck(w)
  <2>1. QueueInv'
    BY <1>7, IdleInv DEF ShutdownCheck
  <2>2. w \in Caller
    BY DEF Caller
  <2>3. TypeOK'
    BY <1>7, <2>1, <2>2 DEF ShutdownCheck, PoolInv, TypeOK, QueueInv, queueVars
  <2>4. JoinInv'
    BY <1>7, <2>2 DEF ShutdownCheck, PoolInv, TypeOK, JoinInv
  <2> QED
    BY <2>1, <2>3, <2>4 DEF PoolInv, QueueInv
<1> QED
  BY <1>1, <1>2, <1>3, <1>4, <1>5, <1>6, <1>7 DEF WorkerStep

\* A client's step: it touches no worker.
LEMMA ClientInv ==
  ASSUME PoolInv,
         \/ \E k \in Task : Submit(k)
         \/ \E c \in Closers : PollHasWork(c) \/ ShutdownCheck(c)
  PROVE  PoolInv'
<1> USE NumThreadsAssumption, QueuePart DEF workerVars
<1>1. ASSUME NEW k \in Task, Submit(k) PROVE PoolInv'
  <2>1. QueueInv'
    BY <1>1, AddInv DEF Submit
  <2>2. (awake \cup waiting)' = awake \cup waiting
    BY <1>1 DEF Submit, Queue!Add, Queue!NotifyOne
  <2>3. TypeOK'
    BY <1>1, <2>1, <2>2 DEF Submit, PoolInv, TypeOK, QueueInv
  <2>4. JoinInv'
    BY <1>1 DEF Submit, PoolInv, JoinInv
  <2> QED
    BY <2>1, <2>3, <2>4 DEF PoolInv, QueueInv
<1>2. ASSUME NEW c \in Closers, PollHasWork(c) PROVE PoolInv'
  <2>1. QueueInv'
    BY <1>2, IdleInv DEF PollHasWork
  <2>2. TypeOK'
    BY <1>2, <2>1 DEF PollHasWork, PoolInv, TypeOK, QueueInv, queueVars
  <2>3. JoinInv'
    BY <1>2 DEF PollHasWork, PoolInv, JoinInv
  <2> QED
    BY <2>1, <2>2, <2>3 DEF PoolInv, QueueInv
<1>3. ASSUME NEW c \in Closers, ShutdownCheck(c) PROVE PoolInv'
  <2>1. QueueInv'
    BY <1>3, IdleInv DEF ShutdownCheck
  <2>2. c \in Caller
    BY DEF Caller
  <2>3. TypeOK'
    BY <1>3, <2>1, <2>2 DEF ShutdownCheck, PoolInv, TypeOK, QueueInv, queueVars
  <2>4. JoinInv'
    BY <1>3, <2>2 DEF ShutdownCheck, PoolInv, TypeOK, JoinInv
  <2> QED
    BY <2>1, <2>3, <2>4 DEF PoolInv, QueueInv
<1> QED
  BY <1>1, <1>2, <1>3

\* A step of Shutdown(): a join passes only a worker that has stopped.
LEMMA ShutdownInv ==
  ASSUME PoolInv, NEW c \in Caller, ShutdownStep(c) PROVE PoolInv'
<1> USE NumThreadsAssumption, QueuePart DEF workerVars
<1>1. CASE ShutdownLower(c)
  <2>1. QueueInv'
    BY <1>1, IdleInv DEF ShutdownLower
  <2>2. TypeOK'
    BY <1>1, <2>1 DEF ShutdownLower, PoolInv, TypeOK, QueueInv, queueVars
  <2>3. JoinInv'
    BY <1>1 DEF ShutdownLower, PoolInv, TypeOK, JoinInv
  <2> QED
    BY <2>1, <2>2, <2>3 DEF PoolInv, QueueInv
<1>2. CASE ShutdownSubmit(c)
  <2> USE DEF ShutdownSubmit, SubmitNoops
  <2>1. QueueInv'
    BY <1>2, AddInv, IdleInv
  <2>2. (awake \cup waiting)' = awake \cup waiting
    BY <1>2 DEF Queue!Add, Queue!NotifyOne, queueVars
  <2>3. TypeOK'
    BY <1>2, <2>1, <2>2 DEF PoolInv, TypeOK, QueueInv
  <2>4. JoinInv'
    BY <1>2 DEF PoolInv, TypeOK, JoinInv
  <2> QED
    BY <2>1, <2>3, <2>4 DEF PoolInv, QueueInv
<1>3. CASE ShutdownJoin(c)
  <2> USE DEF ShutdownJoin, JoinThreads
  <2>1. QueueInv'
    BY <1>3, IdleInv
  <2>2. joining[c] \in 1 .. NumThreads + 1
    BY DEF PoolInv, TypeOK
  <2>3. CASE joining[c] <= NumThreads
    <3>1. /\ joining' = [joining EXCEPT ![c] = joining[c] + 1]
          /\ joined' = joined \cup {joining[c]}
          /\ pc[joining[c]] = "exited"
          /\ UNCHANGED <<cpc, sent, drained, isAlive, terminated, pc, task, status, queueVars>>
      BY <1>3, <2>2, <2>3
    <3>2. joining[c] + 1 \in 1 .. NumThreads + 1 /\ joining[c] \in Worker
      BY <2>2, <2>3 DEF Worker
    <3>3. TypeOK'
      BY <2>1, <3>1, <3>2 DEF PoolInv, TypeOK, QueueInv, queueVars
    <3>4. ASSUME NEW d \in Caller, NEW w \in Worker, w < joining'[d] PROVE pc[w] = "exited"
      <4>1. w < joining[c] \/ w = joining[c] \/ w < joining[d]
        BY <2>2, <3>1, <3>4 DEF PoolInv, TypeOK, Worker
      <4> QED
        BY <3>1, <4>1 DEF PoolInv, JoinInv
    <3>5. \A d \in Caller : cpc'[d] = "returned" => joining'[d] = NumThreads + 1
      BY <1>3, <3>1 DEF PoolInv, TypeOK, JoinInv
    <3>6. JoinInv'
      BY <3>1, <3>4, <3>5 DEF JoinInv, Caller, Worker
    <3> QED
      BY <2>1, <3>3, <3>6 DEF PoolInv, QueueInv
  <2>4. CASE joining[c] > NumThreads
    <3>1. /\ cpc' = [cpc EXCEPT ![c] = "returned"]
          /\ UNCHANGED <<joining, joined, sent, drained, isAlive, terminated,
                         pc, task, status, queueVars>>
      BY <1>3, <2>2, <2>4
    <3>2. TypeOK'
      BY <2>1, <3>1 DEF PoolInv, TypeOK, QueueInv, queueVars
    <3>3. joining[c] = NumThreads + 1
      BY <2>2, <2>4
    <3>4. JoinInv'
      BY <3>1, <3>3 DEF PoolInv, TypeOK, JoinInv
    <3> QED
      BY <2>1, <3>2, <3>4 DEF PoolInv, QueueInv
  <2> QED
    BY <2>2, <2>3, <2>4
<1>4. CASE ShutdownJoinFails(c)
  <2>1. QueueInv'
    BY <1>4, IdleInv DEF ShutdownJoinFails
  <2>2. TypeOK'
    BY <1>4, <2>1 DEF ShutdownJoinFails, PoolInv, TypeOK, QueueInv, queueVars
  <2>3. JoinInv'
    BY <1>4 DEF ShutdownJoinFails, PoolInv, TypeOK, JoinInv
  <2> QED
    BY <2>1, <2>2, <2>3 DEF PoolInv, QueueInv
<1> QED
  BY <1>1, <1>2, <1>3, <1>4 DEF ShutdownStep

LEMMA PoolInductive == Spec => []PoolInv
<1>1. PoolInv /\ [Next]_vars => PoolInv'
  <2> SUFFICES ASSUME PoolInv, [Next]_vars PROVE PoolInv'
    OBVIOUS
  <2>1. CASE UNCHANGED vars
    <3>1. QueueInv'
      BY <2>1, QueuePart, IdleInv DEF vars
    <3>2. TypeOK' /\ JoinInv'
      BY <2>1, <3>1
      DEF vars, queueVars, workerVars, closerVars, PoolInv, TypeOK, JoinInv, QueueInv
    <3> QED
      BY <3>1, <3>2 DEF PoolInv, QueueInv
  <2>2. CASE Next
    BY <2>2, WorkerInv, ClientInv, ShutdownInv DEF Next
  <2> QED
    BY <2>1, <2>2
<1> QED
  BY <1>1, PoolInit, PTL DEF Spec

(***************************************************************************)
(* The state of a worker pool stays well typed: a worker is in Take()      *)
(* exactly when the queue knows it.                                        *)
(***************************************************************************)
THEOREM TypeCorrect == Spec => []TypeOK
<1>1. PoolInv => TypeOK
  BY DEF PoolInv
<1> QED
  BY <1>1, PoolInductive, PTL

(***************************************************************************)
(* For every number of workers: no worker stays blocked in Take() while    *)
(* there are more tasks than workers awake to take them.                   *)
(***************************************************************************)
THEOREM NoWakeupLost == Spec => []NoStrandedTask
<1>1. PoolInv => NoStrandedTask
  BY DEF PoolInv
<1> QED
  BY <1>1, PoolInductive, PTL

(***************************************************************************)
(* When a client's call of Shutdown() has returned from its joins, every   *)
(* worker has left its loop, whoever else called Shutdown() meanwhile.     *)
(***************************************************************************)
THEOREM ReturnedMeansStopped == Spec => []ShutdownStopsWorkers
<1>1. PoolInv => ShutdownStopsWorkers
  BY NumThreadsAssumption DEF PoolInv, JoinInv, ShutdownStopsWorkers, Caller, Worker
<1> QED
  BY <1>1, PoolInductive, PTL

-----------------------------------------------------------------------------
\* How far a call of Shutdown() has come: before it lowers isAlive it has sent
\* nothing, afterwards isAlive is down.
NoopInv ==
  \A c \in Caller :
    IF cpc[c] \in {"idle", "lower", "turnedAway"} THEN sent[c] = 0 ELSE ~ isAlive

\* The workers inside Take() are finitely many, at most all of them.
LEMMA InTakeFinite ==
  ASSUME TypeOK
  PROVE  /\ IsFiniteSet(awake \cup waiting)
         /\ Cardinality(awake \cup waiting) \in Nat
         /\ Cardinality(awake \cup waiting) <= NumThreads
         /\ Len(tasks) \in Nat
<1>1. IsFiniteSet(Worker) /\ Cardinality(Worker) = NumThreads
  BY NumThreadsAssumption, FS_Interval DEF Worker
<1>2. awake \cup waiting \subseteq Worker
  BY DEF TypeOK, Queue!TypeOK
<1>3. Len(tasks) \in Nat
  BY DEF TypeOK, Queue!TypeOK
<1> QED
  BY <1>1, <1>2, <1>3, FS_Subset, FS_CardinalityType

\* A step that changes neither a call of Shutdown() nor who is inside Take(), and takes
\* nothing out of the queue.
LEMMA NoopsKept ==
  ASSUME TypeOK, TypeOK', NoopInv, NoopsSuffice,
         UNCHANGED <<isAlive, cpc, sent>>,
         awake' \cup waiting' = awake \cup waiting,
         Len(tasks') >= Len(tasks)
  PROVE  NoopInv' /\ NoopsSuffice'
<1>0. Cardinality(awake' \cup waiting') = Cardinality(awake \cup waiting)
  BY Zenon
<1>1. NoopInv'
  BY DEF NoopInv
<1>2. ASSUME NEW c \in Caller, cpc[c] = "submit"
      PROVE  Cardinality(awake' \cup waiting') <= Len(tasks') + (NumThreads - sent[c])
  <2>1. Cardinality(awake \cup waiting) <= Len(tasks) + (NumThreads - sent[c])
    BY <1>2 DEF NoopsSuffice
  <2>2. sent[c] \in 0 .. NumThreads /\ Len(tasks) \in Nat /\ Len(tasks') \in Nat
    BY DEF TypeOK, Queue!TypeOK
  <2> QED
    BY <1>0, <2>1, <2>2, InTakeFinite, NumThreadsAssumption
<1>3. ASSUME NEW c \in Caller, cpc[c] = "join"
      PROVE  Cardinality(awake' \cup waiting') <= Len(tasks')
  <2>1. Cardinality(awake \cup waiting) <= Len(tasks)
    BY <1>3 DEF NoopsSuffice
  <2>2. Len(tasks) \in Nat /\ Len(tasks') \in Nat
    BY DEF TypeOK, Queue!TypeOK
  <2> QED
    BY <1>0, <2>1, <2>2, InTakeFinite
<1> QED
  BY <1>1, <1>2, <1>3 DEF NoopsSuffice

LEMMA NoopsWorker ==
  ASSUME TypeOK, TypeOK', NoopInv, NoopsSuffice,
         NEW w \in Worker, WorkerStep(w) \/ SpuriousWakeup(w)
  PROVE  NoopInv' /\ NoopsSuffice'
<1> USE DEF workerVars, closerVars, queueVars
<1>0. Len(tasks) \in Nat
  BY DEF TypeOK, Queue!TypeOK
<1>1. CASE LoopCheck(w)
  <2>1. CASE isAlive
    <3>1. NoopInv'
      BY <1>1 DEF LoopCheck, NoopInv
    <3>2. \A c \in Caller : cpc'[c] \notin {"submit", "join"}
      BY <1>1, <2>1 DEF LoopCheck, NoopInv
    <3> QED
      BY <3>1, <3>2 DEF NoopsSuffice
  <2>2. CASE ~ isAlive
    BY <1>0, <1>1, <2>2, NoopsKept DEF LoopCheck
  <2> QED
    BY <2>1, <2>2
<1>2. CASE TakeBlock(w)
  BY <1>0, <1>2, NoopsKept DEF TakeBlock, Queue!TakeBlock
<1>3. CASE SpuriousWakeup(w)
  BY <1>0, <1>3, NoopsKept DEF SpuriousWakeup, Queue!SpuriousWakeup
<1>4. CASE TakeTask(w)
  <2>1. Len(tasks') = Len(tasks) - 1
    BY <1>4 DEF TakeTask, Queue!TakePop, Queue!PopLeaving, TypeOK, Queue!TypeOK
  <2>2. awake' \cup waiting' = (awake \cup waiting) \ {w} /\ w \in awake
    BY <1>4 DEF TakeTask, Queue!TakePop, Queue!PopLeaving, TypeOK, Queue!TypeOK
  <2>3. Cardinality(awake' \cup waiting') = Cardinality(awake \cup waiting) - 1
    BY <2>2, InTakeFinite, FS_RemoveElement
  <2>4. NoopInv'
    BY <1>4 DEF TakeTask, NoopInv
  <2>5. ASSUME NEW c \in Caller, cpc[c] = "submit"
        PROVE  Cardinality(awake' \cup waiting') <= Len(tasks') + (NumThreads - sent[c])
    <3>1. Cardinality(awake \cup waiting) <= Len(tasks) + (NumThreads - sent[c])
      BY <2>5 DEF NoopsSuffice
    <3>2. sent[c] \in 0 .. NumThreads
      BY DEF TypeOK
    <3> QED
      BY <1>0, <2>1, <2>3, <3>1, <3>2, InTakeFinite, NumThreadsAssumption
  <2>6. ASSUME NEW c \in Caller, cpc[c] = "join"
        PROVE  Cardinality(awake' \cup waiting') <= Len(tasks')
    <3>1. Cardinality(awake \cup waiting) <= Len(tasks)
      BY <2>6 DEF NoopsSuffice
    <3> QED
      BY <1>0, <2>1, <2>3, <3>1, InTakeFinite
  <2>7. UNCHANGED <<cpc, sent>>
    BY <1>4 DEF TakeTask
  <2> QED
    BY <2>4, <2>5, <2>6, <2>7 DEF NoopsSuffice
<1>5. CASE TaskReturns(w)
  <2>1. w \in Caller
    BY DEF Caller
  <2>2. NoopInv'
    BY <1>5, <2>1 DEF TaskReturns, TaskAtEnd, NoopInv, TypeOK
  <2>3. NoopsSuffice'
    <3>1. \A c \in Caller : cpc'[c] \in {"submit", "join"} => cpc[c] = cpc'[c]
      BY <1>5, <2>1 DEF TaskReturns, TypeOK
    <3>2. UNCHANGED <<tasks, awake, waiting, sent>>
      BY <1>5 DEF TaskReturns
    <3> QED
      BY <3>1, <3>2 DEF NoopsSuffice
  <2> QED
    BY <2>2, <2>3
<1>6. CASE TaskThrows(w)
  BY <1>0, <1>6, NoopsKept DEF TaskThrows
<1>7. CASE ShutdownCheck(w)
  <2>1. w \in Caller
    BY DEF Caller
  <2>2. NoopInv'
    BY <1>7, <2>1 DEF ShutdownCheck, NoopInv, TypeOK
  <2>3. NoopsSuffice'
    BY <1>7, <2>1 DEF ShutdownCheck, NoopsSuffice, TypeOK
  <2> QED
    BY <2>2, <2>3
<1> QED
  BY <1>1, <1>2, <1>3, <1>4, <1>5, <1>6, <1>7 DEF WorkerStep

LEMMA NoopsClient ==
  ASSUME TypeOK, TypeOK', NoopInv, NoopsSuffice,
         \/ \E k \in Task : Submit(k)
         \/ \E c \in Closers : PollHasWork(c) \/ ShutdownCheck(c)
  PROVE  NoopInv' /\ NoopsSuffice'
<1> USE DEF workerVars, queueVars
<1>0. Len(tasks) \in Nat
  BY DEF TypeOK, Queue!TypeOK
<1>1. ASSUME NEW k \in Task, Submit(k) PROVE NoopInv' /\ NoopsSuffice'
  <2>1. Len(tasks') = Len(tasks) + 1
    BY <1>1 DEF Submit, Queue!Add, TypeOK, Queue!TypeOK
  <2>2. awake' \cup waiting' = awake \cup waiting
    BY <1>1 DEF Submit, Queue!Add, Queue!NotifyOne
  <2>3. UNCHANGED <<isAlive, cpc, sent>>
    BY <1>1 DEF Submit
  <2> QED
    BY <1>0, <2>1, <2>2, <2>3, NoopsKept
<1>2. ASSUME NEW c \in Closers, PollHasWork(c) PROVE NoopInv' /\ NoopsSuffice'
  BY <1>0, <1>2, NoopsKept DEF PollHasWork
<1>3. ASSUME NEW c \in Closers, ShutdownCheck(c) PROVE NoopInv' /\ NoopsSuffice'
  <2>1. c \in Caller
    BY DEF Caller
  <2>2. NoopInv'
    BY <1>3, <2>1 DEF ShutdownCheck, NoopInv, TypeOK
  <2>3. NoopsSuffice'
    BY <1>3, <2>1 DEF ShutdownCheck, NoopsSuffice, TypeOK
  <2> QED
    BY <2>2, <2>3
<1> QED
  BY <1>1, <1>2, <1>3

LEMMA NoopsShutdown ==
  ASSUME TypeOK, TypeOK', NoopInv, NoopsSuffice, NEW c \in Caller, ShutdownStep(c)
  PROVE  NoopInv' /\ NoopsSuffice'
<1> USE NumThreadsAssumption DEF workerVars, queueVars
<1>0. Len(tasks) \in Nat /\ sent[c] \in 0 .. NumThreads
  BY DEF TypeOK, Queue!TypeOK
<1>1. CASE ShutdownLower(c)
  <2>1. sent[c] = 0
    BY <1>1 DEF ShutdownLower, NoopInv
  <2>2. Cardinality(awake \cup waiting) <= Len(tasks) + (NumThreads - sent[c])
    BY <1>0, <2>1, InTakeFinite
  <2>3. NoopInv'
    BY <1>1 DEF ShutdownLower, NoopInv, TypeOK
  <2>4. NoopsSuffice'
    BY <1>1, <2>2 DEF ShutdownLower, NoopsSuffice, TypeOK
  <2> QED
    BY <2>3, <2>4
<1>2. CASE ShutdownSubmit(c)
  <2>1. CASE /\ Queue!Add(Noop)
             /\ sent' = [sent EXCEPT ![c] = @ + 1]
             /\ UNCHANGED <<isAlive, cpc>>
             /\ cpc[c] = "submit"
    <3>1. Len(tasks') = Len(tasks) + 1
      BY <2>1 DEF Queue!Add, TypeOK, Queue!TypeOK
    <3>2. Cardinality(awake' \cup waiting') = Cardinality(awake \cup waiting)
      <4>1. awake' \cup waiting' = awake \cup waiting
        BY <2>1 DEF Queue!Add, Queue!NotifyOne
      <4> QED
        BY <4>1, Zenon
    <3>3. NoopInv'
      BY <2>1 DEF NoopInv, TypeOK
    <3>4. ASSUME NEW d \in Caller, cpc[d] = "submit"
          PROVE  Cardinality(awake' \cup waiting') <= Len(tasks') + (NumThreads - sent'[d])
      <4>1. Cardinality(awake \cup waiting) <= Len(tasks) + (NumThreads - sent[d])
        BY <3>4 DEF NoopsSuffice
      <4>2. sent[d] \in 0 .. NumThreads /\ sent'[d] \in {sent[d], sent[d] + 1}
        BY <2>1 DEF TypeOK
      <4> QED
        BY <1>0, <3>1, <3>2, <4>1, <4>2, InTakeFinite
    <3>5. ASSUME NEW d \in Caller, cpc[d] = "join"
          PROVE  Cardinality(awake' \cup waiting') <= Len(tasks')
      <4>1. Cardinality(awake \cup waiting) <= Len(tasks)
        BY <3>5 DEF NoopsSuffice
      <4> QED
        BY <1>0, <3>1, <3>2, <4>1, InTakeFinite
    <3> QED
      BY <2>1, <3>3, <3>4, <3>5 DEF NoopsSuffice
  <2>2. CASE /\ sent[c] = NumThreads
             /\ cpc[c] = "submit"
             /\ cpc' = [cpc EXCEPT ![c] = "join"]
             /\ UNCHANGED <<queueVars, sent, isAlive>>
    <3>1. Cardinality(awake \cup waiting) <= Len(tasks) + (NumThreads - sent[c])
      BY <2>2 DEF NoopsSuffice
    <3>2. Cardinality(awake \cup waiting) <= Len(tasks)
      BY <1>0, <2>2, <3>1, InTakeFinite
    <3>3. NoopInv'
      BY <2>2 DEF NoopInv, TypeOK
    <3>4. NoopsSuffice'
      BY <2>2, <3>2 DEF NoopsSuffice, TypeOK
    <3> QED
      BY <3>3, <3>4
  <2> QED
    BY <1>2, <2>1, <2>2 DEF ShutdownSubmit, SubmitNoops
<1>3. CASE ShutdownJoin(c)
  <2>1. cpc' = cpc \/ cpc' = [cpc EXCEPT ![c] = "returned"]
    BY <1>3 DEF ShutdownJoin, JoinThreads
  <2>2. UNCHANGED <<isAlive, sent, tasks, awake, waiting>> /\ cpc[c] = "join"
    BY <1>3 DEF ShutdownJoin, JoinThreads
  <2>3. NoopInv'
    BY <2>1, <2>2 DEF NoopInv, TypeOK
  <2>4. NoopsSuffice'
    BY <2>1, <2>2 DEF NoopsSuffice, TypeOK
  <2> QED
    BY <2>3, <2>4
<1>4. CASE ShutdownJoinFails(c)
  <2>1. NoopInv'
    BY <1>4 DEF ShutdownJoinFails, NoopInv, TypeOK
  <2>2. NoopsSuffice'
    BY <1>4 DEF ShutdownJoinFails, NoopsSuffice, TypeOK
  <2> QED
    BY <2>1, <2>2
<1> QED
  BY <1>1, <1>2, <1>3, <1>4 DEF ShutdownStep

(***************************************************************************)
(* For every number of workers and of calls of Shutdown(): the one noop    *)
(* per worker that a call submits is enough for every worker that is still *)
(* inside Take(), whatever was queued before and whoever takes it.         *)
(***************************************************************************)
THEOREM NoopsReachEveryWorker == Spec => []NoopsSuffice
<1>1. Init => NoopInv /\ NoopsSuffice
  BY DEF Init, NoopInv, NoopsSuffice
<1>2. TypeOK /\ TypeOK' /\ NoopInv /\ NoopsSuffice /\ [Next]_vars => (NoopInv /\ NoopsSuffice)'
  <2> SUFFICES ASSUME TypeOK, TypeOK', NoopInv, NoopsSuffice, [Next]_vars
               PROVE  NoopInv' /\ NoopsSuffice'
    OBVIOUS
  <2>1. CASE UNCHANGED vars
    BY <2>1 DEF vars, queueVars, closerVars, NoopInv, NoopsSuffice
  <2>2. CASE Next
    BY <2>2, NoopsWorker, NoopsClient, NoopsShutdown DEF Next
  <2> QED
    BY <2>1, <2>2
<1> QED
  BY <1>1, <1>2, TypeCorrect, PTL DEF Spec

-----------------------------------------------------------------------------
\* Worker w runs client task k.
Runs(w, k) == pc[w] = "run" /\ task[w] = k

\* Task k stands at place i of the queue.
QueuedAt(i, k) == i \in 1 .. Len(tasks) /\ tasks[i] = k

\* TaskConservation without counting: a task has at most one place, and it has one
\* exactly while it is submitted and not done.
PlaceInv ==
  \A k \in Task :
    /\ \A i, j \in 1 .. Len(tasks) : QueuedAt(i, k) /\ QueuedAt(j, k) => i = j
    /\ \A v, w \in Worker : Runs(v, k) /\ Runs(w, k) => v = w
    /\ \A i \in 1 .. Len(tasks), w \in Worker : ~ (QueuedAt(i, k) /\ Runs(w, k))
    /\ status[k] = "submitted" <=>
         (\E i \in 1 .. Len(tasks) : QueuedAt(i, k)) \/ (\E w \in Worker : Runs(w, k))

LEMMA PlaceCounted == TypeOK /\ PlaceInv => TaskConservation
<1> SUFFICES ASSUME TypeOK, PlaceInv, NEW k \in Task
             PROVE  Cardinality(Places(k)) = IF status[k] = "submitted" THEN 1 ELSE 0
  BY DEF TaskConservation
<1>0. DOMAIN tasks = 1 .. Len(tasks)
  BY DEF TypeOK, Queue!TypeOK
<1>1. ASSUME NEW i \in 1 .. Len(tasks), QueuedAt(i, k)
      PROVE  Places(k) = {<<"queue", i>>}
  <2>1. {j \in DOMAIN tasks : tasks[j] = k} = {i}
    BY <1>0, <1>1 DEF PlaceInv, QueuedAt
  <2>2. {v \in Worker : pc[v] = "run" /\ task[v] = k} = {}
    BY <1>1 DEF PlaceInv, Runs
  <2> QED
    BY <2>1, <2>2 DEF Places
<1>2. ASSUME NEW w \in Worker, Runs(w, k)
      PROVE  Places(k) = {<<"worker", w>>}
  <2>1. {j \in DOMAIN tasks : tasks[j] = k} = {}
    BY <1>0, <1>2 DEF PlaceInv, QueuedAt
  <2>2. {v \in Worker : pc[v] = "run" /\ task[v] = k} = {w}
    BY <1>2 DEF PlaceInv, Runs
  <2> QED
    BY <2>1, <2>2 DEF Places
<1>3. ASSUME ~ \E i \in 1 .. Len(tasks) : QueuedAt(i, k),
             ~ \E w \in Worker : Runs(w, k)
      PROVE  Places(k) = {}
  <2>1. {j \in DOMAIN tasks : tasks[j] = k} = {}
    BY <1>0, <1>3 DEF QueuedAt
  <2>2. {v \in Worker : pc[v] = "run" /\ task[v] = k} = {}
    BY <1>3 DEF Runs
  <2> QED
    BY <2>1, <2>2 DEF Places
<1>4. CASE status[k] = "submitted"
  <2>1. \E p : Places(k) = {p}
    BY <1>1, <1>2, <1>4 DEF PlaceInv
  <2>2. Cardinality(Places(k)) = 1
    BY <2>1, FS_Singleton
  <2> QED
    BY <1>4, <2>2
<1>5. CASE status[k] # "submitted"
  <2>1. Places(k) = {}
    BY <1>3, <1>5 DEF PlaceInv
  <2>2. Cardinality(Places(k)) = 0
    BY <2>1, FS_EmptySet
  <2> QED
    BY <1>5, <2>2
<1> QED
  BY <1>4, <1>5

\* A step that moves no task.
LEMMA PlaceKept ==
  ASSUME PlaceInv, UNCHANGED <<tasks, task, status>>,
         \A w \in Worker : pc'[w] = "run" <=> pc[w] = "run"
  PROVE  PlaceInv'
  BY DEF PlaceInv, QueuedAt, Runs

\* A noop is queued: no client task moves.
LEMMA PlaceNoop ==
  ASSUME TypeOK, PlaceInv, tasks' = Append(tasks, Noop), UNCHANGED <<pc, task, status>>
  PROVE  PlaceInv'
<1>1. /\ Len(tasks) \in Nat /\ Len(tasks') = Len(tasks) + 1
      /\ \A i \in 1 .. Len(tasks) : tasks'[i] = tasks[i]
      /\ tasks'[Len(tasks) + 1] = Noop
  BY DEF TypeOK, Queue!TypeOK
<1>2. \A k \in Task : \A i : QueuedAt(i, k)' <=> QueuedAt(i, k)
  BY <1>1, TaskAssumption DEF QueuedAt
<1>3. \A k \in Task, w \in Worker : Runs(w, k)' <=> Runs(w, k)
  BY DEF Runs
<1>4. 1 .. Len(tasks) \subseteq 1 .. Len(tasks')
  BY <1>1
<1> QED
  BY <1>2, <1>3, <1>4 DEF PlaceInv, QueuedAt

\* A client's task is queued for the first time.
LEMMA PlaceSubmit ==
  ASSUME TypeOK, PlaceInv, NEW k \in Task, Submit(k) PROVE PlaceInv'
<1>1. /\ Len(tasks) \in Nat /\ Len(tasks') = Len(tasks) + 1
      /\ \A i \in 1 .. Len(tasks) : tasks'[i] = tasks[i]
      /\ tasks'[Len(tasks) + 1] = k
  BY DEF TypeOK, Queue!TypeOK, Submit, Queue!Add
<1>2. \A l \in Task, w \in Worker : Runs(w, l)' <=> Runs(w, l)
  BY DEF Runs, Submit
<1>3. \A l \in Task : \A i : QueuedAt(i, l)' <=> QueuedAt(i, l) \/ (l = k /\ i = Len(tasks) + 1)
  BY <1>1 DEF QueuedAt
<1>4. status[k] = "new" /\ status' = [status EXCEPT ![k] = "submitted"]
  BY DEF Submit
<1>5. status'[k] = "submitted" /\ \A l \in Task \ {k} : status'[l] = status[l]
  BY <1>4 DEF TypeOK
<1>6. 1 .. Len(tasks) \subseteq 1 .. Len(tasks') /\ Len(tasks) + 1 \in 1 .. Len(tasks')
  BY <1>1
<1>7. ASSUME NEW l \in Task \ {k}
      PROVE  /\ \A i, j \in 1 .. Len(tasks') : QueuedAt(i, l)' /\ QueuedAt(j, l)' => i = j
             /\ \A v, w \in Worker : Runs(v, l)' /\ Runs(w, l)' => v = w
             /\ \A i \in 1 .. Len(tasks'), w \in Worker : ~ (QueuedAt(i, l)' /\ Runs(w, l)')
             /\ status'[l] = "submitted" <=>
                  \/ \E i \in 1 .. Len(tasks') : QueuedAt(i, l)'
                  \/ \E w \in Worker : Runs(w, l)'
  BY <1>2, <1>3, <1>5, <1>6 DEF PlaceInv, QueuedAt
<1>8. /\ \A i, j \in 1 .. Len(tasks') : QueuedAt(i, k)' /\ QueuedAt(j, k)' => i = j
      /\ \A v, w \in Worker : Runs(v, k)' /\ Runs(w, k)' => v = w
      /\ \A i \in 1 .. Len(tasks'), w \in Worker : ~ (QueuedAt(i, k)' /\ Runs(w, k)')
      /\ status'[k] = "submitted" <=>
           \/ \E i \in 1 .. Len(tasks') : QueuedAt(i, k)'
           \/ \E w \in Worker : Runs(w, k)'
  <2>1. (\A i \in 1 .. Len(tasks) : ~ QueuedAt(i, k)) /\ \A w \in Worker : ~ Runs(w, k)
    BY <1>4 DEF PlaceInv
  <2>2. \A i : ~ QueuedAt(i, k)
    BY <2>1 DEF QueuedAt
  <2> QED
    BY <1>2, <1>3, <1>5, <1>6, <2>1, <2>2
<1> QED
  BY <1>7, <1>8 DEF PlaceInv

\* The task at the front goes from the queue to the worker that takes it.
LEMMA PlaceTake ==
  ASSUME TypeOK, PlaceInv, NEW w \in Worker, TakeTask(w) PROVE PlaceInv'
<1>1. /\ Len(tasks) \in Nat \ {0} /\ Len(tasks') = Len(tasks) - 1
      /\ \A i \in 1 .. Len(tasks') : tasks'[i] = tasks[i + 1]
      /\ Head(tasks) = tasks[1]
  BY DEF TypeOK, Queue!TypeOK, TakeTask, Queue!TakePop, Queue!PopLeaving
<1>2. pc[w] = "take"
  BY DEF TakeTask, TypeOK, Queue!TakePop, Queue!PopLeaving
<1>3. /\ task' = [task EXCEPT ![w] = Head(tasks)] /\ pc' = [pc EXCEPT ![w] = "run"]
      /\ UNCHANGED status
  BY DEF TakeTask
<1>4. \A k \in Task : \A i : QueuedAt(i, k)' <=> i \in 1 .. Len(tasks') /\ QueuedAt(i + 1, k)
  BY <1>1 DEF QueuedAt
<1>5. /\ \A k \in Task : Runs(w, k)' <=> QueuedAt(1, k)
      /\ \A k \in Task : ~ Runs(w, k)
      /\ \A k \in Task, v \in Worker \ {w} : Runs(v, k)' <=> Runs(v, k)
  BY <1>1, <1>2, <1>3 DEF Runs, QueuedAt, TypeOK
<1>6. \A i \in 1 .. Len(tasks) : i = 1 \/ i - 1 \in 1 .. Len(tasks')
  BY <1>1
<1>7. \A i \in 1 .. Len(tasks') : i + 1 \in 1 .. Len(tasks) /\ i + 1 # 1
  BY <1>1
<1> SUFFICES ASSUME NEW k \in Task
             PROVE  /\ \A i, j \in 1 .. Len(tasks') : QueuedAt(i, k)' /\ QueuedAt(j, k)' => i = j
                    /\ \A u, v \in Worker : Runs(u, k)' /\ Runs(v, k)' => u = v
                    /\ \A i \in 1 .. Len(tasks'), v \in Worker : ~ (QueuedAt(i, k)' /\ Runs(v, k)')
                    /\ status'[k] = "submitted" <=>
                         \/ \E i \in 1 .. Len(tasks') : QueuedAt(i, k)'
                         \/ \E v \in Worker : Runs(v, k)'
  BY DEF PlaceInv
<1>8. ASSUME NEW i \in 1 .. Len(tasks'), NEW j \in 1 .. Len(tasks'),
             QueuedAt(i, k)', QueuedAt(j, k)'
      PROVE  i = j
  <2>1. QueuedAt(i + 1, k) /\ QueuedAt(j + 1, k)
    BY <1>4, <1>8
  <2>2. i + 1 = j + 1
    BY <1>7, <2>1 DEF PlaceInv
  <2> QED
    BY <1>1, <2>2
<1>9. 1 \in 1 .. Len(tasks)
  BY <1>1
<1>10. ASSUME NEW u \in Worker, NEW v \in Worker, Runs(u, k)', Runs(v, k)' PROVE u = v
  BY <1>5, <1>9, <1>10 DEF PlaceInv
<1>11. ASSUME NEW i \in 1 .. Len(tasks'), NEW v \in Worker, QueuedAt(i, k)', Runs(v, k)'
       PROVE  FALSE
  <2>1. QueuedAt(i + 1, k)
    BY <1>4, <1>11
  <2> QED
    BY <1>5, <1>7, <1>9, <1>11, <2>1 DEF PlaceInv
<1>12. (\E i \in 1 .. Len(tasks) : QueuedAt(i, k)) <=>
         QueuedAt(1, k) \/ \E i \in 1 .. Len(tasks') : QueuedAt(i, k)'
  <2>1. ASSUME NEW i \in 1 .. Len(tasks), QueuedAt(i, k), i # 1
        PROVE  i - 1 \in 1 .. Len(tasks') /\ QueuedAt(i - 1, k)'
    <3>1. i - 1 \in 1 .. Len(tasks') /\ (i - 1) + 1 = i
      BY <1>1, <1>6, <2>1
    <3> QED
      BY <1>4, <2>1, <3>1
  <2> QED
    BY <1>4, <1>7, <1>9, <2>1
<1>13. status'[k] = "submitted" <=>
         \/ \E i \in 1 .. Len(tasks') : QueuedAt(i, k)'
         \/ \E v \in Worker : Runs(v, k)'
  BY <1>3, <1>5, <1>12 DEF PlaceInv
<1> QED
  BY <1>8, <1>10, <1>11, <1>13

\* The task a worker runs is done: it had no other place.
LEMMA PlaceReturns ==
  ASSUME TypeOK, PlaceInv, NEW w \in Worker, TaskReturns(w) PROVE PlaceInv'
<1>1. /\ pc[w] = "run" /\ UNCHANGED <<tasks, task>>
      /\ pc' = [pc EXCEPT ![w] = "loop"]
      /\ status' = [k \in Task |-> IF k = task[w] THEN "done" ELSE status[k]]
  BY DEF TaskReturns, TaskAtEnd, queueVars
<1>2. /\ \A k \in Task : ~ Runs(w, k)'
      /\ \A k \in Task, v \in Worker \ {w} : Runs(v, k)' <=> Runs(v, k)
      /\ \A k \in Task : \A i : QueuedAt(i, k)' <=> QueuedAt(i, k)
  BY <1>1 DEF Runs, QueuedAt, TypeOK
<1>3. \A k \in Task : Runs(w, k) <=> k = task[w]
  BY <1>1 DEF Runs
<1>4. \A k \in Task : status'[k] = "submitted" <=> status[k] = "submitted" /\ k # task[w]
  BY <1>1
<1>5. Len(tasks') = Len(tasks)
  BY <1>1
<1> QED
  BY <1>2, <1>3, <1>4, <1>5 DEF PlaceInv

LEMMA PlaceInductive == TypeOK /\ PlaceInv /\ [Next]_vars => PlaceInv'
<1> SUFFICES ASSUME TypeOK, PlaceInv, [Next]_vars PROVE PlaceInv'
  OBVIOUS
<1> USE DEF workerVars, closerVars, queueVars
<1>1. CASE UNCHANGED vars
  BY <1>1, PlaceKept DEF vars
<1>2. ASSUME NEW w \in Worker, WorkerStep(w) \/ SpuriousWakeup(w) PROVE PlaceInv'
  <2>1. CASE LoopCheck(w)
    <3>1. UNCHANGED <<tasks, task, status>>
      BY <2>1 DEF LoopCheck, Queue!TakeBegin
    <3>2. \A v \in Worker : pc'[v] = "run" <=> pc[v] = "run"
      BY <2>1 DEF LoopCheck, TypeOK
    <3> QED
      BY <3>1, <3>2, PlaceKept
  <2>2. CASE TakeBlock(w)
    BY <2>2, PlaceKept DEF TakeBlock, Queue!TakeBlock
  <2>3. CASE SpuriousWakeup(w)
    BY <2>3, PlaceKept DEF SpuriousWakeup, Queue!SpuriousWakeup
  <2>4. CASE TakeTask(w)
    BY <2>4, PlaceTake
  <2>5. CASE TaskReturns(w)
    BY <2>5, PlaceReturns
  <2>6. CASE TaskThrows(w)
    BY <2>6, PlaceKept DEF TaskThrows
  <2>7. CASE ShutdownCheck(w)
    BY <2>7, PlaceKept DEF ShutdownCheck
  <2> QED
    BY <1>2, <2>1, <2>2, <2>3, <2>4, <2>5, <2>6, <2>7 DEF WorkerStep
<1>3. ASSUME NEW c \in Closers, PollHasWork(c) \/ ShutdownCheck(c) PROVE PlaceInv'
  BY <1>3, PlaceKept DEF PollHasWork, ShutdownCheck
<1>4. ASSUME NEW c \in Caller, ShutdownStep(c) PROVE PlaceInv'
  <2>1. CASE ShutdownLower(c)
    BY <2>1, PlaceKept DEF ShutdownLower
  <2>2. CASE ShutdownSubmit(c)
    <3>1. UNCHANGED <<pc, task, status>> /\ (tasks' = tasks \/ tasks' = Append(tasks, Noop))
      BY <2>2 DEF ShutdownSubmit, SubmitNoops, Queue!Add
    <3> QED
      BY <3>1, PlaceKept, PlaceNoop
  <2>3. CASE ShutdownJoin(c)
    BY <2>3, PlaceKept DEF ShutdownJoin, JoinThreads
  <2>4. CASE ShutdownJoinFails(c)
    BY <2>4, PlaceKept DEF ShutdownJoinFails
  <2> QED
    BY <1>4, <2>1, <2>2, <2>3, <2>4 DEF ShutdownStep
<1> QED
  BY <1>1, <1>2, <1>3, <1>4, PlaceSubmit DEF Next

LEMMA PlaceInvariant == Spec => []PlaceInv
<1>1. Init => PlaceInv
  <2> SUFFICES ASSUME Init PROVE PlaceInv
    OBVIOUS
  <2>1. Len(tasks) = 0 /\ \A k \in Task : status[k] = "new"
    BY DEF Init, Queue!Init
  <2>2. \A k \in Task, w \in Worker : ~ Runs(w, k)
    BY DEF Init, Runs
  <2> QED
    BY <2>1, <2>2 DEF PlaceInv
<1> QED
  BY <1>1, PlaceInductive, TypeCorrect, PTL DEF Spec

(***************************************************************************)
(* For every number of workers and tasks: a submitted task stands in the   *)
(* queue once or is run by one worker until it is done, so none is lost on *)
(* its way or run twice.                                                   *)
(***************************************************************************)
THEOREM TasksConserved == Spec => []TaskConservation
  BY PlaceInvariant, PlaceCounted, TypeCorrect, PTL

-----------------------------------------------------------------------------
\* While a caller is in `drained`, only noops are queued.
DrainInv == drained # {} => \A i \in 1 .. Len(tasks) : tasks[i] = Noop

LEMMA DrainInductive == TypeOK /\ DrainInv /\ [Next]_vars => DrainInv'
<1> SUFFICES ASSUME TypeOK, DrainInv, [Next]_vars PROVE DrainInv'
  OBVIOUS
<1> USE DEF workerVars, closerVars, queueVars
<1>1. CASE UNCHANGED <<tasks, drained>>
  BY <1>1 DEF DrainInv
<1>2. ASSUME NEW w \in Worker, TakeTask(w) PROVE DrainInv'
  <2>1. /\ Len(tasks) \in Nat \ {0} /\ Len(tasks') = Len(tasks) - 1
        /\ \A i \in 1 .. Len(tasks') : tasks'[i] = tasks[i + 1]
    BY <1>2 DEF TypeOK, Queue!TypeOK, TakeTask, Queue!TakePop, Queue!PopLeaving
  <2>2. \A i \in 1 .. Len(tasks') : i + 1 \in 1 .. Len(tasks)
    BY <2>1
  <2>3. drained' = drained
    BY <1>2 DEF TakeTask
  <2> QED
    BY <2>1, <2>2, <2>3 DEF DrainInv
<1>3. ASSUME NEW c \in Caller, ShutdownSubmit(c) PROVE DrainInv'
  <2>1. drained' = drained /\ (tasks' = tasks \/ tasks' = Append(tasks, Noop))
    BY <1>3 DEF ShutdownSubmit, SubmitNoops, Queue!Add
  <2>2. ASSUME tasks' = Append(tasks, Noop)
        PROVE  /\ Len(tasks) \in Nat /\ Len(tasks') = Len(tasks) + 1
               /\ \A i \in 1 .. Len(tasks) : tasks'[i] = tasks[i]
               /\ tasks'[Len(tasks) + 1] = Noop
    BY <2>2 DEF TypeOK, Queue!TypeOK
  <2> QED
    BY <2>1, <2>2 DEF DrainInv
<1>4. ASSUME NEW k \in Task, Submit(k) PROVE DrainInv'
  BY <1>4 DEF Submit, DrainInv
<1>5. ASSUME NEW c \in Closers, PollHasWork(c) PROVE DrainInv'
  <2>1. tasks = <<>> /\ tasks' = tasks
    BY <1>5 DEF PollHasWork, Queue!HasWork
  <2>2. Len(tasks') = 0
    BY <2>1
  <2> QED
    BY <2>2 DEF DrainInv
<1>6. ASSUME NEW w \in Worker, WorkerStep(w) \/ SpuriousWakeup(w) PROVE DrainInv'
  <2>1. TakeTask(w) \/ UNCHANGED <<tasks, drained>>
    BY <1>6
    DEF WorkerStep, SpuriousWakeup, LoopCheck, TakeBlock, TaskReturns, TaskThrows,
        ShutdownCheck, Queue!TakeBegin, Queue!TakeBlock, Queue!SpuriousWakeup
  <2> QED
    BY <1>1, <1>2, <2>1
<1>7. ASSUME NEW c \in Closers, ShutdownCheck(c) PROVE DrainInv'
  BY <1>1, <1>7 DEF ShutdownCheck
<1>8. ASSUME NEW c \in Caller, ShutdownStep(c) PROVE DrainInv'
  <2>1. ShutdownSubmit(c) \/ UNCHANGED <<tasks, drained>>
    BY <1>8 DEF ShutdownStep, ShutdownLower, ShutdownJoin, JoinThreads, ShutdownJoinFails
  <2> QED
    BY <1>1, <1>3, <1>8, <2>1
<1> QED
  BY <1>1, <1>4, <1>5, <1>6, <1>7, <1>8 DEF Next, vars

LEMMA DrainInvariant == Spec => []DrainInv
<1>1. Init => DrainInv
  BY DEF Init, DrainInv
<1> QED
  BY <1>1, DrainInductive, TypeCorrect, PTL DEF Spec

(***************************************************************************)
(* For every number of workers and tasks: once the Shutdown() of a caller  *)
(* that saw the queue empty has returned, no submitted task is left        *)
(* undone, for the queue held only noops and every worker has stopped.     *)
(***************************************************************************)
THEOREM DrainedLosesNothing == Spec => []DrainedShutdownFinishes
<1>1. PoolInv /\ PlaceInv /\ DrainInv => DrainedShutdownFinishes
  <2> SUFFICES ASSUME PoolInv, PlaceInv, DrainInv,
                      NEW c \in drained, cpc[c] = "returned", NEW k \in Task
               PROVE  status[k] # "submitted"
    BY DEF DrainedShutdownFinishes
  <2>1. c \in Caller
    BY DEF PoolInv, TypeOK, Caller
  <2>2. \A w \in Worker : pc[w] = "exited"
    BY <2>1, NumThreadsAssumption DEF PoolInv, JoinInv, Worker
  <2>3. \A i \in 1 .. Len(tasks) : ~ QueuedAt(i, k)
    BY TaskAssumption DEF DrainInv, QueuedAt
  <2> QED
    BY <2>2, <2>3 DEF PlaceInv, Runs
<1> QED
  BY <1>1, PoolInductive, PlaceInvariant, DrainInvariant, PTL
=============================================================================
