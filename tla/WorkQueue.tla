------------------------------ MODULE WorkQueue ------------------------------
(***************************************************************************)
(* The queue between submitters and workers (src/src/WorkQueue.h): a       *)
(* std::queue, a mutex and a condition variable.  Every access to the      *)
(* queue is inside a critical section of tasksMutex, so a critical section *)
(* is one step; the one place where Take() gives the mutex up and asks for *)
(* it again, the wait, separates two of them.  A notified thread has to    *)
(* compete for the mutex with threads that have just called Take().        *)
(***************************************************************************)
EXTENDS Sequences

CONSTANTS Takers,  \* threads that call Take()
          Item     \* what is queued

VARIABLES tasks,    \* the std::queue
          awake,    \* threads in Take() that compete for the mutex
          waiting   \* threads in Take() blocked on tasksCondVar

queueVars == <<tasks, awake, waiting>>

Init ==
  /\ tasks = <<>>
  /\ awake = {}
  /\ waiting = {}

\* notify_one: one waiting thread, if there is any, becomes awake.
NotifyOne ==
  \/ waiting = {} /\ UNCHANGED <<awake, waiting>>
  \/ \E t \in waiting : waiting' = waiting \ {t} /\ awake' = awake \cup {t}

\* Mutation: only the item that ends an empty queue is announced.
AddNotifyIfEmpty(x) ==
  /\ tasks' = Append(tasks, x)
  /\ IF tasks = <<>> THEN NotifyOne ELSE UNCHANGED <<awake, waiting>>

\* Mutation: nobody is notified.
AddSilent(x) ==
  /\ tasks' = Append(tasks, x)
  /\ UNCHANGED <<awake, waiting>>

Add(x) ==
  /\ tasks' = Append(tasks, x)
  /\ NotifyOne

\* Take() is called.
TakeBegin(t) ==
  /\ t \notin awake \cup waiting
  /\ awake' = awake \cup {t}
  /\ UNCHANGED <<tasks, waiting>>

\* The predicate is false: the thread releases the mutex and blocks.
TakeBlock(t) ==
  /\ t \in awake
  /\ tasks = <<>>
  /\ awake' = awake \ {t}
  /\ waiting' = waiting \cup {t}
  /\ UNCHANGED tasks

\* A waiting thread wakes although nobody notified it.
SpuriousWakeup(t) ==
  /\ t \in waiting
  /\ waiting' = waiting \ {t}
  /\ awake' = awake \cup {t}
  /\ UNCHANGED tasks

\* The predicate is true: Take() answers Head(tasks), and `rest` is what it leaves.
PopLeaving(t, rest) ==
  /\ t \in awake
  /\ tasks # <<>>
  /\ tasks' = rest
  /\ awake' = awake \ {t}
  /\ UNCHANGED waiting

\* Mutation: the item stays at the front of the queue.
TakePopKeeps(t) == PopLeaving(t, tasks)

TakePop(t) == PopLeaving(t, Tail(tasks))

HasWork == tasks # <<>>

-----------------------------------------------------------------------------
(***************************************************************************)
(* Type invariant: no thread is blocked and awake at once.                 *)
(***************************************************************************)
TypeOK ==
  /\ tasks \in Seq(Item)
  /\ awake \subseteq Takers
  /\ waiting \subseteq Takers
  /\ awake \cap waiting = {}
=============================================================================
