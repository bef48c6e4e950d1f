----------------------------- MODULE WorkerPool -----------------------------
(***************************************************************************)
(* The pool of worker threads (src/src/WorkerPool.h) with its WorkQueue:   *)
(* the loop of each worker, Submit() by clients, and Shutdown(), which     *)
(* lowers isAlive, queues one noop per worker and joins the workers in the *)
(* order of the vector `threads`.  The destructor is one more call of      *)
(* Shutdown().  Init is the state after the constructor: all threads were  *)
(* created, none has run.                                                  *)
(*                                                                         *)
(* Tasks are client code: they end, normally or with an exception, which   *)
(* leaves the thread function and so calls std::terminate.  A task may     *)
(* call Shutdown() itself, on the worker that runs it.                     *)
(***************************************************************************)
EXTENDS Naturals, Sequences, FiniteSets

CONSTANTS NumThreads,   \* threads.size()
          Task,         \* tasks clients submit, each once
          Throwing,     \* those that may end with an exception
          Closing,      \* those that may call Shutdown()
          Noop,         \* the task Shutdown() submits
          Closers,      \* client threads that call Shutdown()
          LateSubmits   \* whether clients submit once a Closer has begun

ASSUME NumThreadsAssumption == NumThreads \in Nat
ASSUME TaskAssumption ==
  Throwing \subseteq Task /\ Closing \subseteq Task /\ Noop \notin Task
ASSUME ClientAssumption == LateSubmits \in BOOLEAN

Worker == 1 .. NumThreads
Caller == Closers \cup Worker  \* the threads that may be in Shutdown()

VARIABLES tasks, awake, waiting,  \* the WorkQueue
          isAlive,
          pc,          \* pc[w]: where worker w is in startThread
          task,        \* task[w]: what w took last
          status,      \* status[k]: what became of client task k
          cpc,         \* cpc[c]: where c is in Shutdown()
          sent,        \* sent[c]: noops c has submitted
          joining,     \* joining[c]: the worker c joins next
          joined,      \* workers that were joined
          drained,     \* callers that saw HasWork() false before Shutdown() and
                       \* nobody submitted since
          terminated   \* std::terminate was called

Queue == INSTANCE WorkQueue WITH
  Takers <- Worker, Item <- Task \cup {Noop}

queueVars == <<tasks, awake, waiting>>
workerVars == <<pc, task, status>>
closerVars == <<cpc, sent, joining, joined, drained>>
vars == <<queueVars, isAlive, workerVars, closerVars, terminated>>

Init ==
  /\ Queue!Init
  /\ isAlive = TRUE
  /\ pc = [w \in Worker |-> "loop"]
  /\ task = [w \in Worker |-> Noop]
  /\ status = [k \in Task |-> "new"]
  /\ cpc = [c \in Caller |-> "idle"]
  /\ sent = [c \in Caller |-> 0]
  /\ joining = [c \in Caller |-> 1]
  /\ joined = {}
  /\ drained = {}
  /\ terminated = FALSE

-----------------------------------------------------------------------------
\* startThread.  SetThreadAffinity comes first; its result is not looked at.

\* while(isAlive): go on to Take(), or leave the thread function.
LoopCheck(w) ==
  /\ pc[w] = "loop"
  /\ \/ /\ isAlive
        /\ Queue!TakeBegin(w)
        /\ pc' = [pc EXCEPT ![w] = "take"]
     \/ /\ ~ isAlive
        /\ pc' = [pc EXCEPT ![w] = "exited"]
        /\ UNCHANGED queueVars
  /\ UNCHANGED <<isAlive, task, status, closerVars, terminated>>

TakeBlock(w) ==
  /\ Queue!TakeBlock(w)
  /\ UNCHANGED <<isAlive, workerVars, closerVars, terminated>>

SpuriousWakeup(w) ==
  /\ Queue!SpuriousWakeup(w)
  /\ UNCHANGED <<isAlive, workerVars, closerVars, terminated>>

\* Take() answers and the task begins.
TakeTask(w) ==
  /\ Queue!TakePop(w)
  /\ task' = [task EXCEPT ![w] = Head(tasks)]
  /\ pc' = [pc EXCEPT ![w] = "run"]
  /\ UNCHANGED <<isAlive, status, closerVars, terminated>>

\* A task that calls Shutdown() gets past the call only if it is turned away.
TaskAtEnd(w) == pc[w] = "run" /\ cpc[w] \in {"idle", "turnedAway"}

\* The task returns: a promise, if it has one, gets its value.
TaskReturns(w) ==
  /\ TaskAtEnd(w)
  /\ status' = [k \in Task |-> IF k = task[w] THEN "done" ELSE status[k]]
  /\ pc' = [pc EXCEPT ![w] = "loop"]
  /\ cpc' = [cpc EXCEPT ![w] = "idle"]
  /\ UNCHANGED <<queueVars, isAlive, task, sent, joining, joined, drained, terminated>>

\* The task throws: nothing between it and the thread function catches.
TaskThrows(w) ==
  /\ TaskAtEnd(w)
  /\ task[w] \in Throwing
  /\ terminated' = TRUE
  /\ UNCHANGED <<queueVars, isAlive, workerVars, closerVars>>

-----------------------------------------------------------------------------
\* Both forms of Submit().
Submit(k) ==
  /\ status[k] = "new"
  /\ LateSubmits \/ \A c \in Closers : cpc[c] = "idle"
  /\ Queue!Add(k)
  /\ status' = [status EXCEPT ![k] = "submitted"]
  /\ drained' = {}
  /\ UNCHANGED <<isAlive, pc, task, cpc, sent, joining, joined, terminated>>

\* A client polls HasWork() before it shuts the pool down, as the tests do.
PollHasWork(c) ==
  /\ cpc[c] = "idle"
  /\ ~ Queue!HasWork
  /\ drained' = drained \cup {c}
  /\ UNCHANGED <<queueVars, isAlive, workerVars, cpc, sent, joining, joined, terminated>>

-----------------------------------------------------------------------------
\* Shutdown()

\* if(!isAlive) return.
ShutdownCheck(c) ==
  /\ cpc[c] = "idle"
  /\ c \in Worker => pc[c] = "run" /\ task[c] \in Closing
  /\ cpc' = [cpc EXCEPT ![c] = IF isAlive THEN "lower" ELSE "turnedAway"]
  /\ UNCHANGED <<queueVars, isAlive, workerVars, sent, joining, joined, drained, terminated>>

ShutdownLower(c) ==
  /\ cpc[c] = "lower"
  /\ isAlive' = FALSE
  /\ cpc' = [cpc EXCEPT ![c] = "submit"]
  /\ UNCHANGED <<queueVars, workerVars, sent, joining, joined, drained, terminated>>

\* One turn of the loop that submits n noops, or its end.
SubmitNoops(c, n) ==
  /\ cpc[c] = "submit"
  /\ \/ /\ sent[c] < n
        /\ Queue!Add(Noop)
        /\ sent' = [sent EXCEPT ![c] = @ + 1]
        /\ UNCHANGED cpc
     \/ /\ sent[c] = n
        /\ cpc' = [cpc EXCEPT ![c] = "join"]
        /\ UNCHANGED <<queueVars, sent>>
  /\ UNCHANGED <<isAlive, workerVars, joining, joined, drained, terminated>>

\* Mutations: one noop too few; one too many.
ShutdownSubmitFewer(c) == SubmitNoops(c, NumThreads - 1)
ShutdownSubmitMore(c) == SubmitNoops(c, NumThreads + 1)

ShutdownSubmit(c) == SubmitNoops(c, NumThreads)

\* thread.join() returns once the thread has; after thread n Shutdown() does.
JoinThreads(c, n) ==
  /\ cpc[c] = "join"
  /\ \/ /\ joining[c] <= n
        /\ joining[c] \notin joined
        /\ pc[joining[c]] = "exited"
        /\ joined' = joined \cup {joining[c]}
        /\ joining' = [joining EXCEPT ![c] = @ + 1]
        /\ UNCHANGED cpc
     \/ /\ joining[c] > n
        /\ cpc' = [cpc EXCEPT ![c] = "returned"]
        /\ UNCHANGED <<joining, joined>>
  /\ UNCHANGED <<queueVars, isAlive, workerVars, sent, drained, terminated>>

\* Mutation: the last thread is not joined.
ShutdownJoinFewer(c) == JoinThreads(c, NumThreads - 1)

ShutdownJoin(c) == JoinThreads(c, NumThreads)

\* join() throws std::system_error for a thread that another call has joined or is
\* waiting to join, and for the calling thread itself.  In a task nobody catches it
\* and the destructor lets none out: std::terminate.  Other callers may catch it.
ShutdownJoinFails(c) ==
  /\ cpc[c] = "join"
  /\ joining[c] <= NumThreads
  /\ \/ joining[c] \in joined \cup {c}
     \/ \E d \in Caller \ {c} : cpc[d] = "join" /\ joining[d] = joining[c]
  /\ cpc' = [cpc EXCEPT ![c] = "failed"]
  /\ terminated' \in IF c \in Worker THEN {TRUE} ELSE BOOLEAN
  /\ UNCHANGED <<queueVars, isAlive, workerVars, sent, joining, joined, drained>>

-----------------------------------------------------------------------------
WorkerStep(w) ==
  \/ LoopCheck(w) \/ TakeBlock(w) \/ TakeTask(w)
  \/ ShutdownCheck(w) \/ TaskReturns(w) \/ TaskThrows(w)

ShutdownStep(c) ==
  ShutdownLower(c) \/ ShutdownSubmit(c) \/ ShutdownJoin(c) \/ ShutdownJoinFails(c)

Next ==
  /\ ~ terminated
  /\ \/ \E w \in Worker : WorkerStep(w) \/ SpuriousWakeup(w)
     \/ \E k \in Task : Submit(k)
     \/ \E c \in Closers : PollHasWork(c) \/ ShutdownCheck(c)
     \/ \E c \in Caller : ShutdownStep(c)

Spec == Init /\ [][Next]_vars

\* The system runs every worker and every call of Shutdown() that has begun; no
\* client has to submit, poll or shut down.
FairSpec ==
  /\ Spec
  /\ \A w \in Worker : WF_vars(~ terminated /\ WorkerStep(w))
  /\ \A c \in Caller : WF_vars(~ terminated /\ ShutdownStep(c))

-----------------------------------------------------------------------------
(***************************************************************************)
(* Type invariant; a worker is inside Take() exactly when the queue knows  *)
(* it as awake or waiting.                                                 *)
(***************************************************************************)
TypeOK ==
  /\ Queue!TypeOK
  /\ isAlive \in BOOLEAN
  /\ pc \in [Worker -> {"loop", "take", "run", "exited"}]
  /\ \A w \in Worker : pc[w] = "take" <=> w \in awake \cup waiting
  /\ task \in [Worker -> Task \cup {Noop}]
  /\ status \in [Task -> {"new", "submitted", "done"}]
  /\ cpc \in [Caller -> {"idle", "lower", "submit", "join", "returned", "turnedAway",
                       "failed"}]
  /\ sent \in [Caller -> 0 .. NumThreads]
  /\ joining \in [Caller -> 1 .. NumThreads + 1]
  /\ joined \subseteq Worker
  /\ drained \subseteq Closers
  /\ terminated \in BOOLEAN

\* Where task k is, once submitted: at a place of the queue or with a worker.
Places(k) ==
  {<<"queue", i>> : i \in {j \in DOMAIN tasks : tasks[j] = k}}
  \cup {<<"worker", w>> : w \in {v \in Worker : pc[v] = "run" /\ task[v] = k}}

(***************************************************************************)
(* A submitted task is in one place until it is done: queued once or run   *)
(* by one worker.  None is lost, run twice, or run after it is done.       *)
(***************************************************************************)
TaskConservation ==
  \A k \in Task : Cardinality(Places(k)) = IF status[k] = "submitted" THEN 1 ELSE 0

(***************************************************************************)
(* No wakeup is lost between Submit() and the workers: while a worker is   *)
(* blocked in Take(), at most as many tasks are queued as workers are      *)
(* already awake to take them, although a notified worker may find its     *)
(* task stolen.                                                            *)
(***************************************************************************)
NoStrandedTask == waiting # {} => Len(tasks) <= Cardinality(awake)

(***************************************************************************)
(* Every worker that will still ask the queue for a task after isAlive was *)
(* lowered finds one, counting the noops Shutdown() has yet to submit: the *)
(* one noop per thread is enough, whatever was queued before and whoever   *)
(* takes it.                                                               *)
(***************************************************************************)
NoopsSuffice ==
  \A c \in Caller :
    /\ cpc[c] = "submit" =>
         Cardinality(awake \cup waiting) <= Len(tasks) + (NumThreads - sent[c])
    /\ cpc[c] = "join" => Cardinality(awake \cup waiting) <= Len(tasks)

(***************************************************************************)
(* When a call of Shutdown() that was not turned away has returned, all    *)
(* workers have stopped: the pool's members can be destroyed and no task   *)
(* is still running.                                                       *)
(***************************************************************************)
ShutdownStopsWorkers ==
  (\E c \in Closers : cpc[c] = "returned") => \A w \in Worker : pc[w] = "exited"

(***************************************************************************)
(* When a call of Shutdown() has returned, every task submitted before it  *)
(* is done.                                                                *)
(***************************************************************************)
ShutdownFinishesTasks ==
  (\E c \in Closers : cpc[c] = "returned") => \A k \in Task : status[k] # "submitted"

(***************************************************************************)
(* A caller that saw HasWork() false, after which nobody submitted, loses  *)
(* no task when its Shutdown() has returned, although tasks that had left  *)
(* the queue may still have been running.                                  *)
(***************************************************************************)
DrainedShutdownFinishes ==
  (\E c \in drained : cpc[c] = "returned") => \A k \in Task : status[k] # "submitted"

(***************************************************************************)
(* No thread is joined by two calls of Shutdown(), so none of them ends    *)
(* with an exception.                                                      *)
(***************************************************************************)
JoinedOnce == \A c \in Closers : cpc[c] # "failed"

(***************************************************************************)
(* A call of Shutdown() comes to an end, whatever the queue held and       *)
(* wherever the workers were, unless an exception of a task or of a join   *)
(* that nobody catches brings the process down; also a call made by a      *)
(* task, which joins its own thread and so takes the process with it, but  *)
(* never hangs.                                                            *)
(***************************************************************************)
ShutdownEnds ==
  \A c \in Caller : cpc[c] = "lower" ~> (cpc[c] \in {"returned", "failed"} \/ terminated)

(***************************************************************************)
(* Once isAlive is lowered every worker leaves its loop, even when several *)
(* calls of Shutdown() overlap and one of them fails, unless an exception  *)
(* that nobody catches brings the process down.                            *)
(***************************************************************************)
WorkersStop == ~ isAlive ~> ((\A w \in Worker : pc[w] = "exited") \/ terminated)

(***************************************************************************)
(* A submitted task is done in the end unless the pool is shut down first  *)
(* or an exception that nobody catches brings the process down.            *)
(***************************************************************************)
TasksRun ==
  \A k \in Task :
    status[k] = "submitted" ~> (status[k] = "done" \/ ~ isAlive \/ terminated)
=============================================================================
