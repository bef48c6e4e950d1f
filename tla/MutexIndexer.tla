---------------------------- MODULE MutexIndexer ----------------------------
(***************************************************************************)
(* The default indexer of an object pool (src/src/MutexIndexer.h): the     *)
(* vector `indices` used as a stack, `indexPos` its top, a std::mutex held *)
(* by a lock_guard for the whole of Next() and Return().  Each access to   *)
(* the shared members is a step of its own, so the mutex and not the       *)
(* granularity of the model is what keeps two calls apart.                 *)
(*                                                                         *)
(* Callers obey the rule the header states: they return only what they     *)
(* hold, once.                                                             *)
(***************************************************************************)
EXTENDS Integers, FiniteSets, IndexHolder

CONSTANTS Threads,   \* callers
          PoolSize,  \* maxSize given to the constructor
          NoThread   \* value of an unlocked mutex

ASSUME PoolSizeAssumption == PoolSize \in Nat
ASSUME NoThreadAssumption == NoThread \notin Threads

VARIABLES mutex,     \* the thread inside the lock_guard's scope, or NoThread
          indices,   \* the vector
          indexPos,  \* the next position to hand out
          pc,        \* pc[t]: where t is in the call it is making
          index,     \* index[t]: the local of Next(), the parameter of Return()
          held,      \* held[t]: indices t took and has not returned
          holder     \* holder[t]: what the last Next() of t answered

vars == <<mutex, indices, indexPos, pc, index, held, holder>>

Index == 0 .. PoolSize - 1

\* The positions of the vector from p up, those not handed out when indexPos = p.
From(p) == p .. PoolSize - 1

Labels == {"idle", "nextCheck", "nextInc", "nextUnlock", "retDec", "retStore"}

Init ==
  /\ mutex = NoThread
  /\ indices = [k \in Index |-> k]
  /\ indexPos = 0
  /\ pc = [t \in Threads |-> "idle"]
  /\ index = [t \in Threads |-> 0]
  /\ held = [t \in Threads |-> {}]
  /\ holder = [t \in Threads |-> EmptyHolder]

Goto(t, l) == pc' = [pc EXCEPT ![t] = l]

\* Mutation: Next() does not take the mutex.
NextLockUnguarded(t) ==
  /\ pc[t] = "idle"
  /\ mutex' = t
  /\ Goto(t, "nextCheck")
  /\ UNCHANGED <<indices, indexPos, index, held, holder>>

\* Next(): the lock_guard is constructed.
NextLock(t) ==
  /\ pc[t] = "idle"
  /\ mutex = NoThread
  /\ mutex' = t
  /\ Goto(t, "nextCheck")
  /\ UNCHANGED <<indices, indexPos, index, held, holder>>

\* Mutation: the end test is off by one, the last index is never handed out.
NextEmptyEarly(t) ==
  /\ pc[t] = "nextCheck"
  /\ indexPos >= PoolSize - 1
  /\ mutex' = NoThread
  /\ holder' = [holder EXCEPT ![t] = EmptyHolder]
  /\ Goto(t, "idle")
  /\ UNCHANGED <<indices, indexPos, index, held>>

\* Next(): every index is out; the guard unlocks on the early return.
NextEmpty(t) ==
  /\ pc[t] = "nextCheck"
  /\ indexPos = PoolSize
  /\ mutex' = NoThread
  /\ holder' = [holder EXCEPT ![t] = EmptyHolder]
  /\ Goto(t, "idle")
  /\ UNCHANGED <<indices, indexPos, index, held>>

\* Next(): index = indices[indexPos].
NextRead(t) ==
  /\ pc[t] = "nextCheck"
  /\ indexPos # PoolSize
  /\ index' = [index EXCEPT ![t] = indices[indexPos]]
  /\ Goto(t, "nextInc")
  /\ UNCHANGED <<mutex, indices, indexPos, held, holder>>

\* Mutation: indexPos is not advanced.
NextIncLost(t) ==
  /\ pc[t] = "nextInc"
  /\ Goto(t, "nextUnlock")
  /\ UNCHANGED <<mutex, indices, indexPos, index, held, holder>>

\* Next(): indexPos++.
NextInc(t) ==
  /\ pc[t] = "nextInc"
  /\ indexPos' = indexPos + 1
  /\ Goto(t, "nextUnlock")
  /\ UNCHANGED <<mutex, indices, index, held, holder>>

\* Next(): the holder is built and the guard unlocks.
NextUnlock(t) ==
  /\ pc[t] = "nextUnlock"
  /\ mutex' = NoThread
  /\ held' = [held EXCEPT ![t] = @ \cup {index[t]}]
  /\ holder' = [holder EXCEPT ![t] = HolderOf(index[t])]
  /\ Goto(t, "idle")
  /\ UNCHANGED <<indices, indexPos, index>>

\* Return(i): the lock_guard is constructed.
ReturnLock(t, i) ==
  /\ pc[t] = "idle"
  /\ i \in held[t]
  /\ mutex = NoThread
  /\ mutex' = t
  /\ index' = [index EXCEPT ![t] = i]
  /\ held' = [held EXCEPT ![t] = @ \ {i}]
  /\ Goto(t, "retDec")
  /\ UNCHANGED <<indices, indexPos, holder>>

\* Return(i): indexPos--.
ReturnDec(t) ==
  /\ pc[t] = "retDec"
  /\ indexPos' = indexPos - 1
  /\ Goto(t, "retStore")
  /\ UNCHANGED <<mutex, indices, index, held, holder>>

\* Mutation: the index is stored one position too high.
ReturnStoreHigh(t) ==
  /\ pc[t] = "retStore"
  /\ indices' = [indices EXCEPT ![indexPos + 1] = index[t]]
  /\ mutex' = NoThread
  /\ Goto(t, "idle")
  /\ UNCHANGED <<indexPos, index, held, holder>>

\* Return(i): indices[indexPos] = index, and the guard unlocks.
ReturnStore(t) ==
  /\ pc[t] = "retStore"
  /\ indices' = [indices EXCEPT ![indexPos] = index[t]]
  /\ mutex' = NoThread
  /\ Goto(t, "idle")
  /\ UNCHANGED <<indexPos, index, held, holder>>

Next ==
  \E t \in Threads :
    \/ NextLock(t)
    \/ NextEmpty(t)
    \/ NextRead(t)
    \/ NextInc(t)
    \/ NextUnlock(t)
    \/ \E i \in held[t] : ReturnLock(t, i)
    \/ ReturnDec(t)
    \/ ReturnStore(t)

Spec == Init /\ [][Next]_vars

-----------------------------------------------------------------------------
\* The indices t accounts for: those its client holds and, while a call of t
\* is between the two ends of its critical section, the one being moved.
Mine(t) ==
  held[t] \cup
    IF pc[t] \in {"nextUnlock", "retDec", "retStore"} THEN {index[t]} ELSE {}

Out == {i \in Index : \E t \in Threads : i \in Mine(t)}

\* The bottom of the stack's live part.  Between the two writes of Return() the
\* position has moved down but the index is not stored yet.
LivePos ==
  IF \E t \in Threads : pc[t] = "retStore" THEN indexPos + 1 ELSE indexPos

(***************************************************************************)
(* Type invariant: indexPos stays in 0..PoolSize, so the size_t of         *)
(* Return()'s decrement never wraps below zero and every access to the     *)
(* vector is inside it.                                                    *)
(***************************************************************************)
TypeOK ==
  /\ mutex \in Threads \cup {NoThread}
  /\ indices \in [Index -> Index]
  /\ indexPos \in 0 .. PoolSize
  /\ pc \in [Threads -> Labels]
  /\ index \in [Threads -> Nat]
  /\ held \in [Threads -> SUBSET Index]
  /\ holder \in [Threads -> HoldersOver(Index)]

\* A thread between the two ends of a critical section owns the mutex.
LockInv == \A t \in Threads : pc[t] # "idle" <=> mutex = t

\* The live part of the stack holds no index twice and none that is out.
StackInv ==
  /\ \A j, k \in From(LivePos) : indices[j] = indices[k] => j = k
  /\ \A k \in From(LivePos) : indices[k] \notin Out

\* What a call carries in its local between two steps.
LocalInv ==
  \A t \in Threads :
    /\ pc[t] = "nextInc" => indexPos < PoolSize /\ index[t] = indices[indexPos]
    /\ pc[t] \in {"nextUnlock", "retDec", "retStore"} =>
         index[t] \in Index /\ index[t] \notin held[t]

(***************************************************************************)
(* No index is ever with two callers: Next() never hands out an index that *)
(* another thread took and has not given back, whatever calls of Next()    *)
(* and Return() overlap.                                                   *)
(***************************************************************************)
Exclusive == \A t, u \in Threads : t # u => Mine(t) \cap Mine(u) = {}

(***************************************************************************)
(* The position counts the indices that are out: none is lost and none is  *)
(* invented by a sequence of Next() and Return() calls.                    *)
(***************************************************************************)
Accounting == Cardinality(Out) = LivePos

IndInv ==
  TypeOK /\ LockInv /\ StackInv /\ LocalInv /\ Exclusive /\ Accounting

(***************************************************************************)
(* MutexIndexer implements the atomic index pool: a call takes effect when *)
(* its lock_guard unlocks, and Next() answers empty only when no index is  *)
(* free.  Until then an index on its way out still counts as free and one  *)
(* on its way back as held.                                                *)
(***************************************************************************)
Holds(t) == held[t] \cup IF pc[t] \in {"retDec", "retStore"} THEN {index[t]} ELSE {}

Taken == {i \in Index : \E t \in Threads : i \in Holds(t)}

Abstract == INSTANCE IndexPool WITH
  free <- Index \ Taken,
  held <- [t \in Threads |-> Holds(t)]

ImplementsIndexPool == Abstract!Spec
=============================================================================
