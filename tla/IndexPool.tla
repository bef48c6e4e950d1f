----------------------------- MODULE IndexPool -----------------------------
(***************************************************************************)
(* What an indexer promises to the object pool: a set of free indices from *)
(* which Next() atomically moves one to the caller, or answers with an     *)
(* empty holder when none is free, and into which Return() puts one back.  *)
(* MutexIndexer implements Spec; ConcurrentIndexer, inside the limits the  *)
(* README describes, implements WeakSpec, in which Next() may also come    *)
(* back empty while indices are free.                                      *)
(***************************************************************************)
EXTENDS IndexHolder

CONSTANTS Threads,   \* callers of the indexer
          PoolSize   \* number of indices it was built with

VARIABLES free,      \* indices nobody holds
          held,      \* held[t]: indices thread t took and has not returned
          holder     \* holder[t]: what the last Next() of t answered

vars == <<free, held, holder>>

Index == 0 .. PoolSize - 1

Init ==
  /\ free = Index
  /\ held = [t \in Threads |-> {}]
  /\ holder = [t \in Threads |-> EmptyHolder]

NextIndex(t) ==
  \E i \in free :
    /\ free' = free \ {i}
    /\ held' = [held EXCEPT ![t] = @ \cup {i}]
    /\ holder' = [holder EXCEPT ![t] = HolderOf(i)]

NextEmpty(t) ==
  /\ free = {}
  /\ holder' = [holder EXCEPT ![t] = EmptyHolder]
  /\ UNCHANGED <<free, held>>

\* Next() answers empty whatever is free: allowed by WeakSpec only.
NextMiss(t) ==
  /\ holder' = [holder EXCEPT ![t] = EmptyHolder]
  /\ UNCHANGED <<free, held>>

ReturnIndex(t, i) ==
  /\ i \in held[t]
  /\ held' = [held EXCEPT ![t] = @ \ {i}]
  /\ free' = free \cup {i}
  /\ UNCHANGED holder

Next ==
  \E t \in Threads :
    \/ NextIndex(t)
    \/ NextEmpty(t)
    \/ \E i \in held[t] : ReturnIndex(t, i)

WeakNext == Next \/ \E t \in Threads : NextMiss(t)

Spec == Init /\ [][Next]_vars

WeakSpec == Init /\ [][WeakNext]_vars
=============================================================================
