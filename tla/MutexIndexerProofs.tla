------------------------- MODULE MutexIndexerProofs -------------------------
(***************************************************************************)
(* Proofs that MutexIndexer keeps its inductive invariant for every number *)
(* of threads and every pool size.                                         *)
(***************************************************************************)
EXTENDS MutexIndexer, FiniteSetTheorems, TLAPS

\* The initial vector is the identity, nothing is out and nobody is in a call.
LEMMA InitIndInv == Init => IndInv
<1> SUFFICES ASSUME Init PROVE IndInv
  OBVIOUS
<1> USE PoolSizeAssumption, NoThreadAssumption
<1>1. TypeOK
  BY DEF Init, TypeOK, Index, Labels, HoldersOver
<1>2. Out = {}
  BY DEF Init, Out, Mine
<1>3. LivePos = 0
  BY DEF Init, LivePos
<1>4. LockInv
  BY DEF Init, LockInv
<1>5. StackInv
  BY <1>2, <1>3 DEF Init, StackInv, From, Index
<1>6. LocalInv
  BY DEF Init, LocalInv
<1>7. Exclusive
  BY DEF Init, Exclusive, Mine
<1>8. Accounting
  BY <1>2, <1>3, FS_EmptySet DEF Accounting
<1> QED
  BY <1>1, <1>4, <1>5, <1>6, <1>7, <1>8 DEF IndInv

\* At most one thread is inside a critical section, and LivePos is indexPos
\* unless that thread is between the two writes of Return().
LEMMA OneInside ==
  ASSUME TypeOK, LockInv, NEW t \in Threads
  PROVE  /\ pc[t] # "idle" => \A u \in Threads : u # t => pc[u] = "idle"
         /\ mutex = NoThread => \A u \in Threads : pc[u] = "idle"
         /\ pc[t] = "retStore" => LivePos = indexPos + 1
         /\ pc[t] \notin {"idle", "retStore"} => LivePos = indexPos
         /\ mutex = NoThread => LivePos = indexPos
  BY NoThreadAssumption DEF LockInv, LivePos, TypeOK

\* The indices that are out form a finite set.
LEMMA OutFinite == IsFiniteSet(Out)
<1>1. IsFiniteSet(Index)
  BY FS_Interval, PoolSizeAssumption DEF Index
<1>2. Out \subseteq Index
  BY DEF Out
<1> QED
  BY <1>1, <1>2, FS_Subset

\* A step that moves neither an index nor the live part of the stack keeps the
\* parts of the invariant that speak of them.
LEMMA SameStack ==
  ASSUME IndInv, indices' = indices, LivePos' = LivePos,
         \A t \in Threads : Mine(t)' = Mine(t)
  PROVE  StackInv' /\ Exclusive' /\ Accounting'
<1>1. Out' = Out
  BY DEF Out
<1>2. From(LivePos)' = From(LivePos)
  BY DEF From
<1>3. StackInv'
  BY <1>1, <1>2 DEF IndInv, StackInv
<1>4. Exclusive'
  BY DEF IndInv, Exclusive
<1>5. Accounting'
  BY <1>1 DEF IndInv, Accounting
<1> QED
  BY <1>3, <1>4, <1>5

\* Taking the mutex in Next() keeps the invariant.
LEMMA NextLockInv == ASSUME IndInv, NEW t \in Threads, NextLock(t) PROVE IndInv'
<1> USE DEF IndInv
<1>1. TypeOK'
  BY DEF TypeOK, NextLock, Goto, Labels
<1>2. LockInv'
  BY NoThreadAssumption DEF TypeOK, LockInv, NextLock, Goto
<1>3. LocalInv'
  BY OneInside DEF TypeOK, LocalInv, NextLock, Goto
<1>4. \A u \in Threads : Mine(u)' = Mine(u)
  BY DEF TypeOK, Mine, NextLock, Goto
<1>5. LivePos' = LivePos
  BY OneInside DEF TypeOK, LivePos, NextLock, Goto
<1>6. indices' = indices
  BY DEF NextLock
<1> QED
  BY <1>1, <1>2, <1>3, <1>4, <1>5, <1>6, SameStack

\* The early return of Next() keeps the invariant.
LEMMA NextEmptyInv == ASSUME IndInv, NEW t \in Threads, NextEmpty(t) PROVE IndInv'
<1> USE DEF IndInv
<1>1. TypeOK'
  BY DEF TypeOK, NextEmpty, Goto, Labels, HoldersOver
<1>2. LockInv'
  BY NoThreadAssumption DEF TypeOK, LockInv, NextEmpty, Goto
<1>3. LocalInv'
  BY OneInside DEF TypeOK, LocalInv, NextEmpty, Goto
<1>4. \A u \in Threads : Mine(u)' = Mine(u)
  BY DEF TypeOK, Mine, NextEmpty, Goto
<1>5. LivePos' = LivePos
  BY OneInside DEF TypeOK, LivePos, NextEmpty, Goto
<1>6. indices' = indices
  BY DEF NextEmpty
<1> QED
  BY <1>1, <1>2, <1>3, <1>4, <1>5, <1>6, SameStack

\* Reading the vector inside its bounds keeps the invariant.
LEMMA NextReadInv == ASSUME IndInv, NEW t \in Threads, NextRead(t) PROVE IndInv'
<1> USE DEF IndInv
<1>1. indexPos \in Index /\ indices[indexPos] \in Index
  BY PoolSizeAssumption DEF TypeOK, NextRead, Index
<1>2. TypeOK'
  <2>1. indices[indexPos] \in Nat
    BY <1>1, PoolSizeAssumption DEF Index
  <2> QED
    BY <2>1 DEF TypeOK, NextRead, Goto, Labels
<1>3. LockInv'
  BY DEF TypeOK, LockInv, NextRead, Goto
<1>4. LocalInv'
  BY <1>1, OneInside, PoolSizeAssumption DEF TypeOK, LocalInv, NextRead, Goto, Index
<1>5. \A u \in Threads : Mine(u)' = Mine(u)
  BY DEF TypeOK, Mine, NextRead, Goto
<1>6. LivePos' = LivePos
  BY OneInside DEF TypeOK, LivePos, NextRead, Goto
<1>7. indices' = indices
  BY DEF NextRead
<1> QED
  BY <1>2, <1>3, <1>4, <1>5, <1>6, <1>7, SameStack

\* The read index leaves the stack: it joins Out as the position moves past it.
LEMMA NextIncInv == ASSUME IndInv, NEW t \in Threads, NextInc(t) PROVE IndInv'
<1> USE DEF IndInv
<1>1. /\ indexPos \in Index
      /\ index[t] = indices[indexPos]
      /\ index[t] \in Index
  BY PoolSizeAssumption DEF TypeOK, LocalInv, NextInc, Index
<1>2. LivePos = indexPos /\ LivePos' = indexPos + 1
  BY OneInside DEF TypeOK, LivePos, NextInc, Goto
<1>3. index[t] \notin Out
  BY <1>1, <1>2 DEF StackInv, From, Index
<1>4. /\ Mine(t)' = Mine(t) \cup {index[t]}
      /\ \A u \in Threads : u # t => Mine(u)' = Mine(u)
  BY DEF TypeOK, Mine, NextInc, Goto
<1>5. Out' = Out \cup {index[t]}
  BY <1>1, <1>4 DEF Out
<1>6. TypeOK'
  BY <1>1, PoolSizeAssumption DEF TypeOK, NextInc, Goto, Labels, Index
<1>7. LockInv'
  BY DEF TypeOK, LockInv, NextInc, Goto
<1>8. LocalInv'
  <2>1. index[t] \notin held[t]
    BY <1>1, <1>3 DEF Out, Mine
  <2> QED
    BY <1>1, <2>1, OneInside DEF TypeOK, LocalInv, NextInc, Goto
<1>9. StackInv'
  <2>1. \A k \in From(indexPos + 1) : k \in From(indexPos) /\ k # indexPos /\ k \in Index
    BY <1>1 DEF From, Index
  <2>2. indices' = indices /\ indexPos \in From(indexPos)
    BY <1>1 DEF NextInc, From, Index
  <2>3. \A j, k \in From(indexPos) : indices[j] = indices[k] => j = k
    BY <1>2 DEF StackInv
  <2>4. \A k \in From(indexPos) : indices[k] \notin Out
    BY <1>2 DEF StackInv
  <2>5. \A k \in From(indexPos + 1) : indices[k] \notin Out'
    BY <1>1, <1>5, <2>1, <2>2, <2>3, <2>4
  <2>6. From(LivePos)' = From(indexPos + 1)
    BY <1>2 DEF From
  <2> QED
    BY <2>1, <2>2, <2>3, <2>5, <2>6 DEF StackInv
<1>10. Exclusive'
  <2>1. \A u \in Threads : index[t] \notin Mine(u)
    BY <1>1, <1>3 DEF Out
  <2> QED
    BY <1>4, <2>1 DEF Exclusive
<1>11. Accounting'
  BY <1>2, <1>3, <1>5, OutFinite, FS_AddElement DEF Accounting
<1> QED
  BY <1>6, <1>7, <1>8, <1>9, <1>10, <1>11

\* Delivering the index keeps the invariant: it was in Mine(t) already.
LEMMA NextUnlockInv == ASSUME IndInv, NEW t \in Threads, NextUnlock(t) PROVE IndInv'
<1> USE DEF IndInv
<1>1. index[t] \in Index
  BY DEF LocalInv, NextUnlock
<1>2. TypeOK'
  BY <1>1 DEF TypeOK, NextUnlock, Goto, Labels, HoldersOver
<1>3. LockInv'
  BY NoThreadAssumption DEF TypeOK, LockInv, NextUnlock, Goto
<1>4. LocalInv'
  BY OneInside DEF TypeOK, LocalInv, NextUnlock, Goto
<1>5. \A u \in Threads : Mine(u)' = Mine(u)
  BY DEF TypeOK, Mine, NextUnlock, Goto
<1>6. LivePos' = LivePos
  BY OneInside DEF TypeOK, LivePos, NextUnlock, Goto
<1>7. indices' = indices
  BY DEF NextUnlock
<1> QED
  BY <1>2, <1>3, <1>4, <1>5, <1>6, <1>7, SameStack

\* Taking the mutex in Return() keeps the invariant: the index moves from the
\* client to the call, both of which Mine(t) counts.
LEMMA ReturnLockInv ==
  ASSUME IndInv, NEW t \in Threads, NEW i \in held[t], ReturnLock(t, i) PROVE IndInv'
<1> USE DEF IndInv
<1>1. i \in Index
  BY DEF TypeOK
<1>2. TypeOK'
  BY <1>1, PoolSizeAssumption DEF TypeOK, ReturnLock, Goto, Labels, Index
<1>3. LockInv'
  BY NoThreadAssumption DEF TypeOK, LockInv, ReturnLock, Goto
<1>4. LocalInv'
  BY <1>1, OneInside DEF TypeOK, LocalInv, ReturnLock, Goto
<1>5. \A u \in Threads : Mine(u)' = Mine(u)
  BY DEF TypeOK, Mine, ReturnLock, Goto
<1>6. LivePos' = LivePos
  BY OneInside DEF TypeOK, LivePos, ReturnLock, Goto
<1>7. indices' = indices
  BY DEF ReturnLock
<1> QED
  BY <1>2, <1>3, <1>4, <1>5, <1>6, <1>7, SameStack

\* The decrement never takes the position below zero: the index being returned
\* is out, so the position, which counts what is out, is at least one.
LEMMA ReturnDecInv == ASSUME IndInv, NEW t \in Threads, ReturnDec(t) PROVE IndInv'
<1> USE DEF IndInv
<1>1. index[t] \in Out
  BY DEF LocalInv, ReturnDec, Out, Mine
<1>2. LivePos = indexPos /\ LivePos' = indexPos - 1 + 1
  BY OneInside DEF TypeOK, LivePos, ReturnDec, Goto
<1>3. indexPos >= 1
  <2>1. Cardinality(Out) # 0 /\ Cardinality(Out) \in Nat
    BY <1>1, OutFinite, FS_EmptySet, FS_CardinalityType
  <2> QED
    BY <1>2, <2>1 DEF Accounting, TypeOK
<1>4. TypeOK'
  BY <1>3, PoolSizeAssumption DEF TypeOK, ReturnDec, Goto, Labels, Index
<1>5. LockInv'
  BY DEF TypeOK, LockInv, ReturnDec, Goto
<1>6. LocalInv'
  BY OneInside DEF TypeOK, LocalInv, ReturnDec, Goto
<1>7. \A u \in Threads : Mine(u)' = Mine(u)
  BY DEF TypeOK, Mine, ReturnDec, Goto
<1>8. LivePos' = LivePos
  BY <1>2 DEF TypeOK
<1>9. indices' = indices
  BY DEF ReturnDec
<1> QED
  BY <1>4, <1>5, <1>6, <1>7, <1>8, <1>9, SameStack

\* The returned index leaves Out as it is stored at the new bottom of the stack.
LEMMA ReturnStoreInv == ASSUME IndInv, NEW t \in Threads, ReturnStore(t) PROVE IndInv'
<1> USE DEF IndInv
<1>1. index[t] \in Index /\ index[t] \notin held[t] /\ index[t] \in Mine(t)
  BY DEF LocalInv, ReturnStore, Mine
<1>2. LivePos = indexPos + 1 /\ LivePos' = indexPos
  BY OneInside DEF TypeOK, LivePos, ReturnStore, Goto
<1>3. index[t] \in Out
  BY <1>1 DEF Out
<1>4. /\ Mine(t)' = Mine(t) \ {index[t]}
      /\ \A u \in Threads : u # t => Mine(u)' = Mine(u) /\ index[t] \notin Mine(u)
  <2>1. \A u \in Threads : u # t => Mine(u)' = Mine(u)
    BY DEF TypeOK, Mine, ReturnStore, Goto
  <2>2. Mine(t)' = Mine(t) \ {index[t]}
    BY <1>1 DEF TypeOK, Mine, ReturnStore, Goto
  <2>3. \A u \in Threads : u # t => index[t] \notin Mine(u)
    BY <1>1 DEF Exclusive
  <2> QED
    BY <2>1, <2>2, <2>3
<1>5. Out' = Out \ {index[t]}
  BY <1>4 DEF Out
<1>6. Cardinality(Out') = indexPos
  <2>1. Cardinality(Out \ {index[t]}) = Cardinality(Out) - 1
    BY <1>3, OutFinite, FS_RemoveElement
  <2>2. Cardinality(Out) = indexPos + 1
    BY <1>2 DEF Accounting
  <2> QED
    BY <1>5, <2>1, <2>2 DEF TypeOK
<1>7. indexPos \in Index
  <2>1. IsFiniteSet(Index) /\ Cardinality(Index) = PoolSize
    BY FS_Interval, PoolSizeAssumption DEF Index
  <2>2. Cardinality(Out) <= PoolSize
    BY <2>1, FS_Subset DEF Out
  <2> QED
    BY <1>2, <2>2, PoolSizeAssumption DEF Accounting, TypeOK, Index
<1>8. TypeOK'
  BY <1>1, <1>7 DEF TypeOK, ReturnStore, Goto, Labels
<1>9. LockInv'
  BY NoThreadAssumption DEF TypeOK, LockInv, ReturnStore, Goto
<1>10. LocalInv'
  BY OneInside DEF TypeOK, LocalInv, ReturnStore, Goto
<1>11. StackInv'
  <2>1. From(LivePos)' = From(indexPos + 1) \cup {indexPos}
    BY <1>2, <1>7 DEF From, Index
  <2>2. /\ indices'[indexPos] = index[t]
        /\ \A k \in From(indexPos + 1) : indices'[k] = indices[k]
    BY <1>7 DEF TypeOK, ReturnStore, From, Index
  <2>3. \A j, k \in From(indexPos + 1) : indices[j] = indices[k] => j = k
    BY <1>2 DEF StackInv
  <2>4. \A k \in From(indexPos + 1) : indices[k] \notin Out
    BY <1>2 DEF StackInv
  <2> QED
    BY <1>3, <1>5, <2>1, <2>2, <2>3, <2>4 DEF StackInv
<1>12. Exclusive'
  BY <1>4 DEF Exclusive
<1>13. Accounting'
  BY <1>2, <1>6 DEF Accounting
<1> QED
  BY <1>8, <1>9, <1>10, <1>11, <1>12, <1>13

\* The conjunction of the parts is inductive.
LEMMA StepIndInv == IndInv /\ [Next]_vars => IndInv'
<1> SUFFICES ASSUME IndInv, [Next]_vars PROVE IndInv'
  OBVIOUS
<1>1. CASE UNCHANGED vars
  <2>1. LivePos' = LivePos /\ \A t \in Threads : Mine(t)' = Mine(t)
    BY <1>1 DEF vars, LivePos, Mine
  <2>2. TypeOK' /\ LockInv' /\ LocalInv'
    BY <1>1 DEF vars, IndInv, TypeOK, LockInv, LocalInv
  <2> QED
    BY <1>1, <2>1, <2>2, SameStack DEF vars, IndInv
<1>2. CASE Next
  <2> PICK t \in Threads :
        \/ NextLock(t) \/ NextEmpty(t) \/ NextRead(t) \/ NextInc(t) \/ NextUnlock(t)
        \/ \E i \in held[t] : ReturnLock(t, i)
        \/ ReturnDec(t) \/ ReturnStore(t)
    BY <1>2 DEF Next
  <2> QED
    BY NextLockInv, NextEmptyInv, NextReadInv, NextIncInv, NextUnlockInv,
       ReturnLockInv, ReturnDecInv, ReturnStoreInv
<1> QED
  BY <1>1, <1>2

\* The mutex, the vector, the position and the locals of the calls agree in every
\* reachable state, for every number of threads and every pool size.
THEOREM Invariance == Spec => []IndInv
  BY InitIndInv, StepIndInv, PTL DEF Spec

(***************************************************************************)
(* For every number of threads and every pool size: indexPos stays in      *)
(* 0..PoolSize, so Return()'s decrement never wraps and the vector is only *)
(* accessed inside its bounds.                                             *)
(***************************************************************************)
THEOREM TypeCorrect == Spec => []TypeOK
<1>1. IndInv => TypeOK
  BY DEF IndInv
<1> QED
  BY <1>1, Invariance, PTL

(***************************************************************************)
(* For every number of threads and every pool size: no index is ever with  *)
(* two callers of Next().                                                  *)
(***************************************************************************)
THEOREM ExclusiveHolds == Spec => []Exclusive
<1>1. IndInv => Exclusive
  BY DEF IndInv
<1> QED
  BY <1>1, Invariance, PTL

(***************************************************************************)
(* For every number of threads and every pool size: the position counts    *)
(* exactly the indices that are out.                                       *)
(***************************************************************************)
THEOREM AccountingHolds == Spec => []Accounting
<1>1. IndInv => Accounting
  BY DEF IndInv
<1> QED
  BY <1>1, Invariance, PTL
-----------------------------------------------------------------------------
\* The indices taken in the abstract pool are those out, but for the one that a
\* Next() has passed and not yet delivered.
LEMMA TakenIsOut ==
  ASSUME IndInv, \A t \in Threads : pc[t] # "nextUnlock"
  PROVE  Taken = Out
<1>1. \A t \in Threads : Holds(t) = Mine(t)
  BY DEF Holds, Mine
<1> QED
  BY <1>1 DEF Taken, Out

\* A step that changes nobody's Holds and no answer is a stutter of the pool.
LEMMA SameHolds ==
  ASSUME holder' = holder, \A t \in Threads : Holds(t)' = Holds(t)
  PROVE  UNCHANGED Abstract!vars
<1>1. Taken' = Taken
  BY DEF Taken
<1>2. [t \in Threads |-> Holds(t)]' = [t \in Threads |-> Holds(t)]
  OBVIOUS
<1> QED
  BY <1>1, <1>2 DEF Abstract!vars

\* NextEmpty is the abstract empty answer: a full position means that every
\* index is out.
LEMMA NextEmptyRefines ==
  ASSUME IndInv, NEW t \in Threads, NextEmpty(t)
  PROVE  Abstract!NextEmpty(t)
<1> USE DEF IndInv
<1>1. \A u \in Threads : pc[u] # "nextUnlock"
  BY OneInside DEF NextEmpty
<1>2. Cardinality(Out) = PoolSize
  BY OneInside DEF NextEmpty, Accounting
<1>3. IsFiniteSet(Index) /\ Cardinality(Index) = PoolSize
  BY FS_Interval, PoolSizeAssumption DEF Index
<1>4. Out = Index
  BY <1>2, <1>3, FS_Subset DEF Out
<1>5. Index \ Taken = {}
  BY <1>1, <1>4, TakenIsOut
<1>6. \A u \in Threads : Holds(u)' = Holds(u)
  BY DEF Holds, NextEmpty, Goto, TypeOK
<1>7. Taken' = Taken
  BY <1>6 DEF Taken
<1>8. [u \in Threads |-> Holds(u)]' = [u \in Threads |-> Holds(u)]
  BY <1>6
<1> QED
  BY <1>5, <1>7, <1>8 DEF Abstract!NextEmpty, NextEmpty, Abstract!EmptyHolder, EmptyHolder

\* NextUnlock is the abstract hand-out of index[t].
LEMMA NextUnlockRefines ==
  ASSUME IndInv, NEW t \in Threads, NextUnlock(t)
  PROVE  Abstract!NextIndex(t)
<1> USE DEF IndInv
<1> DEFINE i == index[t]
           H == [u \in Threads |-> Holds(u)]
<1>1. i \in Index /\ i \notin held[t] /\ i \in Mine(t)
  BY DEF LocalInv, NextUnlock, Mine
<1>2. i \notin Taken
  <2>1. \A u \in Threads : u # t => i \notin Mine(u)
    BY <1>1 DEF Exclusive
  <2>2. \A u \in Threads : u # t => i \notin Holds(u)
    BY <2>1 DEF Mine, Holds
  <2>3. i \notin Holds(t)
    BY <1>1 DEF Holds, NextUnlock
  <2> QED
    BY <2>2, <2>3 DEF Taken
<1>3. Holds(t)' = Holds(t) \cup {i}
  BY DEF Holds, NextUnlock, Goto, TypeOK
<1>4. \A u \in Threads : u # t => Holds(u)' = Holds(u)
  BY DEF Holds, NextUnlock, Goto, TypeOK
<1>5. Taken' = Taken \cup {i}
  BY <1>1, <1>3, <1>4 DEF Taken
<1>6. H' = [H EXCEPT ![t] = @ \cup {i}]
  BY <1>3, <1>4
<1>7. holder' = [holder EXCEPT ![t] = HolderOf(i)]
  BY DEF NextUnlock
<1>8. (Index \ Taken)' = (Index \ Taken) \ {i}
  BY <1>5
<1>9. i \in Index \ Taken
  BY <1>1, <1>2
<1> QED
  BY <1>6, <1>7, <1>8, <1>9 DEF Abstract!NextIndex, Abstract!HolderOf, HolderOf

\* ReturnStore is the abstract return of index[t].
LEMMA ReturnStoreRefines ==
  ASSUME IndInv, NEW t \in Threads, ReturnStore(t)
  PROVE  Abstract!ReturnIndex(t, index[t]) /\ index[t] \in Holds(t)
<1> USE DEF IndInv
<1> DEFINE i == index[t]
           H == [u \in Threads |-> Holds(u)]
<1>1. i \in Index /\ i \notin held[t] /\ i \in Mine(t) /\ i \in Holds(t)
  BY DEF LocalInv, ReturnStore, Mine, Holds
<1>2. \A u \in Threads : u # t => i \notin Holds(u)
  <2>1. \A u \in Threads : u # t => i \notin Mine(u)
    BY <1>1 DEF Exclusive
  <2> QED
    BY <2>1 DEF Mine, Holds
<1>3. Holds(t)' = Holds(t) \ {i}
  BY <1>1 DEF Holds, ReturnStore, Goto, TypeOK
<1>4. \A u \in Threads : u # t => Holds(u)' = Holds(u)
  BY DEF Holds, ReturnStore, Goto, TypeOK
<1>5. Taken' = Taken \ {i}
  BY <1>2, <1>3, <1>4 DEF Taken
<1>6. H' = [H EXCEPT ![t] = @ \ {i}]
  BY <1>3, <1>4
<1>7. (Index \ Taken)' = (Index \ Taken) \cup {i}
  BY <1>1, <1>5
<1>8. holder' = holder
  BY DEF ReturnStore
<1> QED
  BY <1>1, <1>6, <1>7, <1>8 DEF Abstract!ReturnIndex

\* Every step of the indexer is a step of the pool or leaves it unchanged.
LEMMA StepRefines == IndInv /\ [Next]_vars => [Abstract!Next]_Abstract!vars
<1> SUFFICES ASSUME IndInv, [Next]_vars PROVE [Abstract!Next]_Abstract!vars
  OBVIOUS
<1>1. CASE UNCHANGED vars
  BY <1>1, SameHolds DEF vars, Holds
<1>2. ASSUME NEW t \in Threads, NextEmpty(t) PROVE [Abstract!Next]_Abstract!vars
  BY <1>2, NextEmptyRefines DEF Abstract!Next
<1>3. ASSUME NEW t \in Threads, NextUnlock(t) PROVE [Abstract!Next]_Abstract!vars
  BY <1>3, NextUnlockRefines DEF Abstract!Next
<1>4. ASSUME NEW t \in Threads, ReturnStore(t) PROVE [Abstract!Next]_Abstract!vars
  BY <1>4, ReturnStoreRefines DEF Abstract!Next
<1>5. ASSUME NEW t \in Threads, NextLock(t) \/ NextRead(t) \/ NextInc(t) \/ ReturnDec(t)
      PROVE  UNCHANGED Abstract!vars
  <2>1. holder' = holder /\ \A u \in Threads : Holds(u)' = Holds(u)
    BY <1>5 DEF IndInv, TypeOK, NextLock, NextRead, NextInc, ReturnDec, Goto, Holds
  <2> QED
    BY <2>1, SameHolds
<1>6. ASSUME NEW t \in Threads, NEW i \in held[t], ReturnLock(t, i)
      PROVE  UNCHANGED Abstract!vars
  <2>1. holder' = holder /\ \A u \in Threads : Holds(u)' = Holds(u)
    BY <1>6 DEF IndInv, TypeOK, ReturnLock, Goto, Holds
  <2> QED
    BY <2>1, SameHolds
<1> QED
  BY <1>1, <1>2, <1>3, <1>4, <1>5, <1>6 DEF Next

(***************************************************************************)
(* For every number of threads and every pool size, MutexIndexer is an     *)
(* atomic index pool: Next() hands out a free index or, only when none is  *)
(* free, an empty holder; Return() frees the index given to it.            *)
(***************************************************************************)
THEOREM Refinement == Spec => ImplementsIndexPool
<1>1. Init => Abstract!Init
  <2> SUFFICES ASSUME Init PROVE Abstract!Init
    OBVIOUS
  <2>1. \A t \in Threads : Holds(t) = {}
    BY DEF Init, Holds
  <2>2. Taken = {}
    BY <2>1 DEF Taken
  <2> QED
    BY <2>1, <2>2 DEF Init, Abstract!Init, Abstract!Index, Index,
                      Abstract!EmptyHolder, EmptyHolder
<1> QED
  BY <1>1, Invariance, StepRefines, PTL DEF Spec, ImplementsIndexPool, Abstract!Spec
=============================================================================
