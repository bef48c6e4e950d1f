-------------------------- MODULE ObjectPoolProofs --------------------------
(***************************************************************************)
(* Proofs about ObjectPool, for every finite set of handles, every pool    *)
(* size, and pools with and without a reset.  IndInv is inductive; the     *)
(* properties the runs check follow from it.                               *)
(***************************************************************************)
EXTENDS ObjectPool, FiniteSetTheorems, TLAPS

LEMMA IndexIsNat == Index \subseteq Nat
BY PoolSizeAssumption DEF Index, Indexer!Index

LEMMA InitInv == Init => IndInv
BY IndexIsNat, ResetsAssumption
   DEF Init, Indexer!Init, IndInv, TypeOK, IndexerInv, DestroyInv, HandleTruthful,
       OwnerInv, CleanInv, Owns, Index

\* Construction of an empty handle, by the client or by Take().
LEMMA EmptyInv ==
  ASSUME IndInv, NEW h \in Handle, phase[h] = "none", Construct(h, "noOp", Null, 0),
         UNCHANGED <<free, held, dirty>>, DOMAIN holder' = {Pool}
  PROVE  IndInv'
<1> USE DEF IndInv
<1>1. TypeOK'
  BY DEF TypeOK, Construct
<1>2. IndexerInv' /\ DestroyInv'
  BY DEF TypeOK, IndexerInv, DestroyInv, Construct
<1>3. HandleTruthful'
  BY DEF TypeOK, HandleTruthful, Construct
<1>4. \A g \in Handle, i \in Nat : Owns(g, i)' <=> Owns(g, i)
  BY DEF TypeOK, Owns, Construct
<1>5. \A g \in Handle : g # h => phase'[g] = phase[g]
  BY DEF TypeOK, Construct
<1>6. OwnerInv'
  BY <1>4, IndexIsNat DEF OwnerInv
<1>7. CleanInv'
  BY <1>4, <1>5, IndexIsNat DEF CleanInv, TypeOK, Owns
<1> QED
  BY <1>1, <1>2, <1>3, <1>6, <1>7

\* Take() moves one index from the indexer to a new handle.
LEMMA TakeItemInv == ASSUME IndInv, NEW h \in Handle, TakeItem(h) PROVE IndInv'
<1> USE DEF IndInv
<1>1. PICK i \in free :
        /\ free' = free \ {i}
        /\ held' = [held EXCEPT ![Pool] = @ \cup {i}]
        /\ holder' = [holder EXCEPT ![Pool] = Indexer!HolderOf(i)]
  BY DEF TakeItem, Indexer!NextIndex
<1>2. i \in Index /\ i \in Nat /\ i # Null
  BY IndexIsNat, NullAssumption DEF TypeOK
<1>3. holder'[Pool].value = i
  BY <1>1 DEF IndexerInv, Indexer!HolderOf
<1>4. Construct(h, "returnToPool", i, i) /\ UNCHANGED dirty /\ phase[h] = "none"
  BY <1>3 DEF TakeItem
<1>5. TypeOK'
  BY <1>1, <1>2, <1>4 DEF TypeOK, Construct
<1>6. IndexerInv'
  BY <1>1, <1>2 DEF IndexerInv, TypeOK
<1>7. DestroyInv' /\ HandleTruthful'
  BY <1>2, <1>4 DEF TypeOK, DestroyInv, HandleTruthful, Construct
<1>8. \A g \in Handle, k \in Nat : Owns(g, k)' <=> Owns(g, k) \/ (g = h /\ k = i)
  BY <1>2, <1>4 DEF TypeOK, Owns, Construct
<1>9. OwnerInv'
  <2>1. \A g \in Handle : ~ Owns(g, i)
    BY <1>2 DEF OwnerInv
  <2> QED
    BY <1>1, <1>2, <1>8, <2>1, IndexIsNat DEF OwnerInv
<1>10. CleanInv'
  <2>1. \A g \in Handle : g # h => phase'[g] = phase[g]
    BY <1>4 DEF TypeOK, Construct
  <2> QED
    BY <1>4, <1>8, <2>1, IndexIsNat DEF CleanInv, TypeOK, Owns
<1> QED
  BY <1>5, <1>6, <1>7, <1>9, <1>10

\* A change of an item marks what its handle owns.
LEMMA UseInv == ASSUME IndInv, NEW h \in Handle, Use(h) PROVE IndInv'
<1> USE DEF IndInv
<1>1. item[h] = index[h] /\ item[h] \in Index /\ Owns(h, item[h])
  BY DEF Use, HandleTruthful, TypeOK, Owns
<1>2. TypeOK' /\ IndexerInv' /\ DestroyInv' /\ HandleTruthful'
  BY <1>1 DEF Use, indexerVars, handleVars, TypeOK, IndexerInv, DestroyInv, HandleTruthful
<1>3. \A g \in Handle, k \in Nat : Owns(g, k)' <=> Owns(g, k)
  BY DEF Use, handleVars, Owns
<1>4. OwnerInv'
  BY <1>3, IndexIsNat DEF OwnerInv, Use, indexerVars
<1>5. CleanInv'
  BY <1>1, <1>3, IndexIsNat DEF CleanInv, Use, TypeOK
<1> QED
  BY <1>2, <1>4, <1>5

\* A move hands what h owns to g.
LEMMA MoveInv ==
  ASSUME IndInv, NEW h \in Handle, NEW g \in Handle, MoveConstruct(h, g) PROVE IndInv'
<1> USE DEF IndInv
<1>1. g # h
  BY DEF MoveConstruct, MoveLeaving
<1>2. TypeOK' /\ IndexerInv'
  BY DEF MoveConstruct, MoveLeaving, indexerVars, TypeOK, IndexerInv
<1>3. DestroyInv' /\ HandleTruthful'
  BY <1>1 DEF MoveConstruct, MoveLeaving, TypeOK, DestroyInv, HandleTruthful
<1> DEFINE Old(f) == IF f = g THEN h ELSE f
<1>4. \A f \in Handle, k \in Nat : Owns(f, k)' <=> f # h /\ Owns(Old(f), k)
  BY <1>1 DEF MoveConstruct, MoveLeaving, TypeOK, Owns
<1>5. \A f \in Handle, k \in Nat : Owns(f, k) => f # g /\ \E e \in Handle : e # h /\ Old(e) = f
  BY <1>1 DEF MoveConstruct, MoveLeaving, Owns
<1>6. UNCHANGED <<free, dirty>>
  BY DEF MoveConstruct, MoveLeaving, indexerVars
<1> HIDE DEF Old
<1>7. OwnerInv'
  <2>1. \A f \in Handle : Old(f) \in Handle
    BY DEF Old
  <2>2. \A e, f \in Handle : e # h /\ f # h /\ Old(e) = Old(f) => e = f
    BY DEF Old
  <2>3. ASSUME NEW f \in Handle, NEW i \in Nat, Owns(f, i)' PROVE i \in Index \ free'
    BY <1>4, <1>6, <2>1, <2>3 DEF OwnerInv
  <2>4. ASSUME NEW e \in Handle, NEW f \in Handle, NEW i \in Index, Owns(e, i)', Owns(f, i)'
        PROVE  e = f
    BY <1>4, <2>1, <2>2, <2>4, IndexIsNat DEF OwnerInv
  <2>5. ASSUME NEW i \in Index \ free' PROVE \E f \in Handle : Owns(f, i)'
    BY <1>4, <1>5, <1>6, IndexIsNat DEF OwnerInv
  <2> QED
    BY <2>3, <2>4, <2>5 DEF OwnerInv
<1>8. CleanInv'
  <2>1. \A f \in Handle : f # h => phase'[f] = phase[Old(f)]
    BY <1>1 DEF MoveConstruct, MoveLeaving, TypeOK, Old
  <2> SUFFICES ASSUME Resets, NEW i \in dirty
               PROVE  \E f \in Handle : Owns(f, i)' /\ phase'[f] \in {"live", "reset"}
    BY <1>6 DEF CleanInv
  <2>2. PICK f \in Handle : Owns(f, i) /\ phase[f] \in {"live", "reset"}
    BY DEF CleanInv
  <2>3. i \in Nat
    BY IndexIsNat DEF TypeOK
  <2>4. PICK e \in Handle : e # h /\ Old(e) = f
    BY <1>5, <2>2, <2>3
  <2> QED
    BY <1>4, <2>1, <2>2, <2>3, <2>4
<1> QED
  BY <1>2, <1>3, <1>7, <1>8

\* The steps of the destructor before the index is returned.
LEMMA DestroyStepInv ==
  ASSUME IndInv, NEW h \in Handle, DestroyEmpty(h) \/ Destroy(h) \/ InvokeReset(h)
  PROVE  IndInv'
<1> USE DEF IndInv, DestroyEmpty, Destroy, InvokeReset
<1>1. UNCHANGED <<free, held, holder>> /\ UNCHANGED <<item, index, empty, onDestroyCallback>>
  BY DEF indexerVars, handleVars
<1>2. TypeOK' /\ IndexerInv'
  BY <1>1 DEF TypeOK, IndexerInv
<1>3. DestroyInv' /\ HandleTruthful'
  BY <1>1 DEF TypeOK, DestroyInv, HandleTruthful
<1>4. \A f \in Handle, k \in Nat : Owns(f, k)' <=> Owns(f, k)
  BY <1>1 DEF TypeOK, Owns, DestroyInv
<1>5. OwnerInv'
  BY <1>1, <1>4, IndexIsNat DEF OwnerInv
<1>6. CleanInv'
  <2>1. \A f \in Handle \ {h} : phase'[f] = phase[f]
    BY DEF TypeOK
  <2>2. CASE DestroyEmpty(h)
    BY <2>1, <2>2, <1>4, IndexIsNat DEF CleanInv, TypeOK, Owns
  <2>3. CASE Destroy(h)
    BY <2>1, <2>3, <1>4, IndexIsNat DEF CleanInv, TypeOK, Owns
  <2>4. CASE InvokeReset(h)
    <3>1. item[h] = index[h]
      BY <2>4 DEF DestroyInv, HandleTruthful
    <3> QED
      BY <2>1, <2>4, <3>1, <1>4, IndexIsNat DEF CleanInv, TypeOK, Owns
  <2> QED
    BY <2>2, <2>3, <2>4
<1> QED
  BY <1>2, <1>3, <1>5, <1>6

\* The index goes back and its handle is gone.
LEMMA ReturnInv == ASSUME IndInv, NEW h \in Handle, Return(h) PROVE IndInv'
<1> USE DEF IndInv
<1> DEFINE i == index[h]
<1>1. Owns(h, i) /\ i \in Nat /\ i \in Index \ free
  BY DEF Return, DestroyInv, Owns, OwnerInv, TypeOK
<1>2. /\ free' = free \cup {i}
      /\ held' = [held EXCEPT ![Pool] = @ \ {i}]
      /\ holder' = holder
  BY DEF Return, Indexer!ReturnIndex
<1>3. /\ phase' = [phase EXCEPT ![h] = "none"]
      /\ UNCHANGED <<dirty, item, index, empty, onDestroyCallback>>
  BY DEF Return, handleVars
<1>4. TypeOK'
  BY <1>1, <1>2, <1>3 DEF TypeOK
<1>5. IndexerInv'
  BY <1>1, <1>2 DEF IndexerInv, TypeOK
<1>6. DestroyInv' /\ HandleTruthful'
  BY <1>3 DEF TypeOK, DestroyInv, HandleTruthful
<1>7. \A f \in Handle, k \in Nat : Owns(f, k)' <=> Owns(f, k) /\ f # h
  BY <1>3 DEF TypeOK, Owns
<1>8. \A f \in Handle, k \in Nat : Owns(f, k) /\ f # h => k # i
  BY <1>1 DEF OwnerInv
<1>9. OwnerInv'
  <2>1. \A k \in Nat : Owns(h, k) => k = i
    BY DEF Owns
  <2> QED
    BY <1>1, <1>2, <1>7, <1>8, <2>1, IndexIsNat DEF OwnerInv
<1>10. CleanInv'
  <2>1. \A f \in Handle \ {h} : phase'[f] = phase[f]
    BY <1>3 DEF TypeOK
  <2>2. phase[h] = "return"
    BY DEF Return
  <2> QED
    BY <1>3, <1>7, <2>1, <2>2, IndexIsNat DEF CleanInv, TypeOK
<1> QED
  BY <1>4, <1>5, <1>6, <1>9, <1>10

LEMMA StepInv == IndInv /\ [Next]_vars => IndInv'
<1> SUFFICES ASSUME IndInv, [Next]_vars PROVE IndInv'
  OBVIOUS
<1>1. CASE UNCHANGED vars
  BY <1>1 DEF vars, indexerVars, handleVars, IndInv, TypeOK, IndexerInv, DestroyInv,
              HandleTruthful, OwnerInv, CleanInv, Owns
<1>2. ASSUME NEW h \in Handle, ConstructEmpty(h) PROVE IndInv'
  BY <1>2, EmptyInv DEF ConstructEmpty, indexerVars, IndInv, IndexerInv
<1>3. ASSUME NEW h \in Handle, TakeEmpty(h) PROVE IndInv'
  BY <1>3, EmptyInv DEF TakeEmpty, Indexer!NextEmpty, IndInv, IndexerInv
<1>4. ASSUME NEW h \in Handle, TakeItem(h) PROVE IndInv'
  BY <1>4, TakeItemInv
<1>5. ASSUME NEW h \in Handle, Use(h) PROVE IndInv'
  BY <1>5, UseInv
<1>6. ASSUME NEW h \in Handle, NEW g \in Handle, MoveConstruct(h, g) PROVE IndInv'
  BY <1>6, MoveInv
<1>7. ASSUME NEW h \in Handle, DestroyEmpty(h) \/ Destroy(h) \/ InvokeReset(h) PROVE IndInv'
  BY <1>7, DestroyStepInv
<1>8. ASSUME NEW h \in Handle, Return(h) PROVE IndInv'
  BY <1>8, ReturnInv
<1> QED
  BY <1>1, <1>2, <1>3, <1>4, <1>5, <1>6, <1>7, <1>8 DEF Next

-----------------------------------------------------------------------------
\* What a set of handles with a unique member, or none, counts.
LEMMA InvOneOwner == IndInv => OneOwner
<1> SUFFICES ASSUME IndInv, NEW i \in Index
             PROVE  Cardinality({h \in Handle : Owns(h, i)}) = IF i \in free THEN 0 ELSE 1
  BY DEF OneOwner
<1>1. CASE i \in free
  <2>1. {h \in Handle : Owns(h, i)} = {}
    BY <1>1, IndexIsNat DEF IndInv, OwnerInv
  <2> QED
    BY <1>1, <2>1, FS_EmptySet
<1>2. CASE i \notin free
  <2>1. PICK g \in Handle : Owns(g, i)
    BY <1>2 DEF IndInv, OwnerInv
  <2>2. {h \in Handle : Owns(h, i)} = {g}
    BY <2>1 DEF IndInv, OwnerInv
  <2> QED
    BY <1>2, <2>2, FS_Singleton
<1> QED
  BY <1>1, <1>2

LEMMA Invariance == Spec => []IndInv
  BY InitInv, StepInv, PTL DEF Spec

(***************************************************************************)
(* For every number of handles and items: every item a handle points to    *)
(* lies inside the pool's container, and so does every item a client has   *)
(* changed.                                                                *)
(***************************************************************************)
THEOREM TypeCorrect == Spec => []TypeOK
<1>1. IndInv => TypeOK
  BY DEF IndInv
<1> QED
  BY <1>1, Invariance, PTL

(***************************************************************************)
(* For every number of handles and items: each handle tells its client the *)
(* truth about what it holds, also after its item was moved away.          *)
(***************************************************************************)
THEOREM HandlesTellTheTruth == Spec => []HandleTruthful
<1>1. IndInv => HandleTruthful
  BY DEF IndInv
<1> QED
  BY <1>1, Invariance, PTL

(***************************************************************************)
(* For every number of handles and items: every item is free or has        *)
(* exactly one owner that will return it.                                  *)
(***************************************************************************)
THEOREM OwnershipSafe == Spec => []OneOwner
  BY InvOneOwner, Invariance, PTL

(***************************************************************************)
(* For every number of handles and items: a pool that resets never gives   *)
(* out an item that its last user changed.                                 *)
(***************************************************************************)
THEOREM CleanSafe == Spec => []FreeItemsClean
<1>1. IndInv => FreeItemsClean
  <2> SUFFICES ASSUME IndInv, Resets, NEW i \in dirty PROVE i \notin free
    BY DEF FreeItemsClean
  <2>1. PICK h \in Handle : Owns(h, i)
    BY DEF IndInv, CleanInv
  <2> QED
    BY <2>1, IndexIsNat DEF IndInv, TypeOK, OwnerInv
<1> QED
  BY <1>1, Invariance, PTL
=============================================================================
