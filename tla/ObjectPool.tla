----------------------------- MODULE ObjectPool -----------------------------
(***************************************************************************)
(* The object pool (src/src/Pool.h) and the handles it gives out           *)
(* (src/src/PoolItem.h), over an indexer that keeps the promise of         *)
(* IndexPool.  The pool is the indexer's only caller.                      *)
(*                                                                         *)
(* Handles act on their own: any thread may hold, move or destroy one, and *)
(* a reset callback that takes and drops items of the same pool is one     *)
(* handle acting while another is being destroyed.  A handle is moved or   *)
(* destroyed by one thread at a time, as for every C++ object, the pool    *)
(* outlives its handles, and no reset throws: out of the destructor that   *)
(* would be std::terminate.                                                *)
(***************************************************************************)
EXTENDS Naturals, FiniteSets

CONSTANTS Handle,    \* PoolItem objects, constructed and destroyed again
          PoolSize,  \* numItems, or FixedPoolSize
          Null,      \* nullptr
          Resets     \* whether ItemType has a Reset() or the pool a callback
                     \* that cleans an item; the default callback does nothing

ASSUME PoolSizeAssumption == PoolSize \in Nat
ASSUME HandleAssumption == IsFiniteSet(Handle)
ASSUME NullAssumption == Null \notin Nat
ASSUME ResetsAssumption == Resets \in BOOLEAN

VARIABLES free, held, holder,  \* the indexer
          dirty,      \* indices of the items a client has changed since the
                      \* last reset
          phase,      \* phase[h]: "none" before construction and after
                      \* destruction, "live", or where the destructor is
          item, index, empty, onDestroyCallback  \* the members of each PoolItem

indexerVars == <<free, held, holder>>
handleVars == <<item, index, empty, onDestroyCallback>>
vars == <<indexerVars, dirty, phase, handleVars>>

Pool == "pool"

Indexer == INSTANCE IndexPool WITH Threads <- {Pool}

Index == Indexer!Index

Init ==
  /\ Indexer!Init
  /\ dirty = {}
  /\ phase = [h \in Handle |-> "none"]
  /\ item = [h \in Handle |-> Null]
  /\ index = [h \in Handle |-> 0]
  /\ empty = [h \in Handle |-> TRUE]
  /\ onDestroyCallback = [h \in Handle |-> "noOp"]

\* PoolItem(onDestroyCb, poolItem, poolIndex), at h.
Construct(h, cb, i, k) ==
  /\ phase' = [phase EXCEPT ![h] = "live"]
  /\ onDestroyCallback' = [onDestroyCallback EXCEPT ![h] = cb]
  /\ item' = [item EXCEPT ![h] = i]
  /\ index' = [index EXCEPT ![h] = k]
  /\ empty' = [empty EXCEPT ![h] = i = Null]

\* PoolItem() of a client.
ConstructEmpty(h) ==
  /\ phase[h] = "none"
  /\ Construct(h, "noOp", Null, 0)
  /\ UNCHANGED <<indexerVars, dirty>>

\* Mutation: the item after the one the indexer named is given out.
TakeItemNext(h) ==
  /\ phase[h] = "none"
  /\ Indexer!NextIndex(Pool)
  /\ LET i == holder'[Pool].value IN Construct(h, "returnToPool", i + 1, i)
  /\ UNCHANGED dirty

\* Take(): the indexer has an index.
TakeItem(h) ==
  /\ phase[h] = "none"
  /\ Indexer!NextIndex(Pool)
  /\ LET i == holder'[Pool].value IN Construct(h, "returnToPool", i, i)
  /\ UNCHANGED dirty

\* Take(): it has none, and the handle is a default one.
TakeEmpty(h) ==
  /\ phase[h] = "none"
  /\ Indexer!NextEmpty(Pool)
  /\ Construct(h, "noOp", Null, 0)
  /\ UNCHANGED dirty

\* The client changes the item it got from Get().
Use(h) ==
  /\ phase[h] = "live"
  /\ ~ empty[h]
  /\ dirty' = dirty \cup {item[h]}
  /\ UNCHANGED <<indexerVars, phase, handleVars>>

\* PoolItem(PoolItem&&): g is constructed from h, which stays alive without an item
\* but keeps its index; `emptyLeft` and `callbackLeft` are the other members it keeps.
MoveLeaving(h, g, emptyLeft, callbackLeft) ==
  /\ phase[h] = "live"
  /\ phase[g] = "none"
  /\ phase' = [phase EXCEPT ![g] = "live"]
  /\ item' = [item EXCEPT ![g] = item[h], ![h] = Null]
  /\ empty' = [empty EXCEPT ![g] = empty[h], ![h] = emptyLeft]
  /\ index' = [index EXCEPT ![g] = index[h]]
  /\ onDestroyCallback' =
       [onDestroyCallback EXCEPT ![g] = onDestroyCallback[h], ![h] = callbackLeft]
  /\ UNCHANGED <<indexerVars, dirty>>

\* Mutations: the callback stays behind; the old handle does not say that it is empty.
MoveConstructCopies(h, g) == MoveLeaving(h, g, TRUE, onDestroyCallback[h])
MoveConstructKeepsEmpty(h, g) == MoveLeaving(h, g, empty[h], "noOp")

MoveConstruct(h, g) == MoveLeaving(h, g, TRUE, "noOp")

\* ~PoolItem() with the callback that does nothing.
DestroyEmpty(h) ==
  /\ phase[h] = "live"
  /\ onDestroyCallback[h] = "noOp"
  /\ phase' = [phase EXCEPT ![h] = "none"]
  /\ UNCHANGED <<indexerVars, dirty, handleVars>>

\* ~PoolItem() calls returnToPoolFn, and that InvokeReset.
Destroy(h) ==
  /\ phase[h] = "live"
  /\ onDestroyCallback[h] = "returnToPool"
  /\ phase' = [phase EXCEPT ![h] = "reset"]
  /\ UNCHANGED <<indexerVars, dirty, handleVars>>

\* Mutation: the item is not reset.
InvokeResetSkipped(h) ==
  /\ phase[h] = "reset"
  /\ phase' = [phase EXCEPT ![h] = "return"]
  /\ UNCHANGED <<indexerVars, dirty, handleVars>>

\* The reset is over.
InvokeReset(h) ==
  /\ phase[h] = "reset"
  /\ dirty' = IF Resets THEN dirty \ {item[h]} ELSE dirty
  /\ phase' = [phase EXCEPT ![h] = "return"]
  /\ UNCHANGED <<indexerVars, handleVars>>

\* indexer.Return(item.PoolIndex()), and the destructor ends.
Return(h) ==
  /\ phase[h] = "return"
  /\ Indexer!ReturnIndex(Pool, index[h])
  /\ phase' = [phase EXCEPT ![h] = "none"]
  /\ UNCHANGED <<dirty, handleVars>>

Next ==
  \E h \in Handle :
    \/ ConstructEmpty(h)
    \/ TakeItem(h)
    \/ TakeEmpty(h)
    \/ Use(h)
    \/ \E g \in Handle : MoveConstruct(h, g)
    \/ DestroyEmpty(h)
    \/ Destroy(h)
    \/ InvokeReset(h)
    \/ Return(h)

Spec == Init /\ [][Next]_vars

-----------------------------------------------------------------------------
(***************************************************************************)
(* Type invariant: every item a handle points to, and every item that was  *)
(* changed, lies inside the pool's container.                              *)
(***************************************************************************)
TypeOK ==
  /\ free \subseteq Index
  /\ dirty \subseteq Index
  /\ phase \in [Handle -> {"none", "live", "reset", "return"}]
  /\ item \in [Handle -> Index \cup {Null}]
  /\ index \in [Handle -> Nat]
  /\ empty \in [Handle -> BOOLEAN]
  /\ onDestroyCallback \in [Handle -> {"noOp", "returnToPool"}]

\* h will give index i back when it is destroyed, or is about to.
Owns(h, i) ==
  phase[h] # "none" /\ onDestroyCallback[h] = "returnToPool" /\ index[h] = i

(***************************************************************************)
(* Every item is in the pool or with exactly one handle that will return   *)
(* it: takes, moves and destructions in any order lose no item and return  *)
(* none twice, so the indexer's rule that an index is returned once, by    *)
(* who has it, is kept.                                                    *)
(***************************************************************************)
OneOwner ==
  \A i \in Index :
    Cardinality({h \in Handle : Owns(h, i)}) = IF i \in free THEN 0 ELSE 1

(***************************************************************************)
(* What a live handle tells its client is true: it is empty exactly when   *)
(* Get() is null and nothing will be returned, and otherwise Get() is the  *)
(* item of PoolIndex().                                                    *)
(***************************************************************************)
HandleTruthful ==
  \A h \in Handle : phase[h] # "none" =>
    /\ empty[h] <=> item[h] = Null
    /\ empty[h] <=> onDestroyCallback[h] = "noOp"
    /\ ~ empty[h] => item[h] = index[h]

(***************************************************************************)
(* In a pool that resets, Take() gives out clean items only: an item is    *)
(* reset before its index is returned, however its handle was moved, and   *)
(* nobody can change it in between.                                        *)
(***************************************************************************)
FreeItemsClean == Resets => dirty \cap free = {}

-----------------------------------------------------------------------------
\* The parts of the inductive invariant that the properties above do not state.

\* The indexer's bookkeeping: what is not free is with its only caller.
IndexerInv ==
  /\ held = [p \in {Pool} |-> Index \ free]
  /\ DOMAIN holder = {Pool}

\* A destructor that has called back belongs to a handle with an item.
DestroyInv ==
  \A h \in Handle : phase[h] \in {"reset", "return"} => onDestroyCallback[h] = "returnToPool"

\* OneOwner, without counting.
OwnerInv ==
  /\ \A h \in Handle, i \in Nat : Owns(h, i) => i \in Index \ free
  /\ \A g, h \in Handle, i \in Index : Owns(g, i) /\ Owns(h, i) => g = h
  /\ \A i \in Index \ free : \E h \in Handle : Owns(h, i)

\* A changed item is with a handle that has not passed its reset.
CleanInv ==
  Resets => \A i \in dirty : \E h \in Handle : Owns(h, i) /\ phase[h] \in {"live", "reset"}

IndInv ==
  TypeOK /\ IndexerInv /\ DestroyInv /\ HandleTruthful /\ OwnerInv /\ CleanInv
=============================================================================
