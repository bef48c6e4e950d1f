-------------------------- MODULE ConcurrentIndexer --------------------------
(***************************************************************************)
(* The lock-free indexer (src/src/ConcurrentIndexer.h): a ring of twice    *)
(* the pool's size in which the position readPos is claimed by Next() and  *)
(* writePos by Return(), each with a compare-and-swap, before the slot of  *)
(* the claimed position is read and cleared, or waited for and written.    *)
(* Every atomic load, store and compare-and-swap is one step.              *)
(*                                                                         *)
(* Each access takes effect at once and a compare_exchange_weak fails only *)
(* when the values differ: the build's only supported processor is x86-64. *)
(* There the two stores into a slot are plain stores, each the last access *)
(* of its call: one may reach memory after loads of its thread's next      *)
(* call, up to that call's first compare-and-swap.  That delay is left     *)
(* out.  Callers return only what they hold, once.                         *)
(***************************************************************************)
EXTENDS Integers, FiniteSets, IndexHolder

CONSTANTS Threads,
          PoolSize,       \* the constructor's poolSize
          MaxValue,       \* std::numeric_limits<IndexSizeT>::max()
          PositionBound,  \* bound: no Return() starts at or beyond this position
          HoldBound       \* how many indices one caller holds at a time

ASSUME PoolSizeAssumption == PoolSize \in Nat \ {0}
ASSUME MaxValueAssumption == MaxValue \in Nat /\ MaxValue >= 2 * PoolSize
ASSUME BoundAssumption == PositionBound \in Nat /\ HoldBound \in Nat

VARIABLES readPos, writePos,
          indices,   \* the ring: UnusedPosition, or an index plus one
          pc,        \* pc[t]: where t is in the call it is making
          cur,       \* cur[t]: curReadPos or curWritePos of that call
          index,     \* index[t]: the slot's content Next() read, or Return()'s
                     \* argument plus one
          held,      \* held[t]: indices t took and has not returned
          holder     \* holder[t]: what the last Next() of t answered

vars == <<readPos, writePos, indices, pc, cur, index, held, holder>>

Index == 0 .. PoolSize - 1
UnusedPosition == 0
size == 2 * PoolSize
maxPositionSize == (MaxValue \div size) * size
Slot(pos) == pos % size

NextLabels ==
  {"next", "wrapRead", "wrapReadCas", "loadWrite", "checkSlot", "casRead",
   "readSlot", "clearSlot"}
ReturnLabels ==
  {"return", "wrapWrite", "wrapWriteCas", "casWrite", "waitSlot", "storeSlot"}

Init ==
  /\ readPos = 0
  /\ writePos = PoolSize
  /\ indices = [k \in 0 .. size - 1 |-> IF k < PoolSize THEN k + 1 ELSE UnusedPosition]
  /\ pc = [t \in Threads |-> "idle"]
  /\ cur = [t \in Threads |-> 0]
  /\ index = [t \in Threads |-> UnusedPosition]
  /\ held = [t \in Threads |-> {}]
  /\ holder = [t \in Threads |-> EmptyHolder]

Goto(t, l) == pc' = [pc EXCEPT ![t] = l]

AnswerEmpty(t) ==
  /\ holder' = [holder EXCEPT ![t] = EmptyHolder]
  /\ Goto(t, "idle")

-----------------------------------------------------------------------------
\* Next()

\* The load of readPos that opens the call and every retry of its loop; `end` is
\* the position that has to be wrapped.
LoadReadUpTo(t, end) ==
  /\ pc[t] \in {"idle", "next"}
  /\ pc[t] = "idle" => Cardinality(held[t]) < HoldBound
  /\ cur' = [cur EXCEPT ![t] = readPos]
  /\ Goto(t, IF readPos = end THEN "wrapRead" ELSE "loadWrite")
  /\ UNCHANGED <<readPos, writePos, indices, index, held, holder>>

\* Mutation: the position after the last one is tested for.
NextLoadReadUnwrapped(t) == LoadReadUpTo(t, maxPositionSize + 1)

NextLoadRead(t) == LoadReadUpTo(t, maxPositionSize)

\* WrapOnOverflow(readPos): the load before each compare-and-swap.
WrapReadLoad(t) ==
  /\ pc[t] = "wrapRead"
  /\ Goto(t, IF readPos = maxPositionSize THEN "wrapReadCas" ELSE "next")
  /\ UNCHANGED <<readPos, writePos, indices, cur, index, held, holder>>

\* WrapOnOverflow(readPos): on to position p, or reload if another thread was first.
WrapReadTo(t, p) ==
  /\ pc[t] = "wrapReadCas"
  /\ \/ readPos = maxPositionSize /\ readPos' = p /\ Goto(t, "next")
     \/ readPos # maxPositionSize /\ Goto(t, "wrapRead") /\ UNCHANGED readPos
  /\ UNCHANGED <<writePos, indices, cur, index, held, holder>>

\* Mutation: the wrap leaves the position where it is.
WrapReadCasLost(t) == WrapReadTo(t, readPos)

WrapReadCas(t) == WrapReadTo(t, 0)

\* Mutation: the last unread position already counts as the end.
NextEmptyEarly(t) ==
  /\ pc[t] = "loadWrite"
  /\ cur[t] + 1 >= writePos
  /\ AnswerEmpty(t)
  /\ UNCHANGED <<readPos, writePos, indices, cur, index, held>>

\* Equal positions: nothing to read.
NextEmpty(t) ==
  /\ pc[t] = "loadWrite"
  /\ cur[t] = writePos
  /\ AnswerEmpty(t)
  /\ UNCHANGED <<readPos, writePos, indices, cur, index, held>>

NextLoadWrite(t) ==
  /\ pc[t] = "loadWrite"
  /\ cur[t] # writePos
  /\ Goto(t, "checkSlot")
  /\ UNCHANGED <<readPos, writePos, indices, cur, index, held, holder>>

\* The slot is unused: answer empty rather than wait.
NextMiss(t) ==
  /\ pc[t] = "checkSlot"
  /\ indices[Slot(cur[t])] = UnusedPosition
  /\ AnswerEmpty(t)
  /\ UNCHANGED <<readPos, writePos, indices, cur, index, held>>

\* Mutation: the slot is not looked at before the claim.
NextCheckSlotSkipped(t) ==
  /\ pc[t] = "checkSlot"
  /\ Goto(t, "casRead")
  /\ UNCHANGED <<readPos, writePos, indices, cur, index, held, holder>>

NextCheckSlot(t) ==
  /\ pc[t] = "checkSlot"
  /\ indices[Slot(cur[t])] # UnusedPosition
  /\ Goto(t, "casRead")
  /\ UNCHANGED <<readPos, writePos, indices, cur, index, held, holder>>

\* Claim the position with a compare-and-swap against `expected`, or start over.
ClaimIf(t, expected) ==
  /\ pc[t] = "casRead"
  /\ \/ readPos = expected /\ readPos' = cur[t] + 1 /\ Goto(t, "readSlot")
     \/ readPos # expected /\ Goto(t, "next") /\ UNCHANGED readPos
  /\ UNCHANGED <<writePos, indices, cur, index, held, holder>>

\* Mutation: the position is stored, not compared first.
NextClaimUnchecked(t) == ClaimIf(t, readPos)

NextClaim(t) == ClaimIf(t, cur[t])

\* The slot is used: keep what it holds.  While a writer has claimed it and not yet
\* written, the spin leaves the thread here.
NextReadSlot(t) ==
  /\ pc[t] = "readSlot"
  /\ indices[Slot(cur[t])] # UnusedPosition
  /\ index' = [index EXCEPT ![t] = indices[Slot(cur[t])]]
  /\ Goto(t, "clearSlot")
  /\ UNCHANGED <<readPos, writePos, indices, cur, held, holder>>

\* Leave `mark` in the slot and answer the index.
ClearTo(t, mark) ==
  /\ pc[t] = "clearSlot"
  /\ indices' = [indices EXCEPT ![Slot(cur[t])] = mark]
  /\ held' = [held EXCEPT ![t] = @ \cup {index[t] - 1}]
  /\ holder' = [holder EXCEPT ![t] = HolderOf(index[t] - 1)]
  /\ Goto(t, "idle")
  /\ UNCHANGED <<readPos, writePos, cur, index>>

\* Mutation: the slot is not marked unused.
NextClearSlotForgets(t) == ClearTo(t, indices[Slot(cur[t])])

NextClearSlot(t) == ClearTo(t, UnusedPosition)

-----------------------------------------------------------------------------
\* Return(i)

\* The caller gives up index i.
ReturnBegin(t, i) ==
  /\ pc[t] = "idle"
  /\ i \in held[t]
  /\ writePos < PositionBound
  /\ held' = [held EXCEPT ![t] = @ \ {i}]
  /\ index' = [index EXCEPT ![t] = i + 1]
  /\ Goto(t, "return")
  /\ UNCHANGED <<readPos, writePos, indices, cur, holder>>

ReturnLoadWrite(t) ==
  /\ pc[t] = "return"
  /\ cur' = [cur EXCEPT ![t] = writePos]
  /\ Goto(t, IF writePos = maxPositionSize THEN "wrapWrite" ELSE "casWrite")
  /\ UNCHANGED <<readPos, writePos, indices, index, held, holder>>

\* WrapOnOverflow(writePos), as for readPos.
WrapWriteLoad(t) ==
  /\ pc[t] = "wrapWrite"
  /\ Goto(t, IF writePos = maxPositionSize THEN "wrapWriteCas" ELSE "return")
  /\ UNCHANGED <<readPos, writePos, indices, cur, index, held, holder>>

WrapWriteCas(t) ==
  /\ pc[t] = "wrapWriteCas"
  /\ \/ writePos = maxPositionSize /\ writePos' = 0 /\ Goto(t, "return")
     \/ writePos # maxPositionSize /\ Goto(t, "wrapWrite") /\ UNCHANGED writePos
  /\ UNCHANGED <<readPos, indices, cur, index, held, holder>>

ReturnClaim(t) ==
  /\ pc[t] = "casWrite"
  /\ \/ writePos = cur[t] /\ writePos' = writePos + 1 /\ Goto(t, "waitSlot")
     \/ writePos # cur[t] /\ Goto(t, "return") /\ UNCHANGED writePos
  /\ UNCHANGED <<readPos, indices, cur, index, held, holder>>

\* Mutation: the slot is written without waiting for it to be cleared.
ReturnWaitSlotNone(t) ==
  /\ pc[t] = "waitSlot"
  /\ Goto(t, "storeSlot")
  /\ UNCHANGED <<readPos, writePos, indices, cur, index, held, holder>>

\* One turn of the wait for the reader of the position one ring earlier.
ReturnSpin(t) ==
  /\ pc[t] = "waitSlot"
  /\ indices[Slot(cur[t])] # UnusedPosition
  /\ UNCHANGED vars

\* The slot is clear: leave the wait.
ReturnWaitSlot(t) ==
  /\ pc[t] = "waitSlot"
  /\ indices[Slot(cur[t])] = UnusedPosition
  /\ Goto(t, "storeSlot")
  /\ UNCHANGED <<readPos, writePos, indices, cur, index, held, holder>>

ReturnStore(t) ==
  /\ pc[t] = "storeSlot"
  /\ indices' = [indices EXCEPT ![Slot(cur[t])] = index[t]]
  /\ Goto(t, "idle")
  /\ UNCHANGED <<readPos, writePos, cur, index, held, holder>>

-----------------------------------------------------------------------------
\* A step inside a call that has begun.
CallStep(t) ==
  \/ pc[t] # "idle" /\ NextLoadRead(t)
  \/ WrapReadLoad(t) \/ WrapReadCas(t)
  \/ NextEmpty(t) \/ NextLoadWrite(t)
  \/ NextMiss(t) \/ NextCheckSlot(t)
  \/ NextClaim(t) \/ NextReadSlot(t) \/ NextClearSlot(t)
  \/ ReturnLoadWrite(t) \/ WrapWriteLoad(t) \/ WrapWriteCas(t)
  \/ ReturnClaim(t) \/ ReturnSpin(t) \/ ReturnWaitSlot(t) \/ ReturnStore(t)

Next ==
  \E t \in Threads :
    \/ pc[t] = "idle" /\ NextLoadRead(t)
    \/ \E i \in held[t] : ReturnBegin(t, i)
    \/ CallStep(t)

Spec == Init /\ [][Next]_vars

\* The operating system runs every thread that is inside a call; nothing makes a
\* caller call.
FairSpec == Spec /\ \A t \in Threads : WF_vars(CallStep(t))

-----------------------------------------------------------------------------
(***************************************************************************)
(* Type invariant: the positions never pass maxPositionSize and what a     *)
(* caller holds is an index of the pool, never a slot's raw content.       *)
(***************************************************************************)
TypeOK ==
  /\ readPos \in 0 .. maxPositionSize
  /\ writePos \in 0 .. maxPositionSize
  /\ indices \in [0 .. size - 1 -> 0 .. PoolSize]
  /\ pc \in [Threads -> {"idle"} \cup NextLabels \cup ReturnLabels]
  /\ cur \in [Threads -> 0 .. maxPositionSize]
  /\ index \in [Threads -> 0 .. PoolSize]
  /\ held \in [Threads -> SUBSET Index]
  /\ holder \in [Threads -> HoldersOver(Index)]

\* Slots a reader has read and not yet cleared: their index is the reader's.
Stale == {Slot(cur[t]) : t \in {u \in Threads : pc[u] = "clearSlot"}}

\* Where index i is: in slots, with callers, in calls on its way out or back.
SlotsOf(i) == {k \in DOMAIN indices \ Stale : indices[k] = i + 1}
HoldersOf(i) == {t \in Threads : i \in held[t]}
MoversOf(i) ==
  {t \in Threads : pc[t] \in ReturnLabels \cup {"clearSlot"} /\ index[t] = i + 1}

Places(i) ==
  ({"slot"} \X SlotsOf(i)) \cup ({"held"} \X HoldersOf(i)) \cup ({"moving"} \X MoversOf(i))

(***************************************************************************)
(* Every index is in exactly one place: in one slot of the ring, with one  *)
(* caller, or inside one call of Next() or Return().  None is handed out   *)
(* twice and none is lost, whatever claims and slot accesses overlap.      *)
(***************************************************************************)
Conservation == \A i \in Index : Cardinality(Places(i)) = 1

\* No Next() looks into the slot of the read position while the reader of an
\* earlier position with that slot has yet to clear it.
NotOvertaken ==
  \A t, u \in Threads :
    (/\ pc[t] = "checkSlot" /\ cur[t] = readPos
     /\ pc[u] \in {"readSlot", "clearSlot"})
      => Slot(cur[u]) # Slot(cur[t])

(***************************************************************************)
(* A reader overtaken before it clears its slot is the only way to lose or *)
(* to duplicate an index: as long as no Next() looks into the slot of such *)
(* a reader, every index stays in one place, where the positions wrap to   *)
(* zero too, one of them before the other.                                 *)
(***************************************************************************)
ConservedUnlessOvertaken == []NotOvertaken => []Conservation

(***************************************************************************)
(* A reader that has claimed a position finds its index at once: what was  *)
(* checked before the claim still holds after it, so the spin that follows *)
(* is never needed, although the slot was not protected in between.        *)
(***************************************************************************)
ClaimedSlotFilled ==
  \A t \in Threads : pc[t] = "readSlot" => indices[Slot(cur[t])] # UnusedPosition

\* Slots whose index no reader has claimed.
Available ==
  {k \in DOMAIN indices :
     /\ indices[k] # UnusedPosition
     /\ \A t \in Threads : pc[t] \in {"readSlot", "clearSlot"} => Slot(cur[t]) # k}

(***************************************************************************)
(* When Next() answers empty because the two positions it loaded, one      *)
(* after the other, are equal, no returned index is left unclaimed in the  *)
(* ring at that moment, although both positions may have moved in between. *)
(***************************************************************************)
EmptyOnlyWhenDrained ==
  [][\A t \in Threads : NextEmpty(t) => Available = {}]_vars

(***************************************************************************)
(* The indexer implements the index pool whose Next() may miss: an index   *)
(* goes out when its slot is cleared and is back when its slot is written. *)
(***************************************************************************)
Holds(t) == held[t] \cup IF pc[t] \in ReturnLabels THEN {index[t] - 1} ELSE {}

Taken == {i \in Index : \E t \in Threads : i \in Holds(t)}

Abstract == INSTANCE IndexPool WITH
  free <- Index \ Taken,
  held <- [t \in Threads |-> Holds(t)]

ImplementsWeakPool == Abstract!WeakSpec

(***************************************************************************)
(* A call that has claimed a position finishes: the spin of Return() for a *)
(* cleared slot ends, as the reader it waits for is inside a call of its   *)
(* own, and so would that of Next() for a value.                           *)
(***************************************************************************)
ClaimsComplete ==
  \A t \in Threads : pc[t] \in {"readSlot", "waitSlot"} ~> pc[t] = "idle"

(***************************************************************************)
(* The threads never all block each other: again and again some thread is  *)
(* outside the indexer.                                                    *)
(***************************************************************************)
SomeCallCompletes == []<>(\E t \in Threads : pc[t] = "idle")

(***************************************************************************)
(* No index is with two callers at the same time, as README.md and the     *)
(* multithreaded tests of the indexers require.                            *)
(***************************************************************************)
ExclusiveIndex ==
  \A t, u \in Threads : t # u => held[t] \cap held[u] = {}
=============================================================================
