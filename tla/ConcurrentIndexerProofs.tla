----------------------- MODULE ConcurrentIndexerProofs -----------------------
(***************************************************************************)
(* Proofs about the lock-free indexer.  Types and the wrapping of the      *)
(* positions are shown for every instance.  The rest is about positions    *)
(* that do not wrap, and first says what must not happen for an index not  *)
(* to be handed out twice; with two callers it cannot happen.              *)
(***************************************************************************)
EXTENDS ConcurrentIndexer, FiniteSetTheorems, TLAPS

-----------------------------------------------------------------------------
\* The ring.

LEMMA SizeFacts ==
  /\ PoolSize \in Nat \ {0} /\ size = 2 * PoolSize /\ size \in Nat \ {0}
  /\ maxPositionSize \in Nat /\ maxPositionSize >= size
<1>1. PoolSize \in Nat \ {0} /\ size = 2 * PoolSize /\ size \in Nat \ {0} /\ MaxValue \in Nat
      /\ MaxValue >= size
  BY PoolSizeAssumption, MaxValueAssumption DEF size
<1> DEFINE q == MaxValue \div size
<1>2. q \in Int /\ MaxValue = size * q + (MaxValue % size) /\ MaxValue % size \in 0 .. size - 1
  BY <1>1
<1> HIDE DEF q
<1>3. q >= 1
  <2>1. ASSUME q <= 0 PROVE FALSE
    <3>1. size * q <= 0
      BY <1>1, <1>2, <2>1
    <3> QED
      BY <1>1, <1>2, <3>1
  <2> QED
    BY <1>2, <2>1
<1>4. q * size \in Nat /\ q * size >= size
  BY <1>1, <1>2, <1>3
<1> QED
  BY <1>1, <1>4 DEF maxPositionSize, q

LEMMA SlotIn == ASSUME NEW p \in Nat PROVE Slot(p) \in 0 .. size - 1
  BY SizeFacts DEF Slot

\* Positions less than a ring apart have different slots.
LEMMA SlotInjective ==
  ASSUME NEW p \in Nat, NEW q \in Nat, p < q + size, q < p + size, Slot(p) = Slot(q)
  PROVE  p = q
<1> DEFINE a == p \div size
           b == q \div size
           r == p % size
<1>1. size \in Nat \ {0}
  BY SizeFacts
<1>2. p = size * a + r /\ a \in Int /\ r \in 0 .. size - 1
  BY <1>1
<1>3. q = size * b + (q % size) /\ b \in Int /\ q % size = r
  BY <1>1 DEF Slot
<1>4. p = size * a + r /\ q = size * b + r
  BY <1>2, <1>3
<1> HIDE DEF a, b, r
<1>5. CASE a < b
  <2>1. size * (b - a) >= size
    BY <1>1, <1>2, <1>3, <1>5
  <2>2. q - p = size * (b - a)
    BY <1>1, <1>2, <1>3, <1>4
  <2> QED
    BY <1>1, <2>1, <2>2
<1>6. CASE b < a
  <2>1. size * (a - b) >= size
    BY <1>1, <1>2, <1>3, <1>6
  <2>2. p - q = size * (a - b)
    BY <1>1, <1>2, <1>3, <1>4
  <2> QED
    BY <1>1, <2>1, <2>2
<1>7. CASE a = b
  BY <1>4, <1>7
<1> QED
  BY <1>2, <1>3, <1>5, <1>6, <1>7

-----------------------------------------------------------------------------
\* Types, for every instance: the positions may wrap.

\* A position at the end is wrapped before it is used, and a call that moves an index
\* has one.
LocalInv ==
  \A t \in Threads :
    /\ pc[t] \in {"loadWrite", "checkSlot", "casRead", "casWrite"} => cur[t] < maxPositionSize
    /\ pc[t] \in ReturnLabels \cup {"clearSlot"} => index[t] # UnusedPosition

TypeInv == TypeOK /\ LocalInv

LEMMA TypeInit == Init => TypeInv
<1> SUFFICES ASSUME Init PROVE TypeInv
  OBVIOUS
<1>1. readPos \in 0 .. maxPositionSize /\ writePos \in 0 .. maxPositionSize
  BY SizeFacts DEF Init
<1>2. indices \in [0 .. size - 1 -> 0 .. PoolSize]
  BY SizeFacts DEF Init, UnusedPosition
<1>3. cur \in [Threads -> 0 .. maxPositionSize] /\ index \in [Threads -> 0 .. PoolSize]
  BY SizeFacts DEF Init, UnusedPosition
<1>4. /\ pc \in [Threads -> {"idle"} \cup NextLabels \cup ReturnLabels]
      /\ held \in [Threads -> SUBSET Index] /\ holder \in [Threads -> HoldersOver(Index)]
  BY DEF Init, HoldersOver
<1>5. LocalInv
  BY DEF Init, LocalInv, ReturnLabels
<1> QED
  BY <1>1, <1>2, <1>3, <1>4, <1>5 DEF TypeInv, TypeOK

LEMMA TypeNext ==
  ASSUME TypeInv, NEW t \in Threads,
         \/ NextLoadRead(t) \/ WrapReadLoad(t) \/ WrapReadCas(t) \/ NextEmpty(t)
         \/ NextLoadWrite(t) \/ NextMiss(t) \/ NextCheckSlot(t) \/ NextClaim(t)
  PROVE  TypeInv'
<1> USE SizeFacts DEF TypeInv, TypeOK, LocalInv, Goto, AnswerEmpty, NextLabels, ReturnLabels
<1>1. CASE NextLoadRead(t)
  <2>1. /\ cur' = [cur EXCEPT ![t] = readPos] /\ readPos \in 0 .. maxPositionSize
        /\ UNCHANGED <<readPos, writePos, indices, index, held, holder>>
    BY <1>1 DEF NextLoadRead, LoadReadUpTo
  <2>2. PICK l \in {"wrapRead", "loadWrite"} :
          pc' = [pc EXCEPT ![t] = l] /\ (l = "loadWrite" => readPos < maxPositionSize)
    <3>1. CASE readPos = maxPositionSize
      BY <1>1, <3>1 DEF NextLoadRead, LoadReadUpTo
    <3>2. CASE readPos # maxPositionSize
      <4>1. pc' = [pc EXCEPT ![t] = "loadWrite"] /\ readPos < maxPositionSize
        BY <1>1, <3>2 DEF NextLoadRead, LoadReadUpTo
      <4> QED
        BY <4>1
    <3> QED
      BY <3>1, <3>2
  <2>3. TypeOK'
    BY <2>1, <2>2
  <2>4. LocalInv'
    BY <2>1, <2>2
  <2> QED
    BY <2>3, <2>4
<1>2. CASE WrapReadLoad(t)
  BY <1>2 DEF WrapReadLoad
<1>3. CASE WrapReadCas(t)
  <2>1. UNCHANGED <<writePos, indices, cur, index, held, holder>>
    BY <1>3 DEF WrapReadCas, WrapReadTo
  <2>2. readPos' \in 0 .. maxPositionSize
    BY <1>3 DEF WrapReadCas, WrapReadTo
  <2>3. PICK l \in {"wrapRead", "next"} : pc' = [pc EXCEPT ![t] = l]
    BY <1>3 DEF WrapReadCas, WrapReadTo
  <2>4. TypeOK'
    BY <2>1, <2>2, <2>3
  <2>5. LocalInv'
    BY <2>1, <2>3
  <2> QED
    BY <2>4, <2>5
<1>4. CASE NextEmpty(t) \/ NextMiss(t)
  <2>1. EmptyHolder \in HoldersOver(Index)
    BY DEF HoldersOver
  <2> QED
    BY <1>4, <2>1 DEF NextEmpty, NextMiss
<1>5. CASE NextLoadWrite(t) \/ NextCheckSlot(t)
  BY <1>5 DEF NextLoadWrite, NextCheckSlot
<1>6. CASE NextClaim(t)
  <2>1. UNCHANGED <<writePos, indices, cur, index, held, holder>> /\ cur[t] < maxPositionSize
    BY <1>6 DEF NextClaim, ClaimIf
  <2>2. readPos' \in 0 .. maxPositionSize
    BY <1>6, <2>1 DEF NextClaim, ClaimIf
  <2>3. PICK l \in {"readSlot", "next"} : pc' = [pc EXCEPT ![t] = l]
    BY <1>6 DEF NextClaim, ClaimIf
  <2>4. TypeOK'
    BY <2>1, <2>2, <2>3
  <2>5. LocalInv'
    BY <2>1, <2>3
  <2> QED
    BY <2>4, <2>5
<1> QED
  BY <1>1, <1>2, <1>3, <1>4, <1>5, <1>6

LEMMA TypeTake ==
  ASSUME TypeInv, NEW t \in Threads, NextReadSlot(t) \/ NextClearSlot(t) PROVE TypeInv'
<1> USE SizeFacts DEF TypeInv, TypeOK, LocalInv, Goto, NextLabels, ReturnLabels
<1>0. Slot(cur[t]) \in 0 .. size - 1 /\ indices[Slot(cur[t])] \in 0 .. PoolSize
  <2>1. cur[t] \in Nat
    OBVIOUS
  <2>2. Slot(cur[t]) \in 0 .. size - 1
    BY <2>1, SlotIn
  <2> QED
    BY <2>2
<1>1. CASE NextReadSlot(t)
  <2>1. /\ index' = [index EXCEPT ![t] = indices[Slot(cur[t])]]
        /\ indices[Slot(cur[t])] # UnusedPosition /\ pc' = [pc EXCEPT ![t] = "clearSlot"]
        /\ UNCHANGED <<readPos, writePos, indices, cur, held, holder>>
    BY <1>1 DEF NextReadSlot
  <2>2. TypeOK'
    BY <1>0, <2>1
  <2>3. LocalInv'
    BY <1>0, <2>1
  <2> QED
    BY <2>2, <2>3
<1>2. CASE NextClearSlot(t)
  <2>1. index[t] - 1 \in Index
    BY <1>2 DEF NextClearSlot, ClearTo, Index, UnusedPosition
  <2>2. HolderOf(index[t] - 1) \in HoldersOver(Index)
    BY <2>1 DEF HoldersOver
  <2>3. UnusedPosition \in 0 .. PoolSize
    BY DEF UnusedPosition
  <2> QED
    BY <1>0, <1>2, <2>1, <2>2, <2>3 DEF NextClearSlot, ClearTo
<1> QED
  BY <1>1, <1>2

LEMMA TypeReturn ==
  ASSUME TypeInv, NEW t \in Threads,
         \/ \E i \in held[t] : ReturnBegin(t, i)
         \/ ReturnLoadWrite(t) \/ WrapWriteLoad(t) \/ WrapWriteCas(t)
         \/ ReturnClaim(t) \/ ReturnSpin(t) \/ ReturnWaitSlot(t) \/ ReturnStore(t)
  PROVE  TypeInv'
<1> USE SizeFacts DEF TypeInv, TypeOK, LocalInv, Goto, NextLabels, ReturnLabels
<1>1. ASSUME NEW i \in held[t], ReturnBegin(t, i) PROVE TypeInv'
  <2>1. i + 1 \in 0 .. PoolSize /\ i + 1 # UnusedPosition
    BY DEF Index, UnusedPosition
  <2> QED
    BY <1>1, <2>1 DEF ReturnBegin
<1>2. CASE ReturnLoadWrite(t)
  BY <1>2 DEF ReturnLoadWrite
<1>3. CASE WrapWriteLoad(t)
  BY <1>3 DEF WrapWriteLoad
<1>4. CASE WrapWriteCas(t)
  <2>1. UNCHANGED <<readPos, indices, cur, index, held, holder>> /\ pc[t] \in ReturnLabels
    BY <1>4 DEF WrapWriteCas
  <2>2. writePos' \in 0 .. maxPositionSize
    BY <1>4 DEF WrapWriteCas
  <2>3. PICK l \in {"wrapWrite", "return"} : pc' = [pc EXCEPT ![t] = l]
    BY <1>4 DEF WrapWriteCas
  <2>4. TypeOK'
    BY <2>1, <2>2, <2>3
  <2>5. LocalInv'
    BY <2>1, <2>3
  <2> QED
    BY <2>4, <2>5
<1>5. CASE ReturnClaim(t)
  <2>1. UNCHANGED <<readPos, indices, cur, index, held, holder>> /\ cur[t] < maxPositionSize
    BY <1>5 DEF ReturnClaim
  <2>2. writePos' \in 0 .. maxPositionSize
    BY <1>5, <2>1 DEF ReturnClaim
  <2>3. PICK l \in {"waitSlot", "return"} : pc' = [pc EXCEPT ![t] = l]
    BY <1>5 DEF ReturnClaim
  <2>4. pc[t] \in ReturnLabels
    BY <1>5 DEF ReturnClaim
  <2>5. TypeOK'
    BY <2>1, <2>2, <2>3
  <2>6. LocalInv'
    BY <2>1, <2>3, <2>4
  <2> QED
    BY <2>5, <2>6
<1>6. CASE ReturnSpin(t)
  BY <1>6 DEF ReturnSpin, vars
<1>7. CASE ReturnWaitSlot(t)
  BY <1>7 DEF ReturnWaitSlot
<1>8. CASE ReturnStore(t)
  <2>1. Slot(cur[t]) \in 0 .. size - 1
    BY SlotIn
  <2> QED
    BY <1>8, <2>1 DEF ReturnStore
<1> QED
  BY <1>1, <1>2, <1>3, <1>4, <1>5, <1>6, <1>7, <1>8

LEMMA TypeStep == TypeInv /\ [Next]_vars => TypeInv'
<1> SUFFICES ASSUME TypeInv, [Next]_vars PROVE TypeInv'
  OBVIOUS
<1>1. CASE UNCHANGED vars
  BY <1>1 DEF vars, TypeInv, TypeOK, LocalInv
<1>2. CASE Next
  BY <1>2, TypeNext, TypeTake, TypeReturn DEF Next, CallStep
<1> QED
  BY <1>1, <1>2

(***************************************************************************)
(* Type correctness for every pool size and every width of the positions:  *)
(* no compare-and-swap takes a position past maxPositionSize, although     *)
(* threads may be anywhere in the wrap, and no caller ever gets a slot's   *)
(* raw content.                                                            *)
(***************************************************************************)
THEOREM TypeCorrect == Spec => []TypeOK
<1>1. TypeInv => TypeOK
  BY DEF TypeInv
<1> QED
  BY <1>1, TypeInit, TypeStep, PTL DEF Spec

-----------------------------------------------------------------------------
\* Positions and slots, as long as the positions do not wrap.

NoWrap == IsFiniteSet(Threads) /\ PositionBound + Cardinality(Threads) <= maxPositionSize

\* A reader between its claim and the clearing of the slot, and a writer between its
\* claim and the write.
Claimed(t) == pc[t] \in {"readSlot", "clearSlot"}
Filling(t) == pc[t] \in {"waitSlot", "storeSlot"}

\* A position that is written and that no reader has claimed.
Written(p) ==
  /\ p \in Nat /\ readPos <= p /\ p < writePos
  /\ \A t \in Threads : Filling(t) => cur[t] # p

\* What a call knows of the positions: until another call moves readPos, a reader that
\* has looked at its slot has a written position before it.
PosAt(t) ==
  /\ pc[t] \in {"loadWrite", "checkSlot", "casRead"} => cur[t] <= readPos
  /\ pc[t] \in {"checkSlot", "casRead"} /\ cur[t] = readPos => readPos < writePos
  /\ pc[t] = "casRead" /\ cur[t] = readPos => Written(readPos)
  /\ Filling(t) => readPos <= cur[t] /\ cur[t] < writePos

PosInv ==
  /\ readPos <= writePos /\ writePos <= readPos + PoolSize
  /\ \A t \in Threads : PosAt(t)
  /\ \A t, u \in Threads : Filling(t) /\ Filling(u) /\ cur[t] = cur[u] => t = u

\* What is in the slots: a written position's, a claimed one's, a free one's.
SlotInv ==
  /\ \A p \in Nat : Written(p) => indices[Slot(p)] # UnusedPosition
  /\ \A t \in Threads : Claimed(t) => indices[Slot(cur[t])] # UnusedPosition
  /\ \A t \in Threads, p \in Nat : Claimed(t) /\ Written(p) => Slot(p) # Slot(cur[t])
  /\ \A t, u \in Threads : Claimed(t) /\ Claimed(u) /\ Slot(cur[u]) = Slot(cur[t]) => t = u
  /\ \A t \in Threads : pc[t] = "storeSlot" => indices[Slot(cur[t])] = UnusedPosition

\* Nothing else is in the ring.
NoStray ==
  \A k \in 0 .. size - 1 : indices[k] # UnusedPosition =>
    \/ \E p \in Nat : Written(p) /\ Slot(p) = k
    \/ \E t \in Threads : Claimed(t) /\ Slot(cur[t]) = k

RingInv == PosInv /\ SlotInv /\ NoStray

\* A step of t that leaves positions and slots alone, outside claim and slot access.
Quiet(t) ==
  /\ UNCHANGED <<readPos, writePos, indices>>
  /\ \A u \in Threads : u # t => pc'[u] = pc[u] /\ cur'[u] = cur[u]
  /\ ~ Claimed(t) /\ ~ Filling(t) /\ ~ Claimed(t)' /\ ~ Filling(t)'

LEMMA QuietRing ==
  ASSUME RingInv, NEW t \in Threads, Quiet(t), PosAt(t)' PROVE RingInv'
<1> USE DEF RingInv
<1>1. \A u \in Threads : (Filling(u)' <=> Filling(u)) /\ (Claimed(u)' <=> Claimed(u))
  BY DEF Quiet, Filling, Claimed
<1>2. \A u \in Threads : Filling(u) \/ Claimed(u) => cur'[u] = cur[u]
  BY DEF Quiet
<1>3. \A p \in Nat : Written(p)' <=> Written(p)
  BY <1>1, <1>2 DEF Written, Quiet
<1>4. PosInv'
  <2>1. \A u \in Threads : PosAt(u)'
    <3> SUFFICES ASSUME NEW u \in Threads, u # t PROVE PosAt(u)'
      OBVIOUS
    <3>1. PosAt(u) /\ pc'[u] = pc[u] /\ cur'[u] = cur[u] /\ UNCHANGED <<readPos, writePos>>
      BY DEF Quiet, PosInv
    <3>2. Written(readPos) => Written(readPos)'
      BY <1>1, <1>2, <3>1 DEF Written
    <3> QED
      BY <1>1, <3>1, <3>2 DEF PosAt
  <2>2. \A u, v \in Threads : Filling(u)' /\ Filling(v)' /\ cur'[u] = cur'[v] => u = v
    BY <1>1, <1>2 DEF PosInv
  <2> QED
    BY <2>1, <2>2 DEF PosInv, Quiet
<1>5. SlotInv'
  <2>1. \A p \in Nat : Written(p)' => indices'[Slot(p)] # UnusedPosition
    BY <1>3 DEF SlotInv, Quiet
  <2>2. \A u \in Threads : Claimed(u)' => indices'[Slot(cur'[u])] # UnusedPosition
    BY <1>1, <1>2 DEF SlotInv, Quiet
  <2>3. \A u \in Threads, p \in Nat : Claimed(u)' /\ Written(p)' => Slot(p) # Slot(cur'[u])
    BY <1>1, <1>2, <1>3 DEF SlotInv
  <2>4. \A u, v \in Threads : Claimed(u)' /\ Claimed(v)' /\ Slot(cur'[v]) = Slot(cur'[u]) => u = v
    BY <1>1, <1>2 DEF SlotInv
  <2>5. \A u \in Threads : pc'[u] = "storeSlot" => indices'[Slot(cur'[u])] = UnusedPosition
    BY DEF SlotInv, Quiet, Filling
  <2> QED
    BY <2>1, <2>2, <2>3, <2>4, <2>5 DEF SlotInv
<1>6. NoStray'
  BY <1>1, <1>2, <1>3 DEF NoStray, Quiet
<1> QED
  BY <1>4, <1>5, <1>6

\* The positions stay below the end, so nobody has to wrap them.
Returning == {t \in Threads : pc[t] \in {"return", "casWrite"}}

FarInv ==
  /\ writePos < maxPositionSize
  /\ \A t \in Threads : pc[t] \notin {"wrapRead", "wrapReadCas", "wrapWrite", "wrapWriteCas"}
  /\ Returning # {} =>
       writePos + Cardinality(Returning) < PositionBound + Cardinality(Threads)

LEMMA PosTypes ==
  ASSUME TypeInv
  PROVE  /\ readPos \in Nat /\ writePos \in Nat
         /\ \A t \in Threads : cur[t] \in Nat /\ Slot(cur[t]) \in 0 .. size - 1
         /\ indices \in [0 .. size - 1 -> 0 .. PoolSize]
<1>1. readPos \in Nat /\ writePos \in Nat /\ \A t \in Threads : cur[t] \in Nat
  BY SizeFacts DEF TypeInv, TypeOK
<1> QED
  BY <1>1, SlotIn DEF TypeInv, TypeOK

\* The quiet steps.  Where a reader passes its check, the hypothesis is needed: what it
\* saw in the slot was written for its position.
LEMMA QuietSteps ==
  ASSUME TypeInv, FarInv, RingInv, NotOvertaken, NEW t \in Threads,
         \/ NextLoadRead(t) \/ NextEmpty(t) \/ NextLoadWrite(t) \/ NextMiss(t) \/ NextCheckSlot(t)
         \/ (NextClaim(t) /\ readPos # cur[t])
         \/ \E i \in held[t] : ReturnBegin(t, i)
         \/ ReturnLoadWrite(t)
         \/ (ReturnClaim(t) /\ writePos # cur[t])
  PROVE  RingInv'
<1> USE PosTypes
<1>0. pc \in [Threads -> {"idle"} \cup NextLabels \cup ReturnLabels]
      /\ cur \in [Threads -> 0 .. maxPositionSize]
  BY DEF TypeInv, TypeOK
<1>1. CASE NextLoadRead(t)
  <2>1. /\ cur' = [cur EXCEPT ![t] = readPos] /\ pc[t] \in {"idle", "next"}
        /\ UNCHANGED <<readPos, writePos, indices>>
    BY <1>1 DEF NextLoadRead, LoadReadUpTo
  <2>2. readPos # maxPositionSize
    BY SizeFacts DEF FarInv, RingInv, PosInv
  <2>3. pc' = [pc EXCEPT ![t] = "loadWrite"]
    BY <1>1, <2>2 DEF NextLoadRead, LoadReadUpTo, Goto
  <2>4. Quiet(t)
    BY <1>0, <2>1, <2>3 DEF Quiet, Claimed, Filling
  <2>5. PosAt(t)'
    BY <1>0, <2>1, <2>3 DEF PosAt, Filling
  <2> QED
    BY <2>4, <2>5, QuietRing
<1>2. CASE NextEmpty(t) \/ NextMiss(t)
  <2>1. /\ pc' = [pc EXCEPT ![t] = "idle"] /\ pc[t] \in {"loadWrite", "checkSlot"}
        /\ UNCHANGED <<readPos, writePos, indices, cur>>
    BY <1>2 DEF NextEmpty, NextMiss, AnswerEmpty, Goto
  <2>2. Quiet(t) /\ PosAt(t)'
    BY <1>0, <2>1 DEF Quiet, Claimed, Filling, PosAt
  <2> QED
    BY <2>2, QuietRing
<1>3. CASE NextLoadWrite(t)
  <2>1. /\ pc' = [pc EXCEPT ![t] = "checkSlot"] /\ pc[t] = "loadWrite" /\ cur[t] # writePos
        /\ UNCHANGED <<readPos, writePos, indices, cur>>
    BY <1>3 DEF NextLoadWrite, Goto
  <2>2. Quiet(t)
    BY <1>0, <2>1 DEF Quiet, Claimed, Filling
  <2>3. cur[t] <= readPos /\ readPos <= writePos
    BY <2>1 DEF RingInv, PosInv, PosAt
  <2>4. PosAt(t)'
    BY <1>0, <2>1, <2>3 DEF PosAt, Filling
  <2> QED
    BY <2>2, <2>4, QuietRing
<1>4. CASE NextCheckSlot(t)
  <2>1. /\ pc' = [pc EXCEPT ![t] = "casRead"] /\ pc[t] = "checkSlot"
        /\ indices[Slot(cur[t])] # UnusedPosition
        /\ UNCHANGED <<readPos, writePos, indices, cur>>
    BY <1>4 DEF NextCheckSlot, Goto
  <2>2. Quiet(t)
    BY <1>0, <2>1 DEF Quiet, Claimed, Filling
  <2>3. cur[t] <= readPos /\ (cur[t] = readPos => readPos < writePos)
    BY <2>1 DEF RingInv, PosInv, PosAt
  <2>4. cur[t] = readPos => Written(readPos)
    <3> SUFFICES ASSUME cur[t] = readPos, NEW u \in Threads, Filling(u), cur[u] = readPos
                 PROVE  FALSE
      BY <2>3 DEF Written
    <3>1. CASE \E p \in Nat : Written(p) /\ Slot(p) = Slot(cur[t])
      <4>1. PICK p \in Nat : Written(p) /\ Slot(p) = Slot(readPos)
        BY <3>1
      <4>2. p < readPos + size /\ readPos < p + size
        <5>1. /\ readPos <= p /\ p < writePos /\ readPos \in Nat /\ writePos \in Nat
              /\ writePos <= readPos + PoolSize
          BY <4>1 DEF Written, RingInv, PosInv
        <5> QED
          BY <5>1, SizeFacts
      <4>3. p = readPos
        BY <4>1, <4>2, SlotInjective
      <4> QED
        BY <4>1, <4>3 DEF Written
    <3>2. CASE \E v \in Threads : Claimed(v) /\ Slot(cur[v]) = Slot(cur[t])
      BY <2>1, <3>2 DEF NotOvertaken, Claimed
    <3> QED
      BY <2>1, <3>1, <3>2 DEF RingInv, NoStray
  <2>5. \A u \in Threads : (Filling(u)' <=> Filling(u))
    BY <1>0, <2>1 DEF Filling
  <2>6. Written(readPos) => Written(readPos)'
    BY <2>1, <2>5 DEF Written
  <2>7. PosAt(t)'
    BY <1>0, <2>1, <2>3, <2>4, <2>6 DEF PosAt, Filling
  <2> QED
    BY <2>2, <2>7, QuietRing
<1>5. CASE NextClaim(t) /\ readPos # cur[t]
  <2>1. /\ pc' = [pc EXCEPT ![t] = "next"] /\ pc[t] = "casRead"
        /\ UNCHANGED <<readPos, writePos, indices, cur>>
    BY <1>5 DEF NextClaim, ClaimIf, Goto
  <2>2. Quiet(t) /\ PosAt(t)'
    BY <1>0, <2>1 DEF Quiet, Claimed, Filling, PosAt
  <2> QED
    BY <2>2, QuietRing
<1>6. CASE \E i \in held[t] : ReturnBegin(t, i)
  <2>1. /\ pc' = [pc EXCEPT ![t] = "return"] /\ pc[t] = "idle"
        /\ UNCHANGED <<readPos, writePos, indices, cur>>
    BY <1>6 DEF ReturnBegin, Goto
  <2>2. Quiet(t) /\ PosAt(t)'
    BY <1>0, <2>1 DEF Quiet, Claimed, Filling, PosAt
  <2> QED
    BY <2>2, QuietRing
<1>7. CASE ReturnLoadWrite(t)
  <2>1. /\ cur' = [cur EXCEPT ![t] = writePos] /\ pc[t] = "return"
        /\ UNCHANGED <<readPos, writePos, indices>>
    BY <1>7 DEF ReturnLoadWrite
  <2>2. writePos # maxPositionSize
    BY SizeFacts DEF FarInv
  <2>3. pc' = [pc EXCEPT ![t] = "casWrite"]
    BY <1>7, <2>2 DEF ReturnLoadWrite, Goto
  <2>4. Quiet(t) /\ PosAt(t)'
    BY <1>0, <2>1, <2>3 DEF Quiet, Claimed, Filling, PosAt
  <2> QED
    BY <2>4, QuietRing
<1>8. CASE ReturnClaim(t) /\ writePos # cur[t]
  <2>1. /\ pc' = [pc EXCEPT ![t] = "return"] /\ pc[t] = "casWrite"
        /\ UNCHANGED <<readPos, writePos, indices, cur>>
    BY <1>8 DEF ReturnClaim, Goto
  <2>2. Quiet(t) /\ PosAt(t)'
    BY <1>0, <2>1 DEF Quiet, Claimed, Filling, PosAt
  <2> QED
    BY <2>2, QuietRing
<1> QED
  BY <1>1, <1>2, <1>3, <1>4, <1>5, <1>6, <1>7, <1>8

\* A reader's claim: the first written position becomes its own.
LEMMA ClaimRing ==
  ASSUME TypeInv, RingInv, NEW t \in Threads, NextClaim(t), readPos = cur[t] PROVE RingInv'
<1> USE PosTypes DEF RingInv
<1>0. pc \in [Threads -> {"idle"} \cup NextLabels \cup ReturnLabels]
  BY DEF TypeInv, TypeOK
<1>1. /\ pc[t] = "casRead" /\ readPos' = readPos + 1 /\ pc' = [pc EXCEPT ![t] = "readSlot"]
      /\ UNCHANGED <<writePos, indices, cur>>
  BY DEF NextClaim, ClaimIf, Goto
<1>2. Written(readPos)
  BY <1>1 DEF PosInv, PosAt
<1>3. \A u \in Threads : (Filling(u)' <=> Filling(u)) /\ (Claimed(u)' <=> Claimed(u) \/ u = t)
  BY <1>0, <1>1 DEF Filling, Claimed
<1>4. \A p \in Nat : Written(p)' <=> Written(p) /\ p # readPos
  BY <1>1, <1>2, <1>3 DEF Written
<1>5. PosInv'
  <2>1. readPos' <= writePos' /\ writePos' <= readPos' + PoolSize
    BY <1>1, <1>2, SizeFacts DEF PosInv, Written
  <2>2. \A u \in Threads : PosAt(u)'
    <3> SUFFICES ASSUME NEW u \in Threads PROVE PosAt(u)'
      OBVIOUS
    <3>1. PosAt(u)
      BY DEF PosInv
    <3>2. pc'[u] \in {"loadWrite", "checkSlot", "casRead"} => u # t /\ cur[u] <= readPos
      BY <1>0, <1>1, <3>1 DEF PosAt
    <3>3. pc'[u] \in {"loadWrite", "checkSlot", "casRead"} => cur'[u] < readPos'
      BY <1>1, <3>2
    <3>4. Filling(u)' => readPos' <= cur'[u] /\ cur'[u] < writePos'
      BY <1>1, <1>2, <1>3, <3>1 DEF PosAt, Written
    <3> QED
      BY <1>1, <3>3, <3>4 DEF PosAt
  <2>3. \A u, v \in Threads : Filling(u)' /\ Filling(v)' /\ cur'[u] = cur'[v] => u = v
    BY <1>1, <1>3 DEF PosInv
  <2> QED
    BY <2>1, <2>2, <2>3 DEF PosInv
<1>6. SlotInv'
  <2>1. \A p \in Nat : Written(p)' => indices'[Slot(p)] # UnusedPosition
    BY <1>1, <1>4 DEF SlotInv
  <2>2. \A u \in Threads : Claimed(u)' => indices'[Slot(cur'[u])] # UnusedPosition
    BY <1>1, <1>2, <1>3 DEF SlotInv
  <2>3. ASSUME NEW u \in Threads, NEW p \in Nat, Claimed(u)', Written(p)'
        PROVE  Slot(p) # Slot(cur'[u])
    <3>1. Written(p) /\ p # readPos
      BY <1>4, <2>3
    <3>2. CASE u = t
      <4>1. p < readPos + size /\ readPos < p + size
        BY <3>1, SizeFacts DEF Written, PosInv
      <4> QED
        BY <1>1, <3>1, <3>2, <4>1, SlotInjective
    <3>3. CASE u # t
      BY <1>1, <1>3, <2>3, <3>1, <3>3 DEF SlotInv
    <3> QED
      BY <3>2, <3>3
  <2>4. ASSUME NEW u \in Threads, NEW v \in Threads, Claimed(u)', Claimed(v)',
               Slot(cur'[v]) = Slot(cur'[u])
        PROVE  u = v
    <3>1. \A w \in Threads : Claimed(w) => Slot(cur[w]) # Slot(cur[t])
      BY <1>2 DEF SlotInv
    <3> QED
      BY <1>1, <1>3, <2>4, <3>1 DEF SlotInv
  <2>5. \A u \in Threads : pc'[u] = "storeSlot" => indices'[Slot(cur'[u])] = UnusedPosition
    BY <1>0, <1>1 DEF SlotInv
  <2> QED
    BY <2>1, <2>2, <2>3, <2>4, <2>5 DEF SlotInv
<1>7. NoStray'
  <2> SUFFICES ASSUME NEW k \in 0 .. size - 1, indices[k] # UnusedPosition
               PROVE  \/ \E p \in Nat : Written(p)' /\ Slot(p) = k
                      \/ \E u \in Threads : Claimed(u)' /\ Slot(cur'[u]) = k
    BY <1>1 DEF NoStray
  <2>1. CASE \E p \in Nat : Written(p) /\ Slot(p) = k
    BY <1>1, <1>3, <1>4, <2>1
  <2>2. CASE \E u \in Threads : Claimed(u) /\ Slot(cur[u]) = k
    BY <1>1, <1>3, <2>2
  <2> QED
    BY <2>1, <2>2 DEF NoStray
<1> QED
  BY <1>5, <1>6, <1>7

\* Between claims: the reader keeps its slot, the writer its position.
LEMMA WaitRing ==
  ASSUME TypeInv, RingInv, NEW t \in Threads, NextReadSlot(t) \/ ReturnWaitSlot(t) PROVE RingInv'
<1> USE PosTypes DEF RingInv
<1>0. pc \in [Threads -> {"idle"} \cup NextLabels \cup ReturnLabels]
  BY DEF TypeInv, TypeOK
<1>1. UNCHANGED <<readPos, writePos, indices, cur>>
  BY DEF NextReadSlot, ReturnWaitSlot
<1>2. \/ pc[t] = "readSlot" /\ pc' = [pc EXCEPT ![t] = "clearSlot"]
      \/ /\ pc[t] = "waitSlot" /\ pc' = [pc EXCEPT ![t] = "storeSlot"]
         /\ indices[Slot(cur[t])] = UnusedPosition
  BY DEF NextReadSlot, ReturnWaitSlot, Goto
<1>3. \A u \in Threads : (Filling(u)' <=> Filling(u)) /\ (Claimed(u)' <=> Claimed(u))
  BY <1>0, <1>2 DEF Filling, Claimed
<1>4. \A p \in Nat : Written(p)' <=> Written(p)
  BY <1>1, <1>3 DEF Written
<1>5. \A u \in Threads : pc'[u] \in {"loadWrite", "checkSlot", "casRead"} => pc'[u] = pc[u]
  BY <1>0, <1>2
<1>6. \A u \in Threads : PosAt(u) => PosAt(u)'
  BY <1>1, <1>3, <1>4, <1>5 DEF PosAt
<1>7. PosInv'
  BY <1>1, <1>3, <1>6 DEF PosInv
<1>8. \A u \in Threads : pc'[u] = "storeSlot" => indices[Slot(cur[u])] = UnusedPosition
  BY <1>0, <1>2 DEF SlotInv
<1>9. SlotInv' /\ NoStray'
  BY <1>1, <1>3, <1>4, <1>8 DEF SlotInv, NoStray
<1> QED
  BY <1>7, <1>9

\* The reader is done with its slot.
LEMMA ClearRing ==
  ASSUME TypeInv, RingInv, NEW t \in Threads, NextClearSlot(t) PROVE RingInv'
<1> USE PosTypes DEF RingInv
<1> DEFINE k == Slot(cur[t])
<1>0. pc \in [Threads -> {"idle"} \cup NextLabels \cup ReturnLabels]
  BY DEF TypeInv, TypeOK
<1>1. /\ pc[t] = "clearSlot" /\ pc' = [pc EXCEPT ![t] = "idle"]
      /\ indices' = [indices EXCEPT ![k] = UnusedPosition]
      /\ UNCHANGED <<readPos, writePos, cur>>
  BY DEF NextClearSlot, ClearTo, Goto
<1>2. Claimed(t) /\ k \in 0 .. size - 1
  BY <1>1 DEF Claimed
<1>3. \A u \in Threads : (Filling(u)' <=> Filling(u)) /\ (Claimed(u)' <=> Claimed(u) /\ u # t)
  BY <1>0, <1>1 DEF Filling, Claimed
<1>4. \A p \in Nat : Written(p)' <=> Written(p)
  BY <1>1, <1>3 DEF Written
<1>5. \A u \in Threads : pc'[u] # "idle" => pc'[u] = pc[u]
  BY <1>0, <1>1
<1>6. \A u \in Threads : PosAt(u) => PosAt(u)'
  BY <1>1, <1>3, <1>4, <1>5 DEF PosAt
<1>7. PosInv'
  BY <1>1, <1>3, <1>6 DEF PosInv
<1>8. indices'[k] = UnusedPosition /\ \A l \in 0 .. size - 1 : l # k => indices'[l] = indices[l]
  BY <1>1, <1>2
<1> HIDE DEF k
<1>9. SlotInv'
  <2>1. ASSUME NEW p \in Nat, Written(p)' PROVE indices'[Slot(p)] # UnusedPosition
    <3>1. Slot(p) # k /\ indices[Slot(p)] # UnusedPosition
      BY <1>2, <1>4, <2>1 DEF SlotInv, k
    <3> QED
      BY <1>8, <3>1, SlotIn
  <2>2. ASSUME NEW u \in Threads, Claimed(u)' PROVE indices'[Slot(cur'[u])] # UnusedPosition
    <3>1. Slot(cur[u]) # k /\ indices[Slot(cur[u])] # UnusedPosition
      BY <1>2, <1>3, <2>2 DEF SlotInv, k
    <3> QED
      BY <1>1, <1>8, <3>1
  <2>3. \A u \in Threads, p \in Nat : Claimed(u)' /\ Written(p)' => Slot(p) # Slot(cur'[u])
    BY <1>1, <1>3, <1>4 DEF SlotInv
  <2>4. \A u, v \in Threads : Claimed(u)' /\ Claimed(v)' /\ Slot(cur'[v]) = Slot(cur'[u]) => u = v
    BY <1>1, <1>3 DEF SlotInv
  <2>5. ASSUME NEW u \in Threads, pc'[u] = "storeSlot"
        PROVE  indices'[Slot(cur'[u])] = UnusedPosition
    <3>1. indices[Slot(cur[u])] = UnusedPosition
      BY <1>5, <2>5 DEF SlotInv
    <3> QED
      BY <1>1, <1>8, <3>1
  <2> QED
    BY <2>1, <2>2, <2>3, <2>4, <2>5 DEF SlotInv
<1>10. NoStray'
  <2> SUFFICES ASSUME NEW l \in 0 .. size - 1, indices'[l] # UnusedPosition
               PROVE  \/ \E p \in Nat : Written(p)' /\ Slot(p) = l
                      \/ \E u \in Threads : Claimed(u)' /\ Slot(cur'[u]) = l
    BY DEF NoStray
  <2>1. l # k /\ indices[l] # UnusedPosition
    BY <1>8
  <2>2. CASE \E p \in Nat : Written(p) /\ Slot(p) = l
    BY <1>4, <2>2
  <2>3. CASE \E u \in Threads : Claimed(u) /\ Slot(cur[u]) = l
    BY <1>1, <1>3, <2>1, <2>3 DEF k
  <2> QED
    BY <2>1, <2>2, <2>3 DEF NoStray
<1> QED
  BY <1>7, <1>9, <1>10

\* A writer's claim, when there is room.
LEMMA GrowRing ==
  ASSUME TypeInv, RingInv, NEW t \in Threads, ReturnClaim(t), writePos = cur[t],
         writePos + 1 <= readPos + PoolSize
  PROVE  RingInv'
<1> USE PosTypes DEF RingInv
<1>0. pc \in [Threads -> {"idle"} \cup NextLabels \cup ReturnLabels]
  BY DEF TypeInv, TypeOK
<1>1. /\ pc[t] = "casWrite" /\ writePos' = writePos + 1 /\ pc' = [pc EXCEPT ![t] = "waitSlot"]
      /\ UNCHANGED <<readPos, indices, cur>>
  BY DEF ReturnClaim, Goto
<1>2. \A u \in Threads : (Filling(u)' <=> Filling(u) \/ u = t) /\ (Claimed(u)' <=> Claimed(u))
  BY <1>0, <1>1 DEF Filling, Claimed
<1>3. \A p \in Nat : Written(p)' <=> Written(p)
  BY <1>1, <1>2 DEF Written
<1>4. \A u \in Threads : u # t => pc'[u] = pc[u]
  BY <1>0, <1>1
<1>5. PosInv'
  <2>1. \A u \in Threads : PosAt(u)'
    <3> SUFFICES ASSUME NEW u \in Threads PROVE PosAt(u)'
      OBVIOUS
    <3>1. PosAt(u) /\ readPos <= writePos
      BY DEF PosInv
    <3>2. CASE u = t
      BY <1>0, <1>1, <3>1, <3>2 DEF PosAt, Filling
    <3>3. CASE u # t
      BY <1>1, <1>2, <1>3, <1>4, <3>1, <3>3 DEF PosAt
    <3> QED
      BY <3>2, <3>3
  <2>2. ASSUME NEW u \in Threads, NEW v \in Threads, Filling(u)', Filling(v)', cur'[u] = cur'[v]
        PROVE  u = v
    <3>1. \A w \in Threads : Filling(w) => cur[w] < writePos
      BY DEF PosInv, PosAt
    <3> QED
      BY <1>1, <1>2, <2>2, <3>1 DEF PosInv
  <2>3. readPos' <= writePos' /\ writePos' <= readPos' + PoolSize
    BY <1>1 DEF PosInv
  <2> QED
    BY <2>1, <2>2, <2>3 DEF PosInv
<1>6. SlotInv' /\ NoStray'
  <2>1. \A u \in Threads : pc'[u] = "storeSlot" => pc[u] = "storeSlot"
    BY <1>0, <1>1
  <2> QED
    BY <1>1, <1>2, <1>3, <2>1 DEF SlotInv, NoStray
<1> QED
  BY <1>5, <1>6

\* The writer's index is in the slot.
LEMMA StoreRing ==
  ASSUME TypeInv, RingInv, NEW t \in Threads, ReturnStore(t) PROVE RingInv'
<1> USE PosTypes DEF RingInv
<1> DEFINE k == Slot(cur[t])
<1>0. pc \in [Threads -> {"idle"} \cup NextLabels \cup ReturnLabels]
  BY DEF TypeInv, TypeOK
<1>1. /\ pc[t] = "storeSlot" /\ pc' = [pc EXCEPT ![t] = "idle"]
      /\ indices' = [indices EXCEPT ![k] = index[t]]
      /\ UNCHANGED <<readPos, writePos, cur>>
  BY DEF ReturnStore, Goto
<1>2. /\ Filling(t) /\ k \in 0 .. size - 1 /\ indices[k] = UnusedPosition
      /\ index[t] # UnusedPosition /\ readPos <= cur[t] /\ cur[t] < writePos
  BY <1>1 DEF Filling, SlotInv, PosInv, PosAt, TypeInv, LocalInv, ReturnLabels
<1>3. \A u \in Threads : (Filling(u)' <=> Filling(u) /\ u # t) /\ (Claimed(u)' <=> Claimed(u))
  BY <1>0, <1>1 DEF Filling, Claimed
<1>4. \A p \in Nat : Written(p)' <=> Written(p) \/ p = cur[t]
  BY <1>1, <1>2, <1>3 DEF Written, PosInv
<1>5. \A u \in Threads : pc'[u] # "idle" => pc'[u] = pc[u] /\ u # t
  BY <1>0, <1>1
<1>6. \A u \in Threads : PosAt(u) => PosAt(u)'
  BY <1>1, <1>3, <1>4, <1>5 DEF PosAt
<1>7. PosInv'
  BY <1>1, <1>3, <1>6 DEF PosInv
<1>8. indices'[k] = index[t] /\ \A l \in 0 .. size - 1 : l # k => indices'[l] = indices[l]
  BY <1>1, <1>2
<1>9. \A u \in Threads : Claimed(u) => Slot(cur[u]) # k
  BY <1>2 DEF SlotInv
<1> HIDE DEF k
<1>10. SlotInv'
  <2>1. ASSUME NEW p \in Nat, Written(p)' PROVE indices'[Slot(p)] # UnusedPosition
    BY <1>2, <1>4, <1>8, <2>1, SlotIn DEF SlotInv, k
  <2>2. \A u \in Threads : Claimed(u)' => indices'[Slot(cur'[u])] # UnusedPosition
    BY <1>1, <1>3, <1>8, <1>9 DEF SlotInv
  <2>3. \A u \in Threads, p \in Nat : Claimed(u)' /\ Written(p)' => Slot(p) # Slot(cur'[u])
    BY <1>1, <1>3, <1>4, <1>9 DEF SlotInv, k
  <2>4. \A u, v \in Threads : Claimed(u)' /\ Claimed(v)' /\ Slot(cur'[v]) = Slot(cur'[u]) => u = v
    BY <1>1, <1>3 DEF SlotInv
  <2>5. ASSUME NEW u \in Threads, pc'[u] = "storeSlot"
        PROVE  indices'[Slot(cur'[u])] = UnusedPosition
    <3>1. pc[u] = "storeSlot" /\ u # t /\ Filling(u) /\ indices[Slot(cur[u])] = UnusedPosition
      BY <1>5, <2>5 DEF Filling, SlotInv
    <3>2. cur[u] # cur[t] /\ readPos <= cur[u] /\ cur[u] < writePos
      BY <1>2, <3>1 DEF PosInv, PosAt
    <3>3. writePos <= readPos + PoolSize
      BY DEF PosInv
    <3>4. cur[u] < cur[t] + size /\ cur[t] < cur[u] + size
      <4>1. \A a, b, r, w, n \in Nat :
              (r <= a /\ a < w /\ r <= b /\ b < w /\ w <= r + n) => a < b + 2 * n
        OBVIOUS
      <4>2. cur[u] \in Nat /\ cur[t] \in Nat /\ readPos \in Nat /\ writePos \in Nat
        OBVIOUS
      <4> QED
        BY <1>2, <3>2, <3>3, <4>1, <4>2, SizeFacts
    <3>5. Slot(cur[u]) # k
      BY <3>2, <3>4, SlotInjective DEF k
    <3> QED
      BY <1>1, <1>8, <3>1, <3>5
  <2> QED
    BY <2>1, <2>2, <2>3, <2>4, <2>5 DEF SlotInv
<1>11. NoStray'
  <2> SUFFICES ASSUME NEW l \in 0 .. size - 1, indices'[l] # UnusedPosition
               PROVE  \/ \E p \in Nat : Written(p)' /\ Slot(p) = l
                      \/ \E u \in Threads : Claimed(u)' /\ Slot(cur'[u]) = l
    BY DEF NoStray
  <2>1. CASE l = k
    BY <1>4, <2>1 DEF k
  <2>2. CASE l # k
    <3>1. indices[l] # UnusedPosition
      BY <1>8, <2>2
    <3>2. CASE \E p \in Nat : Written(p) /\ Slot(p) = l
      BY <1>4, <3>2
    <3>3. CASE \E u \in Threads : Claimed(u) /\ Slot(cur[u]) = l
      BY <1>1, <1>3, <3>3
    <3> QED
      BY <3>1, <3>2, <3>3 DEF NoStray
  <2> QED
    BY <2>1, <2>2
<1> QED
  BY <1>7, <1>10, <1>11

-----------------------------------------------------------------------------
\* Where the indices are.

OneHome(i) ==
  \/ (\E k : SlotsOf(i) = {k}) /\ HoldersOf(i) = {} /\ MoversOf(i) = {}
  \/ SlotsOf(i) = {} /\ (\E t : HoldersOf(i) = {t}) /\ MoversOf(i) = {}
  \/ SlotsOf(i) = {} /\ HoldersOf(i) = {} /\ (\E t : MoversOf(i) = {t})

HomeInv == \A i \in Index : OneHome(i)

LEMMA HomeUnique ==
  ASSUME NEW i, OneHome(i)
  PROVE  /\ \A k, l \in SlotsOf(i) : k = l
         /\ \A t, u \in MoversOf(i) : t = u
         /\ \A t, u \in HoldersOf(i) : t = u
         /\ SlotsOf(i) # {} => MoversOf(i) = {} /\ HoldersOf(i) = {}
         /\ MoversOf(i) # {} => SlotsOf(i) = {} /\ HoldersOf(i) = {}
         /\ HoldersOf(i) # {} => SlotsOf(i) = {} /\ MoversOf(i) = {}
  BY DEF OneHome

\* A call that moves an index is that index's place; so is the slot of a written position.
LEMMA MoverHome ==
  ASSUME TypeInv, NEW t \in Threads, pc[t] \in ReturnLabels \cup {"clearSlot"}
  PROVE  index[t] \in 1 .. PoolSize /\ index[t] - 1 \in Index /\ t \in MoversOf(index[t] - 1)
<1>1. index[t] \in 0 .. PoolSize /\ index[t] # 0
  BY DEF TypeInv, TypeOK, LocalInv, UnusedPosition
<1>2. index[t] \in 1 .. PoolSize /\ index[t] - 1 \in Index /\ index[t] = (index[t] - 1) + 1
  BY <1>1, SizeFacts DEF Index
<1> QED
  BY <1>2 DEF MoversOf

LEMMA WrittenHome ==
  ASSUME TypeInv, RingInv, NEW p \in Nat, Written(p)
  PROVE  /\ indices[Slot(p)] \in 1 .. PoolSize /\ indices[Slot(p)] - 1 \in Index
         /\ Slot(p) \in SlotsOf(indices[Slot(p)] - 1)
<1>1. Slot(p) \in 0 .. size - 1 /\ Slot(p) \in DOMAIN indices
  BY SlotIn, PosTypes
<1>2. indices[Slot(p)] \in 0 .. PoolSize /\ indices[Slot(p)] # 0
  BY <1>1, PosTypes DEF RingInv, SlotInv, UnusedPosition
<1>3. indices[Slot(p)] \in 1 .. PoolSize /\ indices[Slot(p)] - 1 \in Index
      /\ indices[Slot(p)] = (indices[Slot(p)] - 1) + 1
  BY <1>2, SizeFacts DEF Index
<1>4. Slot(p) \notin Stale
  BY DEF Stale, RingInv, SlotInv, Claimed
<1> QED
  BY <1>1, <1>3, <1>4 DEF SlotsOf

\* There is room for every index that is on its way back: positions that are written or
\* being filled, and the one about to be claimed, carry different indices.
LEMMA Room ==
  ASSUME TypeInv, RingInv, HomeInv, NEW t \in Threads, pc[t] = "casWrite"
  PROVE  writePos + 1 <= readPos + PoolSize
<1> DEFINE S == readPos .. writePos
           T == 1 .. PoolSize
           Carries(p, v) ==
             \/ p = writePos /\ v = index[t]
             \/ Written(p) /\ v = indices[Slot(p)]
             \/ \E u \in Threads : Filling(u) /\ cur[u] = p /\ v = index[u]
           f == [p \in S |-> CHOOSE v \in T : Carries(p, v)]
<1>0. readPos \in Nat /\ writePos \in Nat /\ readPos <= writePos /\ PoolSize \in Nat \ {0}
      /\ writePos <= readPos + PoolSize
  BY PosTypes, SizeFacts DEF RingInv, PosInv
<1>1. \A u \in Threads : Filling(u) \/ u = t =>
        index[u] \in T /\ index[u] - 1 \in Index /\ u \in MoversOf(index[u] - 1)
  BY MoverHome DEF Filling, ReturnLabels
<1>2. \A p \in Nat : Written(p) =>
        /\ indices[Slot(p)] \in T /\ indices[Slot(p)] - 1 \in Index
        /\ Slot(p) \in SlotsOf(indices[Slot(p)] - 1)
  BY WrittenHome
<1>3. ASSUME NEW p \in S PROVE \E v \in T : Carries(p, v)
  <2>1. p \in Nat /\ (p = writePos \/ (readPos <= p /\ p < writePos))
    BY <1>0
  <2>2. p = writePos \/ Written(p) \/ \E u \in Threads : Filling(u) /\ cur[u] = p
    BY <2>1 DEF Written
  <2> QED
    BY <1>1, <1>2, <2>1, <2>2
<1>4. ASSUME NEW p \in S, NEW q \in S, NEW v \in T, Carries(p, v), Carries(q, v) PROVE p = q
  <2>0. p \in Nat /\ q \in Nat /\ p < q + size /\ q < p + size
    BY <1>0, SizeFacts
  <2>1. PICK i \in Index : i = v - 1
    BY <1>0 DEF Index
  <2>2. /\ \A k, l \in SlotsOf(i) : k = l
        /\ \A a, b \in MoversOf(i) : a = b
        /\ SlotsOf(i) # {} => MoversOf(i) = {}
    BY HomeUnique DEF HomeInv
  <2>3. ~ Filling(t) /\ \A u \in Threads : Filling(u) => cur[u] < writePos
    BY DEF Filling, RingInv, PosInv, PosAt
  <2>4. ASSUME NEW u \in Threads, Filling(u) \/ u = t, v = index[u] PROVE u \in MoversOf(i)
    BY <1>1, <2>1, <2>4
  <2>5. ASSUME NEW r \in Nat, Written(r), v = indices[Slot(r)] PROVE Slot(r) \in SlotsOf(i)
    BY <1>2, <2>1, <2>5
  <2>6. CASE Written(p) /\ v = indices[Slot(p)]
    <3>1. Slot(p) \in SlotsOf(i)
      BY <2>0, <2>6, <2>5
    <3>2. MoversOf(i) = {}
      BY <2>2, <3>1
    <3>3. Written(q) /\ v = indices[Slot(q)]
      BY <1>4, <2>4, <3>2
    <3>4. Slot(q) \in SlotsOf(i)
      BY <2>0, <2>5, <3>3
    <3> QED
      BY <2>0, <2>2, <3>1, <3>4, SlotInjective
  <2>7. CASE ~ (Written(p) /\ v = indices[Slot(p)])
    <3>1. PICK a \in Threads : /\ a \in MoversOf(i)
                               /\ (a = t /\ p = writePos) \/ (Filling(a) /\ cur[a] = p)
      BY <1>4, <2>7, <2>4
    <3>2. SlotsOf(i) = {}
      BY <2>2, <3>1
    <3>3. ~ (Written(q) /\ v = indices[Slot(q)])
      BY <2>0, <2>5, <3>2
    <3>4. PICK b \in Threads : /\ b \in MoversOf(i)
                               /\ (b = t /\ q = writePos) \/ (Filling(b) /\ cur[b] = q)
      BY <1>4, <2>4, <3>3
    <3>5. a = b
      BY <2>2, <3>1, <3>4
    <3> QED
      BY <2>3, <3>1, <3>4, <3>5
  <2> QED
    BY <2>6, <2>7
<1> HIDE DEF Carries
<1>5. \A p \in S : f[p] \in T /\ Carries(p, f[p])
  BY <1>3, Zenon
<1>6. f \in [S -> T]
  BY <1>5
<1>7. IsFiniteSet(S) /\ Cardinality(S) = writePos - readPos + 1
  BY <1>0, FS_Interval
<1>8. IsFiniteSet(T) /\ Cardinality(T) = PoolSize
  BY <1>0, FS_Interval
<1> HIDE DEF S, T, f
<1>9. ~ (PoolSize < writePos - readPos + 1)
  <2> SUFFICES ASSUME PoolSize < writePos - readPos + 1 PROVE FALSE
    OBVIOUS
  <2>1. \E x, y \in S : x # y /\ f[x] = f[y]
    BY <1>6, <1>7, <1>8, FS_PigeonHole
  <2> QED
    BY <1>4, <1>5, <2>1
<1> QED
  BY <1>0, <1>9

\* Steps that move no index.
LEMMA SameHome ==
  ASSUME HomeInv, NEW t \in Threads, NEW l, pc' = [pc EXCEPT ![t] = l],
         pc \in [Threads -> {"idle"} \cup NextLabels \cup ReturnLabels],
         pc[t] # "clearSlot", l # "clearSlot", pc[t] \in ReturnLabels <=> l \in ReturnLabels,
         \A u \in Threads : u # t => cur'[u] = cur[u],
         UNCHANGED <<indices, held, index>>
  PROVE  HomeInv'
<1>1. \A u \in Threads : u # t => pc'[u] = pc[u]
  OBVIOUS
<1>2. pc'[t] = l
  OBVIOUS
<1>3. Stale' = Stale
  BY <1>1, <1>2 DEF Stale
<1>4. ASSUME NEW i \in Index
      PROVE  SlotsOf(i)' = SlotsOf(i) /\ HoldersOf(i)' = HoldersOf(i) /\ MoversOf(i)' = MoversOf(i)
  <2>1. SlotsOf(i)' = SlotsOf(i)
    BY <1>3 DEF SlotsOf
  <2>2. HoldersOf(i)' = HoldersOf(i)
    BY DEF HoldersOf
  <2>3. MoversOf(i)' = MoversOf(i)
    BY <1>1, <1>2 DEF MoversOf
  <2> QED
    BY <2>1, <2>2, <2>3
<1>5. ASSUME NEW i \in Index PROVE OneHome(i)'
  <2>1. OneHome(i)
    BY DEF HomeInv
  <2> QED
    BY <1>4, <2>1 DEF OneHome
<1> QED
  BY <1>5 DEF HomeInv

LEMMA QuietHome ==
  ASSUME TypeInv, HomeInv, NEW t \in Threads,
         \/ NextLoadRead(t) \/ WrapReadLoad(t) \/ WrapReadCas(t) \/ NextEmpty(t)
         \/ NextLoadWrite(t) \/ NextMiss(t) \/ NextCheckSlot(t) \/ NextClaim(t)
         \/ ReturnLoadWrite(t) \/ WrapWriteLoad(t) \/ WrapWriteCas(t)
         \/ ReturnClaim(t) \/ ReturnWaitSlot(t)
  PROVE  HomeInv'
<1>0. pc \in [Threads -> {"idle"} \cup NextLabels \cup ReturnLabels]
      /\ cur \in [Threads -> 0 .. maxPositionSize]
  BY DEF TypeInv, TypeOK
<1>1. CASE \/ NextLoadRead(t) \/ WrapReadLoad(t) \/ WrapReadCas(t) \/ NextEmpty(t)
           \/ NextLoadWrite(t) \/ NextMiss(t) \/ NextCheckSlot(t) \/ NextClaim(t)
  <2>1. /\ pc[t] # "clearSlot" /\ pc[t] \notin ReturnLabels
        /\ \A u \in Threads : u # t => cur'[u] = cur[u]
        /\ UNCHANGED <<indices, held, index>>
    BY <1>0, <1>1 DEF NextLoadRead, LoadReadUpTo, WrapReadLoad, WrapReadCas, WrapReadTo, NextEmpty,
       NextLoadWrite, NextMiss, NextCheckSlot, NextClaim, ClaimIf, ReturnLabels
  <2>2. PICK l \in {"wrapRead", "loadWrite", "wrapReadCas", "next", "idle", "checkSlot", "casRead",
                    "readSlot"} : pc' = [pc EXCEPT ![t] = l]
    BY <1>1 DEF NextLoadRead, LoadReadUpTo, WrapReadLoad, WrapReadCas, WrapReadTo, NextEmpty,
       NextLoadWrite, NextMiss, NextCheckSlot, NextClaim, ClaimIf, AnswerEmpty, Goto
  <2>3. l # "clearSlot" /\ l \notin ReturnLabels
    BY DEF ReturnLabels
  <2> QED
    BY <1>0, <2>1, <2>2, <2>3, SameHome
<1>2. CASE \/ ReturnLoadWrite(t) \/ WrapWriteLoad(t) \/ WrapWriteCas(t)
           \/ ReturnClaim(t) \/ ReturnWaitSlot(t)
  <2>1. /\ pc[t] # "clearSlot" /\ pc[t] \in ReturnLabels
        /\ \A u \in Threads : u # t => cur'[u] = cur[u]
        /\ UNCHANGED <<indices, held, index>>
    BY <1>0, <1>2 DEF ReturnLoadWrite, WrapWriteLoad, WrapWriteCas, ReturnClaim, ReturnWaitSlot,
       ReturnLabels
  <2>2. PICK l \in ReturnLabels : pc' = [pc EXCEPT ![t] = l]
    BY <1>2 DEF ReturnLoadWrite, WrapWriteLoad, WrapWriteCas, ReturnClaim, ReturnWaitSlot,
       ReturnLabels, Goto
  <2>3. l # "clearSlot"
    BY DEF ReturnLabels
  <2> QED
    BY <1>0, <2>1, <2>2, <2>3, SameHome
<1> QED
  BY <1>1, <1>2

\* Next() takes the index out of the slot ...
LEMMA ReadHome ==
  ASSUME TypeInv, RingInv, HomeInv, NEW t \in Threads, NextReadSlot(t) PROVE HomeInv'
<1> USE PosTypes
<1> DEFINE k == Slot(cur[t])
<1>0. pc \in [Threads -> {"idle"} \cup NextLabels \cup ReturnLabels]
      /\ index \in [Threads -> 0 .. PoolSize] /\ k \in 0 .. size - 1
  BY DEF TypeInv, TypeOK
<1>1. /\ pc[t] = "readSlot" /\ pc' = [pc EXCEPT ![t] = "clearSlot"]
      /\ indices[k] # UnusedPosition /\ index' = [index EXCEPT ![t] = indices[k]]
      /\ UNCHANGED <<indices, cur, held>>
  BY DEF NextReadSlot, Goto
<1> HIDE DEF k
<1>2. k \notin Stale /\ Stale' = Stale \cup {k}
  <2>1. \A u \in Threads : pc[u] = "clearSlot" => Slot(cur[u]) # k
    BY <1>1 DEF RingInv, SlotInv, Claimed, k
  <2>2. \A u \in Threads : pc'[u] = "clearSlot" <=> (pc[u] = "clearSlot" \/ u = t)
    BY <1>0, <1>1
  <2> QED
    BY <1>1, <2>1, <2>2 DEF Stale, k
<1>3. ASSUME NEW i \in Index PROVE OneHome(i)'
  <2>0. OneHome(i)
    BY DEF HomeInv
  <2>1. SlotsOf(i)' = SlotsOf(i) \ {k} /\ HoldersOf(i)' = HoldersOf(i)
    BY <1>1, <1>2 DEF SlotsOf, HoldersOf
  <2>2. CASE indices[k] = i + 1
    <3>1. k \in SlotsOf(i)
      BY <1>0, <1>2, <2>2 DEF SlotsOf
    <3>2. SlotsOf(i) = {k} /\ HoldersOf(i) = {} /\ MoversOf(i) = {}
      BY <2>0, <3>1, HomeUnique
    <3>3. MoversOf(i)' = MoversOf(i) \cup {t}
      BY <1>0, <1>1, <2>2 DEF MoversOf
    <3>4. SlotsOf(i)' = {} /\ HoldersOf(i)' = {} /\ MoversOf(i)' = {t}
      BY <2>1, <3>2, <3>3
    <3> QED
      BY <3>4 DEF OneHome
  <2>3. CASE indices[k] # i + 1
    <3>1. SlotsOf(i)' = SlotsOf(i)
      BY <2>1, <2>3 DEF SlotsOf
    <3>2. MoversOf(i)' = MoversOf(i)
      BY <1>0, <1>1, <2>3 DEF MoversOf, ReturnLabels
    <3> QED
      BY <2>0, <2>1, <3>1, <3>2 DEF OneHome
  <2> QED
    BY <2>2, <2>3
<1> QED
  BY <1>3 DEF HomeInv

\* ... and gives it to the caller,
LEMMA ClearHome ==
  ASSUME TypeInv, RingInv, HomeInv, NEW t \in Threads, NextClearSlot(t) PROVE HomeInv'
<1> USE PosTypes
<1> DEFINE k == Slot(cur[t])
<1>0. pc \in [Threads -> {"idle"} \cup NextLabels \cup ReturnLabels]
      /\ held \in [Threads -> SUBSET Index] /\ k \in 0 .. size - 1
  BY DEF TypeInv, TypeOK
<1>1. /\ pc[t] = "clearSlot" /\ pc' = [pc EXCEPT ![t] = "idle"]
      /\ indices' = [indices EXCEPT ![k] = UnusedPosition]
      /\ held' = [held EXCEPT ![t] = @ \cup {index[t] - 1}]
      /\ UNCHANGED <<cur, index>>
  BY DEF NextClearSlot, ClearTo, Goto
<1>2. index[t] \in 1 .. PoolSize /\ index[t] - 1 \in Index
  BY <1>1, MoverHome
<1> HIDE DEF k
<1>3. k \in Stale /\ Stale' = Stale \ {k}
  <2>1. \A u \in Threads : pc[u] = "clearSlot" /\ Slot(cur[u]) = k => u = t
    BY <1>1 DEF RingInv, SlotInv, Claimed, k
  <2>2. \A u \in Threads : pc'[u] = "clearSlot" <=> (pc[u] = "clearSlot" /\ u # t)
    BY <1>0, <1>1
  <2> QED
    BY <1>1, <2>1, <2>2 DEF Stale, k
<1>4. ASSUME NEW i \in Index PROVE OneHome(i)'
  <2>0. OneHome(i) /\ i \in Nat
    BY SizeFacts DEF HomeInv, Index
  <2>1. SlotsOf(i)' = SlotsOf(i)
    <3>1. DOMAIN indices' = DOMAIN indices /\ indices'[k] = 0
          /\ \A j \in DOMAIN indices : j # k => indices'[j] = indices[j]
      BY <1>0, <1>1 DEF UnusedPosition
    <3>2. i + 1 # 0
      BY <2>0
    <3> QED
      BY <1>3, <3>1, <3>2 DEF SlotsOf
  <2>2. CASE index[t] = i + 1
    <3>1. t \in MoversOf(i) /\ i = index[t] - 1
      BY <1>1, <1>2, <2>0, <2>2 DEF MoversOf
    <3>2. MoversOf(i) = {t} /\ HoldersOf(i) = {} /\ SlotsOf(i) = {}
      BY <2>0, <3>1, HomeUnique
    <3>3. MoversOf(i)' = MoversOf(i) \ {t}
      BY <1>0, <1>1 DEF MoversOf, ReturnLabels
    <3>4. HoldersOf(i)' = HoldersOf(i) \cup {t}
      BY <1>0, <1>1, <3>1 DEF HoldersOf
    <3>5. SlotsOf(i)' = {} /\ HoldersOf(i)' = {t} /\ MoversOf(i)' = {}
      BY <2>1, <3>2, <3>3, <3>4
    <3> QED
      BY <3>5 DEF OneHome
  <2>3. CASE index[t] # i + 1
    <3>1. MoversOf(i)' = MoversOf(i)
      BY <1>0, <1>1, <2>3 DEF MoversOf, ReturnLabels
    <3>2. i # index[t] - 1
      BY <1>2, <2>0, <2>3
    <3>3. HoldersOf(i)' = HoldersOf(i)
      BY <1>0, <1>1, <3>2 DEF HoldersOf
    <3> QED
      BY <2>0, <2>1, <3>1, <3>3 DEF OneHome
  <2> QED
    BY <2>2, <2>3
<1> QED
  BY <1>4 DEF HomeInv

\* ... who gives it up for Return(),
LEMMA BeginHome ==
  ASSUME TypeInv, HomeInv, NEW t \in Threads, NEW g \in held[t], ReturnBegin(t, g) PROVE HomeInv'
<1>0. /\ pc \in [Threads -> {"idle"} \cup NextLabels \cup ReturnLabels]
      /\ held \in [Threads -> SUBSET Index] /\ index \in [Threads -> 0 .. PoolSize] /\ g \in Index
  BY DEF TypeInv, TypeOK
<1>1. /\ pc[t] = "idle" /\ pc' = [pc EXCEPT ![t] = "return"]
      /\ held' = [held EXCEPT ![t] = @ \ {g}] /\ index' = [index EXCEPT ![t] = g + 1]
      /\ UNCHANGED <<indices, cur>>
  BY DEF ReturnBegin, Goto
<1>2. Stale' = Stale
  BY <1>0, <1>1 DEF Stale
<1>3. \A u \in Threads : u # t => pc'[u] = pc[u] /\ held'[u] = held[u] /\ index'[u] = index[u]
  BY <1>0, <1>1
<1>4. pc'[t] = "return" /\ held'[t] = held[t] \ {g} /\ index'[t] = g + 1
  BY <1>0, <1>1
<1>5. ASSUME NEW i \in Index PROVE OneHome(i)'
  <2>0. OneHome(i)
    BY DEF HomeInv
  <2>1. SlotsOf(i)' = SlotsOf(i)
    BY <1>1, <1>2 DEF SlotsOf
  <2>2. CASE i = g
    <3>1. t \in HoldersOf(i)
      BY <2>2 DEF HoldersOf
    <3>2. HoldersOf(i) = {t} /\ SlotsOf(i) = {} /\ MoversOf(i) = {}
      BY <2>0, <3>1, HomeUnique
    <3>3. HoldersOf(i)' = HoldersOf(i) \ {t}
      BY <1>3, <1>4, <2>2 DEF HoldersOf
    <3>4. MoversOf(i)' = MoversOf(i) \cup {t}
      BY <1>3, <1>4, <2>2 DEF MoversOf, ReturnLabels
    <3>5. SlotsOf(i)' = {} /\ HoldersOf(i)' = {} /\ MoversOf(i)' = {t}
      BY <2>1, <3>2, <3>3, <3>4
    <3> QED
      BY <3>5 DEF OneHome
  <2>3. CASE i # g
    <3>1. HoldersOf(i)' = HoldersOf(i)
      BY <1>3, <1>4, <2>3 DEF HoldersOf
    <3>2. g + 1 # i + 1
      BY <1>0, <2>3, SizeFacts DEF Index
    <3>3. MoversOf(i)' = MoversOf(i)
      BY <1>1, <1>3, <1>4, <3>2 DEF MoversOf, ReturnLabels
    <3> QED
      BY <2>0, <2>1, <3>1, <3>3 DEF OneHome
  <2> QED
    BY <2>2, <2>3
<1> QED
  BY <1>5 DEF HomeInv

\* ... which puts it into its slot.
LEMMA StoreHome ==
  ASSUME TypeInv, RingInv, HomeInv, NEW t \in Threads, ReturnStore(t) PROVE HomeInv'
<1> USE PosTypes
<1> DEFINE k == Slot(cur[t])
<1>0. pc \in [Threads -> {"idle"} \cup NextLabels \cup ReturnLabels] /\ k \in 0 .. size - 1
  BY DEF TypeInv, TypeOK
<1>1. /\ pc[t] = "storeSlot" /\ pc' = [pc EXCEPT ![t] = "idle"]
      /\ indices' = [indices EXCEPT ![k] = index[t]]
      /\ UNCHANGED <<cur, held, index>>
  BY DEF ReturnStore, Goto
<1>2. index[t] \in 1 .. PoolSize /\ index[t] - 1 \in Index
  BY <1>1, MoverHome DEF ReturnLabels
<1>3. k \notin Stale /\ indices[k] = 0
  BY <1>1 DEF Stale, RingInv, SlotInv, Claimed, UnusedPosition
<1> HIDE DEF k
<1>4. Stale' = Stale
  BY <1>0, <1>1 DEF Stale
<1>5. /\ DOMAIN indices' = DOMAIN indices /\ k \in DOMAIN indices /\ indices'[k] = index[t]
      /\ \A j \in DOMAIN indices : j # k => indices'[j] = indices[j]
  BY <1>0, <1>1
<1>6. ASSUME NEW i \in Index PROVE OneHome(i)'
  <2>0. OneHome(i) /\ i + 1 # 0
    BY SizeFacts DEF HomeInv, Index
  <2>1. HoldersOf(i)' = HoldersOf(i)
    BY <1>1 DEF HoldersOf
  <2>2. CASE index[t] = i + 1
    <3>1. t \in MoversOf(i)
      BY <1>1, <2>2 DEF MoversOf, ReturnLabels
    <3>2. MoversOf(i) = {t} /\ HoldersOf(i) = {} /\ SlotsOf(i) = {}
      BY <2>0, <3>1, HomeUnique
    <3>3. MoversOf(i)' = MoversOf(i) \ {t}
      BY <1>0, <1>1 DEF MoversOf, ReturnLabels
    <3>4. SlotsOf(i)' = SlotsOf(i) \cup {k}
      BY <1>3, <1>4, <1>5, <2>2 DEF SlotsOf
    <3>5. SlotsOf(i)' = {k} /\ HoldersOf(i)' = {} /\ MoversOf(i)' = {}
      BY <2>1, <3>2, <3>3, <3>4
    <3> QED
      BY <3>5 DEF OneHome
  <2>3. CASE index[t] # i + 1
    <3>1. MoversOf(i)' = MoversOf(i)
      BY <1>0, <1>1, <2>3 DEF MoversOf, ReturnLabels
    <3>2. SlotsOf(i)' = SlotsOf(i)
      BY <1>3, <1>4, <1>5, <2>0, <2>3 DEF SlotsOf
    <3> QED
      BY <2>0, <2>1, <3>1, <3>2 DEF OneHome
  <2> QED
    BY <2>2, <2>3
<1> QED
  BY <1>6 DEF HomeInv

-----------------------------------------------------------------------------
\* The end of the positions is not reached.

LEMMA ReturningFinite ==
  ASSUME NoWrap
  PROVE  IsFiniteSet(Returning) /\ Cardinality(Returning) \in Nat /\ Cardinality(Threads) \in Nat
<1>1. Returning \subseteq Threads /\ IsFiniteSet(Threads)
  BY DEF Returning, NoWrap
<1>2. IsFiniteSet(Returning)
  BY <1>1, FS_Subset
<1> QED
  BY <1>1, <1>2, FS_CardinalityType

\* Steps that do not change who is about to claim a position.
LEMMA SameFar ==
  ASSUME FarInv, NEW t \in Threads, NEW l,
         pc \in [Threads -> {"idle"} \cup NextLabels \cup ReturnLabels],
         pc' = [pc EXCEPT ![t] = l], UNCHANGED writePos,
         l \notin {"wrapRead", "wrapReadCas", "wrapWrite", "wrapWriteCas"},
         pc[t] \in {"return", "casWrite"} <=> l \in {"return", "casWrite"}
  PROVE  FarInv'
<1>1. Returning' = Returning
  BY DEF Returning
<1>2. Cardinality(Returning') = Cardinality(Returning)
  BY <1>1, Zenon
<1>3. \A u \in Threads : pc'[u] \notin {"wrapRead", "wrapReadCas", "wrapWrite", "wrapWriteCas"}
  BY DEF FarInv
<1> QED
  BY <1>1, <1>2, <1>3 DEF FarInv

LEMMA FarSteps ==
  ASSUME NoWrap, TypeInv, FarInv, RingInv, NEW t \in Threads,
         \/ NextLoadRead(t) \/ (\E i \in held[t] : ReturnBegin(t, i)) \/ CallStep(t)
  PROVE  FarInv'
<1> USE PosTypes, SizeFacts, ReturningFinite
<1>0. pc \in [Threads -> {"idle"} \cup NextLabels \cup ReturnLabels]
      /\ readPos <= writePos /\ writePos < maxPositionSize
      /\ pc[t] \notin {"wrapRead", "wrapReadCas", "wrapWrite", "wrapWriteCas"}
  BY DEF TypeInv, TypeOK, RingInv, PosInv, FarInv
<1>1. CASE NextLoadRead(t) \/ NextEmpty(t) \/ NextLoadWrite(t) \/ NextMiss(t) \/ NextCheckSlot(t)
           \/ NextClaim(t) \/ NextReadSlot(t) \/ NextClearSlot(t)
  <2>0. readPos # maxPositionSize
    BY <1>0
  <2>1. PICK l \in {"loadWrite", "idle", "checkSlot", "casRead", "readSlot", "next", "clearSlot"} :
          pc' = [pc EXCEPT ![t] = l]
    BY <1>1, <2>0 DEF NextLoadRead, LoadReadUpTo, NextEmpty, NextLoadWrite, NextMiss, NextCheckSlot,
       NextClaim, ClaimIf, NextReadSlot, NextClearSlot, ClearTo, AnswerEmpty, Goto
  <2>2. UNCHANGED writePos /\ pc[t] \notin {"return", "casWrite"}
    BY <1>1 DEF NextLoadRead, LoadReadUpTo, NextEmpty, NextLoadWrite, NextMiss, NextCheckSlot,
       NextClaim, ClaimIf, NextReadSlot, NextClearSlot, ClearTo
  <2> QED
    BY <1>0, <2>1, <2>2, SameFar
<1>2. CASE ReturnLoadWrite(t) \/ ReturnWaitSlot(t) \/ ReturnStore(t)
           \/ (ReturnClaim(t) /\ writePos # cur[t])
  <2>0. writePos # maxPositionSize
    BY <1>0
  <2>1. PICK l \in {"return", "casWrite", "storeSlot", "idle"} :
          /\ pc' = [pc EXCEPT ![t] = l]
          /\ pc[t] \in {"return", "casWrite"} <=> l \in {"return", "casWrite"}
    <3>1. CASE ReturnLoadWrite(t)
      BY <2>0, <3>1 DEF ReturnLoadWrite, Goto
    <3>2. CASE ReturnWaitSlot(t) \/ ReturnStore(t)
      BY <3>2 DEF ReturnWaitSlot, ReturnStore, Goto
    <3>3. CASE ReturnClaim(t) /\ writePos # cur[t]
      BY <3>3 DEF ReturnClaim, Goto
    <3> QED
      BY <1>2, <3>1, <3>2, <3>3
  <2>2. UNCHANGED writePos
    BY <1>2 DEF ReturnLoadWrite, ReturnWaitSlot, ReturnStore, ReturnClaim
  <2> QED
    BY <1>0, <2>1, <2>2, SameFar
<1>3. CASE \E i \in held[t] : ReturnBegin(t, i)
  <2>1. pc[t] = "idle" /\ pc' = [pc EXCEPT ![t] = "return"] /\ writePos < PositionBound
        /\ UNCHANGED writePos
    BY <1>3 DEF ReturnBegin, Goto
  <2>2. Returning' \subseteq Threads /\ IsFiniteSet(Threads)
    BY DEF Returning, NoWrap
  <2>3. Cardinality(Returning') <= Cardinality(Threads) /\ Cardinality(Returning') \in Nat
    BY <2>2, FS_Subset, FS_CardinalityType
  <2>4. \A u \in Threads : pc'[u] \notin {"wrapRead", "wrapReadCas", "wrapWrite", "wrapWriteCas"}
    BY <1>0, <2>1 DEF FarInv
  <2> QED
    BY <1>0, <2>1, <2>3, <2>4, BoundAssumption DEF FarInv
<1>4. CASE ReturnClaim(t) /\ writePos = cur[t]
  <2>1. pc[t] = "casWrite" /\ pc' = [pc EXCEPT ![t] = "waitSlot"] /\ writePos' = writePos + 1
    BY <1>4 DEF ReturnClaim, Goto
  <2>2. t \in Returning /\ Returning' = Returning \ {t}
    BY <1>0, <2>1 DEF Returning
  <2>3. Cardinality(Returning \ {t}) = Cardinality(Returning) - 1 /\ Cardinality(Returning) # 0
    BY <2>2, FS_RemoveElement, FS_EmptySet
  <2>4. Cardinality(Returning') = Cardinality(Returning \ {t})
    BY <2>2, Zenon
  <2>5. writePos + Cardinality(Returning) < PositionBound + Cardinality(Threads)
    BY <2>2 DEF FarInv
  <2>6. \A u \in Threads : pc'[u] \notin {"wrapRead", "wrapReadCas", "wrapWrite", "wrapWriteCas"}
    BY <1>0, <2>1 DEF FarInv
  <2>7. writePos' < maxPositionSize
    <3>1. PositionBound + Cardinality(Threads) <= maxPositionSize /\ PositionBound \in Nat
      BY BoundAssumption DEF NoWrap
    <3>2. Cardinality(Returning) >= 1 /\ Cardinality(Returning) \in Nat
      BY <2>3
    <3>3. writePos \in Nat /\ Cardinality(Threads) \in Nat /\ maxPositionSize \in Nat
      OBVIOUS
    <3>4. \A w, r, b, c, m \in Nat : w + r < b + c /\ b + c <= m /\ r >= 1 => w + 1 < m
      OBVIOUS
    <3>5. writePos + 1 < maxPositionSize
      BY <2>5, <3>1, <3>2, <3>3, <3>4
    <3> QED
      BY <2>1, <3>5
  <2>8. writePos' + Cardinality(Returning') < PositionBound + Cardinality(Threads)
    BY <2>1, <2>3, <2>4, <2>5, BoundAssumption
  <2> QED
    BY <2>6, <2>7, <2>8 DEF FarInv
<1>5. CASE ReturnSpin(t)
  <2>1. UNCHANGED <<pc, writePos>>
    BY <1>5 DEF ReturnSpin, vars
  <2>2. Returning' = Returning
    BY <2>1 DEF Returning
  <2>3. Cardinality(Returning') = Cardinality(Returning)
    BY <2>2, Zenon
  <2> QED
    BY <2>1, <2>2, <2>3 DEF FarInv
<1>6. ~ (WrapReadLoad(t) \/ WrapReadCas(t) \/ WrapWriteLoad(t) \/ WrapWriteCas(t))
  BY <1>0 DEF WrapReadLoad, WrapReadCas, WrapReadTo, WrapWriteLoad, WrapWriteCas
<1> QED
  BY <1>1, <1>2, <1>3, <1>4, <1>5, <1>6 DEF CallStep

-----------------------------------------------------------------------------
\* The invariants together.

IndexerInv == FarInv /\ RingInv /\ HomeInv

LEMMA IndexerInit == ASSUME NoWrap, Init PROVE IndexerInv
<1> USE SizeFacts
<1>1. /\ readPos = 0 /\ writePos = PoolSize /\ held = [t \in Threads |-> {}]
      /\ indices = [k \in 0 .. size - 1 |-> IF k < PoolSize THEN k + 1 ELSE UnusedPosition]
      /\ \A t \in Threads : pc[t] = "idle"
  BY DEF Init
<1>2. \A p \in Nat : p < PoolSize => p \in 0 .. size - 1 /\ Slot(p) = p /\ indices[p] = p + 1
  <2>1. \A p \in Nat : p < PoolSize => p \in 0 .. size - 1 /\ p % size = p
    OBVIOUS
  <2> QED
    BY <1>1, <2>1 DEF Slot
<1>3. \A t \in Threads : ~ Filling(t) /\ ~ Claimed(t)
  BY <1>1 DEF Filling, Claimed
<1>4. \A p \in Nat : Written(p) <=> p < PoolSize
  BY <1>1, <1>3 DEF Written
<1>5. FarInv
  <2>1. Returning = {} /\ writePos < maxPositionSize
    BY <1>1 DEF Returning
  <2> QED
    BY <1>1, <2>1 DEF FarInv
<1>6. PosInv
  BY <1>1, <1>3 DEF PosInv, PosAt
<1>7. SlotInv
  <2>1. ASSUME NEW p \in Nat, Written(p) PROVE indices[Slot(p)] # UnusedPosition
    <3>1. p < PoolSize
      BY <1>4, <2>1
    <3>2. indices[Slot(p)] = p + 1
      BY <1>2, <3>1
    <3> QED
      BY <3>2 DEF UnusedPosition
  <2>2. \A t \in Threads : pc[t] # "storeSlot"
    BY <1>1
  <2> QED
    BY <1>3, <2>1, <2>2, Zenon DEF SlotInv
<1>8. NoStray
  <2> SUFFICES ASSUME NEW k \in 0 .. size - 1, indices[k] # UnusedPosition
               PROVE  \E p \in Nat : Written(p) /\ Slot(p) = k
    BY DEF NoStray
  <2>1. k < PoolSize /\ k \in Nat
    BY <1>1
  <2> QED
    BY <1>2, <1>4, <2>1
<1>9. HomeInv
  <2> SUFFICES ASSUME NEW i \in Index PROVE OneHome(i)
    BY DEF HomeInv
  <2>1. Stale = {} /\ MoversOf(i) = {} /\ HoldersOf(i) = {}
    BY <1>1 DEF Stale, MoversOf, HoldersOf, ReturnLabels
  <2>2. i \in Nat /\ i < PoolSize
    BY DEF Index
  <2>3. SlotsOf(i) = {i}
    BY <1>1, <2>1, <2>2 DEF SlotsOf, UnusedPosition
  <2> QED
    BY <2>1, <2>3 DEF OneHome
<1> QED
  BY <1>5, <1>6, <1>7, <1>8, <1>9 DEF IndexerInv, RingInv

\* With nothing in the way of the check, every step keeps them.
LEMMA IndexerStep ==
  ASSUME NoWrap, TypeInv, IndexerInv, NotOvertaken, [Next]_vars PROVE IndexerInv'
<1> USE DEF IndexerInv
<1>1. CASE UNCHANGED vars
  <2>1. FarInv'
    BY <1>1 DEF vars, FarInv, Returning
  <2>2. RingInv'
    <3>1. UNCHANGED <<readPos, writePos, indices, pc, cur>>
      BY <1>1 DEF vars
    <3>2. PosInv'
      BY <3>1 DEF RingInv, PosInv, PosAt, Written, Filling
    <3>3. SlotInv'
      BY <3>1 DEF RingInv, SlotInv, Written, Filling, Claimed
    <3>4. NoStray'
      BY <3>1 DEF RingInv, NoStray, Written, Filling, Claimed
    <3> QED
      BY <3>2, <3>3, <3>4 DEF RingInv
  <2>3. HomeInv'
    <3>1. UNCHANGED <<indices, pc, cur, index, held>>
      BY <1>1 DEF vars
    <3>2. Stale' = Stale
      BY <3>1 DEF Stale
    <3>3. \A i \in Index : /\ SlotsOf(i)' = SlotsOf(i) /\ HoldersOf(i)' = HoldersOf(i)
                           /\ MoversOf(i)' = MoversOf(i)
      BY <3>1, <3>2 DEF SlotsOf, HoldersOf, MoversOf
    <3> QED
      BY <3>3 DEF HomeInv, OneHome
  <2> QED
    BY <2>1, <2>2, <2>3
<1>2. ASSUME NEW t \in Threads,
             NextLoadRead(t) \/ (\E i \in held[t] : ReturnBegin(t, i)) \/ CallStep(t)
      PROVE  IndexerInv'
  <2>1. FarInv'
    BY <1>2, FarSteps
  <2>2. ~ (WrapReadLoad(t) \/ WrapReadCas(t) \/ WrapWriteLoad(t) \/ WrapWriteCas(t))
    BY DEF FarInv, WrapReadLoad, WrapReadCas, WrapReadTo, WrapWriteLoad, WrapWriteCas
  <2>3. CASE ReturnSpin(t)
    BY <1>1, <2>3 DEF ReturnSpin
  <2>4. RingInv' \/ ReturnSpin(t)
    <3>1. CASE \/ NextLoadRead(t) \/ NextEmpty(t) \/ NextLoadWrite(t) \/ NextMiss(t)
               \/ NextCheckSlot(t) \/ (NextClaim(t) /\ readPos # cur[t])
               \/ (\E i \in held[t] : ReturnBegin(t, i))
               \/ ReturnLoadWrite(t) \/ (ReturnClaim(t) /\ writePos # cur[t])
      BY <3>1, QuietSteps
    <3>2. CASE NextClaim(t) /\ readPos = cur[t]
      BY <3>2, ClaimRing
    <3>3. CASE NextReadSlot(t) \/ ReturnWaitSlot(t)
      BY <3>3, WaitRing
    <3>4. CASE NextClearSlot(t)
      BY <3>4, ClearRing
    <3>5. CASE ReturnClaim(t) /\ writePos = cur[t]
      <4>1. writePos + 1 <= readPos + PoolSize
        BY <3>5, Room DEF ReturnClaim
      <4> QED
        BY <3>5, <4>1, GrowRing
    <3>6. CASE ReturnStore(t)
      BY <3>6, StoreRing
    <3> QED
      BY <1>2, <2>2, <3>1, <3>2, <3>3, <3>4, <3>5, <3>6 DEF CallStep
  <2>5. HomeInv' \/ ReturnSpin(t)
    BY <1>2, QuietHome, ReadHome, ClearHome, BeginHome, StoreHome DEF CallStep
  <2> QED
    BY <2>1, <2>3, <2>4, <2>5
<1>3. CASE Next
  BY <1>2, <1>3 DEF Next
<1> QED
  BY <1>1, <1>3

LEMMA PlacesOne == HomeInv => Conservation
<1> SUFFICES ASSUME HomeInv, NEW i \in Index PROVE Cardinality(Places(i)) = 1
  BY DEF Conservation
<1>1. PICK x : Places(i) = {x}
  <2>1. CASE (\E k : SlotsOf(i) = {k}) /\ HoldersOf(i) = {} /\ MoversOf(i) = {}
    <3>1. PICK k : SlotsOf(i) = {k}
      BY <2>1
    <3>2. Places(i) = {<<"slot", k>>}
      BY <2>1, <3>1 DEF Places
    <3> QED
      BY <3>2
  <2>2. CASE SlotsOf(i) = {} /\ (\E t : HoldersOf(i) = {t}) /\ MoversOf(i) = {}
    <3>1. PICK t : HoldersOf(i) = {t}
      BY <2>2
    <3>2. Places(i) = {<<"held", t>>}
      BY <2>2, <3>1 DEF Places
    <3> QED
      BY <3>2
  <2>3. CASE SlotsOf(i) = {} /\ HoldersOf(i) = {} /\ (\E t : MoversOf(i) = {t})
    <3>1. PICK t : MoversOf(i) = {t}
      BY <2>3
    <3>2. Places(i) = {<<"moving", t>>}
      BY <2>3, <3>1 DEF Places
    <3> QED
      BY <3>2
  <2> QED
    BY <2>1, <2>2, <2>3 DEF HomeInv, OneHome
<1>2. Cardinality(Places(i)) = Cardinality({x})
  BY <1>1, Zenon
<1> QED
  BY <1>2, FS_Singleton

LEMMA SlotsFilled == RingInv => ClaimedSlotFilled
  BY DEF RingInv, SlotInv, Claimed, ClaimedSlotFilled

(***************************************************************************)
(* For any number of callers, and positions that do not wrap: an index is  *)
(* handed out twice, or lost, only in an execution in which some Next()    *)
(* looked into the slot of the read position while the reader of an        *)
(* earlier position had yet to clear it.                                   *)
(***************************************************************************)
THEOREM OvertakingIsTheOnlyWay ==
  ASSUME NoWrap
  PROVE  Spec => ConservedUnlessOvertaken
<1>1. Init => TypeInv /\ IndexerInv
  BY TypeInit, IndexerInit
<1>2. TypeInv /\ IndexerInv /\ NotOvertaken /\ [Next]_vars => (TypeInv /\ IndexerInv)'
  BY TypeStep, IndexerStep
<1>3. IndexerInv => Conservation
  BY PlacesOne DEF IndexerInv
<1> QED
  BY <1>1, <1>2, <1>3, PTL DEF Spec, ConservedUnlessOvertaken

-----------------------------------------------------------------------------
\* Two callers: the position at the front is written or being written, and a writer
\* beside a reader overtaken and one that overtakes would be a third.

AtMostTwo == \A a, b, c \in Threads : a = b \/ a = c \/ b = c

LEMMA TwoNotOvertaken ==
  ASSUME AtMostTwo, TypeInv, RingInv PROVE NotOvertaken
<1> USE PosTypes
<1> SUFFICES ASSUME NEW t \in Threads, NEW u \in Threads, pc[t] = "checkSlot",
                    cur[t] = readPos, Claimed(u), Slot(cur[u]) = Slot(readPos)
             PROVE  FALSE
  BY DEF NotOvertaken, Claimed
<1>1. readPos < writePos
  BY DEF RingInv, PosInv, PosAt
<1>2. ~ Written(readPos)
  BY DEF RingInv, SlotInv
<1>3. PICK w \in Threads : Filling(w)
  BY <1>1, <1>2 DEF Written
<1>4. t # u /\ t # w /\ u # w
  BY <1>3 DEF Claimed, Filling
<1> QED
  BY <1>4 DEF AtMostTwo

LEMMA TwoInvariance ==
  ASSUME NoWrap, AtMostTwo PROVE Spec => [](TypeInv /\ IndexerInv)
<1>1. Init => TypeInv /\ IndexerInv
  BY TypeInit, IndexerInit
<1>2. TypeInv /\ IndexerInv => NotOvertaken
  BY TwoNotOvertaken DEF IndexerInv
<1>3. TypeInv /\ IndexerInv /\ NotOvertaken /\ [Next]_vars => (TypeInv /\ IndexerInv)'
  BY TypeStep, IndexerStep
<1> QED
  BY <1>1, <1>2, <1>3, PTL DEF Spec

(***************************************************************************)
(* Two callers, any pool size: every index is in one slot, with one caller *)
(* or inside one call, whatever claims and slot accesses overlap.          *)
(***************************************************************************)
THEOREM TwoCallersConserve ==
  ASSUME NoWrap, AtMostTwo
  PROVE  Spec => []Conservation
<1>1. IndexerInv => Conservation
  BY PlacesOne DEF IndexerInv
<1> QED
  BY <1>1, TwoInvariance, PTL

(***************************************************************************)
(* Two callers, any pool size: what Next() saw in the slot before its      *)
(* claim is still there after it, so it never spins.                       *)
(***************************************************************************)
THEOREM TwoCallersFindTheirIndex ==
  ASSUME NoWrap, AtMostTwo
  PROVE  Spec => []ClaimedSlotFilled
<1>1. IndexerInv => ClaimedSlotFilled
  BY SlotsFilled DEF IndexerInv
<1> QED
  BY <1>1, TwoInvariance, PTL

LEMMA DrainedStep ==
  ASSUME TypeInv, RingInv, NEW t \in Threads, NextEmpty(t) PROVE Available = {}
<1> USE PosTypes
<1>1. cur[t] <= readPos /\ readPos <= writePos /\ cur[t] = writePos
  BY DEF NextEmpty, RingInv, PosInv, PosAt
<1>2. \A p \in Nat : ~ Written(p)
  BY <1>1 DEF Written
<1>3. ASSUME NEW k \in Available PROVE FALSE
  <2>1. k \in 0 .. size - 1 /\ indices[k] # UnusedPosition
        /\ \A u \in Threads : Claimed(u) => Slot(cur[u]) # k
    BY DEF Available, Claimed
  <2> QED
    BY <1>2, <2>1 DEF RingInv, NoStray
<1> QED
  BY <1>3

(***************************************************************************)
(* Two callers, any pool size: Next() that answers empty because the       *)
(* positions it loaded one after the other are equal leaves no returned    *)
(* index unclaimed.                                                        *)
(***************************************************************************)
THEOREM TwoCallersEmptyTruthful ==
  ASSUME NoWrap, AtMostTwo
  PROVE  Spec => EmptyOnlyWhenDrained
<1>1. TypeInv /\ IndexerInv => (\A t \in Threads : NextEmpty(t) => Available = {})
  BY DrainedStep DEF IndexerInv
<1> QED
  BY <1>1, TwoInvariance, PTL DEF EmptyOnlyWhenDrained, Spec

-----------------------------------------------------------------------------
\* The abstract index pool.

\* A step that changes nobody's indices and no answer.
LEMMA HiddenRefines ==
  ASSUME \A t \in Threads : Holds(t)' = Holds(t), UNCHANGED holder
  PROVE  UNCHANGED Abstract!vars
<1>1. Taken' = Taken
  BY DEF Taken
<1>2. [t \in Threads |-> Holds(t)]' = [t \in Threads |-> Holds(t)]
  OBVIOUS
<1>3. (Index \ Taken)' = Index \ Taken
  BY <1>1 DEF Index
<1> QED
  BY <1>2, <1>3 DEF Abstract!vars

\* A step of t's that leaves what t holds where it is, inside the same call.
LEMMA HoldsSame ==
  ASSUME TypeInv, NEW t \in Threads, NEW l, pc' = [pc EXCEPT ![t] = l],
         pc[t] \in ReturnLabels <=> l \in ReturnLabels, UNCHANGED held,
         \/ UNCHANGED index
         \/ /\ pc[t] \notin ReturnLabels
            /\ \A u \in Threads : u # t => index'[u] = index[u]
  PROVE  \A u \in Threads : Holds(u)' = Holds(u)
<1> SUFFICES ASSUME NEW u \in Threads PROVE Holds(u)' = Holds(u)
  OBVIOUS
<1>1. pc'[u] = (IF u = t THEN l ELSE pc[u])
  BY DEF TypeInv, TypeOK
<1>2. (pc'[u] \in ReturnLabels <=> pc[u] \in ReturnLabels)
  BY <1>1
<1>3. pc[u] \in ReturnLabels => index'[u] = index[u]
  OBVIOUS
<1> QED
  BY <1>2, <1>3 DEF Holds

LEMMA HiddenSteps ==
  ASSUME TypeInv, NEW t \in Threads,
         \/ NextLoadRead(t) \/ WrapReadLoad(t) \/ WrapReadCas(t)
         \/ NextLoadWrite(t) \/ NextCheckSlot(t) \/ NextClaim(t) \/ NextReadSlot(t)
         \/ ReturnLoadWrite(t) \/ WrapWriteLoad(t) \/ WrapWriteCas(t)
         \/ ReturnClaim(t) \/ ReturnWaitSlot(t)
  PROVE  UNCHANGED Abstract!vars
<1>1. CASE \/ NextLoadRead(t) \/ WrapReadLoad(t) \/ WrapReadCas(t)
           \/ NextLoadWrite(t) \/ NextCheckSlot(t) \/ NextClaim(t)
  <2>1. PICK l \in NextLabels : pc' = [pc EXCEPT ![t] = l] /\ pc[t] \in {"idle"} \cup NextLabels
    <3>1. CASE NextLoadRead(t)
      BY <3>1 DEF NextLoadRead, LoadReadUpTo, Goto, NextLabels
    <3>2. CASE WrapReadLoad(t)
      BY <3>2 DEF WrapReadLoad, Goto, NextLabels
    <3>3. CASE WrapReadCas(t)
      BY <3>3 DEF WrapReadCas, WrapReadTo, Goto, NextLabels
    <3>4. CASE NextLoadWrite(t) \/ NextCheckSlot(t)
      BY <3>4 DEF NextLoadWrite, NextCheckSlot, Goto, NextLabels
    <3>5. CASE NextClaim(t)
      BY <3>5 DEF NextClaim, ClaimIf, Goto, NextLabels
    <3> QED
      BY <1>1, <3>1, <3>2, <3>3, <3>4, <3>5
  <2>2. UNCHANGED <<index, held, holder>>
    BY <1>1 DEF NextLoadRead, LoadReadUpTo, WrapReadLoad, WrapReadCas, WrapReadTo, NextLoadWrite,
       NextCheckSlot, NextClaim, ClaimIf
  <2>3. l \notin ReturnLabels /\ pc[t] \notin ReturnLabels
    BY <2>1 DEF NextLabels, ReturnLabels
  <2> QED
    BY <2>1, <2>2, <2>3, HoldsSame, HiddenRefines
<1>2. CASE NextReadSlot(t)
  <2>1. /\ pc[t] = "readSlot" /\ pc' = [pc EXCEPT ![t] = "clearSlot"] /\ UNCHANGED <<held, holder>>
        /\ index' = [index EXCEPT ![t] = indices[Slot(cur[t])]]
    BY <1>2 DEF NextReadSlot, Goto
  <2>2. \A u \in Threads : u # t => index'[u] = index[u]
    BY <2>1 DEF TypeInv, TypeOK
  <2>3. pc[t] \notin ReturnLabels /\ "clearSlot" \notin ReturnLabels
    BY <2>1 DEF ReturnLabels
  <2> QED
    BY <2>1, <2>2, <2>3, HoldsSame, HiddenRefines
<1>3. CASE \/ ReturnLoadWrite(t) \/ WrapWriteLoad(t) \/ WrapWriteCas(t)
           \/ ReturnClaim(t) \/ ReturnWaitSlot(t)
  <2>1. PICK l \in ReturnLabels : pc' = [pc EXCEPT ![t] = l] /\ pc[t] \in ReturnLabels
    <3>1. CASE ReturnLoadWrite(t)
      BY <3>1 DEF ReturnLoadWrite, Goto, ReturnLabels
    <3>2. CASE WrapWriteLoad(t)
      BY <3>2 DEF WrapWriteLoad, Goto, ReturnLabels
    <3>3. CASE WrapWriteCas(t)
      BY <3>3 DEF WrapWriteCas, Goto, ReturnLabels
    <3>4. CASE ReturnClaim(t)
      BY <3>4 DEF ReturnClaim, Goto, ReturnLabels
    <3>5. CASE ReturnWaitSlot(t)
      BY <3>5 DEF ReturnWaitSlot, Goto, ReturnLabels
    <3> QED
      BY <1>3, <3>1, <3>2, <3>3, <3>4, <3>5
  <2>2. UNCHANGED <<index, held, holder>>
    BY <1>3 DEF ReturnLoadWrite, WrapWriteLoad, WrapWriteCas, ReturnClaim, ReturnWaitSlot
  <2> QED
    BY <2>1, <2>2, HoldsSame, HiddenRefines
<1> QED
  BY <1>1, <1>2, <1>3

\* The caller that starts a Return() still counts as holding its index.
LEMMA BeginRefines ==
  ASSUME TypeInv, NEW t \in Threads, NEW i \in held[t], ReturnBegin(t, i)
  PROVE  UNCHANGED Abstract!vars
<1>0. /\ pc \in [Threads -> {"idle"} \cup NextLabels \cup ReturnLabels]
      /\ held \in [Threads -> SUBSET Index] /\ index \in [Threads -> 0 .. PoolSize] /\ i \in Index
  BY DEF TypeInv, TypeOK
<1>1. /\ pc[t] = "idle" /\ pc' = [pc EXCEPT ![t] = "return"]
      /\ held' = [held EXCEPT ![t] = @ \ {i}] /\ index' = [index EXCEPT ![t] = i + 1]
      /\ UNCHANGED holder
  BY DEF ReturnBegin, Goto
<1>2. \A u \in Threads : u # t => Holds(u)' = Holds(u)
  BY <1>0, <1>1 DEF Holds
<1>3. Holds(t) = held[t]
  BY <1>1 DEF Holds, ReturnLabels
<1>4. Holds(t)' = (held[t] \ {i}) \cup {(i + 1) - 1}
  BY <1>0, <1>1 DEF Holds, ReturnLabels
<1>5. (i + 1) - 1 = i
  BY <1>0, SizeFacts DEF Index
<1>6. Holds(t)' = Holds(t)
  BY <1>3, <1>4, <1>5
<1> QED
  BY <1>1, <1>2, <1>6, HiddenRefines

\* Both empty answers are misses of the pool.
LEMMA MissRefines ==
  ASSUME TypeInv, NEW t \in Threads, NextEmpty(t) \/ NextMiss(t)
  PROVE  Abstract!NextMiss(t)
<1>1. /\ pc[t] \in {"loadWrite", "checkSlot"} /\ pc' = [pc EXCEPT ![t] = "idle"]
      /\ holder' = [holder EXCEPT ![t] = EmptyHolder] /\ UNCHANGED <<index, held>>
  BY DEF NextEmpty, NextMiss, AnswerEmpty, Goto
<1>2. pc[t] \notin ReturnLabels /\ "idle" \notin ReturnLabels
  BY <1>1 DEF ReturnLabels
<1>3. \A u \in Threads : Holds(u)' = Holds(u)
  BY <1>1, <1>2, HoldsSame
<1>4. (Index \ Taken)' = Index \ Taken
  BY <1>3 DEF Taken, Index
<1>5. [u \in Threads |-> Holds(u)]' = [u \in Threads |-> Holds(u)]
  BY <1>3
<1> QED
  BY <1>1, <1>4, <1>5 DEF Abstract!NextMiss, Abstract!EmptyHolder, EmptyHolder

\* Nobody else has the index of a call that moves it.
LEMMA MoverAlone ==
  ASSUME TypeInv, HomeInv, NEW t \in Threads, pc[t] \in ReturnLabels \cup {"clearSlot"},
         NEW u \in Threads, index[t] - 1 \in Holds(u)
  PROVE  u = t /\ pc[t] \in ReturnLabels /\ index[t] - 1 \notin held[t]
<1> DEFINE i == index[t] - 1
<1>1. i \in Index /\ t \in MoversOf(i) /\ index[t] = i + 1
  BY MoverHome, SizeFacts
<1> HIDE DEF i
<1>2. HoldersOf(i) = {} /\ \A v \in MoversOf(i) : v = t
  <2>1. OneHome(i)
    BY <1>1 DEF HomeInv
  <2> QED
    BY <1>1, <2>1, HomeUnique
<1>3. i \notin held[u] /\ i \notin held[t]
  BY <1>2 DEF HoldersOf
<1>4. pc[u] \in ReturnLabels /\ index[u] - 1 = i
  BY <1>3 DEF Holds, i
<1>5. u \in MoversOf(i)
  <2>1. index[u] \in Int /\ i \in Int
    BY <1>1, SizeFacts DEF TypeInv, TypeOK, Index
  <2>2. index[u] = i + 1
    BY <1>4, <2>1
  <2> QED
    BY <1>4, <2>2 DEF MoversOf
<1> QED
  BY <1>2, <1>3, <1>4, <1>5 DEF i

\* The cleared slot's index goes out.
LEMMA ClearRefines ==
  ASSUME TypeInv, HomeInv, NEW t \in Threads, NextClearSlot(t)
  PROVE  Abstract!NextIndex(t)
<1> DEFINE i == index[t] - 1
<1>0. /\ pc \in [Threads -> {"idle"} \cup NextLabels \cup ReturnLabels]
      /\ held \in [Threads -> SUBSET Index]
  BY DEF TypeInv, TypeOK
<1>1. /\ pc[t] = "clearSlot" /\ pc' = [pc EXCEPT ![t] = "idle"]
      /\ held' = [held EXCEPT ![t] = @ \cup {i}]
      /\ holder' = [holder EXCEPT ![t] = HolderOf(i)] /\ UNCHANGED index
  BY DEF NextClearSlot, ClearTo, Goto
<1>2. pc[t] \notin ReturnLabels /\ "idle" \notin ReturnLabels
  BY <1>1 DEF ReturnLabels
<1>3. i \in Index
  BY <1>1, MoverHome
<1>4. \A u \in Threads : i \notin Holds(u)
  BY <1>1, <1>2, MoverAlone
<1> HIDE DEF i
<1>5. i \notin Taken
  BY <1>4 DEF Taken
<1>6. \A u \in Threads : u # t => Holds(u)' = Holds(u)
  BY <1>0, <1>1 DEF Holds
<1>7. Holds(t)' = Holds(t) \cup {i}
  BY <1>0, <1>1, <1>2 DEF Holds
<1>8. Taken' = Taken \cup {i}
  BY <1>3, <1>6, <1>7 DEF Taken, Index
<1>9. (Index \ Taken)' = (Index \ Taken) \ {i} /\ i \in Index \ Taken
  BY <1>3, <1>5, <1>8 DEF Index
<1>10. [u \in Threads |-> Holds(u)]' =
         [[u \in Threads |-> Holds(u)] EXCEPT ![t] = @ \cup {i}]
  BY <1>6, <1>7
<1> QED
  BY <1>1, <1>9, <1>10 DEF Abstract!NextIndex, Abstract!HolderOf, HolderOf

\* The written slot's index is back.
LEMMA StoreRefines ==
  ASSUME TypeInv, HomeInv, NEW t \in Threads, ReturnStore(t)
  PROVE  \E i \in [u \in Threads |-> Holds(u)][t] : Abstract!ReturnIndex(t, i)
<1> DEFINE i == index[t] - 1
<1>0. pc \in [Threads -> {"idle"} \cup NextLabels \cup ReturnLabels]
  BY DEF TypeInv, TypeOK
<1>1. /\ pc[t] = "storeSlot" /\ pc' = [pc EXCEPT ![t] = "idle"]
      /\ UNCHANGED <<index, held, holder>>
  BY DEF ReturnStore, Goto
<1>2. pc[t] \in ReturnLabels /\ "idle" \notin ReturnLabels
  BY <1>1 DEF ReturnLabels
<1>3. i \in Index
  BY <1>2, MoverHome
<1>4. Holds(t) = held[t] \cup {i} /\ i \in Holds(t)
  BY <1>2 DEF Holds
<1>5. i \notin held[t] /\ \A u \in Threads : i \in Holds(u) => u = t
  BY <1>2, <1>4, MoverAlone
<1> HIDE DEF i
<1>6. \A u \in Threads : u # t => Holds(u)' = Holds(u)
  BY <1>0, <1>1 DEF Holds
<1>7. Holds(t)' = Holds(t) \ {i}
  <2>1. Holds(t)' = held[t]
    BY <1>0, <1>1, <1>2 DEF Holds
  <2> QED
    BY <1>4, <1>5, <2>1
<1>8. Taken' = Taken \ {i}
  BY <1>3, <1>5, <1>6, <1>7 DEF Taken, Index
<1>9. (Index \ Taken)' = (Index \ Taken) \cup {i}
  BY <1>3, <1>8 DEF Index
<1>10. [u \in Threads |-> Holds(u)]' =
         [[u \in Threads |-> Holds(u)] EXCEPT ![t] = @ \ {i}]
  BY <1>6, <1>7
<1>11. i \in [u \in Threads |-> Holds(u)][t]
  BY <1>4
<1> QED
  BY <1>1, <1>9, <1>10, <1>11 DEF Abstract!ReturnIndex

LEMMA StepRefines ==
  TypeInv /\ HomeInv /\ [Next]_vars => [Abstract!WeakNext]_Abstract!vars
<1> SUFFICES ASSUME TypeInv, HomeInv, [Next]_vars PROVE [Abstract!WeakNext]_Abstract!vars
  OBVIOUS
<1>1. CASE UNCHANGED vars
  BY <1>1, HiddenRefines DEF vars, Holds
<1>2. ASSUME NEW t \in Threads,
             NextLoadRead(t) \/ (\E i \in held[t] : ReturnBegin(t, i)) \/ CallStep(t)
      PROVE  [Abstract!WeakNext]_Abstract!vars
  <2>1. CASE NextEmpty(t) \/ NextMiss(t)
    BY <2>1, MissRefines DEF Abstract!WeakNext
  <2>2. CASE NextClearSlot(t)
    BY <2>2, ClearRefines DEF Abstract!WeakNext, Abstract!Next
  <2>3. CASE ReturnStore(t)
    BY <2>3, StoreRefines DEF Abstract!WeakNext, Abstract!Next
  <2>4. CASE \E i \in held[t] : ReturnBegin(t, i)
    BY <2>4, BeginRefines
  <2>5. CASE ReturnSpin(t)
    BY <1>1, <2>5 DEF ReturnSpin
  <2> QED
    BY <1>2, <2>1, <2>2, <2>3, <2>4, <2>5, HiddenSteps DEF CallStep
<1>3. CASE Next
  BY <1>2, <1>3 DEF Next
<1> QED
  BY <1>1, <1>3

LEMMA InitRefines == Init => Abstract!Init
<1> SUFFICES ASSUME Init PROVE Abstract!Init
  OBVIOUS
<1>1. \A t \in Threads : Holds(t) = {}
  BY DEF Init, Holds, ReturnLabels
<1>2. Index \ Taken = Index
  BY <1>1 DEF Taken
<1>3. [t \in Threads |-> Holds(t)] = [t \in Threads |-> {}]
  BY <1>1
<1> QED
  BY <1>2, <1>3 DEF Init, Abstract!Init, Abstract!Index, Index, Abstract!EmptyHolder, EmptyHolder

(***************************************************************************)
(* Two callers, any pool size: the indexer implements the pool of indices  *)
(* whose Next() may miss.  The compare-and-swaps, the checks and the waits *)
(* are stutters; the pool changes when a slot is cleared or written.       *)
(***************************************************************************)
THEOREM TwoCallersRefine ==
  ASSUME NoWrap, AtMostTwo
  PROVE  Spec => ImplementsWeakPool
<1>1. TypeInv /\ IndexerInv /\ [Next]_vars => [Abstract!WeakNext]_Abstract!vars
  BY StepRefines DEF IndexerInv
<1> QED
  BY <1>1, InitRefines, TwoInvariance, PTL DEF Spec, ImplementsWeakPool, Abstract!WeakSpec
=============================================================================
