--------------------------- MODULE MultiPoolProofs ---------------------------
(***************************************************************************)
(* Proofs about the multi pool, for every width of uint32_t, smallest      *)
(* class and number of classes that ScaleAssumption allows, every set of   *)
(* blocks and users: the class a request goes to is the smallest that      *)
(* holds it, a crash has one of the known causes, and freeing leaves       *)
(* nothing behind.                                                         *)
(***************************************************************************)
EXTENDS MultiPool, Integers, FiniteSetTheorems, WellFoundedInduction, TLAPS

-----------------------------------------------------------------------------
\* Powers of two, which the provers know only as the number of subsets of a set.

LEMMA PowCard ==
  ASSUME NEW n \in Nat
  PROVE  IsFiniteSet(SUBSET (1 .. n)) /\ Cardinality(SUBSET (1 .. n)) = 2^n
<1>1. IsFiniteSet(1 .. n) /\ Cardinality(1 .. n) = n
  BY FS_Interval
<1>2. 2^Cardinality(1 .. n) = 2^n
  BY <1>1
<1> QED
  BY <1>1, <1>2, FS_SUBSET

LEMMA PowPos == ASSUME NEW n \in Nat PROVE 2^n \in Nat \ {0}
<1>1. SUBSET (1 .. n) # {}
  OBVIOUS
<1> QED
  BY <1>1, PowCard, FS_CardinalityType, FS_EmptySet

LEMMA PowZero == ASSUME NEW n \in Nat, n = 0 PROVE 2^n = 1
<1>1. SUBSET (1 .. n) = {{}}
  OBVIOUS
<1> QED
  BY <1>1, PowCard, FS_Singleton

\* The subsets with n + 1 are as many as those without.
LEMMA PowSucc == ASSUME NEW n \in Nat PROVE 2^(n + 1) = 2 * 2^n
<1> DEFINE A == SUBSET (1 .. n)
           B == {T \cup {n + 1} : T \in A}
           f == [T \in A |-> T \cup {n + 1}]
<1>1. f \in Bijection(A, B)
  <2>1. f \in [A -> B]
    OBVIOUS
  <2>2. \A S, T \in A : f[S] = f[T] => S = T
    <3> SUFFICES ASSUME NEW S \in A, NEW T \in A, S \cup {n + 1} = T \cup {n + 1}
                 PROVE  S = T
      OBVIOUS
    <3>1. n + 1 \notin S /\ n + 1 \notin T
      OBVIOUS
    <3> QED
      BY <3>1
  <2>3. \A X \in B : \E T \in A : f[T] = X
    OBVIOUS
  <2> QED
    BY <2>1, <2>2, <2>3, Zenon DEF Bijection, Injection, Surjection, IsInjective
<1>2. IsFiniteSet(A) /\ Cardinality(A) = 2^n
  BY PowCard
<1>3. ExistsBijection(A, B)
  BY <1>1, Zenon DEF ExistsBijection
<1>4. IsFiniteSet(B) /\ Cardinality(B) = 2^n
  BY <1>2, <1>3, FS_Bijection
<1>5. A \cap B = {}
  OBVIOUS
<1>6. A \cup B = SUBSET (1 .. n + 1)
  <2>1. ASSUME NEW X \in SUBSET (1 .. n + 1), n + 1 \notin X PROVE X \in A
    BY <2>1
  <2>2. ASSUME NEW X \in SUBSET (1 .. n + 1), n + 1 \in X PROVE X \in B
    <3>1. X \ {n + 1} \in A
      OBVIOUS
    <3>2. X = (X \ {n + 1}) \cup {n + 1}
      BY <2>2
    <3> QED
      BY <3>1, <3>2
  <2>3. 1 .. n \subseteq 1 .. n + 1 /\ n + 1 \in 1 .. n + 1
    OBVIOUS
  <2>4. A \subseteq SUBSET (1 .. n + 1) /\ B \subseteq SUBSET (1 .. n + 1)
    BY <2>3
  <2> QED
    BY <2>1, <2>2, <2>4
<1> HIDE DEF A, B
<1>7. Cardinality(A \cup B) = 2^n + 2^n - Cardinality({})
  BY <1>2, <1>4, <1>5, FS_Union
<1>8. Cardinality({}) = 0
  BY FS_EmptySet
<1>9. Cardinality(SUBSET (1 .. n + 1)) = 2^(n + 1)
  BY PowCard
<1>10. Cardinality(A \cup B) = 2^(n + 1)
  BY <1>6, <1>9, Zenon
<1> QED
  BY <1>7, <1>8, <1>10, PowPos

\* Induction, in the form the provers can use: a least element.
LEMMA LeastNat ==
  ASSUME NEW T, T \subseteq Nat, T # {} PROVE \E x \in T : \A y \in T : x <= y
<1>1. PICK x \in T : \A y \in T : ~ (<<y, x>> \in OpToRel(<, Nat))
  BY NatLessThanWellFounded, WFMin
<1>2. \A y \in T : ~ (y < x)
  BY <1>1 DEF OpToRel
<1> QED
  BY <1>2

LEMMA PowAdd == ASSUME NEW a \in Nat, NEW b \in Nat PROVE 2^(a + b) = 2^a * 2^b
<1> DEFINE T == {c \in Nat : 2^(a + c) # 2^a * 2^c}
<1> SUFFICES ASSUME T # {} PROVE FALSE
  OBVIOUS
<1>1. PICK c \in T : \A d \in T : c <= d
  BY LeastNat
<1>2. CASE c = 0
  BY <1>1, <1>2, PowZero, PowPos
<1>3. CASE c # 0
  <2>1. c - 1 \in Nat /\ c - 1 \notin T
    BY <1>1, <1>3
  <2>2. 2^(a + (c - 1)) = 2^a * 2^(c - 1)
    BY <2>1
  <2>3. 2^((c - 1) + 1) = 2 * 2^(c - 1) /\ 2^((a + (c - 1)) + 1) = 2 * 2^(a + (c - 1))
    BY <2>1, PowSucc
  <2>4. (c - 1) + 1 = c /\ (a + (c - 1)) + 1 = a + c
    BY <2>1
  <2>5. 2^c = 2 * 2^(c - 1) /\ 2^(a + c) = 2 * 2^(a + (c - 1))
    BY <2>3, <2>4
  <2>6. 2^a \in Nat /\ 2^(c - 1) \in Nat
    BY <2>1, PowPos
  <2>7. 2^(a + c) = 2^a * 2^c
    BY <2>2, <2>5, <2>6
  <2> QED
    BY <2>7
<1> QED
  BY <1>2, <1>3

LEMMA PowMono == ASSUME NEW a \in Nat, NEW b \in Nat, a <= b PROVE 2^a <= 2^b
<1>1. b - a \in Nat /\ b = a + (b - a)
  OBVIOUS
<1>2. 2^b = 2^a * 2^(b - a)
  BY <1>1, PowAdd
<1>3. 2^a \in Nat \ {0} /\ 2^(b - a) \in Nat \ {0}
  BY <1>1, PowPos
<1> QED
  BY <1>2, <1>3

-----------------------------------------------------------------------------
\* The class of a size.

\* A value that is not zero has a highest bit.
LEMMA HighestBit ==
  ASSUME NEW v \in Nat \ {0}, v < 2^Width
  PROVE  /\ Clz(v) \in 0 .. Width - 1
         /\ 2^(Width - 1 - Clz(v)) <= v /\ v < 2^(Width - Clz(v))
<1>0. Width \in Nat
  BY ScaleAssumption
<1> DEFINE T == {k \in Nat : v < 2^k}
<1>1. T \subseteq Nat /\ Width \in T
  BY <1>0
<1> HIDE DEF T
<1>2. PICK k \in T : \A j \in T : k <= j
  BY <1>1, LeastNat
<1>3. k \in Nat /\ v < 2^k /\ k <= Width
  BY <1>1, <1>2 DEF T
<1>4. k # 0
  BY <1>3, PowZero
<1>5. k - 1 \in Nat /\ k - 1 \notin T
  BY <1>2, <1>3, <1>4
<1>6. 2^(k - 1) <= v
  <2>1. 2^(k - 1) \in Nat
    BY <1>5, PowPos
  <2> QED
    BY <1>5, <2>1 DEF T
<1>7. Width - k \in 0 .. Width - 1 /\ Width - 1 - (Width - k) = k - 1 /\ Width - (Width - k) = k
  BY <1>0, <1>3, <1>4
<1>8. 2^(Width - 1 - (Width - k)) <= v /\ v < 2^(Width - (Width - k))
  BY <1>3, <1>6, <1>7
<1>9. \E z \in 0 .. Width - 1 : 2^(Width - 1 - z) <= v /\ v < 2^(Width - z)
  BY <1>7, <1>8
<1> DEFINE P(z) == 2^(Width - 1 - z) <= v /\ v < 2^(Width - z)
<1>10. Clz(v) = CHOOSE z \in 0 .. Width - 1 : P(z)
  BY DEF Clz
<1>11. \E z \in 0 .. Width - 1 : P(z)
  BY <1>9
<1> HIDE DEF P
<1>12. Clz(v) \in 0 .. Width - 1 /\ P(Clz(v))
  BY <1>10, <1>11, Zenon
<1> QED
  BY <1>12 DEF P

\* ClassOf counts the bits of v.
LEMMA ClassBits ==
  ASSUME NEW v \in Nat, v < 2^Width
  PROVE  /\ ClassOf(v) \in 0 .. Width
         /\ v < 2^ClassOf(v)
         /\ ClassOf(v) # 0 => 2^(ClassOf(v) - 1) <= v
<1>0. Width \in Nat
  BY ScaleAssumption
<1>1. CASE v = 0
  <2>1. ClassOf(v) = 0
    BY <1>1 DEF ClassOf
  <2> QED
    BY <1>0, <1>1, <2>1, PowZero
<1>2. CASE v # 0
  <2> DEFINE k == Width - Clz(v)
  <2>1. ClassOf(v) = k
    BY <1>2 DEF ClassOf
  <2>2. Clz(v) \in 0 .. Width - 1 /\ 2^(Width - 1 - Clz(v)) <= v /\ v < 2^k
    BY <1>2, HighestBit
  <2>3. k \in 0 .. Width /\ k - 1 = Width - 1 - Clz(v)
    BY <1>0, <2>2
  <2>4. 2^(k - 1) <= v
    BY <2>2, <2>3
  <2> QED
    BY <2>1, <2>2, <2>3, <2>4
<1> QED
  BY <1>1, <1>2

\* What is left of a number after a division, as the bounds of a product.
LEMMA Quotient ==
  ASSUME NEW w \in Nat, NEW d \in Nat \ {0}
  PROVE  w \div d \in Nat /\ d * (w \div d) <= w /\ w < d * ((w \div d) + 1)
  OBVIOUS

\* The class of w, one less than the size: the smallest whose blocks hold more than w.
LEMMA ClassBounds ==
  ASSUME NEW w \in Nat, w < 2^Width
  PROVE  LET k == ClassOf(w \div 2^MinBits)
         IN  k \in Nat /\ w < 2^(MinBits + k) /\ (k # 0 => 2^(MinBits + k - 1) <= w)
<1>0. Width \in Nat /\ MinBits \in Nat
  BY ScaleAssumption
<1> DEFINE d == 2^MinBits
           v == w \div d
           k == ClassOf(v)
<1>1. d \in Nat \ {0} /\ 2^Width \in Nat
  BY <1>0, PowPos
<1>2. v \in Nat /\ d * v <= w /\ w < d * (v + 1)
  BY <1>1, Quotient
<1> HIDE DEF d, v
<1>3. v <= w
  BY <1>1, <1>2
<1>4. v < 2^Width
  BY <1>1, <1>2, <1>3
<1>5. k \in Nat /\ v < 2^k /\ (k # 0 => 2^(k - 1) <= v)
  BY <1>2, <1>4, <1>0, ClassBits
<1> HIDE DEF k
<1>6. 2^(MinBits + k) = d * 2^k /\ 2^k \in Nat
  BY <1>0, <1>5, PowAdd, PowPos DEF d
<1>7. w < 2^(MinBits + k)
  <2>1. v + 1 <= 2^k
    BY <1>2, <1>5, <1>6
  <2>2. d * (v + 1) <= d * 2^k
    BY <1>1, <1>2, <1>6, <2>1
  <2> QED
    BY <1>1, <1>2, <1>6, <2>2
<1>8. ASSUME k # 0 PROVE 2^(MinBits + k - 1) <= w
  <2>1. k - 1 \in Nat /\ MinBits + k - 1 = MinBits + (k - 1)
    BY <1>0, <1>5, <1>8
  <2>2. 2^(MinBits + k - 1) = d * 2^(k - 1) /\ 2^(k - 1) \in Nat
    BY <1>0, <2>1, PowAdd, PowPos DEF d
  <2>3. d * 2^(k - 1) <= d * v
    BY <1>1, <1>2, <1>5, <1>8, <2>2
  <2> QED
    BY <1>1, <1>2, <2>2, <2>3
<1> QED
  BY <1>5, <1>7, <1>8 DEF k, v, d

\* size - 1 in uint32_t arithmetic.
LEMMA OneLess ==
  ASSUME NEW size \in Size
  PROVE  (size + 2^Width - 1) % 2^Width = IF size = 0 THEN 2^Width - 1 ELSE size - 1
<1> DEFINE m == 2^Width
<1>1. m \in Nat \ {0} /\ size \in 0 .. m - 1
  BY ScaleAssumption, PowPos DEF Size
<1> HIDE DEF m
<1>2. (size + m - 1) % m = IF size = 0 THEN m - 1 ELSE size - 1
  BY <1>1
<1> QED
  BY <1>2 DEF m

(***************************************************************************)
(* find_multipool_index_for_size, for every width and every table of       *)
(* classes: the index is inside the table exactly for the sizes from one   *)
(* to the largest class, and then names the smallest class that holds the  *)
(* size.  Zero wraps around and falls outside.                             *)
(***************************************************************************)
THEOREM IndexIsSmallestClass ==
  ASSUME NEW size \in Size
  PROVE  LET index == find_multipool_index_for_size(size)
         IN  /\ index \in Nat
             /\ index < EntryCount =>
                  /\ size \in 1 .. mem_size(index)
                  /\ index # 0 => size > mem_size(index - 1)
             /\ index >= EntryCount => size \notin 1 .. mem_size(EntryCount - 1)
<1> DEFINE w == (size + 2^Width - 1) % 2^Width
           k == ClassOf(w \div 2^MinBits)
<1>0. Width \in Nat /\ MinBits \in Nat /\ EntryCount \in Nat \ {0} /\ MinBits + EntryCount <= Width
  BY ScaleAssumption
<1>1. 2^Width \in Nat \ {0} /\ size \in 0 .. 2^Width - 1
  BY <1>0, PowPos DEF Size
<1>2. w = IF size = 0 THEN 2^Width - 1 ELSE size - 1
  BY OneLess
<1> HIDE DEF w
<1>3. w \in Nat /\ w < 2^Width
  BY <1>1, <1>2
<1>4. k \in Nat /\ w < 2^(MinBits + k) /\ (k # 0 => 2^(MinBits + k - 1) <= w)
  BY <1>3, ClassBounds
<1>5. find_multipool_index_for_size(size) = k
  BY DEF find_multipool_index_for_size, w
<1> HIDE DEF k
<1>6. ASSUME k < EntryCount
      PROVE  size \in 1 .. mem_size(k) /\ (k # 0 => size > mem_size(k - 1))
  <2>1. size # 0
    <3> SUFFICES ASSUME size = 0 PROVE FALSE
      OBVIOUS
    <3>1. MinBits + k + 1 <= Width /\ MinBits + k \in Nat /\ MinBits + k + 1 \in Nat
      BY <1>0, <1>4, <1>6
    <3>2. 2^(MinBits + k + 1) <= 2^Width
      BY <1>0, <3>1, PowMono
    <3>3. 2^(MinBits + k + 1) = 2 * 2^(MinBits + k) /\ 2^(MinBits + k) \in Nat \ {0}
      BY <3>1, PowSucc, PowPos
    <3>4. 2^Width - 1 < 2^(MinBits + k)
      BY <1>2, <1>4
    <3> QED
      BY <1>1, <3>2, <3>3, <3>4
  <2>2. w = size - 1
    BY <1>2, <2>1
  <2>3. 2^(MinBits + k) \in Nat
    BY <1>0, <1>4, PowPos
  <2>4. size \in 1 .. mem_size(k)
    BY <1>1, <1>4, <2>1, <2>2, <2>3 DEF mem_size
  <2>5. ASSUME k # 0 PROVE size > mem_size(k - 1)
    <3>1. k - 1 \in Nat /\ MinBits + (k - 1) = MinBits + k - 1 /\ MinBits + k - 1 \in Nat
      BY <1>0, <1>4, <2>5
    <3>2. 2^(MinBits + k - 1) \in Nat
      BY <3>1, PowPos
    <3> QED
      BY <1>1, <1>4, <2>2, <2>5, <3>1, <3>2 DEF mem_size
  <2> QED
    BY <2>4, <2>5
<1>7. ASSUME k >= EntryCount PROVE size \notin 1 .. mem_size(EntryCount - 1)
  <2> SUFFICES ASSUME size \in 1 .. mem_size(EntryCount - 1) PROVE FALSE
    OBVIOUS
  <2>1. MinBits + (EntryCount - 1) \in Nat /\ MinBits + k - 1 \in Nat
        /\ MinBits + (EntryCount - 1) <= MinBits + k - 1 /\ k # 0
    BY <1>0, <1>4, <1>7
  <2>2. 2^(MinBits + (EntryCount - 1)) <= 2^(MinBits + k - 1)
    BY <2>1, PowMono
  <2>3. 2^(MinBits + (EntryCount - 1)) \in Nat /\ 2^(MinBits + k - 1) \in Nat
    BY <2>1, PowPos
  <2>4. size >= 1 /\ size <= 2^(MinBits + (EntryCount - 1))
    BY <2>3 DEF mem_size
  <2> QED
    BY <1>1, <1>2, <1>4, <2>1, <2>2, <2>3, <2>4
<1> QED
  BY <1>4, <1>5, <1>6, <1>7

-----------------------------------------------------------------------------
\* The state of the multi pool.

\* What freeing has passed is gone, with its blocks.
FreeInv ==
  /\ phase = "freeing" =>
       /\ \A i \in Entry : i < loop => pools[i] = "freed"
       /\ \A b \in pooled : nodePool[b] >= loop
  /\ FreedLeavesNothing

PoolInv == TypeOK /\ SmallestClassThatFits /\ CrashHasCause /\ FreeInv

LEMMA SizeNat == Size \subseteq Nat /\ 1 \in Size /\ Entry \subseteq Nat /\ 0 \in Entry
<1>0. Width \in Nat \ {0} /\ EntryCount \in Nat \ {0}
  BY ScaleAssumption
<1>1. PICK k \in Nat : k + 1 = Width
  BY <1>0
<1>2. 2^(k + 1) = 2 * 2^k /\ 2^k \in Nat \ {0}
  BY <1>1, PowSucc, PowPos
<1>3. 2^Width \in Nat /\ 2^Width >= 2
  BY <1>1, <1>2
<1>4. Size \subseteq Nat /\ 1 \in Size
  BY <1>3 DEF Size
<1> QED
  BY <1>0, <1>4 DEF Entry

LEMMA PoolInit == Init => PoolInv
<1> SUFFICES ASSUME Init PROVE PoolInv
  OBVIOUS
<1>1. TypeOK
  <2>1. ndebug \in BOOLEAN /\ crashed \in BOOLEAN
    BY Zenon DEF Init
  <2>2. /\ phase \in {"none", "null", "creating", "ready", "freeing", "freed"}
        /\ loop \in 0 .. EntryCount /\ creates \in 0 .. MaxCreates
    BY ScaleAssumption, CreatesAssumption DEF Init
  <2>3. /\ pools \in [Entry -> {"unset", "null", "live", "freed"}]
        /\ pooled \subseteq Block /\ out \in [User -> SUBSET Block] /\ stale \subseteq Block
    BY DEF Init, Blocks!Init
  <2>4. nodePool \in [Block -> Entry] /\ request \in Size /\ asked \in [Block -> Size]
    BY SizeNat DEF Init
  <2> QED
    BY <2>1, <2>2, <2>3, <2>4 DEF TypeOK
<1>2. SmallestClassThatFits
  BY DEF Init, Blocks!Init, SmallestClassThatFits
<1>3. CrashHasCause /\ FreeInv
  BY DEF Init, CrashHasCause, FreeInv, FreedLeavesNothing
<1> QED
  BY <1>1, <1>2, <1>3 DEF PoolInv

\* Creation.
LEMMA CreateInv ==
  ASSUME PoolInv, ~ crashed, CreateBegin \/ CreateEntry \/ CreateEnd PROVE PoolInv'
<1> USE ScaleAssumption, CreatesAssumption DEF PoolInv, blockVars
<1>1. UNCHANGED <<ndebug, pooled, out, nodePool, request, asked, stale, crashed>>
  BY DEF CreateBegin, CreateEntry, CreateEntryBelow, CreateEnd
<1>2. TypeOK'
  <2>1. CASE CreateBegin
    BY <1>1, <2>1 DEF CreateBegin, TypeOK
  <2>2. CASE CreateEntry
    BY <1>1, <2>2 DEF CreateEntry, CreateEntryBelow, TypeOK, Entry
  <2>3. CASE CreateEnd
    BY <1>1, <2>3 DEF CreateEnd, TypeOK
  <2> QED
    BY <2>1, <2>2, <2>3
<1>3. SmallestClassThatFits'
  BY <1>1 DEF SmallestClassThatFits
<1>4. CrashHasCause'
  BY <1>1 DEF CrashHasCause
<1>5. FreeInv'
  BY DEF CreateBegin, CreateEntry, CreateEntryBelow, CreateEnd, FreeInv, FreedLeavesNothing
<1> QED
  BY <1>2, <1>3, <1>4, <1>5

\* A block is given out for a size of its class.
LEMMA ServeInv ==
  ASSUME PoolInv, ~ crashed, phase = "ready", NEW u \in User, NEW size \in Size,
         find_multipool_index_for_size(size) < EntryCount, NEW b \in Block \ stale,
         Serve(u, size, find_multipool_index_for_size(size), b)
  PROVE  PoolInv'
<1> USE DEF PoolInv
<1> DEFINE k == find_multipool_index_for_size(size)
<1>1. /\ k \in Nat /\ k < EntryCount
      /\ size \in 1 .. mem_size(k) /\ (k # 0 => size > mem_size(k - 1))
  BY IndexIsSmallestClass
<1>2. k \in Entry
  BY <1>1, ScaleAssumption DEF Entry
<1>3. /\ asked' = [asked EXCEPT ![b] = size]
      /\ UNCHANGED <<ndebug, phase, pools, loop, creates, request, stale, crashed>>
      /\ out' = [out EXCEPT ![u] = @ \cup {b}]
      /\ pooled' \subseteq pooled
      /\ \/ nodePool[b] = k /\ nodePool' = nodePool
         \/ b \notin Blocks!InUse /\ nodePool' = [nodePool EXCEPT ![b] = k]
  BY DEF Serve, Blocks!AcquirePooled, Blocks!AcquireNew, lifeVars
<1> HIDE DEF k
<1>4. nodePool'[b] = k /\ asked'[b] = size
  BY <1>3 DEF TypeOK
<1>5. TypeOK'
  BY <1>2, <1>3 DEF TypeOK
<1>6. ASSUME NEW v \in User, NEW c \in out'[v], c # b
      PROVE  c \in out[v] /\ nodePool'[c] = nodePool[c] /\ asked'[c] = asked[c]
  BY <1>3, <1>6 DEF TypeOK
<1>7. SmallestClassThatFits'
  BY <1>1, <1>4, <1>6 DEF SmallestClassThatFits, IsClassOf, mem_size
<1>8. CrashHasCause' /\ FreeInv'
  BY <1>3 DEF CrashHasCause, FreeInv, FreedLeavesNothing
<1> QED
  BY <1>5, <1>7, <1>8

\* A crash is the only thing its step does.
LEMMA CrashInv ==
  ASSUME PoolInv, NEW size \in Size, Crash(size),
         \/ phase = "null" \/ \E i \in Entry : pools[i] = "null" /\ IsClassOf(i, size)
         \/ ~ ndebug /\ size \notin 1 .. mem_size(EntryCount - 1)
  PROVE  PoolInv'
<1> USE DEF PoolInv, Crash, lifeVars
<1>1. TypeOK'
  BY DEF TypeOK
<1>2. SmallestClassThatFits'
  BY DEF SmallestClassThatFits, IsClassOf, mem_size
<1>3. CrashHasCause'
  BY DEF CrashHasCause, IsClassOf, mem_size
<1>4. FreeInv'
  BY DEF FreeInv, FreedLeavesNothing
<1> QED
  BY <1>1, <1>2, <1>3, <1>4

LEMMA SameInv == ASSUME PoolInv, UNCHANGED vars PROVE PoolInv'
  BY DEF PoolInv, vars, TypeOK, SmallestClassThatFits, CrashHasCause, FreeInv, FreedLeavesNothing

LEMMA AcquireInv ==
  ASSUME PoolInv, ~ crashed, NEW u \in User, NEW size \in Size, multipool_mem_acquire(u, size)
  PROVE  PoolInv'
<1> DEFINE k == find_multipool_index_for_size(size)
<1>1. /\ k \in Nat /\ (k >= EntryCount => size \notin 1 .. mem_size(EntryCount - 1))
      /\ k < EntryCount => IsClassOf(k, size)
  BY IndexIsSmallestClass DEF IsClassOf
<1>2. CASE phase = "null" /\ Crash(size)
  BY <1>2, CrashInv
<1>3. CASE k >= EntryCount /\ Beyond(size)
  BY <1>1, <1>3, CrashInv, SameInv DEF Beyond, Refuse
<1>4. CASE k < EntryCount /\ pools[k] = "null" /\ Crash(size)
  <2>1. k \in Entry
    BY <1>1, <1>4, ScaleAssumption DEF Entry
  <2> QED
    BY <1>1, <1>4, <2>1, CrashInv
<1>5. CASE phase = "ready" /\ k < EntryCount /\ Refuse
  BY <1>5, SameInv DEF Refuse
<1>6. ASSUME NEW b \in Block \ stale, phase = "ready", k < EntryCount, Serve(u, size, k, b)
      PROVE  PoolInv'
  BY <1>6, ServeInv
<1> QED
  BY <1>2, <1>3, <1>4, <1>5, <1>6 DEF multipool_mem_acquire

LEMMA ReturnInv ==
  ASSUME PoolInv, ~ crashed, NEW u \in User, NEW b \in out[u], pool_mem_return(u, b)
  PROVE  PoolInv'
<1> USE DEF PoolInv
<1>1. /\ phase = "ready"
      /\ UNCHANGED <<ndebug, phase, pools, loop, creates, nodePool, request, asked, stale, crashed>>
      /\ out' = [out EXCEPT ![u] = @ \ {b}] /\ pooled' = pooled \cup {b}
  BY DEF pool_mem_return, Blocks!Return, lifeVars
<1>2. TypeOK'
  BY <1>1 DEF TypeOK
<1>3. \A v \in User : out'[v] \subseteq out[v]
  BY <1>1 DEF TypeOK
<1>4. SmallestClassThatFits'
  BY <1>1, <1>3 DEF SmallestClassThatFits, IsClassOf, mem_size
<1>5. CrashHasCause' /\ FreeInv'
  BY <1>1 DEF CrashHasCause, FreeInv, FreedLeavesNothing
<1> QED
  BY <1>2, <1>4, <1>5

\* Freeing.
LEMMA FreeBeginInv == ASSUME PoolInv, ~ crashed, FreeBegin PROVE PoolInv'
<1> USE ScaleAssumption DEF PoolInv, blockVars
<1>1. UNCHANGED <<ndebug, pools, creates, pooled, out, nodePool, request, asked, stale>> /\ loop' = 0
  BY DEF FreeBegin
<1>2. TypeOK'
  <2>1. crashed' \in BOOLEAN
    BY Zenon DEF FreeBegin, TypeOK
  <2>2. phase' \in {"none", "null", "creating", "ready", "freeing", "freed"}
    BY DEF FreeBegin, TypeOK
  <2>3. loop' \in 0 .. EntryCount
    BY <1>1
  <2> QED
    BY <1>1, <2>1, <2>2, <2>3 DEF TypeOK
<1>3. SmallestClassThatFits'
  BY <1>1 DEF SmallestClassThatFits, IsClassOf, mem_size
<1>4. CrashHasCause'
  BY <1>1 DEF FreeBegin, CrashHasCause
<1>5. FreeInv'
  <2>1. \A i \in Entry : ~ (i < 0)
    BY SizeNat
  <2>2. \A c \in pooled : nodePool[c] >= 0
    <3> SUFFICES ASSUME NEW c \in pooled PROVE nodePool[c] >= 0
      OBVIOUS
    <3>1. nodePool[c] \in Entry
      BY DEF TypeOK
    <3>2. nodePool[c] \in Nat
      BY <3>1, SizeNat, Zenon
    <3> QED
      BY <3>2
  <2> QED
    BY <1>1, <2>1, <2>2 DEF FreeBegin, FreeInv, FreedLeavesNothing
<1> QED
  BY <1>2, <1>3, <1>4, <1>5

LEMMA FreeEntryInv == ASSUME PoolInv, ~ crashed, FreeEntry PROVE PoolInv'
<1> USE DEF PoolInv
<1>1. /\ phase = "freeing" /\ loop < EntryCount
      /\ UNCHANGED <<ndebug, phase, creates, out, nodePool, request, asked, stale>>
  BY DEF FreeEntry
<1>2. loop \in Entry /\ loop \in Nat
  BY <1>1, ScaleAssumption DEF TypeOK, Entry
<1>3. SmallestClassThatFits'
  BY <1>1 DEF SmallestClassThatFits, IsClassOf, mem_size
<1>4. CASE pools[loop] = "null"
  <2>1. crashed' = TRUE /\ UNCHANGED <<pools, pooled, loop>>
    BY <1>4 DEF FreeEntry
  <2>2. TypeOK'
    BY <1>1, <2>1 DEF TypeOK
  <2>3. CrashHasCause' /\ FreeInv'
    BY <1>1, <1>2, <1>4, <2>1 DEF CrashHasCause, FreeInv, FreedLeavesNothing
  <2> QED
    BY <1>3, <2>2, <2>3
<1>5. CASE pools[loop] # "null"
  <2>1. /\ pools' = [pools EXCEPT ![loop] = "freed"]
        /\ pooled' = {b \in pooled : nodePool[b] # loop}
        /\ loop' = loop + 1 /\ crashed' = crashed
    BY <1>5 DEF FreeEntry
  <2>2. TypeOK'
    BY <1>1, <1>2, <2>1, ScaleAssumption DEF TypeOK
  <2>3. CrashHasCause'
    BY <2>1 DEF CrashHasCause
  <2>4. \A i \in Entry : i < loop' => pools'[i] = "freed"
    <3>1. \A i \in Entry : i < loop + 1 => i < loop \/ i = loop
      BY <1>2, SizeNat
    <3> QED
      BY <1>1, <2>1, <3>1 DEF FreeInv, TypeOK
  <2>5. \A b \in pooled' : nodePool'[b] >= loop'
    <3>1. \A b \in pooled : nodePool[b] \in Nat /\ nodePool[b] >= loop
      BY <1>1, SizeNat DEF FreeInv, TypeOK
    <3> QED
      BY <1>1, <1>2, <2>1, <3>1
  <2>6. FreeInv'
    BY <1>1, <2>4, <2>5 DEF FreeInv, FreedLeavesNothing
  <2> QED
    BY <1>3, <2>2, <2>3, <2>6
<1> QED
  BY <1>4, <1>5

LEMMA FreeEndInv == ASSUME PoolInv, ~ crashed, FreeEnd PROVE PoolInv'
<1> USE DEF PoolInv, FreeEnd, FreeEndAt
<1>1. Blocks!InUse \subseteq Block
  BY DEF Blocks!InUse, TypeOK
<1>2. TypeOK'
  BY <1>1 DEF TypeOK
<1>3. SmallestClassThatFits' /\ CrashHasCause'
  BY DEF SmallestClassThatFits, CrashHasCause, IsClassOf, mem_size
<1>4. \A i \in Entry : i < EntryCount
  BY ScaleAssumption DEF Entry
<1>5. pooled = {}
  <2>1. \A b \in pooled : nodePool[b] \in Entry /\ nodePool[b] >= EntryCount
    BY DEF FreeInv, TypeOK
  <2> QED
    BY <2>1, ScaleAssumption DEF Entry
<1>6. FreeInv'
  BY <1>4, <1>5 DEF FreeInv, FreedLeavesNothing
<1> QED
  BY <1>2, <1>3, <1>6

LEMMA Invariance == Spec => []PoolInv
<1>1. PoolInv /\ [Next]_vars => PoolInv'
  <2> SUFFICES ASSUME PoolInv, [Next]_vars PROVE PoolInv'
    OBVIOUS
  <2>1. CASE Next
    BY <2>1, CreateInv, FreeBeginInv, FreeEntryInv, FreeEndInv, AcquireInv, ReturnInv DEF Next
  <2> QED
    BY <2>1, SameInv
<1> QED
  BY <1>1, PoolInit, PTL DEF Spec

(***************************************************************************)
(* For every table of classes: creation and freeing stay inside the array, *)
(* and every block belongs to one of its entries.                          *)
(***************************************************************************)
THEOREM TypeCorrect == Spec => []TypeOK
<1>1. PoolInv => TypeOK
  BY DEF PoolInv
<1> QED
  BY <1>1, Invariance, PTL

(***************************************************************************)
(* For every table of classes and whatever was acquired and returned       *)
(* before: a block that is out is of the smallest class that holds what    *)
(* its caller asked for.                                                   *)
(***************************************************************************)
THEOREM BlocksFit == Spec => []SmallestClassThatFits
<1>1. PoolInv => SmallestClassThatFits
  BY DEF PoolInv
<1> QED
  BY <1>1, Invariance, PTL

(***************************************************************************)
(* For every table of classes: a call of the multi pool brings the program *)
(* down only after a malloc of its creation failed or, with assertions,    *)
(* for a size of zero or beyond the last class.                            *)
(***************************************************************************)
THEOREM CrashesExplained == Spec => []CrashHasCause
<1>1. PoolInv => CrashHasCause
  BY DEF PoolInv
<1> QED
  BY <1>1, Invariance, PTL

(***************************************************************************)
(* For every table of classes and set of blocks: when multipool_free has   *)
(* returned, no entry and no pooled block is left.                         *)
(***************************************************************************)
THEOREM FreedIsEmpty == Spec => []FreedLeavesNothing
<1>1. PoolInv => FreedLeavesNothing
  BY DEF PoolInv, FreeInv
<1> QED
  BY <1>1, Invariance, PTL
==============================================================================
