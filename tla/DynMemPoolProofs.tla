-------------------------- MODULE DynMemPoolProofs --------------------------
(***************************************************************************)
(* Proofs about the memory pool, for any number of threads and nodes: its  *)
(* type correctness and, when one thread acquires while any number return  *)
(* blocks, that no block is ever in use twice, that the free list holds    *)
(* exactly the blocks nobody uses and num_available tells its length, that *)
(* the pool does not grow past its bound and leaves nothing behind, and    *)
(* that it implements BlockPool.  The hypothesis is needed: with several   *)
(* acquirers the pop is open to the ABA problem (see README).              *)
(***************************************************************************)
EXTENDS DynMemPool, FiniteSetTheorems, TLAPS

\* One thread at most calls pool_mem_acquire.
SingleAcquirer == \A a, b \in Acquirers : a = b

\* uint32_t arithmetic stays in range.
LEMMA WrapType == ASSUME NEW n \in Int PROVE Wrap(n) \in 0 .. CounterModulus - 1
  BY ModulusAssumption DEF Wrap

\* A remainder determines itself.
LEMMA RemainderUnique ==
  ASSUME NEW m \in Nat \ {0}, NEW p \in Int, NEW q \in Int,
         NEW r \in 0 .. m - 1, NEW s \in 0 .. m - 1,
         m * p + r = m * q + s
  PROVE  r = s
<1>1. CASE p < q
  <2>1. m * (q - p) >= m
    BY <1>1
  <2> QED
    BY <2>1
<1>2. CASE q < p
  <2>1. m * (p - q) >= m
    BY <1>2
  <2> QED
    BY <2>1
<1>3. CASE p = q
  BY <1>3
<1> QED
  BY <1>1, <1>2, <1>3

LEMMA DivMod ==
  ASSUME NEW m \in Nat \ {0}, NEW a \in Int
  PROVE  /\ a \div m \in Int /\ a % m \in 0 .. m - 1
         /\ a = m * (a \div m) + (a % m)
  OBVIOUS

LEMMA ModSum ==
  ASSUME NEW m \in Nat \ {0}, NEW a \in Int, NEW b \in Int
  PROVE  ((a % m) + b) % m = (a + b) % m
<1> DEFINE c == (a % m) + b
           p == (c \div m) + (a \div m)
           q == (a + b) \div m
<1>1. c \in Int /\ a + b \in Int
  BY DivMod
<1>2. c = m * (c \div m) + (c % m) /\ c \div m \in Int /\ c % m \in 0 .. m - 1
  BY <1>1, DivMod
<1>3. a + b = m * q + ((a + b) % m) /\ q \in Int /\ (a + b) % m \in 0 .. m - 1
  BY <1>1, DivMod
<1>4. a = m * (a \div m) + (a % m) /\ a \div m \in Int /\ a % m \in 0 .. m - 1
  BY DivMod
<1>5. a + b = m * p + (c % m) /\ p \in Int
  BY <1>2, <1>4
<1>6. m * p + (c % m) = m * q + ((a + b) % m)
  BY <1>3, <1>5
<1> HIDE DEF c, p, q
<1>7. c % m = (a + b) % m
  BY <1>2, <1>3, <1>5, <1>6, RemainderUnique
<1> QED
  BY <1>7 DEF c

\* An unsigned counter that wraps at every update is the wrapped sum of the updates.
LEMMA WrapSum ==
  ASSUME NEW a \in Int, NEW b \in Int PROVE Wrap(Wrap(a) + b) = Wrap(a + b)
  BY ModulusAssumption, ModSum DEF Wrap

BasicInv == TypeOK /\ LocalInv /\ PhaseInv

\* Every step of a call keeps the types, whatever the number of acquirers.
LEMMA BasicCall ==
  ASSUME BasicInv, NEW t \in Threads, AcquireLoad(t) \/ CallStep(t) PROVE BasicInv'
<1> USE NullAssumption DEF BasicInv, TypeOK, LocalInv, PhaseInv, Goto, Labels, poolVars
<1>1. CASE AcquireLoad(t)
  BY <1>1 DEF AcquireLoad
<1>2. CASE Alloc(t)
  BY <1>2 DEF Alloc
<1>3. CASE AllocFail(t)
  BY <1>3 DEF AllocFail
<1>4. CASE AllocData(t) \/ AllocDataFail(t) \/ AllocTrack(t)
  BY <1>4 DEF AllocData, AllocDataFail, AllocDataNone, AllocTrack
<1>5. CASE AcquireNext(t)
  BY <1>5 DEF AcquireNext
<1>6. CASE AcquireCas(t)
  BY <1>6 DEF AcquireCas, AcquireSwap
<1>7. CASE AcquireTrack(t)
  <2>1. num_available' \in 0 .. CounterModulus - 1
    BY <1>7, WrapType DEF AcquireTrack, AcquireEnd
  <2> QED
    BY <1>7, <2>1 DEF AcquireTrack, AcquireEnd
<1>8. CASE ReturnLoad(t)
  BY <1>8 DEF ReturnLoad
<1>9. CASE ReturnStore(t)
  BY <1>9 DEF ReturnStore, ReturnLink
<1>10. CASE ReturnCas(t)
  BY <1>10 DEF ReturnCas, ReturnSwap
<1>11. CASE ReturnTrack(t)
  <2>1. num_available' \in 0 .. CounterModulus - 1
    BY <1>11, WrapType DEF ReturnTrack
  <2> QED
    BY <1>11, <2>1 DEF ReturnTrack
<1> QED
  BY <1>1, <1>2, <1>3, <1>4, <1>5, <1>6, <1>7, <1>8, <1>9, <1>10, <1>11 DEF CallStep

\* So do the beginning of a return and the free functions.
LEMMA BasicStep == BasicInv /\ [Next]_vars => BasicInv'
<1> SUFFICES ASSUME BasicInv, [Next]_vars PROVE BasicInv'
  OBVIOUS
<1>1. CASE UNCHANGED vars
  BY <1>1 DEF vars, BasicInv, TypeOK, LocalInv, PhaseInv
<1>2. ASSUME NEW t \in Threads, AcquireLoad(t) \/ CallStep(t) PROVE BasicInv'
  BY <1>2, BasicCall
<1>3. ASSUME NEW t \in Threads, NEW u \in Threads, NEW n \in held[u], ReturnBegin(t, u, n)
      PROVE  BasicInv'
  BY <1>3 DEF ReturnBegin, BasicInv, TypeOK, LocalInv, PhaseInv, Goto, Labels, poolVars
<1>4. ASSUME NEW p \in {"freeAll", "freePool"}, FreeBegin(p) PROVE BasicInv'
  BY <1>4 DEF FreeBegin, BasicInv, TypeOK, LocalInv, PhaseInv
<1>5. CASE FreeNode
  <2>1. num_available' \in 0 .. CounterModulus - 1
    BY <1>5, WrapType DEF FreeNode, BasicInv, TypeOK
  <2>2. head \in Node
    BY <1>5 DEF FreeNode, BasicInv, TypeOK
  <2> QED
    BY <1>5, <2>1, <2>2 DEF FreeNode, BasicInv, TypeOK, LocalInv, PhaseInv
<1>6. CASE FreeEnd
  BY <1>6 DEF FreeEnd, BasicInv, TypeOK, LocalInv, PhaseInv
<1> QED
  BY <1>1, <1>2, <1>3, <1>4, <1>5, <1>6 DEF Next

(***************************************************************************)
(* For any number of threads, acquirers and nodes: a link is only followed *)
(* from a node, and num_available stays in the range of a uint32_t.         *)
(***************************************************************************)
THEOREM TypeCorrect == Spec => []TypeOK
<1>1. Init => BasicInv
  BY ModulusAssumption DEF Init, BasicInv, TypeOK, LocalInv, PhaseInv, Labels
<1>2. BasicInv => TypeOK
  BY DEF BasicInv
<1> QED
  BY <1>1, <1>2, BasicStep, PTL DEF Spec

-----------------------------------------------------------------------------
\* What the second part of the invariant adds to the types.
SharedInv == ExclusiveBlock /\ ListShape /\ LoadedInv

\* A step that changes no use, link or head keeps everything the locals of the
\* calls do not speak of.
LEMMA SameUses ==
  ASSUME allocated' = allocated, \A t \in Threads : Uses(t)' = Uses(t)
  PROVE  Pooled' = Pooled
  BY DEF Pooled

\* Steps inside a call, or at its two ends, that leave the list alone.
LEMMA QuietStep ==
  ASSUME PoolInv, NEW t \in Threads,
         \/ AcquireLoad(t) \/ AllocFail(t) \/ AllocData(t) \/ AllocTrack(t) \/ AcquireNext(t)
         \/ AcquireTrack(t) \/ ReturnLoad(t) \/ ReturnTrack(t)
  PROVE  SharedInv'
<1> USE DEF PoolInv
<1> USE DEF AcquireLoad, AllocFail, AllocData, AllocTrack, AcquireNext, AcquireTrack,
            AcquireEnd, ReturnLoad, ReturnTrack, Goto, poolVars, TypeOK
<1>1. \A u \in Threads : Uses(u)' = Uses(u)
  BY DEF Uses, InCall
<1>2. head' = head /\ next' = next /\ allocated' = allocated
  OBVIOUS
<1>3. Pooled' = Pooled
  BY <1>1, <1>2, SameUses
<1>4. ExclusiveBlock'
  <2>1. \A u \in Threads : held[u]' \cap InCall(u)' = {}
    BY DEF ExclusiveBlock, Uses, InCall
  <2> QED
    BY <1>1, <1>2, <2>1 DEF ExclusiveBlock
<1>5. ListShape'
  BY <1>2, <1>3 DEF ListShape
<1>6. LoadedInv'
  <2>1. head # Null => head \in Pooled
    BY DEF ListShape
  <2> QED
    BY <1>2, <1>3, <2>1 DEF LoadedInv
<1> QED
  BY <1>4, <1>5, <1>6 DEF SharedInv

\* A new node joins the allocated ones and its caller at once.
LEMMA AllocStep ==
  ASSUME PoolInv, NEW t \in Threads, Alloc(t) PROVE SharedInv'
<1> USE DEF PoolInv
<1> PICK n \in Node \ allocated :
      /\ allocated' = allocated \cup {n}
      /\ next' = [next EXCEPT ![n] = Null]
      /\ node' = [node EXCEPT ![t] = n]
  BY DEF Alloc
<1>1. \A u \in Threads : u # t => Uses(u)' = Uses(u) /\ InCall(u)' = InCall(u)
  BY DEF Alloc, Goto, TypeOK, Uses, InCall
<1>2. Uses(t)' = Uses(t) \cup {n} /\ InCall(t)' = {n} /\ held' = held
  BY DEF Alloc, Goto, TypeOK, Uses, InCall
<1>3. \A u \in Threads : n \notin Uses(u)
  BY DEF ExclusiveBlock
<1>4. Pooled' = Pooled
  BY <1>1, <1>2, <1>3 DEF Pooled
<1>5. \A m \in Pooled : m # n /\ next'[m] = next[m]
  BY DEF Pooled, TypeOK
<1>6. ExclusiveBlock'
  BY <1>1, <1>2, <1>3 DEF ExclusiveBlock, Uses
<1>7. head' = head
  BY DEF Alloc
<1>8. ListShape'
  BY <1>4, <1>5, <1>7 DEF ListShape
<1>9. \A u \in Threads : pc[u] = "retCas" => node[u] # n
  BY <1>3 DEF Uses, InCall
<1>10. LoadedInv'
  <2>1. \A u \in Threads : u # t => pc'[u] = pc[u] /\ node'[u] = node[u]
    BY DEF Alloc, Goto, TypeOK
  <2>2. pc'[t] = "allocData" /\ pc[t] = "alloc" /\ prev' = prev /\ newHead' = newHead
    BY DEF Alloc, Goto, TypeOK
  <2>3. \A u \in Threads : pc[u] = "retCas" => next'[node[u]] = next[node[u]]
    BY <1>9 DEF TypeOK, LocalInv
  <2> QED
    BY <1>4, <1>5, <2>1, <2>2, <2>3 DEF LoadedInv
<1> QED
  BY <1>6, <1>8, <1>10 DEF SharedInv

\* What a failed malloc of the data does to the nodes: the new one goes, with its use.
LEMMA DataFailEffect ==
  ASSUME PoolInv, NEW t \in Threads, AllocDataFail(t)
  PROVE  /\ Uses(t) = held[t] \cup {node[t]} /\ node[t] \notin held[t]
         /\ \A u \in Threads : u # t => node[t] \notin Uses(u)
         /\ \A u \in Threads : Uses(u)' = IF u = t THEN held[t] ELSE Uses(u)
         /\ InCall(t)' = {} /\ allocated' = allocated \ {node[t]}
         /\ Pooled' = Pooled /\ UNCHANGED <<head, next, prev, newHead, node, held>>
<1> USE DEF PoolInv
<1>1. /\ pc[t] = "allocData" /\ pc' = [pc EXCEPT ![t] = "idle"]
      /\ allocated' = allocated \ {node[t]}
      /\ UNCHANGED <<head, next, prev, newHead, node, held>>
  BY DEF AllocDataFail, AllocDataNone, Goto
<1>2. Uses(t) = held[t] \cup {node[t]} /\ node[t] \notin held[t]
  BY <1>1 DEF Uses, InCall, ExclusiveBlock
<1>3. \A u \in Threads : u # t => node[t] \notin Uses(u)
  BY <1>2 DEF ExclusiveBlock
<1>4. InCall(t)' = {} /\ \A u \in Threads : Uses(u)' = IF u = t THEN held[t] ELSE Uses(u)
  BY <1>1 DEF TypeOK, Uses, InCall
<1>5. \A m : m \in Pooled' <=> m \in Pooled
  BY <1>1, <1>2, <1>4 DEF Pooled
<1> QED
  BY <1>1, <1>2, <1>3, <1>4, <1>5

LEMMA AllocDataFailStep ==
  ASSUME PoolInv, NEW t \in Threads, AllocDataFail(t) PROVE SharedInv'
<1> USE DEF PoolInv
<1>1. /\ pc[t] = "allocData" /\ pc' = [pc EXCEPT ![t] = "idle"]
      /\ UNCHANGED <<head, next, prev, newHead, node, held>> /\ Pooled' = Pooled
  BY DataFailEffect DEF AllocDataFail, AllocDataNone, Goto
<1>2. ExclusiveBlock'
  <2>1. \A u \in Threads : Uses(u)' \subseteq Uses(u) /\ Uses(u)' \subseteq allocated'
    BY DataFailEffect DEF ExclusiveBlock
  <2>2. \A u \in Threads : held'[u] \cap InCall(u)' = {}
    <3>1. \A u \in Threads : u # t => InCall(u)' = InCall(u)
      BY <1>1 DEF TypeOK, InCall
    <3> QED
      BY <1>1, <3>1, DataFailEffect DEF ExclusiveBlock
  <2> QED
    BY <2>1, <2>2 DEF ExclusiveBlock
<1>3. ListShape'
  BY <1>1 DEF ListShape
<1>4. LoadedInv'
  BY <1>1 DEF LoadedInv, TypeOK
<1> QED
  BY <1>2, <1>3, <1>4 DEF SharedInv

\* Taking the head off the list, to use it or to free it, keeps the shape.
LEMMA PopShape ==
  ASSUME TypeOK, ListShape, head # Null,
         head' = next[head], next' = next, Pooled' = Pooled \ {head}
  PROVE  ListShape'
  BY DEF ListShape

\* The pop: the old head is pooled, so nobody uses it, and its link is the rest of
\* the list, since no other thread has popped.
LEMMA AcquireCasStep ==
  ASSUME PoolInv, SingleAcquirer, NEW t \in Threads, AcquireCas(t) PROVE SharedInv'
<1> USE DEF PoolInv
<1>1. CASE head = prev[t]
  <2>1. /\ head' = newHead[t] /\ node' = [node EXCEPT ![t] = prev[t]]
        /\ pc[t] = "acqCas" /\ pc' = [pc EXCEPT ![t] = "acqTrack"]
        /\ next' = next /\ allocated' = allocated
        /\ prev' = prev /\ newHead' = newHead /\ held' = held
    BY <1>1 DEF AcquireCas, AcquireSwap, Goto, poolVars
  <2>2. head \in Pooled /\ head # Null /\ head' = next[head]
    BY <1>1, <2>1, NullAssumption DEF LoadedInv, Pooled, TypeOK
  <2>3. \A u \in Threads : u # t => Uses(u)' = Uses(u) /\ InCall(u)' = InCall(u)
    BY <2>1 DEF TypeOK, Uses, InCall
  <2>4. Uses(t)' = Uses(t) \cup {head} /\ InCall(t)' = {head}
    BY <1>1, <2>1 DEF TypeOK, Uses, InCall
  <2>5. \A u \in Threads : head \notin Uses(u)
    BY <2>2 DEF Pooled
  <2>6. Pooled' = Pooled \ {head}
    BY <2>1, <2>3, <2>4 DEF Pooled
  <2>7. ExclusiveBlock'
    <3>1. \A u \in Threads : held[u] \subseteq Uses(u)
      BY DEF Uses
    <3>2. head \in allocated
      BY <2>2 DEF Pooled
    <3> QED
      BY <2>1, <2>3, <2>4, <2>5, <3>1, <3>2 DEF ExclusiveBlock
  <2>8. ListShape'
    BY <2>1, <2>2, <2>6, PopShape
  <2>9. LoadedInv'
    <3>1. t \in Acquirers
      BY <2>1 DEF LoadedInv
    <3>2. \A u \in Threads : u # t => pc'[u] = pc[u] /\ node'[u] = node[u]
      BY <2>1 DEF TypeOK
    <3>3. pc'[t] = "acqTrack"
      BY <2>1 DEF TypeOK
    <3>4. \A u \in Threads : u # t => pc[u] \notin {"acqNext", "acqCas"}
      BY <3>1 DEF LoadedInv, SingleAcquirer
    <3> QED
      BY <2>1, <3>1, <3>2, <3>3, <3>4 DEF LoadedInv
  <2> QED
    BY <2>7, <2>8, <2>9 DEF SharedInv
<1>2. CASE head # prev[t]
  <2>1. /\ head' = head /\ node' = node /\ pc[t] = "acqCas"
        /\ pc' = [pc EXCEPT ![t] = "acquire"]
        /\ next' = next /\ allocated' = allocated
        /\ prev' = prev /\ newHead' = newHead /\ held' = held
    BY <1>2 DEF AcquireCas, AcquireSwap, Goto, poolVars
  <2>2. \A u \in Threads : Uses(u)' = Uses(u) /\ InCall(u)' = InCall(u)
    BY <2>1 DEF TypeOK, Uses, InCall
  <2>3. Pooled' = Pooled
    BY <2>1, <2>2, SameUses
  <2>4. ExclusiveBlock'
    BY <2>1, <2>2 DEF ExclusiveBlock
  <2>5. ListShape'
    BY <2>1, <2>3 DEF ListShape
  <2>6. LoadedInv'
    BY <2>1, <2>3 DEF LoadedInv, TypeOK
  <2> QED
    BY <2>4, <2>5, <2>6 DEF SharedInv
<1> QED
  BY <1>1, <1>2

\* A block passes from the client that has it to the call that returns it.
LEMMA ReturnBeginStep ==
  ASSUME PoolInv, NEW t \in Threads, NEW u \in Threads, NEW n \in held[u],
         ReturnBegin(t, u, n)
  PROVE  SharedInv'
<1> USE DEF PoolInv
<1>1. /\ pc[t] = "idle" /\ pc' = [pc EXCEPT ![t] = "retLoad"]
      /\ held' = [held EXCEPT ![u] = @ \ {n}]
      /\ node' = [node EXCEPT ![t] = n]
      /\ head' = head /\ next' = next /\ allocated' = allocated
      /\ prev' = prev /\ newHead' = newHead
  BY DEF ReturnBegin, Goto, poolVars
<1>2. \A v \in Threads : v # t => InCall(v)' = InCall(v)
  BY <1>1 DEF TypeOK, InCall
<1>3. InCall(t)' = {n} /\ InCall(t) = {}
  BY <1>1 DEF TypeOK, InCall
<1>4. \A v \in Threads : held'[v] = held[v] \ (IF v = u THEN {n} ELSE {})
  BY <1>1 DEF TypeOK
<1>5. \A v \in Threads : v # u => n \notin Uses(v)
  BY DEF ExclusiveBlock, Uses
<1>6. n \notin InCall(u) /\ n \in allocated
  BY DEF ExclusiveBlock, Uses
<1>7. \A v \in Threads : v # t => Uses(v)' = Uses(v) \ {n}
  BY <1>2, <1>4, <1>5, <1>6 DEF Uses
<1>8. Uses(t)' = Uses(t) \cup {n}
  BY <1>3, <1>4 DEF Uses
<1>9. Pooled' = Pooled
  <2>1. n \in Uses(u) /\ n \in Uses(t)'
    BY <1>8 DEF Uses
  <2> QED
    BY <1>1, <1>7, <1>8, <2>1 DEF Pooled
<1>10. ExclusiveBlock'
  <2>1. \A v \in Threads : Uses(v)' \subseteq allocated'
    BY <1>1, <1>6, <1>7, <1>8 DEF ExclusiveBlock
  <2>2. \A v \in Threads : held'[v] \cap InCall(v)' = {}
    <3>1. n \notin held'[t]
      BY <1>4, <1>5 DEF Uses
    <3> QED
      BY <1>2, <1>3, <1>4, <3>1 DEF ExclusiveBlock
  <2>3. \A v, w \in Threads : v # w => Uses(v)' \cap Uses(w)' = {}
    <3>1. \A v, w \in Threads : v # w => Uses(v) \cap Uses(w) = {}
      BY DEF ExclusiveBlock
    <3> QED
      BY <1>7, <1>8, <3>1
  <2> QED
    BY <2>1, <2>2, <2>3 DEF ExclusiveBlock
<1>11. ListShape'
  BY <1>1, <1>9 DEF ListShape
<1>12. LoadedInv'
  BY <1>1, <1>9 DEF LoadedInv, TypeOK
<1> QED
  BY <1>10, <1>11, <1>12 DEF SharedInv

\* The link of a node that is not yet on the list is nobody else's concern.
LEMMA ReturnStoreStep ==
  ASSUME PoolInv, NEW t \in Threads, ReturnStore(t) PROVE SharedInv'
<1> USE DEF PoolInv
<1> DEFINE n == node[t]
<1>1. /\ pc[t] = "retStore" /\ pc' = [pc EXCEPT ![t] = "retCas"]
      /\ next' = [next EXCEPT ![n] = prev[t]]
      /\ head' = head /\ allocated' = allocated /\ node' = node
      /\ prev' = prev /\ newHead' = newHead /\ held' = held
  BY DEF ReturnStore, ReturnLink, Goto, poolVars
<1>2. \A u \in Threads : Uses(u)' = Uses(u) /\ InCall(u)' = InCall(u)
  BY <1>1 DEF TypeOK, Uses, InCall
<1>3. Pooled' = Pooled
  BY <1>1, <1>2, SameUses
<1>4. n \in Node /\ n \in Uses(t) /\ n \in InCall(t)
  BY <1>1 DEF LocalInv, Uses, InCall
<1>5. \A m \in Pooled : m # n /\ next'[m] = next[m]
  BY <1>1, <1>4 DEF Pooled, TypeOK
<1>6. ExclusiveBlock'
  BY <1>1, <1>2 DEF ExclusiveBlock
<1>7. ListShape'
  BY <1>1, <1>3, <1>5 DEF ListShape
<1>8. LoadedInv'
  <2>1. next'[n] = prev[t]
    BY <1>1, <1>4 DEF TypeOK
  <2>2. \A u \in Threads : u # t /\ pc[u] = "retCas" => next'[node[u]] = next[node[u]]
    <3>1. \A u \in Threads : u # t /\ pc[u] = "retCas" => node[u] \in Uses(u) /\ node[u] \in Node
      BY DEF Uses, InCall, LocalInv
    <3>2. \A u \in Threads : u # t /\ pc[u] = "retCas" => node[u] # n
      BY <1>4, <3>1 DEF ExclusiveBlock
    <3> QED
      BY <1>1, <3>1, <3>2 DEF TypeOK
  <2>3. pc'[t] = "retCas" /\ \A u \in Threads : u # t => pc'[u] = pc[u]
    BY <1>1 DEF TypeOK
  <2> QED
    BY <1>1, <1>3, <1>5, <2>1, <2>2, <2>3 DEF LoadedInv
<1> QED
  BY <1>6, <1>7, <1>8 DEF SharedInv

\* The push: the returned node is linked to the present head and becomes the head.
LEMMA ReturnCasStep ==
  ASSUME PoolInv, NEW t \in Threads, ReturnCas(t) PROVE SharedInv'
<1> USE DEF PoolInv
<1>1. CASE head = prev[t]
  <2> DEFINE n == node[t]
  <2>1. /\ head' = n /\ pc[t] = "retCas" /\ pc' = [pc EXCEPT ![t] = "retTrack"]
        /\ next' = next /\ allocated' = allocated /\ node' = node
        /\ prev' = prev /\ newHead' = newHead /\ held' = held
    BY <1>1 DEF ReturnCas, ReturnSwap, Goto, poolVars
  <2>2. next[n] = head /\ n \in Node /\ InCall(t) = {n}
    BY <1>1, <2>1 DEF LoadedInv, LocalInv, InCall
  <2>3. n \in Uses(t) /\ n \notin held[t] /\ n \in allocated
    BY <2>2 DEF ExclusiveBlock, Uses
  <2>4. \A u \in Threads : u # t => n \notin Uses(u)
    BY <2>3 DEF ExclusiveBlock
  <2>5. \A u \in Threads : u # t => Uses(u)' = Uses(u) /\ InCall(u)' = InCall(u)
    BY <2>1 DEF TypeOK, Uses, InCall
  <2>6. Uses(t)' = Uses(t) \ {n} /\ InCall(t)' = {}
    BY <2>1, <2>2, <2>3 DEF TypeOK, Uses, InCall
  <2>7. Pooled' = Pooled \cup {n} /\ n \notin Pooled /\ n # Null
    BY <2>1, <2>2, <2>3, <2>4, <2>5, <2>6, NullAssumption DEF Pooled
  <2>8. ExclusiveBlock'
    BY <2>1, <2>5, <2>6 DEF ExclusiveBlock
  <2>9. ListShape'
    BY <2>1, <2>2, <2>7 DEF ListShape
  <2>10. LoadedInv'
    BY <2>1, <2>7 DEF LoadedInv, TypeOK
  <2> QED
    BY <2>8, <2>9, <2>10 DEF SharedInv
<1>2. CASE head # prev[t]
  <2>1. /\ head' = head /\ pc[t] = "retCas" /\ pc' = [pc EXCEPT ![t] = "retLoad"]
        /\ next' = next /\ allocated' = allocated /\ node' = node
        /\ prev' = prev /\ newHead' = newHead /\ held' = held
    BY <1>2 DEF ReturnCas, ReturnSwap, Goto, poolVars
  <2>2. \A u \in Threads : Uses(u)' = Uses(u) /\ InCall(u)' = InCall(u)
    BY <2>1 DEF TypeOK, Uses, InCall
  <2>3. Pooled' = Pooled
    BY <2>1, <2>2, SameUses
  <2>4. ExclusiveBlock'
    BY <2>1, <2>2 DEF ExclusiveBlock
  <2>5. ListShape'
    BY <2>1, <2>3 DEF ListShape
  <2>6. LoadedInv'
    BY <2>1, <2>3 DEF LoadedInv, TypeOK
  <2> QED
    BY <2>4, <2>5, <2>6 DEF SharedInv
<1> QED
  BY <1>1, <1>2

\* The loop of pool_mem_free_all frees the head, which nobody uses, while no call
\* is under way.
LEMMA FreeNodeStep == ASSUME PoolInv, FreeNode PROVE SharedInv'
<1> USE DEF PoolInv
<1>1. /\ head # Null /\ head' = next[head] /\ allocated' = allocated \ {head}
      /\ next' = next /\ UNCHANGED <<pc, prev, newHead, node, held>>
  BY DEF FreeNode
<1>2. \A t \in Threads : pc[t] = "idle"
  BY DEF FreeNode, PhaseInv
<1>3. \A u \in Threads : Uses(u)' = Uses(u) /\ InCall(u)' = InCall(u)
  BY <1>1 DEF Uses, InCall
<1>4. head \in Pooled
  BY <1>1 DEF ListShape
<1>5. Pooled' = Pooled \ {head}
  BY <1>1, <1>3 DEF Pooled
<1>6. ExclusiveBlock'
  BY <1>1, <1>3, <1>4 DEF ExclusiveBlock, Pooled
<1>7. ListShape'
  BY <1>1, <1>5, PopShape
<1>8. LoadedInv'
  BY <1>1, <1>2 DEF LoadedInv
<1> QED
  BY <1>6, <1>7, <1>8 DEF SharedInv

\* Every step keeps the whole invariant when there is one acquirer.
LEMMA PoolStep == SingleAcquirer /\ PoolInv /\ [Next]_vars => PoolInv'
<1> SUFFICES ASSUME SingleAcquirer, PoolInv, [Next]_vars PROVE PoolInv'
  OBVIOUS
<1>1. BasicInv'
  BY BasicStep DEF PoolInv, BasicInv
<1>2. CASE UNCHANGED <<head, next, allocated, pc, prev, newHead, node, held>>
  <2>1. \A u \in Threads : Uses(u)' = Uses(u) /\ InCall(u)' = InCall(u)
    BY <1>2 DEF Uses, InCall
  <2>2. Pooled' = Pooled
    BY <1>2, <2>1, SameUses
  <2>3. ExclusiveBlock' /\ ListShape'
    BY <1>2, <2>1, <2>2 DEF PoolInv, ExclusiveBlock, ListShape
  <2>4. LoadedInv'
    BY <1>2, <2>2 DEF PoolInv, LoadedInv
  <2> QED
    BY <1>1, <2>3, <2>4 DEF PoolInv, BasicInv
<1>3. ASSUME NEW t \in Threads, AcquireLoad(t) \/ CallStep(t) PROVE SharedInv'
  BY <1>3, QuietStep, AllocStep, AllocDataFailStep, AcquireCasStep, ReturnStoreStep, ReturnCasStep
  DEF CallStep
<1>4. ASSUME NEW t \in Threads, NEW u \in Threads, NEW n \in held[u], ReturnBegin(t, u, n)
      PROVE  SharedInv'
  BY <1>4, ReturnBeginStep
<1>5. CASE FreeNode
  BY <1>1, <1>5, FreeNodeStep DEF PoolInv, BasicInv, SharedInv
<1>6. CASE FreeEnd \/ \E p \in {"freeAll", "freePool"} : FreeBegin(p)
  BY <1>2, <1>6 DEF FreeEnd, FreeBegin
<1>7. CASE UNCHANGED vars
  BY <1>2, <1>7 DEF vars
<1> QED
  BY <1>1, <1>3, <1>4, <1>5, <1>6, <1>7 DEF Next, PoolInv, BasicInv, SharedInv

\* The invariant holds throughout when there is one acquirer.
LEMMA Invariance == ASSUME SingleAcquirer PROVE Spec => []PoolInv
<1>1. Init => PoolInv
  <2> SUFFICES ASSUME Init PROVE PoolInv
    OBVIOUS
  <2>1. TypeOK /\ LocalInv /\ PhaseInv
    BY ModulusAssumption DEF Init, TypeOK, LocalInv, PhaseInv, Labels
  <2>2. Pooled = {}
    BY DEF Init, Pooled
  <2>3. ExclusiveBlock
    BY DEF Init, ExclusiveBlock, Uses, InCall
  <2>4. ListShape /\ LoadedInv
    BY <2>2 DEF Init, ListShape, LoadedInv
  <2> QED
    BY <2>1, <2>3, <2>4 DEF PoolInv
<1>2. PoolInv /\ [Next]_vars => PoolInv'
  BY PoolStep
<1> QED
  BY <1>1, <1>2, PTL DEF Spec

(***************************************************************************)
(* For any number of threads that return blocks and one that acquires      *)
(* them: no block is in use twice and none in use is ever freed.           *)
(***************************************************************************)
THEOREM SingleAcquirerExclusive ==
  ASSUME SingleAcquirer
  PROVE  Spec => []ExclusiveBlock
<1>1. PoolInv => ExclusiveBlock
  BY DEF PoolInv
<1> QED
  BY <1>1, Invariance, PTL

-----------------------------------------------------------------------------
\* The refinement.  A step that changes neither the uses nor the pooled nodes is a
\* stutter of the block pool.
AbstractStep == [Abstract!Next]_(Abstract!blockVars)

LEMMA Stutter ==
  ASSUME Pooled' = Pooled, \A u \in Threads : Owned(u)' = Owned(u) PROVE AbstractStep
  BY DEF AbstractStep, Abstract!blockVars

LEMMA QuietRefines ==
  ASSUME PoolInv, NEW t \in Threads,
         \/ AcquireLoad(t) \/ AllocFail(t) \/ AllocTrack(t) \/ AcquireNext(t)
         \/ AcquireTrack(t) \/ ReturnLoad(t) \/ ReturnStore(t) \/ ReturnTrack(t)
  PROVE  AbstractStep
<1>1. /\ allocated' = allocated
      /\ \A u \in Threads : Uses(u)' = Uses(u) /\ Owned(u)' = Owned(u)
  BY DEF AcquireLoad, AllocFail, AllocTrack, AcquireNext, AcquireTrack, AcquireEnd,
         ReturnLoad,
         ReturnStore, ReturnLink, ReturnTrack, Goto, poolVars, PoolInv, TypeOK, Uses, InCall,
         Owned
<1> QED
  BY <1>1, SameUses, Stutter

\* A node is no block until its data is there.
LEMMA AllocRefines == ASSUME PoolInv, NEW t \in Threads, Alloc(t) PROVE AbstractStep
<1> USE DEF PoolInv
<1> PICK n \in Node \ allocated :
      /\ allocated' = allocated \cup {n}
      /\ next' = [next EXCEPT ![n] = Null]
      /\ node' = [node EXCEPT ![t] = n]
  BY DEF Alloc
<1>1. \A u \in Threads : Uses(u)' = IF u = t THEN Uses(u) \cup {n} ELSE Uses(u)
  BY DEF Alloc, Goto, TypeOK, Uses, InCall
<1>2. \A u \in Threads : Owned(u)' = Owned(u)
  BY <1>1 DEF Alloc, Goto, TypeOK, Owned, Uses, InCall
<1>3. Pooled' = Pooled
  BY <1>1 DEF Pooled, ExclusiveBlock
<1> QED
  BY <1>2, <1>3, Stutter

LEMMA AllocDataFailRefines ==
  ASSUME PoolInv, NEW t \in Threads, AllocDataFail(t) PROVE AbstractStep
<1>1. \A u \in Threads : Owned(u)' = Owned(u)
  BY DataFailEffect DEF AllocDataFail, AllocDataNone, Goto, PoolInv, TypeOK, Owned
<1> QED
  BY <1>1, DataFailEffect, Stutter

\* The malloc of the data is AcquireNew: the node was neither pooled nor in use.
LEMMA AllocDataRefines == ASSUME PoolInv, NEW t \in Threads, AllocData(t) PROVE AbstractStep
<1> USE DEF PoolInv
<1> DEFINE n == node[t]
<1>1. /\ pc[t] = "allocData" /\ pc' = [pc EXCEPT ![t] = "allocTrack"] /\ n \in Node
      /\ UNCHANGED <<allocated, node, held>>
  BY DEF AllocData, Goto, poolVars, LocalInv
<1>2. n \in Uses(t) /\ n \notin held[t]
  BY <1>1 DEF Uses, InCall, ExclusiveBlock
<1>3. n \notin Pooled /\ \A u \in Threads : n \notin Owned(u)
  BY <1>1, <1>2 DEF Pooled, ExclusiveBlock, Owned, Uses
<1>4. \A u \in Threads : Uses(u)' = Uses(u)
  BY <1>1 DEF TypeOK, Uses, InCall
<1>5. \A u \in Threads : Owned(u)' = IF u = t THEN Owned(u) \cup {n} ELSE Owned(u)
  BY <1>1, <1>4 DEF TypeOK, Owned, Uses, InCall
<1>6. Pooled' = Pooled
  BY <1>1, <1>4, SameUses
<1>7. Abstract!AcquireNew(t, n)
  BY <1>3, <1>5, <1>6 DEF Abstract!AcquireNew, Abstract!InUse
<1> QED
  BY <1>1, <1>7 DEF AbstractStep, Abstract!Next

\* A successful pop is AcquirePooled: what it takes is pooled.
LEMMA AcquireCasRefines ==
  ASSUME PoolInv, NEW t \in Threads, AcquireCas(t) PROVE AbstractStep
<1> USE DEF PoolInv
<1> DEFINE n == prev[t]
<1>1. CASE head = n
  <2>1. pc[t] = "acqCas" /\ n \in Pooled /\ n \in Node
    BY DEF AcquireCas, AcquireSwap, LoadedInv, LocalInv
  <2>2. \A u \in Threads : Uses(u)' = IF u = t THEN Uses(u) \cup {n} ELSE Uses(u)
    BY <1>1 DEF AcquireCas, AcquireSwap, Goto, poolVars, TypeOK, Uses, InCall
  <2>3. allocated' = allocated
    BY DEF AcquireCas, AcquireSwap, poolVars
  <2>4. Pooled' = Pooled \ {n}
    BY <2>2, <2>3 DEF Pooled
  <2>5. \A u \in Threads : Owned(u)' = IF u = t THEN Owned(u) \cup {n} ELSE Owned(u)
    BY <1>1, <2>1, <2>2 DEF AcquireCas, AcquireSwap, Goto, TypeOK, Owned
  <2>6. Abstract!AcquirePooled(t, n)
    BY <2>1, <2>4, <2>5 DEF Abstract!AcquirePooled
  <2> QED
    BY <2>1, <2>6 DEF AbstractStep, Abstract!Next
<1>2. CASE head # n
  <2>1. /\ allocated' = allocated
        /\ \A u \in Threads : Uses(u)' = Uses(u) /\ Owned(u)' = Owned(u)
    BY <1>2 DEF AcquireCas, AcquireSwap, Goto, poolVars, TypeOK, Uses, InCall, Owned
  <2> QED
    BY <2>1, SameUses, Stutter
<1> QED
  BY <1>1, <1>2

\* The beginning of a return hands the block to the thread that returns it.
LEMMA ReturnBeginRefines ==
  ASSUME PoolInv, NEW t \in Threads, NEW u \in Threads, NEW n \in held[u],
         ReturnBegin(t, u, n)
  PROVE  AbstractStep
<1> USE DEF PoolInv
<1>1. /\ pc[t] = "idle" /\ pc' = [pc EXCEPT ![t] = "retLoad"]
      /\ held' = [held EXCEPT ![u] = @ \ {n}]
      /\ node' = [node EXCEPT ![t] = n]
      /\ allocated' = allocated
  BY DEF ReturnBegin, Goto, poolVars
<1>2. n \in Uses(u) /\ n \in Node /\ n \notin InCall(u)
  BY DEF ExclusiveBlock, Uses, TypeOK
<1>3. \A v \in Threads : InCall(v)' = IF v = t THEN {n} ELSE InCall(v)
  BY <1>1 DEF TypeOK, InCall
<1>4. \A v \in Threads : held'[v] = IF v = u THEN held[v] \ {n} ELSE held[v]
  BY <1>1 DEF TypeOK
<1>5. InCall(t) = {} /\ Owned(t) = Uses(t) /\ Owned(t)' = Uses(t)'
  BY <1>1 DEF InCall, Owned, TypeOK
<1>6. CASE u = t
  <2>1. \A v \in Threads : Uses(v)' = Uses(v)
    BY <1>2, <1>3, <1>4, <1>5, <1>6 DEF Uses
  <2>2. \A v \in Threads : v # t => Owned(v)' = Owned(v)
    BY <1>1, <1>4, <1>6, <2>1 DEF Owned, TypeOK
  <2> QED
    BY <1>1, <1>5, <2>1, <2>2, SameUses, Stutter
<1>7. CASE u # t
  <2>1. \A v \in Threads : Uses(v)' = IF v = u THEN Uses(v) \ {n}
                                      ELSE IF v = t THEN Uses(v) \cup {n} ELSE Uses(v)
    BY <1>2, <1>3, <1>4, <1>5, <1>7 DEF Uses
  <2>2. Pooled' = Pooled
    <3>1. n \in Uses(t)'
      BY <1>7, <2>1
    <3>2. \A m : m # n => \A v \in Threads : m \in Uses(v)' <=> m \in Uses(v)
      BY <2>1
    <3> QED
      BY <1>1, <1>2, <3>1, <3>2 DEF Pooled
  <2>3. \A v \in Threads : v # t => pc'[v] = pc[v]
    BY <1>1 DEF TypeOK
  <2>4. \A v \in Threads : Owned(v)' = IF v = u THEN Owned(v) \ {n}
                                       ELSE IF v = t THEN Owned(v) \cup {n} ELSE Owned(v)
    BY <1>4, <1>5, <1>7, <2>1, <2>3 DEF Owned
  <2>5. n \in Owned(u)
    BY <1>2 DEF Owned
  <2>6. Abstract!Hand(u, t, n)
    BY <1>7, <2>2, <2>4, <2>5 DEF Abstract!Hand
  <2> QED
    BY <1>2, <2>6 DEF AbstractStep, Abstract!Next
<1> QED
  BY <1>6, <1>7

\* A successful push is Return.
LEMMA ReturnCasRefines ==
  ASSUME PoolInv, NEW t \in Threads, ReturnCas(t) PROVE AbstractStep
<1> USE DEF PoolInv
<1> DEFINE n == node[t]
<1>1. CASE head = prev[t]
  <2>1. n \in Node /\ n \in Uses(t) /\ n \notin held[t] /\ n \in allocated
    BY DEF ReturnCas, ReturnSwap, LocalInv, ExclusiveBlock, Uses, InCall
  <2>2. \A u \in Threads : Uses(u)' = IF u = t THEN Uses(u) \ {n} ELSE Uses(u)
    BY <1>1, <2>1 DEF ReturnCas, ReturnSwap, Goto, poolVars, TypeOK, Uses, InCall
  <2>3. \A u \in Threads : u # t => n \notin Uses(u)
    BY <2>1 DEF ExclusiveBlock
  <2>4. allocated' = allocated
    BY DEF ReturnCas, ReturnSwap, poolVars
  <2>5. Pooled' = Pooled \cup {n}
    BY <2>1, <2>2, <2>3, <2>4 DEF Pooled
  <2>6. /\ n \in Owned(t)
        /\ \A u \in Threads : Owned(u)' = IF u = t THEN Owned(u) \ {n} ELSE Owned(u)
    BY <1>1, <2>1, <2>2 DEF ReturnCas, ReturnSwap, Goto, TypeOK, Owned
  <2>7. Abstract!Return(t, n)
    BY <2>5, <2>6 DEF Abstract!Return
  <2> QED
    BY <2>1, <2>7 DEF AbstractStep, Abstract!Next
<1>2. CASE head # prev[t]
  <2>1. /\ allocated' = allocated
        /\ \A u \in Threads : Uses(u)' = Uses(u) /\ Owned(u)' = Owned(u)
    BY <1>2 DEF ReturnCas, ReturnSwap, Goto, poolVars, TypeOK, Uses, InCall, Owned
  <2> QED
    BY <2>1, SameUses, Stutter
<1> QED
  BY <1>1, <1>2

\* Every turn of the loop of pool_mem_free_all is Free.
LEMMA FreeNodeRefines == ASSUME PoolInv, FreeNode PROVE AbstractStep
<1>1. head \in Pooled /\ allocated' = allocated \ {head}
  BY DEF FreeNode, PoolInv, ListShape
<1>2. \A u \in Threads : Uses(u)' = Uses(u) /\ Owned(u)' = Owned(u)
  BY DEF FreeNode, Uses, InCall, Owned
<1>3. Pooled' = Pooled \ {head}
  BY <1>1, <1>2 DEF Pooled
<1>4. head \in Node
  BY <1>1 DEF Pooled, PoolInv, TypeOK
<1>5. Abstract!Free(head)
  BY <1>1, <1>2, <1>3 DEF Abstract!Free
<1> QED
  BY <1>4, <1>5 DEF AbstractStep, Abstract!Next

LEMMA StepRefines == PoolInv /\ [Next]_vars => AbstractStep
<1> SUFFICES ASSUME PoolInv, [Next]_vars PROVE AbstractStep
  OBVIOUS
<1>1. CASE UNCHANGED <<allocated, pc, node, held>>
  <2>1. \A u \in Threads : Uses(u)' = Uses(u) /\ Owned(u)' = Owned(u)
    BY <1>1 DEF Uses, InCall, Owned
  <2> QED
    BY <1>1, <2>1, SameUses, Stutter
<1>2. ASSUME NEW t \in Threads, AcquireLoad(t) \/ CallStep(t) PROVE AbstractStep
  BY <1>2, QuietRefines, AllocRefines, AllocDataRefines, AllocDataFailRefines,
     AcquireCasRefines, ReturnCasRefines
  DEF CallStep
<1>3. ASSUME NEW t \in Threads, NEW u \in Threads, NEW n \in held[u], ReturnBegin(t, u, n)
      PROVE  AbstractStep
  BY <1>3, ReturnBeginRefines
<1>4. CASE FreeNode
  BY <1>4, FreeNodeRefines
<1>5. CASE FreeEnd \/ \E p \in {"freeAll", "freePool"} : FreeBegin(p)
  BY <1>1, <1>5 DEF FreeEnd, FreeBegin
<1>6. CASE UNCHANGED vars
  BY <1>1, <1>6 DEF vars
<1> QED
  BY <1>2, <1>3, <1>4, <1>5, <1>6 DEF Next

(***************************************************************************)
(* With one acquiring thread and any number of returning ones, a MemPool   *)
(* implements the atomic block pool that the multi pool is built on.       *)
(***************************************************************************)
THEOREM Refinement ==
  ASSUME SingleAcquirer
  PROVE  Spec => ImplementsBlockPool
<1>1. Init => Abstract!Init
  <2> SUFFICES ASSUME Init PROVE Abstract!Init
    OBVIOUS
  <2>1. Pooled = {} /\ \A t \in Threads : Owned(t) = {}
    BY DEF Init, Pooled, Owned, Uses, InCall
  <2> QED
    BY <2>1 DEF Abstract!Init
<1> QED
  BY <1>1, Invariance, StepRefines, PTL
  DEF Spec, ImplementsBlockPool, Abstract!Spec, AbstractStep

-----------------------------------------------------------------------------
\* What a step can do to the free list: nothing, a pop or a push.
ListQuiet ==
  head' = head /\ Pooled' = Pooled /\ \A n \in Pooled : next'[n] = next[n]

ListPop ==
  /\ head \in Pooled /\ head # Null
  /\ head' = next[head] /\ next' = next /\ Pooled' = Pooled \ {head}

ListPush(n) ==
  /\ n \in Node \ Pooled
  /\ head' = n /\ next' = next /\ next[n] = head /\ Pooled' = Pooled \cup {n}

LEMMA QuietEffect ==
  ASSUME PoolInv, NEW t \in Threads,
         \/ AcquireLoad(t) \/ AllocFail(t) \/ AllocData(t) \/ AllocTrack(t) \/ AcquireNext(t)
         \/ AcquireTrack(t) \/ ReturnLoad(t) \/ ReturnTrack(t)
  PROVE  ListQuiet
<1>1. \A u \in Threads : Uses(u)' = Uses(u)
  BY DEF AcquireLoad, AllocFail, AllocData, AllocTrack, AcquireNext, AcquireTrack, AcquireEnd,
         ReturnLoad,
         ReturnTrack, Goto, poolVars, PoolInv, TypeOK, Uses, InCall
<1>2. head' = head /\ next' = next /\ allocated' = allocated
  BY DEF AcquireLoad, AllocFail, AllocData, AllocTrack, AcquireNext, AcquireTrack, AcquireEnd,
         ReturnLoad,
         ReturnTrack, poolVars
<1> QED
  BY <1>1, <1>2, SameUses DEF ListQuiet

LEMMA AllocEffect == ASSUME PoolInv, NEW t \in Threads, Alloc(t) PROVE ListQuiet
<1> USE DEF PoolInv
<1> PICK n \in Node \ allocated :
      /\ allocated' = allocated \cup {n}
      /\ next' = [next EXCEPT ![n] = Null]
      /\ node' = [node EXCEPT ![t] = n]
  BY DEF Alloc
<1>1. \A u \in Threads : Uses(u)' = IF u = t THEN Uses(u) \cup {n} ELSE Uses(u)
  BY DEF Alloc, Goto, TypeOK, Uses, InCall
<1>2. \A u \in Threads : n \notin Uses(u)
  BY DEF ExclusiveBlock
<1>3. Pooled' = Pooled
  BY <1>1, <1>2 DEF Pooled
<1>4. \A m \in Pooled : next'[m] = next[m]
  BY DEF Pooled, TypeOK
<1> QED
  BY <1>3, <1>4 DEF Alloc, ListQuiet

LEMMA AllocDataFailEffect ==
  ASSUME PoolInv, NEW t \in Threads, AllocDataFail(t) PROVE ListQuiet
  BY DataFailEffect DEF ListQuiet

LEMMA ReturnBeginEffect ==
  ASSUME PoolInv, NEW t \in Threads, NEW u \in Threads, NEW n \in held[u],
         ReturnBegin(t, u, n)
  PROVE  ListQuiet
<1> USE DEF PoolInv
<1>1. /\ pc[t] = "idle" /\ pc' = [pc EXCEPT ![t] = "retLoad"]
      /\ held' = [held EXCEPT ![u] = @ \ {n}]
      /\ node' = [node EXCEPT ![t] = n]
      /\ allocated' = allocated /\ head' = head /\ next' = next
  BY DEF ReturnBegin, Goto, poolVars
<1>2. n \in Uses(u) /\ n \in Uses(t)'
  BY <1>1 DEF Uses, InCall, TypeOK
<1>3. \A m : m # n => \A v \in Threads : m \in Uses(v)' <=> m \in Uses(v)
  BY <1>1 DEF Uses, InCall, TypeOK
<1>4. Pooled' = Pooled
  BY <1>1, <1>2, <1>3 DEF Pooled
<1> QED
  BY <1>1, <1>4 DEF ListQuiet

LEMMA ReturnStoreEffect ==
  ASSUME PoolInv, NEW t \in Threads, ReturnStore(t) PROVE ListQuiet
<1> USE DEF PoolInv
<1>1. /\ pc[t] = "retStore" /\ next' = [next EXCEPT ![node[t]] = prev[t]]
      /\ head' = head /\ allocated' = allocated
      /\ \A u \in Threads : Uses(u)' = Uses(u)
  BY DEF ReturnStore, ReturnLink, Goto, poolVars, Uses, InCall, TypeOK
<1>2. node[t] \in Uses(t)
  BY <1>1 DEF Uses, InCall
<1>3. \A m \in Pooled : next'[m] = next[m]
  BY <1>1, <1>2 DEF Pooled, TypeOK
<1> QED
  BY <1>1, <1>3, SameUses DEF ListQuiet

\* A compare-and-swap that fails changes nothing but the label.
LEMMA CasFailEffect ==
  ASSUME PoolInv, NEW t \in Threads, AcquireCas(t) \/ ReturnCas(t), head # prev[t]
  PROVE  ListQuiet
<1>1. \A u \in Threads : Uses(u)' = Uses(u)
  BY DEF AcquireCas, AcquireSwap, ReturnCas, ReturnSwap, Goto, PoolInv, TypeOK, Uses, InCall
<1>2. head' = head /\ next' = next /\ allocated' = allocated
  BY DEF AcquireCas, AcquireSwap, ReturnCas, ReturnSwap, poolVars
<1> QED
  BY <1>1, <1>2, SameUses DEF ListQuiet

LEMMA PopEffect ==
  ASSUME PoolInv, NEW t \in Threads, AcquireCas(t), head = prev[t] PROVE ListPop
<1> USE DEF PoolInv
<1>1. pc[t] = "acqCas" /\ head' = newHead[t] /\ next' = next /\ allocated' = allocated
  BY DEF AcquireCas, AcquireSwap, Goto, poolVars
<1>2. head \in Pooled /\ head # Null /\ head' = next[head]
  BY <1>1, NullAssumption DEF LoadedInv, Pooled, TypeOK
<1>3. \A u \in Threads : Uses(u)' = IF u = t THEN Uses(u) \cup {head} ELSE Uses(u)
  BY DEF AcquireCas, AcquireSwap, Goto, poolVars, TypeOK, Uses, InCall
<1>4. Pooled' = Pooled \ {head}
  BY <1>1, <1>3 DEF Pooled
<1> QED
  BY <1>1, <1>2, <1>4 DEF ListPop

LEMMA PushEffect ==
  ASSUME PoolInv, NEW t \in Threads, ReturnCas(t), head = prev[t] PROVE ListPush(node[t])
<1> USE DEF PoolInv
<1> DEFINE n == node[t]
<1>1. pc[t] = "retCas" /\ head' = n /\ next' = next /\ allocated' = allocated
  BY DEF ReturnCas, ReturnSwap, Goto, poolVars
<1>2. n \in Node /\ n \in Uses(t) /\ n \notin held[t] /\ n \in allocated /\ next[n] = head
  BY <1>1 DEF LocalInv, LoadedInv, ExclusiveBlock, Uses, InCall
<1>3. \A u \in Threads : Uses(u)' = IF u = t THEN Uses(u) \ {n} ELSE Uses(u)
  BY <1>2 DEF ReturnCas, ReturnSwap, Goto, poolVars, TypeOK, Uses, InCall
<1>4. \A u \in Threads : u # t => n \notin Uses(u)
  BY <1>2 DEF ExclusiveBlock
<1>5. Pooled' = Pooled \cup {n} /\ n \notin Pooled
  BY <1>1, <1>2, <1>3, <1>4 DEF Pooled
<1> QED
  BY <1>1, <1>2, <1>5 DEF ListPush

LEMMA FreeNodeEffect == ASSUME PoolInv, FreeNode PROVE ListPop
<1>1. /\ head \in Pooled /\ head # Null /\ allocated' = allocated \ {head}
      /\ head' = next[head] /\ next' = next
  BY DEF FreeNode, PoolInv, ListShape
<1>2. \A u \in Threads : Uses(u)' = Uses(u)
  BY DEF FreeNode, Uses, InCall
<1>3. Pooled' = Pooled \ {head}
  BY <1>1, <1>2 DEF Pooled
<1> QED
  BY <1>1, <1>3 DEF ListPop

LEMMA IdleEffect ==
  ASSUME UNCHANGED <<head, next, allocated, pc, node, held>> PROVE ListQuiet
<1>1. \A u \in Threads : Uses(u)' = Uses(u)
  BY DEF Uses, InCall
<1> QED
  BY <1>1, SameUses DEF ListQuiet

LEMMA ListEffect ==
  PoolInv /\ [Next]_vars => ListQuiet \/ ListPop \/ \E n \in Node : ListPush(n)
<1> SUFFICES ASSUME PoolInv, [Next]_vars
             PROVE  ListQuiet \/ ListPop \/ \E n \in Node : ListPush(n)
  OBVIOUS
<1>1. ASSUME NEW t \in Threads, AcquireCas(t)
      PROVE  ListQuiet \/ ListPop
  BY <1>1, PopEffect, CasFailEffect
<1>2. ASSUME NEW t \in Threads, ReturnCas(t)
      PROVE  ListQuiet \/ (ListPush(node[t]) /\ node[t] \in Node)
  BY <1>2, PushEffect, CasFailEffect DEF ListPush
<1>3. ASSUME NEW t \in Threads, AcquireLoad(t) \/ CallStep(t)
      PROVE  ListQuiet \/ ListPop \/ \E n \in Node : ListPush(n)
  BY <1>1, <1>2, <1>3, QuietEffect, AllocEffect, AllocDataFailEffect, ReturnStoreEffect
  DEF CallStep
<1>4. CASE FreeEnd \/ (\E p \in {"freeAll", "freePool"} : FreeBegin(p)) \/ UNCHANGED vars
  BY <1>4, IdleEffect DEF FreeEnd, FreeBegin, vars
<1> QED
  BY <1>3, <1>4, ReturnBeginEffect, FreeNodeEffect DEF Next

-----------------------------------------------------------------------------
\* Every set closed under the links has all pooled nodes, and their list ends.
ReachInv ==
  /\ \A S \in SUBSET Node : LinkClosed(S) => Pooled \subseteq S
  /\ Pooled # {} => \E n \in Pooled : next[n] = Null

LEMMA ReachStep == PoolInv /\ PoolInv' /\ ReachInv /\ [Next]_vars => ReachInv'
<1> SUFFICES ASSUME PoolInv, PoolInv', ReachInv, [Next]_vars PROVE ReachInv'
  OBVIOUS
<1>0. Pooled \subseteq Node /\ Null \notin Node
  BY NullAssumption DEF Pooled, PoolInv, TypeOK
<1>1. CASE ListQuiet
  <2>1. ASSUME NEW S \in SUBSET Node, LinkClosed(S)' PROVE Pooled \subseteq S
    <3>1. LinkClosed(S \cap Pooled)
      BY <1>1, <2>1 DEF LinkClosed, ListQuiet, PoolInv, ListShape
    <3> QED
      BY <1>0, <3>1 DEF ReachInv
  <2> QED
    BY <1>1, <2>1 DEF ReachInv, ListQuiet
<1>2. CASE ListPop
  <2>1. ASSUME NEW S \in SUBSET Node, LinkClosed(S)' PROVE Pooled' \subseteq S
    <3>1. LinkClosed(S \cup {head}) /\ S \cup {head} \in SUBSET Node
      BY <1>0, <1>2, <2>1 DEF LinkClosed, ListPop
    <3> QED
      BY <1>2, <3>1 DEF ReachInv, ListPop
  <2>2. ASSUME Pooled' # {} PROVE \E n \in Pooled' : next'[n] = Null
    <3>1. PICK n \in Pooled : next[n] = Null
      BY <1>2 DEF ReachInv, ListPop
    <3>2. ASSUME n = head PROVE FALSE
      <4>1. LinkClosed({})'
        BY <1>2, <3>1, <3>2 DEF LinkClosed, ListPop
      <4> QED
        BY <2>1, <2>2, <4>1
    <3> QED
      BY <1>2, <3>1, <3>2 DEF ListPop
  <2> QED
    BY <2>1, <2>2 DEF ReachInv
<1>3. ASSUME NEW m \in Node, ListPush(m) PROVE ReachInv'
  <2>1. ASSUME NEW S \in SUBSET Node, LinkClosed(S)' PROVE Pooled' \subseteq S
    <3>1. m \in S /\ LinkClosed(S)
      BY <1>0, <1>3, <2>1 DEF LinkClosed, ListPush
    <3> QED
      BY <1>3, <3>1 DEF ReachInv, ListPush
  <2>2. \E n \in Pooled' : next'[n] = Null
    <3>1. CASE head = Null
      BY <1>3, <3>1 DEF ListPush
    <3>2. CASE head # Null
      <4>1. Pooled # {}
        BY <3>2 DEF PoolInv, ListShape
      <4> QED
        BY <1>3, <4>1 DEF ReachInv, ListPush
    <3> QED
      BY <3>1, <3>2
  <2> QED
    BY <2>1, <2>2 DEF ReachInv
<1> QED
  BY <1>1, <1>2, <1>3, ListEffect

LEMMA ReachInvariance == ASSUME SingleAcquirer PROVE Spec => []ReachInv
<1>1. Init => ReachInv
  BY DEF Init, ReachInv, Pooled
<1> QED
  BY <1>1, ReachStep, Invariance, PTL DEF Spec

(***************************************************************************)
(* For any number of nodes, threads that return blocks and one that        *)
(* acquires them: the links from the head reach exactly the allocated      *)
(* blocks that nobody uses, and come to an end.                            *)
(***************************************************************************)
THEOREM FreeListKept ==
  ASSUME SingleAcquirer
  PROVE  Spec => []FreeListComplete
<1>1. PoolInv /\ ReachInv => FreeListComplete
  <2> SUFFICES ASSUME PoolInv, ReachInv PROVE FreeListComplete
    OBVIOUS
  <2>1. Pooled \in SUBSET Node
    BY DEF Pooled, PoolInv, TypeOK
  <2>2. LinkClosed(Pooled)
    BY DEF LinkClosed, PoolInv, ListShape
  <2>3. Linked \subseteq Pooled
    BY <2>1, <2>2 DEF Linked
  <2>4. Pooled \subseteq Linked
    BY <2>1 DEF Linked, ReachInv
  <2>5. Linked = Pooled
    BY <2>3, <2>4
  <2>6. head # Null => Pooled # {}
    BY DEF PoolInv, ListShape
  <2> QED
    BY <2>5, <2>6 DEF FreeListComplete, ReachInv
<1> QED
  BY <1>1, Invariance, ReachInvariance, PTL

-----------------------------------------------------------------------------
\* The free list's length, corrected by the calls that have still to count.
Balance ==
  Cardinality(Pooled) + Cardinality(At("acqTrack")) - Cardinality(At("retTrack"))

LedgerInv == IsFiniteSet(allocated) /\ AvailableLedger

\* Only finitely many nodes are allocated: each step adds at most one.
LEMMA AllocatedFinite == IsFiniteSet(allocated) /\ [Next]_vars => IsFiniteSet(allocated')
<1> SUFFICES ASSUME IsFiniteSet(allocated), [Next]_vars PROVE IsFiniteSet(allocated')
  OBVIOUS
<1>1. ASSUME NEW t \in Threads, Alloc(t) PROVE IsFiniteSet(allocated')
  <2>1. PICK n : allocated' = allocated \cup {n}
    BY <1>1 DEF Alloc
  <2> QED
    BY <2>1, FS_AddElement
<1>2. CASE FreeNode
  BY <1>2, FS_RemoveElement DEF FreeNode
<1>3. CASE allocated' = allocated
  BY <1>3
<1>4. ASSUME NEW t \in Threads, AcquireLoad(t) \/ CallStep(t), ~ Alloc(t)
      PROVE  allocated' = allocated \/ allocated' = allocated \ {node[t]}
  BY <1>4
  DEF CallStep, AcquireLoad, AllocFail, AllocData, AllocDataFail, AllocDataNone, AllocTrack,
      AcquireNext, AcquireCas, AcquireSwap, AcquireTrack, AcquireEnd, ReturnLoad, ReturnStore,
      ReturnLink, ReturnCas, ReturnSwap, ReturnTrack, poolVars
<1>5. ASSUME NEW t \in Threads, NEW u \in Threads, NEW n \in held[u], ReturnBegin(t, u, n)
      PROVE  allocated' = allocated
  BY <1>5 DEF ReturnBegin, poolVars
<1>6. CASE FreeEnd \/ (\E p \in {"freeAll", "freePool"} : FreeBegin(p)) \/ UNCHANGED vars
  BY <1>3, <1>6 DEF FreeEnd, FreeBegin, vars
<1>7. ASSUME NEW t \in Threads, AcquireLoad(t) \/ CallStep(t) PROVE IsFiniteSet(allocated')
  BY <1>1, <1>3, <1>4, <1>7, FS_RemoveElement
<1> QED
  BY <1>2, <1>3, <1>5, <1>6, <1>7 DEF Next

LEMMA PooledFinite ==
  ASSUME IsFiniteSet(allocated) PROVE IsFiniteSet(Pooled) /\ Cardinality(Pooled) \in Nat
<1>1. IsFiniteSet(Pooled)
  BY FS_Subset DEF Pooled
<1> QED
  BY <1>1, FS_CardinalityType

LEMMA AtFinite == ASSUME NEW l PROVE IsFiniteSet(At(l)) /\ Cardinality(At(l)) \in Nat
<1>1. IsFiniteSet(At(l))
  BY ThreadsAssumption, FS_Subset DEF At
<1> QED
  BY <1>1, FS_CardinalityType

\* What a thread's move to a label does to the number of threads at a label.
LEMMA AtStay ==
  ASSUME pc \in [Threads -> Labels], NEW t \in Threads, NEW k, NEW l,
         pc' = [pc EXCEPT ![t] = k], k # l, pc[t] # l
  PROVE  Cardinality(At(l)') = Cardinality(At(l))
<1>1. At(l)' = At(l)
  BY DEF At
<1> QED
  BY <1>1, Zenon

LEMMA AtEnter ==
  ASSUME pc \in [Threads -> Labels], NEW t \in Threads, NEW l,
         pc' = [pc EXCEPT ![t] = l], pc[t] # l
  PROVE  Cardinality(At(l)') = Cardinality(At(l)) + 1
<1>1. At(l)' = At(l) \cup {t} /\ t \notin At(l)
  BY DEF At
<1> QED
  BY <1>1, AtFinite, FS_AddElement

LEMMA AtLeave ==
  ASSUME pc \in [Threads -> Labels], NEW t \in Threads, NEW k, NEW l,
         pc' = [pc EXCEPT ![t] = k], k # l, pc[t] = l
  PROVE  Cardinality(At(l)') = Cardinality(At(l)) - 1
<1>1. At(l)' = At(l) \ {t} /\ t \in At(l)
  BY DEF At
<1> QED
  BY <1>1, AtFinite, FS_RemoveElement

\* The three ways a step changes the balance and the counter.
LEMMA BalanceType == ASSUME IsFiniteSet(allocated) PROVE Balance \in Int
  BY AtFinite, PooledFinite DEF Balance

LEMMA LedgerMoves ==
  ASSUME PoolInv, LedgerInv, IsFiniteSet(allocated'), NEW d \in Int,
         Balance' = Balance + d,
         num_available' = IF d = 0 THEN num_available ELSE Wrap(num_available + d)
  PROVE  LedgerInv'
<1>1. num_available = Wrap(Balance) /\ Balance \in Int
  BY BalanceType DEF LedgerInv, AvailableLedger, Balance
<1>2. CASE d = 0
  BY <1>1, <1>2 DEF LedgerInv, AvailableLedger, Balance
<1>3. CASE d # 0
  <2>1. num_available' = Wrap(Balance + d)
    BY <1>1, <1>3, WrapSum
  <2> QED
    BY <2>1 DEF LedgerInv, AvailableLedger, Balance, Wrap
<1> QED
  BY <1>2, <1>3

\* A step that leaves the list and the two counting labels alone.
LEMMA LedgerQuiet ==
  ASSUME PoolInv, LedgerInv, IsFiniteSet(allocated'), NEW t \in Threads, NEW k, ListQuiet,
         pc' = [pc EXCEPT ![t] = k], num_available' = num_available,
         {k, pc[t]} \cap {"acqTrack", "retTrack"} = {}
  PROVE  LedgerInv'
<1>1. /\ Cardinality(At("acqTrack")') = Cardinality(At("acqTrack"))
      /\ Cardinality(At("retTrack")') = Cardinality(At("retTrack"))
  BY AtStay DEF PoolInv, TypeOK
<1>2. Cardinality(Pooled') = Cardinality(Pooled)
  BY DEF ListQuiet
<1>3. Balance' = Balance + 0
  BY <1>1, <1>2, BalanceType DEF Balance, LedgerInv
<1> QED
  BY <1>3, LedgerMoves

\* A pop or a push and the label that announces it cancel out.
LEMMA LedgerPop ==
  ASSUME PoolInv, LedgerInv, IsFiniteSet(allocated'), NEW t \in Threads, AcquireCas(t),
         head = prev[t]
  PROVE  LedgerInv'
<1>1. /\ pc[t] = "acqCas" /\ pc' = [pc EXCEPT ![t] = "acqTrack"]
      /\ num_available' = num_available
  BY DEF AcquireCas, AcquireSwap, Goto
<1>2. Cardinality(At("acqTrack")') = Cardinality(At("acqTrack")) + 1
  BY <1>1, AtEnter DEF PoolInv, TypeOK
<1>3. Cardinality(At("retTrack")') = Cardinality(At("retTrack"))
  BY <1>1, AtStay DEF PoolInv, TypeOK
<1>4. Cardinality(Pooled') = Cardinality(Pooled) - 1
  BY PopEffect, PooledFinite, FS_RemoveElement DEF ListPop, LedgerInv
<1>5. Balance' = Balance + 0
  BY <1>2, <1>3, <1>4, AtFinite, PooledFinite DEF Balance, LedgerInv
<1> QED
  BY <1>1, <1>5, LedgerMoves

LEMMA LedgerPush ==
  ASSUME PoolInv, LedgerInv, IsFiniteSet(allocated'), NEW t \in Threads, ReturnCas(t),
         head = prev[t]
  PROVE  LedgerInv'
<1>1. /\ pc[t] = "retCas" /\ pc' = [pc EXCEPT ![t] = "retTrack"]
      /\ num_available' = num_available
  BY DEF ReturnCas, ReturnSwap, Goto
<1>2. Cardinality(At("acqTrack")') = Cardinality(At("acqTrack"))
  BY <1>1, AtStay DEF PoolInv, TypeOK
<1>3. Cardinality(At("retTrack")') = Cardinality(At("retTrack")) + 1
  BY <1>1, AtEnter DEF PoolInv, TypeOK
<1>4. Cardinality(Pooled') = Cardinality(Pooled) + 1
  BY PushEffect, PooledFinite, FS_AddElement DEF ListPush, LedgerInv
<1>5. Balance' = Balance + 0
  BY <1>2, <1>3, <1>4, AtFinite, PooledFinite DEF Balance, LedgerInv
<1> QED
  BY <1>1, <1>5, LedgerMoves

\* The steps that count: the label goes and the counter moves with it.
LEMMA LedgerAcquireTrack ==
  ASSUME PoolInv, LedgerInv, IsFiniteSet(allocated'), NEW t \in Threads, AcquireTrack(t)
  PROVE  LedgerInv'
<1>1. /\ pc[t] = "acqTrack" /\ pc' = [pc EXCEPT ![t] = "idle"]
      /\ num_available' = Wrap(num_available - 1)
  BY DEF AcquireTrack, AcquireEnd, Goto
<1>2. Cardinality(At("acqTrack")') = Cardinality(At("acqTrack")) - 1
  BY <1>1, AtLeave DEF PoolInv, TypeOK
<1>3. Cardinality(At("retTrack")') = Cardinality(At("retTrack"))
  BY <1>1, AtStay DEF PoolInv, TypeOK
<1>4. Cardinality(Pooled') = Cardinality(Pooled)
  BY QuietEffect DEF ListQuiet
<1>5. Balance' = Balance + (-1)
  BY <1>2, <1>3, <1>4, AtFinite, PooledFinite DEF Balance, LedgerInv
<1>6. num_available - 1 = num_available + (-1)
  BY DEF PoolInv, TypeOK
<1> QED
  BY <1>1, <1>5, <1>6, LedgerMoves

LEMMA LedgerReturnTrack ==
  ASSUME PoolInv, LedgerInv, IsFiniteSet(allocated'), NEW t \in Threads, ReturnTrack(t)
  PROVE  LedgerInv'
<1>1. /\ pc[t] = "retTrack" /\ pc' = [pc EXCEPT ![t] = "idle"]
      /\ num_available' = Wrap(num_available + 1)
  BY DEF ReturnTrack, Goto
<1>2. Cardinality(At("acqTrack")') = Cardinality(At("acqTrack"))
  BY <1>1, AtStay DEF PoolInv, TypeOK
<1>3. Cardinality(At("retTrack")') = Cardinality(At("retTrack")) - 1
  BY <1>1, AtLeave DEF PoolInv, TypeOK
<1>4. Cardinality(Pooled') = Cardinality(Pooled)
  BY QuietEffect DEF ListQuiet
<1>5. Balance' = Balance + 1
  BY <1>2, <1>3, <1>4, AtFinite, PooledFinite DEF Balance, LedgerInv
<1> QED
  BY <1>1, <1>5, LedgerMoves

\* The loop of pool_mem_free_all counts each node it frees.
LEMMA LedgerFreeNode ==
  ASSUME PoolInv, LedgerInv, IsFiniteSet(allocated'), FreeNode PROVE LedgerInv'
<1>1. pc' = pc /\ num_available' = Wrap(num_available - 1)
  BY DEF FreeNode
<1>2. \A l \in Labels : Cardinality(At(l)') = Cardinality(At(l))
  BY <1>1 DEF At
<1>3. Cardinality(Pooled') = Cardinality(Pooled) - 1
  BY FreeNodeEffect, PooledFinite, FS_RemoveElement DEF ListPop, LedgerInv
<1>4. Balance' = Balance + (-1)
  BY <1>2, <1>3, AtFinite, PooledFinite DEF Balance, LedgerInv, Labels
<1>5. num_available - 1 = num_available + (-1)
  BY DEF PoolInv, TypeOK
<1> QED
  BY <1>1, <1>4, <1>5, LedgerMoves

LEMMA LedgerStep == PoolInv /\ LedgerInv /\ [Next]_vars => LedgerInv'
<1> SUFFICES ASSUME PoolInv, LedgerInv, [Next]_vars PROVE LedgerInv'
  OBVIOUS
<1>0. IsFiniteSet(allocated')
  BY AllocatedFinite DEF LedgerInv
<1>1. ASSUME NEW t \in Threads, AcquireLoad(t) \/ CallStep(t) PROVE LedgerInv'
  <2>1. CASE AcquireLoad(t)
    <3>1. \E k \in {"alloc", "acqNext"} : pc' = [pc EXCEPT ![t] = k]
      BY <2>1 DEF AcquireLoad, Goto
    <3>2. pc[t] \in {"acquire", "idle"} /\ num_available' = num_available
      BY <2>1 DEF AcquireLoad
    <3> QED
      BY <1>0, <2>1, <3>1, <3>2, QuietEffect, LedgerQuiet
  <2>2. CASE Alloc(t)
    BY <1>0, <2>2, AllocEffect, LedgerQuiet DEF Alloc, Goto
  <2>3. CASE AllocFail(t)
    BY <1>0, <2>3, QuietEffect, LedgerQuiet DEF AllocFail, Goto
  <2>4. CASE AllocData(t) \/ AllocTrack(t)
    BY <1>0, <2>4, QuietEffect, LedgerQuiet DEF AllocData, AllocTrack, Goto
  <2>14. CASE AllocDataFail(t)
    BY <1>0, <2>14, AllocDataFailEffect, LedgerQuiet DEF AllocDataFail, AllocDataNone, Goto
  <2>5. CASE AcquireNext(t)
    BY <1>0, <2>5, QuietEffect, LedgerQuiet DEF AcquireNext, Goto
  <2>6. CASE AcquireCas(t) /\ head # prev[t]
    BY <1>0, <2>6, CasFailEffect, LedgerQuiet DEF AcquireCas, AcquireSwap, Goto
  <2>7. CASE AcquireCas(t) /\ head = prev[t]
    BY <1>0, <2>7, LedgerPop
  <2>8. CASE AcquireTrack(t)
    BY <1>0, <2>8, LedgerAcquireTrack
  <2>9. CASE ReturnLoad(t)
    BY <1>0, <2>9, QuietEffect, LedgerQuiet DEF ReturnLoad, Goto
  <2>10. CASE ReturnStore(t)
    BY <1>0, <2>10, ReturnStoreEffect, LedgerQuiet DEF ReturnStore, ReturnLink, Goto
  <2>11. CASE ReturnCas(t) /\ head # prev[t]
    BY <1>0, <2>11, CasFailEffect, LedgerQuiet DEF ReturnCas, ReturnSwap, Goto
  <2>12. CASE ReturnCas(t) /\ head = prev[t]
    BY <1>0, <2>12, LedgerPush
  <2>13. CASE ReturnTrack(t)
    BY <1>0, <2>13, LedgerReturnTrack
  <2> QED
    BY <1>1, <2>1, <2>2, <2>3, <2>4, <2>5, <2>6, <2>7, <2>8, <2>9, <2>10, <2>11, <2>12, <2>13, <2>14
    DEF CallStep
<1>2. ASSUME NEW t \in Threads, NEW u \in Threads, NEW n \in held[u], ReturnBegin(t, u, n)
      PROVE  LedgerInv'
  BY <1>0, <1>2, ReturnBeginEffect, LedgerQuiet DEF ReturnBegin, Goto
<1>3. CASE FreeNode
  BY <1>0, <1>3, LedgerFreeNode
<1>4. CASE FreeEnd \/ (\E p \in {"freeAll", "freePool"} : FreeBegin(p)) \/ UNCHANGED vars
  <2>1. UNCHANGED <<head, next, allocated, num_available, pc, node, held>>
    BY <1>4 DEF FreeEnd, FreeBegin, vars
  <2>2. Pooled' = Pooled
    BY <2>1, IdleEffect DEF ListQuiet
  <2> QED
    BY <1>0, <2>1, <2>2 DEF LedgerInv, AvailableLedger, At
<1> QED
  BY <1>1, <1>2, <1>3, <1>4 DEF Next

LEMMA LedgerInvariance == ASSUME SingleAcquirer PROVE Spec => []LedgerInv
<1>1. Init => LedgerInv
  <2> SUFFICES ASSUME Init PROVE LedgerInv
    OBVIOUS
  <2>1. Pooled = {} /\ At("acqTrack") = {} /\ At("retTrack") = {} /\ allocated = {}
    BY DEF Init, Pooled, At
  <2>2. Wrap(0) = 0
    BY ModulusAssumption DEF Wrap
  <2>3. num_available = 0
    BY DEF Init
  <2> QED
    BY <2>1, <2>2, <2>3, FS_EmptySet DEF LedgerInv, AvailableLedger
<1> QED
  BY <1>1, LedgerStep, Invariance, PTL DEF Spec

(***************************************************************************)
(* For any number of nodes, threads that return blocks and one that        *)
(* acquires them: num_available is the length of the free list, up to the  *)
(* calls that have moved a node and not yet counted it, modulo 2^32.       *)
(***************************************************************************)
THEOREM AvailableCounted ==
  ASSUME SingleAcquirer
  PROVE  Spec => []AvailableLedger
<1>1. LedgerInv => AvailableLedger
  BY DEF LedgerInv
<1> QED
  BY <1>1, LedgerInvariance, PTL

-----------------------------------------------------------------------------
\* free_mem_pool ends its loop with an empty list, and nothing happens afterwards.
GoneInv == phase = "gone" => head = Null

LEMMA GoneStep == PoolInv /\ GoneInv /\ [Next]_vars => GoneInv'
<1> SUFFICES ASSUME PoolInv, GoneInv, [Next]_vars PROVE GoneInv'
  OBVIOUS
<1>1. CASE phase = "gone"
  <2>1. \A t \in Threads : pc[t] = "idle"
    BY <1>1 DEF PoolInv, PhaseInv
  <2>2. head' = head
    BY <1>1, <2>1
    DEF Next, vars, CallStep, AcquireLoad, Alloc, AllocFail, AllocData, AllocDataFail,
        AllocDataNone, AllocTrack, AcquireNext, AcquireCas,
        AcquireSwap, AcquireTrack, AcquireEnd, ReturnBegin, ReturnLoad, ReturnStore, ReturnLink,
        ReturnCas, ReturnSwap, ReturnTrack, FreeBegin, FreeNode, FreeEnd
  <2> QED
    BY <1>1, <2>2 DEF GoneInv
<1>2. CASE phase # "gone"
  <2>1. CASE FreeEnd
    BY <2>1 DEF FreeEnd, GoneInv
  <2>2. ASSUME NEW p \in {"freeAll", "freePool"}, FreeBegin(p) PROVE GoneInv'
    BY <2>2 DEF FreeBegin, GoneInv
  <2>3. ASSUME NEW t \in Threads, AcquireLoad(t) \/ CallStep(t) PROVE phase' = phase
    BY <2>3
    DEF CallStep, AcquireLoad, Alloc, AllocFail, AllocData, AllocDataFail,
        AllocDataNone, AllocTrack, AcquireNext, AcquireCas, AcquireSwap,
        AcquireTrack, AcquireEnd, ReturnLoad, ReturnStore, ReturnLink, ReturnCas, ReturnSwap,
        ReturnTrack, poolVars
  <2>4. ASSUME NEW t \in Threads, NEW u \in Threads, NEW n \in held[u], ReturnBegin(t, u, n)
        PROVE  phase' = phase
    BY <2>4 DEF ReturnBegin, poolVars
  <2>5. CASE FreeNode \/ UNCHANGED vars
    BY <1>2, <2>5 DEF FreeNode, vars, GoneInv
  <2> QED
    BY <1>2, <2>1, <2>2, <2>3, <2>4, <2>5 DEF Next, GoneInv
<1> QED
  BY <1>1, <1>2

\* An empty head means that the pool has no block.
LEMMA EmptyHead == ASSUME ReachInv, head = Null PROVE Pooled = {}
<1>1. LinkClosed({})
  BY DEF LinkClosed
<1> QED
  BY <1>1 DEF ReachInv

(***************************************************************************)
(* With one acquiring thread: once free_mem_pool has returned, the only    *)
(* blocks left are those that callers never returned, and num_available is *)
(* zero.                                                                   *)
(***************************************************************************)
THEOREM FreedPoolEmpty ==
  ASSUME SingleAcquirer
  PROVE  Spec => []FreedPoolIsEmpty
<1>1. Init => GoneInv
  BY DEF Init, GoneInv
<1>2. PoolInv /\ ReachInv /\ LedgerInv /\ GoneInv => FreedPoolIsEmpty
  <2> SUFFICES ASSUME PoolInv, ReachInv, LedgerInv, GoneInv, phase = "gone"
               PROVE  num_available = 0 /\ allocated = UNION {held[t] : t \in Threads}
    BY DEF FreedPoolIsEmpty
  <2>1. \A t \in Threads : pc[t] = "idle"
    BY DEF PoolInv, PhaseInv
  <2>2. Pooled = {} /\ At("acqTrack") = {} /\ At("retTrack") = {}
    BY <2>1, EmptyHead DEF GoneInv, At
  <2>3. Cardinality(Pooled) = 0 /\ Cardinality(At("acqTrack")) = 0 /\ Cardinality(At("retTrack")) = 0
    BY <2>2, FS_EmptySet
  <2>4. num_available = Wrap(0)
    BY <2>3 DEF LedgerInv, AvailableLedger
  <2>5. Wrap(0) = 0
    BY ModulusAssumption DEF Wrap
  <2>6. \A t \in Threads : Uses(t) = held[t]
    BY <2>1 DEF Uses, InCall
  <2>7. \A n \in allocated : \E t \in Threads : n \in held[t]
    BY <2>2, <2>6 DEF Pooled
  <2>8. \A t \in Threads : held[t] \subseteq allocated
    BY <2>6 DEF PoolInv, ExclusiveBlock
  <2> QED
    BY <2>4, <2>5, <2>7, <2>8
<1> QED
  BY <1>1, <1>2, GoneStep, Invariance, ReachInvariance, LedgerInvariance, PTL DEF Spec

-----------------------------------------------------------------------------
\* What the thread that acquires may still add.
Others == Threads \ Acquirers

InAcquire(t) ==
  pc[t] \in {"acquire", "alloc", "allocData", "allocTrack", "acqNext", "acqCas", "acqTrack"}

BoundInv ==
  /\ \A t \in Others : held[t] = {}
  /\ \A a \in Acquirers :
       /\ InAcquire(a) => Cardinality(held[a]) < HoldBound
       /\ pc[a] = "alloc" => Cardinality(allocated) < HoldBound + Cardinality(Others)
  /\ AllocationBound

LEMMA OthersFinite == IsFiniteSet(Others) /\ Cardinality(Others) \in Nat
<1>1. IsFiniteSet(Others)
  BY ThreadsAssumption, FS_Subset DEF Others
<1> QED
  BY <1>1, FS_CardinalityType

\* With one acquirer the bound is what it may keep plus one for each other thread.
LEMMA BoundValue ==
  ASSUME SingleAcquirer, NEW a \in Acquirers
  PROVE  HoldBound * Cardinality(Acquirers) + Cardinality(Threads \ Acquirers) =
           HoldBound + Cardinality(Others)
<1>1. Acquirers = {a}
  BY DEF SingleAcquirer
<1>2. Cardinality(Acquirers) = 1
  BY <1>1, FS_Singleton
<1> QED
  BY <1>2, OthersFinite, BoundAssumption DEF Others

LEMMA HeldFinite ==
  ASSUME PoolInv, IsFiniteSet(allocated), NEW t \in Threads
  PROVE  IsFiniteSet(held[t]) /\ Cardinality(held[t]) \in Nat
<1>1. held[t] \subseteq allocated
  BY DEF PoolInv, ExclusiveBlock, Uses
<1> QED
  BY <1>1, FS_Subset, FS_CardinalityType

\* When the acquirer finds the list empty, every block is one it keeps or one that
\* another thread is giving back.
LEMMA EmptyBound ==
  ASSUME SingleAcquirer, PoolInv, ReachInv, BoundInv, IsFiniteSet(allocated), head = Null,
         NEW a \in Acquirers, pc[a] \in {"idle", "acquire"}, Cardinality(held[a]) < HoldBound
  PROVE  Cardinality(allocated) < HoldBound + Cardinality(Others)
<1> DEFINE back == {node[u] : u \in Others}
           f == [u \in Others |-> node[u]]
<1>0. a \in Threads
  BY ThreadsAssumption
<1>1. f \in Surjection(Others, back)
  BY DEF Surjection
<1>2. IsFiniteSet(back) /\ Cardinality(back) <= Cardinality(Others)
  BY <1>1, OthersFinite, FS_Surjection
<1>3. Pooled = {}
  BY EmptyHead
<1>4. \A t \in Threads : t \in Others \/ t = a
  BY DEF SingleAcquirer, Others
<1>5. Uses(a) = held[a] /\ \A u \in Others : Uses(u) \subseteq {node[u]}
  BY DEF Uses, InCall, BoundInv
<1>6. allocated \subseteq held[a] \cup back
  BY <1>3, <1>4, <1>5 DEF Pooled
<1> HIDE DEF back
<1>7. /\ IsFiniteSet(held[a] \cup back)
      /\ Cardinality(held[a] \cup back) =
           Cardinality(held[a]) + Cardinality(back) - Cardinality(held[a] \cap back)
  BY <1>0, <1>2, HeldFinite, FS_Union
<1>8. IsFiniteSet(held[a] \cap back) /\ Cardinality(held[a] \cap back) \in Nat
  BY <1>2, FS_Subset, FS_CardinalityType
<1>9. Cardinality(allocated) <= Cardinality(held[a] \cup back)
  BY <1>6, <1>7, FS_Subset
<1>10. Cardinality(allocated) \in Nat /\ Cardinality(back) \in Nat
  BY <1>2, FS_CardinalityType
<1> QED
  BY <1>0, <1>2, <1>7, <1>8, <1>9, <1>10, HeldFinite, OthersFinite, BoundAssumption

\* A step that keeps the blocks and in which nobody's blocks grow: the labels decide.
LEMMA BoundKept ==
  ASSUME PoolInv, BoundInv, IsFiniteSet(allocated), allocated' = allocated,
         \A t \in Threads : held'[t] \subseteq held[t],
         \A a \in Acquirers : InAcquire(a)' => InAcquire(a),
         \A a \in Acquirers : pc'[a] = "alloc" => pc[a] = "alloc"
  PROVE  BoundInv'
<1>1. \A t \in Others : held'[t] = {}
  BY DEF BoundInv, Others
<1>2. ASSUME NEW a \in Acquirers, InAcquire(a)' PROVE Cardinality(held'[a]) < HoldBound
  <2>1. a \in Threads
    BY ThreadsAssumption
  <2>2. Cardinality(held'[a]) <= Cardinality(held[a]) /\ Cardinality(held'[a]) \in Nat
    BY <2>1, HeldFinite, FS_Subset, FS_CardinalityType
  <2>3. Cardinality(held[a]) < HoldBound
    BY <1>2 DEF BoundInv
  <2> QED
    BY <2>1, <2>2, <2>3, HeldFinite, BoundAssumption
<1> QED
  BY <1>1, <1>2 DEF BoundInv, AllocationBound, Others

\* Freeing a node keeps the bound.
LEMMA FewerBound ==
  ASSUME BoundInv, IsFiniteSet(allocated), NEW n, allocated' = allocated \ {n}
  PROVE  AllocationBound'
<1>1. /\ Cardinality(allocated') <= Cardinality(allocated)
      /\ Cardinality(allocated') \in Nat /\ Cardinality(allocated) \in Nat
  BY FS_Subset, FS_CardinalityType
<1>2. IsFiniteSet(Acquirers) /\ Cardinality(Acquirers) \in Nat
  BY ThreadsAssumption, FS_Subset, FS_CardinalityType
<1>3. HoldBound * Cardinality(Acquirers) \in Nat
  BY <1>2, BoundAssumption
<1> QED
  BY <1>1, <1>3, OthersFinite DEF AllocationBound, BoundInv, Others

LEMMA BoundCall ==
  ASSUME SingleAcquirer, PoolInv, ReachInv, BoundInv, IsFiniteSet(allocated),
         NEW t \in Threads, AcquireLoad(t) \/ CallStep(t)
  PROVE  BoundInv'
<1> USE DEF PoolInv
<1>0. ASSUME t \in Acquirers PROVE \A a \in Acquirers : a = t
  BY <1>0 DEF SingleAcquirer
<1>1. CASE AcquireLoad(t)
  <2>1. t \in Acquirers /\ pc[t] \in {"idle", "acquire"} /\ held' = held /\ allocated' = allocated
    BY <1>1 DEF AcquireLoad, poolVars
  <2>2. Cardinality(held[t]) < HoldBound
    BY <1>1, <2>1 DEF AcquireLoad, BoundInv, InAcquire
  <2>3. pc' = [pc EXCEPT ![t] = IF head = Null THEN "alloc" ELSE "acqNext"]
    BY <1>1 DEF AcquireLoad, Goto
  <2>4. pc'[t] = "alloc" => head = Null
    BY <2>3 DEF TypeOK
  <2>5. pc'[t] = "alloc" => Cardinality(allocated) < HoldBound + Cardinality(Others)
    BY <2>1, <2>2, <2>4, EmptyBound
  <2> QED
    BY <1>0, <2>1, <2>2, <2>5 DEF BoundInv, AllocationBound, Others
<1>2. CASE Alloc(t)
  <2>1. PICK n \in Node \ allocated : allocated' = allocated \cup {n}
    BY <1>2 DEF Alloc
  <2>2. Cardinality(allocated') = Cardinality(allocated) + 1 /\ Cardinality(allocated) \in Nat
    BY <2>1, FS_AddElement, FS_CardinalityType
  <2>3. pc[t] = "alloc" /\ t \in Acquirers /\ held' = held
    BY <1>2 DEF Alloc, LoadedInv
  <2>4. Cardinality(allocated) < HoldBound + Cardinality(Others)
    BY <2>3 DEF BoundInv
  <2>5. Cardinality(allocated') <= HoldBound + Cardinality(Others)
    BY <2>2, <2>4, OthersFinite, BoundAssumption
  <2>6. AllocationBound'
    BY <2>3, <2>5, BoundValue DEF AllocationBound
  <2>7. pc'[t] = "allocData"
    BY <1>2 DEF Alloc, Goto, TypeOK
  <2>8. Cardinality(held[t]) < HoldBound
    BY <2>3 DEF BoundInv, InAcquire
  <2> QED
    BY <1>0, <2>3, <2>6, <2>7, <2>8 DEF BoundInv, Others
<1>3. CASE AllocTrack(t) \/ AcquireTrack(t)
  <2>1. t \in Acquirers /\ allocated' = allocated
    BY <1>3 DEF AllocTrack, AcquireTrack, AcquireEnd, poolVars, LoadedInv
  <2>2. pc'[t] = "idle"
    BY <1>3 DEF AllocTrack, AcquireTrack, AcquireEnd, Goto, TypeOK
  <2>3. \A u \in Others : held'[u] = held[u]
    BY <1>3, <2>1 DEF AllocTrack, AcquireTrack, AcquireEnd, TypeOK, Others
  <2> QED
    BY <1>0, <2>1, <2>2, <2>3 DEF BoundInv, AllocationBound, InAcquire, Others
<1>4. CASE \/ AllocFail(t) \/ AllocData(t) \/ AcquireNext(t) \/ AcquireCas(t)
           \/ ReturnLoad(t) \/ ReturnStore(t) \/ ReturnCas(t) \/ ReturnTrack(t)
  <2>1. allocated' = allocated /\ held' = held
    BY <1>4
    DEF AllocFail, AllocData, AcquireNext, AcquireCas, AcquireSwap, ReturnLoad, ReturnStore,
        ReturnLink, ReturnCas, ReturnSwap, ReturnTrack, poolVars
  <2>2. \A a \in Acquirers : pc'[a] = "alloc" => pc[a] = "alloc"
    BY <1>4, ThreadsAssumption
    DEF AllocFail, AllocData, AcquireNext, AcquireCas, AcquireSwap, ReturnLoad, ReturnStore,
        ReturnLink, ReturnCas, ReturnSwap, ReturnTrack, Goto, TypeOK, InAcquire
  <2>3. \A a \in Acquirers : InAcquire(a)' => InAcquire(a)
    BY <1>4, ThreadsAssumption
    DEF AllocFail, AllocData, AcquireNext, AcquireCas, AcquireSwap, ReturnLoad, ReturnStore,
        ReturnLink, ReturnCas, ReturnSwap, ReturnTrack, Goto, TypeOK, InAcquire
  <2> QED
    BY <2>1, <2>2, <2>3, BoundKept
<1>5. CASE AllocDataFail(t)
  <2>1. t \in Acquirers /\ held' = held /\ pc'[t] = "idle" /\ allocated' = allocated \ {node[t]}
    BY <1>5 DEF AllocDataFail, AllocDataNone, Goto, LoadedInv, TypeOK
  <2>2. AllocationBound'
    BY <2>1, FewerBound
  <2> QED
    BY <1>0, <2>1, <2>2 DEF BoundInv, InAcquire, Others
<1> QED
  BY <1>1, <1>2, <1>3, <1>4, <1>5 DEF CallStep

LEMMA BoundStep ==
  ASSUME SingleAcquirer
  PROVE  PoolInv /\ ReachInv /\ LedgerInv /\ BoundInv /\ [Next]_vars => BoundInv'
<1> SUFFICES ASSUME PoolInv, ReachInv, LedgerInv, BoundInv, [Next]_vars PROVE BoundInv'
  OBVIOUS
<1>0. IsFiniteSet(allocated)
  BY DEF LedgerInv
<1>1. ASSUME NEW t \in Threads, AcquireLoad(t) \/ CallStep(t) PROVE BoundInv'
  BY <1>0, <1>1, BoundCall
<1>2. ASSUME NEW t \in Threads, NEW u \in Threads, NEW n \in held[u], ReturnBegin(t, u, n)
      PROVE  BoundInv'
  <2>1. allocated' = allocated /\ \A v \in Threads : held'[v] \subseteq held[v]
    BY <1>2 DEF ReturnBegin, poolVars, PoolInv, TypeOK
  <2>2. \A a \in Acquirers : InAcquire(a)' => InAcquire(a)
    BY <1>2, ThreadsAssumption DEF ReturnBegin, Goto, PoolInv, TypeOK, InAcquire
  <2>3. \A a \in Acquirers : pc'[a] = "alloc" => pc[a] = "alloc"
    BY <1>2, ThreadsAssumption DEF ReturnBegin, Goto, PoolInv, TypeOK
  <2> QED
    BY <1>0, <2>1, <2>2, <2>3, BoundKept
<1>3. CASE FreeNode
  <2>1. allocated' = allocated \ {head} /\ UNCHANGED <<pc, held>>
    BY <1>3 DEF FreeNode
  <2>2. \A a \in Acquirers : pc[a] = "idle"
    BY <1>3, ThreadsAssumption DEF FreeNode, PoolInv, PhaseInv
  <2>3. AllocationBound'
    BY <1>0, <2>1, FewerBound
  <2> QED
    BY <2>1, <2>2, <2>3 DEF BoundInv, InAcquire, Others
<1>4. CASE FreeEnd \/ (\E p \in {"freeAll", "freePool"} : FreeBegin(p)) \/ UNCHANGED vars
  <2>1. UNCHANGED <<allocated, pc, held>>
    BY <1>4 DEF FreeEnd, FreeBegin, vars
  <2> QED
    BY <1>0, <2>1, BoundKept DEF InAcquire
<1> QED
  BY <1>1, <1>2, <1>3, <1>4 DEF Next

(***************************************************************************)
(* With one acquiring thread and any number of returning ones: the pool    *)
(* never has more blocks than that thread may keep plus one for each       *)
(* thread that can be in the middle of a return.                           *)
(***************************************************************************)
THEOREM AllocationBounded ==
  ASSUME SingleAcquirer
  PROVE  Spec => []AllocationBound
<1>1. Init => BoundInv
  <2> SUFFICES ASSUME Init PROVE BoundInv
    OBVIOUS
  <2>1. allocated = {} /\ \A t \in Threads : held[t] = {} /\ pc[t] = "idle"
    BY DEF Init
  <2>2. Cardinality(allocated) = 0
    BY <2>1, FS_EmptySet
  <2>3. IsFiniteSet(Acquirers) /\ Cardinality(Acquirers) \in Nat
    BY ThreadsAssumption, FS_Subset, FS_CardinalityType
  <2>4. HoldBound * Cardinality(Acquirers) \in Nat
    BY <2>3, BoundAssumption
  <2>5. AllocationBound
    BY <2>2, <2>4, OthersFinite DEF AllocationBound, Others
  <2> QED
    BY <2>1, <2>5, ThreadsAssumption DEF BoundInv, InAcquire, Others
<1>2. BoundInv => AllocationBound
  BY DEF BoundInv
<1> QED
  BY <1>1, <1>2, BoundStep, Invariance, ReachInvariance, LedgerInvariance, PTL DEF Spec
=============================================================================
