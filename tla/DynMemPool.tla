----------------------------- MODULE DynMemPool -----------------------------
(***************************************************************************)
(* A MemPool of the Simple Pool library (src/simple_pool/dyn_mem_pool.h,   *)
(* built with TRACK_POOL_USAGE): a stack of free MemNodes linked through   *)
(* `next`, popped by pool_mem_acquire and pushed by pool_mem_return with a *)
(* compare-and-swap on `head`.  Every atomic access is one step, and so is *)
(* a malloc.  A node stands for itself and its data block, whose hidden    *)
(* prefix leads back to the node.  num_allocs, which the header only counts*)
(* up and never reads, is left out.                                        *)
(*                                                                         *)
(* Callers obey the header: a block is returned once, by whoever has it,   *)
(* and pool_mem_free_all and free_mem_pool, "not thread safe", run when no *)
(* other call does.  The weak compare-and-swap fails only when the values  *)
(* differ (x86-64).                                                        *)
(***************************************************************************)
EXTENDS Integers, FiniteSets

CONSTANTS Threads,
          Acquirers,      \* the threads that call pool_mem_acquire
          Node,           \* addresses malloc can give to a MemNode
          Null,
          HoldBound,      \* how many blocks one thread acquires and keeps
          SharedBlocks,   \* whether a block may be returned by another thread
          CounterModulus  \* one more than UINT32_MAX

ASSUME ThreadsAssumption == Acquirers \subseteq Threads /\ IsFiniteSet(Threads)
ASSUME NullAssumption == Null \notin Node
ASSUME BoundAssumption == HoldBound \in Nat /\ SharedBlocks \in BOOLEAN
ASSUME ModulusAssumption == CounterModulus \in Nat \ {0}

VARIABLES head,           \* pool->head
          next,           \* next[n]: node->next
          allocated,      \* nodes malloc gave and free has not taken back
          num_available,
          phase,          \* "open", or which of the two free functions runs,
                          \* or "gone" once the pool itself is freed
          pc,             \* pc[t]: where t is in the call it is making
          prev,           \* prev[t]: previous_head of that call
          newHead,        \* newHead[t]: new_head of pool_mem_acquire
          node,           \* node[t]: the node the call takes or gives back
          held            \* held[t]: blocks t acquired that are in use

vars == <<head, next, allocated, num_available, phase,
          pc, prev, newHead, node, held>>

Labels == {"idle", "acquire", "alloc", "allocData", "allocTrack", "acqNext", "acqCas",
           "acqTrack", "retLoad", "retStore", "retCas", "retTrack"}

\* alloc_mem_pool: the struct is zeroed.
Init ==
  /\ head = Null
  /\ next = [n \in Node |-> Null]
  /\ allocated = {}
  /\ num_available = 0
  /\ phase = "open"
  /\ pc = [t \in Threads |-> "idle"]
  /\ prev = [t \in Threads |-> Null]
  /\ newHead = [t \in Threads |-> Null]
  /\ node = [t \in Threads |-> Null]
  /\ held = [t \in Threads |-> {}]

Goto(t, l) == pc' = [pc EXCEPT ![t] = l]

\* uint32_t arithmetic of the counters.
Wrap(n) == n % CounterModulus

poolVars == <<allocated, phase>>

-----------------------------------------------------------------------------
\* pool_mem_acquire

AcquireLoad(t) ==
  /\ t \in Acquirers
  /\ \/ pc[t] = "acquire"
     \/ pc[t] = "idle" /\ phase = "open" /\ Cardinality(held[t]) < HoldBound
  /\ prev' = [prev EXCEPT ![t] = head]
  /\ Goto(t, IF head = Null THEN "alloc" ELSE "acqNext")
  /\ UNCHANGED <<head, next, num_available, newHead, node, held, poolVars>>

\* pool_mem_try_alloc_data, alloc_poolable_mem: the node.
Alloc(t) ==
  /\ pc[t] = "alloc"
  /\ \E n \in Node \ allocated :
       /\ allocated' = allocated \cup {n}
       /\ next' = [next EXCEPT ![n] = Null]
       /\ node' = [node EXCEPT ![t] = n]
  /\ Goto(t, "allocData")
  /\ UNCHANGED <<head, num_available, phase, prev, newHead, held>>

AllocFail(t) ==
  /\ pc[t] = "alloc"
  /\ Goto(t, "idle")
  /\ UNCHANGED <<head, next, num_available, prev, newHead, node, held, poolVars>>

\* Its data block.
AllocData(t) ==
  /\ pc[t] = "allocData"
  /\ Goto(t, "allocTrack")
  /\ UNCHANGED <<head, next, num_available, prev, newHead, node, held, poolVars>>

\* There is none: the call answers NULL and of the nodes `left` stay allocated.
AllocDataNone(t, left) ==
  /\ pc[t] = "allocData"
  /\ allocated' = left
  /\ Goto(t, "idle")
  /\ UNCHANGED <<head, next, num_available, phase, prev, newHead, node, held>>

\* Mutation: the node is not freed.
AllocDataFailLeaks(t) == AllocDataNone(t, allocated)

AllocDataFail(t) == AllocDataNone(t, allocated \ {node[t]})

AllocTrack(t) ==
  /\ pc[t] = "allocTrack"
  /\ held' = [held EXCEPT ![t] = @ \cup {node[t]}]
  /\ Goto(t, "idle")
  /\ UNCHANGED <<head, next, allocated, num_available, phase, prev, newHead, node>>

AcquireNext(t) ==
  /\ pc[t] = "acqNext"
  /\ newHead' = [newHead EXCEPT ![t] = next[prev[t]]]
  /\ Goto(t, "acqCas")
  /\ UNCHANGED <<head, next, num_available, prev, node, held, poolVars>>

\* The compare-and-swap of pool_mem_acquire, against the value `expected`.
AcquireSwap(t, expected) ==
  /\ pc[t] = "acqCas"
  /\ \/ /\ head = expected
        /\ head' = newHead[t]
        /\ node' = [node EXCEPT ![t] = prev[t]]
        /\ Goto(t, "acqTrack")
     \/ /\ head # expected
        /\ Goto(t, "acquire")
        /\ UNCHANGED <<head, node>>
  /\ UNCHANGED <<next, num_available, prev, newHead, held, poolVars>>

\* Mutation: head is stored without being compared.
AcquireCasUnchecked(t) == AcquireSwap(t, head)

AcquireCas(t) == AcquireSwap(t, prev[t])

\* The call counts the node and answers with its data.
AcquireEnd(t, available) ==
  /\ pc[t] = "acqTrack"
  /\ num_available' = available
  /\ held' = [held EXCEPT ![t] = @ \cup {node[t]}]
  /\ Goto(t, "idle")
  /\ UNCHANGED <<head, next, prev, newHead, node, poolVars>>

\* Mutations: the counter is not lowered; the counter is signed.
AcquireTrackLost(t) == AcquireEnd(t, num_available)
AcquireTrackSigned(t) == AcquireEnd(t, num_available - 1)

AcquireTrack(t) == AcquireEnd(t, Wrap(num_available - 1))

-----------------------------------------------------------------------------
\* pool_mem_return

\* t returns block n, which u acquired: get_memnode_in_data and node->pool.
ReturnBegin(t, u, n) ==
  /\ pc[t] = "idle"
  /\ phase = "open"
  /\ u = t \/ SharedBlocks
  /\ n \in held[u]
  /\ held' = [held EXCEPT ![u] = @ \ {n}]
  /\ node' = [node EXCEPT ![t] = n]
  /\ Goto(t, "retLoad")
  /\ UNCHANGED <<head, next, num_available, prev, newHead, poolVars>>

ReturnLoad(t) ==
  /\ pc[t] = "retLoad"
  /\ prev' = [prev EXCEPT ![t] = head]
  /\ Goto(t, "retStore")
  /\ UNCHANGED <<head, next, num_available, newHead, node, held, poolVars>>

ReturnLink(t, n) ==
  /\ pc[t] = "retStore"
  /\ next' = [next EXCEPT ![node[t]] = n]
  /\ Goto(t, "retCas")
  /\ UNCHANGED <<head, num_available, prev, newHead, node, held, poolVars>>

\* Mutation: the link to the old head is not written.
ReturnStoreLost(t) == ReturnLink(t, next[node[t]])

ReturnStore(t) == ReturnLink(t, prev[t])

\* The compare-and-swap of pool_mem_return.
ReturnSwap(t, expected) ==
  /\ pc[t] = "retCas"
  /\ \/ head = expected /\ head' = node[t] /\ Goto(t, "retTrack")
     \/ head # expected /\ Goto(t, "retLoad") /\ UNCHANGED head
  /\ UNCHANGED <<next, num_available, prev, newHead, node, held, poolVars>>

\* Mutation: head is stored without being compared.
ReturnCasUnchecked(t) == ReturnSwap(t, head)

ReturnCas(t) == ReturnSwap(t, prev[t])

ReturnTrack(t) ==
  /\ pc[t] = "retTrack"
  /\ num_available' = Wrap(num_available + 1)
  /\ Goto(t, "idle")
  /\ UNCHANGED <<head, next, prev, newHead, node, held, poolVars>>

-----------------------------------------------------------------------------
\* pool_mem_free_all and free_mem_pool

FreeBegin(p) ==
  /\ phase = "open"
  /\ \A t \in Threads : pc[t] = "idle"
  /\ phase' = p
  /\ UNCHANGED <<head, next, allocated, num_available,
                 pc, prev, newHead, node, held>>

\* One turn of the loop, free_poolable_mem included.
FreeNode ==
  /\ phase \in {"freeAll", "freePool"}
  /\ head # Null
  /\ head' = next[head]
  /\ allocated' = allocated \ {head}
  /\ num_available' = Wrap(num_available - 1)
  /\ UNCHANGED <<next, phase, pc, prev, newHead, node, held>>

FreeEnd ==
  /\ phase \in {"freeAll", "freePool"}
  /\ head = Null
  /\ phase' = IF phase = "freeAll" THEN "open" ELSE "gone"
  /\ UNCHANGED <<head, next, allocated, num_available,
                 pc, prev, newHead, node, held>>

-----------------------------------------------------------------------------
CallStep(t) ==
  \/ Alloc(t) \/ AllocFail(t) \/ AllocData(t) \/ AllocDataFail(t) \/ AllocTrack(t)
  \/ AcquireNext(t) \/ AcquireCas(t) \/ AcquireTrack(t)
  \/ ReturnLoad(t) \/ ReturnStore(t) \/ ReturnCas(t) \/ ReturnTrack(t)

Next ==
  \/ \E t \in Threads : AcquireLoad(t) \/ CallStep(t)
  \/ \E t, u \in Threads : \E n \in held[u] : ReturnBegin(t, u, n)
  \/ \E p \in {"freeAll", "freePool"} : FreeBegin(p)
  \/ FreeNode
  \/ FreeEnd

Spec == Init /\ [][Next]_vars

-----------------------------------------------------------------------------
(***************************************************************************)
(* Type invariant: the counters stay in the range of a uint32_t, although  *)
(* a call may subtract before the matching addition.                       *)
(***************************************************************************)
TypeOK ==
  /\ head \in Node \cup {Null}
  /\ next \in [Node -> Node \cup {Null}]
  /\ allocated \subseteq Node
  /\ num_available \in 0 .. CounterModulus - 1
  /\ phase \in {"open", "freeAll", "freePool", "gone"}
  /\ pc \in [Threads -> Labels]
  /\ prev \in [Threads -> Node \cup {Null}]
  /\ newHead \in [Threads -> Node \cup {Null}]
  /\ node \in [Threads -> Node \cup {Null}]
  /\ held \in [Threads -> SUBSET Node]

\* The node that t's call has taken off the list, or not yet put on it.
InCall(t) ==
  IF pc[t] \in {"allocData", "allocTrack", "acqTrack", "retLoad", "retStore", "retCas"}
  THEN {node[t]} ELSE {}

Uses(t) == held[t] \cup InCall(t)

\* Allocated nodes that nobody uses: those the pool should have.
Pooled == {n \in allocated : \A t \in Threads : n \notin Uses(t)}

(***************************************************************************)
(* No block is in use twice: pool_mem_acquire never gives out a block that *)
(* an earlier call gave out and nobody returned, and no block in use has   *)
(* been freed.                                                             *)
(***************************************************************************)
ExclusiveBlock ==
  \A t \in Threads :
    /\ Uses(t) \subseteq allocated
    /\ held[t] \cap InCall(t) = {}
    /\ \A u \in Threads \ {t} : Uses(t) \cap Uses(u) = {}

\* A call uses its locals as nodes only where they are nodes.
LocalInv ==
  \A t \in Threads :
    /\ pc[t] \in {"acqNext", "acqCas"} => prev[t] \in Node
    /\ pc[t] \in {"allocData", "allocTrack", "acqTrack", "retLoad", "retStore", "retCas"} =>
         node[t] \in Node

\* The two free functions run alone.
PhaseInv == phase # "open" => \A t \in Threads : pc[t] = "idle"

\* The links of the pooled nodes form chains: they stay among the pooled nodes, no
\* two of them meet and none leads back to the head.
ListShape ==
  /\ head \in Pooled \cup {Null}
  /\ \A n \in Pooled : next[n] \in Pooled \cup {Null}
  /\ \A m, n \in Pooled : next[m] = next[n] /\ next[m] # Null => m = n
  /\ \A n \in Pooled : head # Null => next[n] # head

\* What a call loaded is still true when nobody else pops: the old head is pooled
\* and its link unchanged.  A returned node's link is what the call stored.
LoadedInv ==
  \A t \in Threads :
    /\ pc[t] \in {"acquire", "alloc", "allocData", "allocTrack", "acqNext", "acqCas", "acqTrack"} =>
         t \in Acquirers
    /\ pc[t] \in {"acqNext", "acqCas"} => prev[t] \in Pooled
    /\ pc[t] = "acqCas" => newHead[t] = next[prev[t]]
    /\ pc[t] = "retCas" => next[node[t]] = prev[t]

PoolInv ==
  TypeOK /\ LocalInv /\ PhaseInv /\ ExclusiveBlock /\ ListShape /\ LoadedInv

\* A set of nodes that holds the head and every node its nodes link to.
LinkClosed(S) == head \in S \cup {Null} /\ \A n \in S : next[n] \in S \cup {Null}

\* The nodes that the links reach from the head: those in every such set.
Linked == {n \in Node : \A S \in SUBSET Node : LinkClosed(S) => n \in S}

(***************************************************************************)
(* The free list is exactly what is not in use: every allocated block that *)
(* nobody uses can be reached from the head, nothing else can, and the     *)
(* list ends, so a walk such as pool_mem_free_all's terminates and frees   *)
(* each block once.                                                        *)
(***************************************************************************)
FreeListComplete ==
  /\ Linked = Pooled
  /\ head # Null => \E n \in Linked : next[n] = Null

At(l) == {t \in Threads : pc[t] = l}

(***************************************************************************)
(* num_available tells the length of the free list up to the calls that    *)
(* have moved a node and not yet counted it; a call that pops before the   *)
(* pusher has counted takes the unsigned counter below zero and back.      *)
(***************************************************************************)
AvailableLedger ==
  num_available =
    Wrap(Cardinality(Pooled) + Cardinality(At("acqTrack")) - Cardinality(At("retTrack")))

(***************************************************************************)
(* A freed pool leaves nothing behind but the blocks its callers never     *)
(* returned, no node of a call whose second malloc failed either, and      *)
(* counts none as available.                                               *)
(***************************************************************************)
FreedPoolIsEmpty ==
  phase = "gone" => num_available = 0 /\ allocated = UNION {held[t] : t \in Threads}

(***************************************************************************)
(* The pool grows with the blocks in use and no further: it never has more *)
(* than its acquirers may keep plus one for each thread that can be in the *)
(* middle of a return, although a thread that saw an empty list allocates  *)
(* after blocks have come back.                                            *)
(***************************************************************************)
AllocationBound ==
  Cardinality(allocated) <=
    HoldBound * Cardinality(Acquirers) + Cardinality(Threads \ Acquirers)

\* A node without its data is no block yet.
Owned(t) == IF pc[t] = "allocData" THEN held[t] ELSE Uses(t)

Abstract == INSTANCE BlockPool WITH
  Block <- Node, User <- Threads, pooled <- Pooled, out <- [t \in Threads |-> Owned(t)]

(***************************************************************************)
(* The lock-free pool implements the atomic one: each call takes effect at *)
(* the malloc of its data or at its compare-and-swap, a block that goes    *)
(* back through another thread is handed over first, and the loop of       *)
(* pool_mem_free_all frees pooled blocks one by one.                       *)
(***************************************************************************)
ImplementsBlockPool == Abstract!Spec
=============================================================================
