------------------------------ MODULE MultiPool ------------------------------
(***************************************************************************)
(* The multi pool of the Simple Pool library                               *)
(* (src/simple_pool/dyn_mem_pool.h), through its global instance: an array *)
(* of MemPools, one per size class, each twice as large as the one before. *)
(* The pools are BlockPools, which is what DynMemPool implements; a block  *)
(* knows its pool (node->pool), so all of them share one set of blocks.    *)
(*                                                                         *)
(* Callers obey the header: creation and freeing run alone, nothing is     *)
(* acquired from or returned to a multi pool that was freed.               *)
(***************************************************************************)
EXTENDS Naturals

CONSTANTS Width,       \* bits of uint32_t
          MinBits,     \* DynPoolMinMultiPoolMemNodeSizeBits
          EntryCount,  \* MULTIPOOL_ENTRY_COUNT
          Block, User,
          MaxCreates   \* bound: calls of global_multipool_create

\* 32, 9 and 14 in the program: every class size fits the type with room to spare.
ASSUME ScaleAssumption ==
  /\ Width \in Nat /\ MinBits \in Nat /\ EntryCount \in Nat \ {0}
  /\ MinBits + EntryCount <= Width
ASSUME CreatesAssumption == MaxCreates \in Nat

Entry == 0 .. EntryCount - 1
Size == 0 .. 2^Width - 1

VARIABLES ndebug,        \* whether the program was built with NDEBUG
          phase,         \* what the global multi pool is, or which call runs
          pools,         \* pools[i]: the entry of the array
          loop,          \* the loop variable of creation and freeing
          pooled, out,   \* the blocks of all pools, as in BlockPool
          nodePool,      \* nodePool[b]: the entry node->pool leads to
          request,       \* the size asked for in the call that went down
          asked,         \* asked[b]: the size block b was last given out for
          stale,         \* blocks that were out when their pool was freed
          creates,
          crashed        \* an assertion failed or NULL was dereferenced

vars == <<ndebug, phase, pools, loop, pooled, out, nodePool, request, asked, stale,
          creates, crashed>>
blockVars == <<pooled, out, nodePool, request, asked, stale>>
lifeVars == <<phase, pools, loop, creates>>

Blocks == INSTANCE BlockPool

Init ==
  /\ ndebug \in BOOLEAN
  /\ phase = "none"
  /\ pools = [i \in Entry |-> "unset"]
  /\ loop = 0
  /\ Blocks!Init
  /\ nodePool = [b \in Block |-> 0]
  /\ request = 1
  /\ asked = [b \in Block |-> 1]
  /\ stale = {}
  /\ creates = 0
  /\ crashed = FALSE

-----------------------------------------------------------------------------
\* global_multipool_create, multipool_create

CreateBegin ==
  /\ phase \in {"none", "null", "freed"}
  /\ creates < MaxCreates
  /\ creates' = creates + 1
  /\ pools' = [i \in Entry |-> "unset"]
  /\ loop' = 0
  /\ phase' \in {"creating", "null"}
  /\ UNCHANGED <<ndebug, blockVars, crashed>>

\* alloc_mem_pool for one entry; its NULL is stored like any other answer.
CreateEntryBelow(n) ==
  /\ phase = "creating"
  /\ loop < n
  /\ \E p \in {"live", "null"} : pools' = [pools EXCEPT ![loop] = p]
  /\ loop' = loop + 1
  /\ UNCHANGED <<ndebug, phase, blockVars, creates, crashed>>

\* Mutation: the loop goes past the end of the array.
CreateEntryBeyond == CreateEntryBelow(EntryCount + 1)

CreateEntry == CreateEntryBelow(EntryCount)

CreateEnd ==
  /\ phase = "creating"
  /\ loop = EntryCount
  /\ phase' = "ready"
  /\ UNCHANGED <<ndebug, pools, loop, blockVars, creates, crashed>>

-----------------------------------------------------------------------------
\* __builtin_clz: the leading zeros of a value that is not zero.
Clz(v) == CHOOSE z \in 0 .. Width - 1 : 2^(Width - 1 - z) <= v /\ v < 2^(Width - z)

ClassOf(v) == IF v = 0 THEN 0 ELSE Width - Clz(v)

\* Mutation: one is not subtracted.
FindIndexRoundsUp(size) == ClassOf(size \div 2^MinBits)

\* uint32_t: zero less one is the largest value.
find_multipool_index_for_size(size) ==
  ClassOf(((size + 2^Width - 1) % 2^Width) \div 2^MinBits)

mem_size(i) == 2^(MinBits + i)

Crash(size) ==
  /\ crashed' = TRUE
  /\ request' = size
  /\ UNCHANGED <<ndebug, lifeVars, pooled, out, nodePool, asked, stale>>

\* The caller gets NULL.
Refuse == UNCHANGED vars

\* pool_mem_acquire of a pool that exists.
Serve(u, size, index, b) ==
  /\ \/ nodePool[b] = index /\ Blocks!AcquirePooled(u, b) /\ UNCHANGED nodePool
     \/ Blocks!AcquireNew(u, b) /\ nodePool' = [nodePool EXCEPT ![b] = index]
  /\ asked' = [asked EXCEPT ![b] = size]
  /\ UNCHANGED <<ndebug, lifeVars, request, stale, crashed>>

\* Mutation: only the assertion looks at the index.
BeyondUnchecked(size) == Crash(size)

\* The index is beyond the array: the assertion, if it is compiled, or NULL.
Beyond(size) == IF ndebug THEN Refuse ELSE Crash(size)

\* The array is not read before the index has passed.
multipool_mem_acquire(u, size) ==
  LET index == find_multipool_index_for_size(size) IN
  /\ phase \in {"null", "ready"}
  /\ \/ index >= EntryCount /\ Beyond(size)
     \/ index < EntryCount /\ (phase = "null" \/ pools[index] = "null") /\ Crash(size)
     \/ /\ phase = "ready" /\ index < EntryCount /\ pools[index] = "live"
        /\ Refuse \/ \E b \in Block \ stale : Serve(u, size, index, b)

pool_mem_return(u, b) ==
  /\ phase = "ready"
  /\ b \notin stale
  /\ Blocks!Return(u, b)
  /\ UNCHANGED <<ndebug, lifeVars, nodePool, request, asked, stale, crashed>>

-----------------------------------------------------------------------------
\* global_multipool_free, multipool_free

FreeBegin ==
  /\ \/ phase = "null" /\ crashed' = TRUE /\ UNCHANGED phase
     \/ phase = "ready" /\ phase' = "freeing" /\ UNCHANGED crashed
  /\ loop' = 0
  /\ UNCHANGED <<ndebug, pools, blockVars, creates>>

\* free_mem_pool of one entry.
FreeEntry ==
  /\ phase = "freeing"
  /\ loop < EntryCount
  /\ IF pools[loop] = "null"
     THEN crashed' = TRUE /\ UNCHANGED <<pools, pooled, loop>>
     ELSE /\ pools' = [pools EXCEPT ![loop] = "freed"]
          /\ pooled' = {b \in pooled : nodePool[b] # loop}
          /\ loop' = loop + 1
          /\ UNCHANGED crashed
  /\ UNCHANGED <<ndebug, phase, out, nodePool, request, asked, stale, creates>>

FreeEndAt(n) ==
  /\ phase = "freeing"
  /\ loop = n
  /\ phase' = "freed"
  /\ stale' = Blocks!InUse
  /\ UNCHANGED <<ndebug, pools, loop, pooled, out, nodePool, request, asked, creates, crashed>>

\* Mutation: the last entry is left out.
FreeEndEarly == FreeEndAt(EntryCount - 1)

FreeEnd == FreeEndAt(EntryCount)

-----------------------------------------------------------------------------
Next ==
  /\ ~ crashed
  /\ \/ CreateBegin \/ CreateEntry \/ CreateEnd
     \/ FreeBegin \/ FreeEntry \/ FreeEnd
     \/ \E u \in User : \E size \in Size : multipool_mem_acquire(u, size)
     \/ \E u \in User : \E b \in out[u] : pool_mem_return(u, b)

Spec == Init /\ [][Next]_vars

-----------------------------------------------------------------------------
(***************************************************************************)
(* Type invariant: the loops of creation and freeing stay in the array.    *)
(***************************************************************************)
TypeOK ==
  /\ ndebug \in BOOLEAN
  /\ phase \in {"none", "null", "creating", "ready", "freeing", "freed"}
  /\ pools \in [Entry -> {"unset", "null", "live", "freed"}]
  /\ loop \in 0 .. EntryCount
  /\ pooled \subseteq Block
  /\ out \in [User -> SUBSET Block]
  /\ nodePool \in [Block -> Entry]
  /\ request \in Size
  /\ asked \in [Block -> Size]
  /\ stale \subseteq Block
  /\ creates \in 0 .. MaxCreates
  /\ crashed \in BOOLEAN

\* Class i is the smallest that holds a block of this size.
IsClassOf(i, size) ==
  size \in 1 .. mem_size(i) /\ (i # 0 => size > mem_size(i - 1))

(***************************************************************************)
(* A caller gets a block of the smallest class that holds what it asked    *)
(* for: never a smaller one, which it would write past, and never a larger *)
(* one.  This holds at the powers of two, for zero and for sizes beyond    *)
(* the last class (which are given nothing), and for blocks that were      *)
(* returned and given out again for another size.                          *)
(***************************************************************************)
SmallestClassThatFits ==
  \A u \in User : \A b \in out[u] : IsClassOf(nodePool[b], asked[b])

(***************************************************************************)
(* The program goes down in a call of the multi pool only because a malloc *)
(* of its creation failed unnoticed, that of the class asked for where a   *)
(* block is acquired, or, in a build with assertions, because it was asked *)
(* for nothing or for more than the last class holds.                      *)
(***************************************************************************)
CrashHasCause ==
  crashed =>
    \/ phase = "null"
    \/ \E i \in Entry : pools[i] = "null" /\ (phase = "ready" => IsClassOf(i, request))
    \/ ~ ndebug /\ request \notin 1 .. mem_size(EntryCount - 1)

(***************************************************************************)
(* When freeing returns, the multi pool has kept neither an entry nor a    *)
(* block: all that is left of it is out with its callers.                  *)
(***************************************************************************)
FreedLeavesNothing ==
  phase = "freed" => pooled = {} /\ \A i \in Entry : pools[i] = "freed"
=============================================================================
