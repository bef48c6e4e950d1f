------------------------------ MODULE BlockPool ------------------------------
(***************************************************************************)
(* What a MemPool of the Simple Pool library promises its callers          *)
(* (src/simple_pool/dyn_mem_pool.h): each operation takes effect at one    *)
(* instant, on a set of free blocks.  A caller gets a block that nobody    *)
(* uses, from the pool or from malloc, and never one that is out; a block  *)
(* may go back through another thread than the one that acquired it.       *)
(***************************************************************************)
CONSTANTS Block, User

VARIABLES pooled,   \* blocks ready to be given out
          out       \* out[u]: blocks in the hands of u

blockVars == <<pooled, out>>

Init ==
  /\ pooled = {}
  /\ out = [u \in User |-> {}]

InUse == UNION {out[u] : u \in User}

AcquirePooled(u, b) ==
  /\ b \in pooled
  /\ pooled' = pooled \ {b}
  /\ out' = [out EXCEPT ![u] = @ \cup {b}]

\* Allowed even when the pool is not empty: a caller may have seen it empty before.
AcquireNew(u, b) ==
  /\ b \notin pooled \cup InUse
  /\ out' = [out EXCEPT ![u] = @ \cup {b}]
  /\ UNCHANGED pooled

Hand(u, v, b) ==
  /\ u # v
  /\ b \in out[u]
  /\ out' = [out EXCEPT ![u] = @ \ {b}, ![v] = @ \cup {b}]
  /\ UNCHANGED pooled

Return(u, b) ==
  /\ b \in out[u]
  /\ out' = [out EXCEPT ![u] = @ \ {b}]
  /\ pooled' = pooled \cup {b}

Free(b) ==
  /\ b \in pooled
  /\ pooled' = pooled \ {b}
  /\ UNCHANGED out

Next ==
  \E b \in Block :
    \/ \E u \in User : AcquirePooled(u, b) \/ AcquireNew(u, b) \/ Return(u, b)
    \/ \E u, v \in User : Hand(u, v, b)
    \/ Free(b)

Spec == Init /\ [][Next]_blockVars
=============================================================================
