---------------------------- MODULE IndexHolder ----------------------------
(***************************************************************************)
(* The value an indexer's Next() gives its caller (src/src/IndexHolder.h). *)
(* Both constructors are modelled: the default one leaves value at 0 and   *)
(* sets the empty flag, so Get() on an empty holder answers 0, which is    *)
(* also a legal pool index.                                                *)
(***************************************************************************)
EXTENDS Naturals

\* IndexHolder(): no index is held.
EmptyHolder == [value |-> 0, empty |-> TRUE]

\* IndexHolder(idxValue): the holder of one index.
HolderOf(idxValue) == [value |-> idxValue, empty |-> FALSE]

\* The holders an indexer over the set I of indices can produce.
HoldersOver(I) == {EmptyHolder} \cup {HolderOf(i) : i \in I}
=============================================================================
