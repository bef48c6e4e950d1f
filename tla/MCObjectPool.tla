---------------------------- MODULE MCObjectPool ----------------------------
(***************************************************************************)
(* Instance for TLC: more handles than items, so that some stay empty and  *)
(* items are moved while others are being returned.                        *)
(***************************************************************************)
EXTENDS ObjectPool

CONSTANTS h1, h2, h3, h4

MCHandle == {h1, h2, h3, h4}
=============================================================================
