--------------------------- MODULE MCAdapterPool ----------------------------
(***************************************************************************)
(* Instance of AdapterPool: three handlers compete for one provider's      *)
(* slots before and after a reload that changes its limit.                 *)
(***************************************************************************)
EXTENDS AdapterPool
=============================================================================
