---------------------------- MODULE MCTextFilter ----------------------------
(***************************************************************************)
(* Instance of TextFilter: all texts of a few characters, in all deltas.   *)
(***************************************************************************)
EXTENDS TextFilter
=============================================================================
