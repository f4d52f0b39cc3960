-------------------------- MODULE MCResponsesStream --------------------------
(***************************************************************************)
(* Instances of ResponsesStream for TLC.                                   *)
(***************************************************************************)
EXTENDS ResponsesStream, TLC

\* The calls are treated alike.
CallSymmetry == Permutations(Calls)
=============================================================================
