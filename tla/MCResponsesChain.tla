-------------------------- MODULE MCResponsesChain --------------------------
(***************************************************************************)
(* Model checking of ResponsesChain.                                       *)
(***************************************************************************)
EXTENDS ResponsesChain, TLC

Symmetry ==
  Permutations(Handlers) \cup Permutations(Sessions) \cup Permutations(Profiles)

=============================================================================
