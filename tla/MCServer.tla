------------------------------ MODULE MCServer ------------------------------
(***************************************************************************)
(* Instances of Server: two handlers of one provider, with and without a   *)
(* reload.                                                                 *)
(***************************************************************************)
EXTENDS Server, TLC

Symmetry == Permutations(Keys) \cup Permutations(Handlers) \cup Permutations(Inodes)

=============================================================================
