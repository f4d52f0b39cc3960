--------------------------- MODULE MCNativePolicy ---------------------------
(***************************************************************************)
(* Instance of NativePolicy: three upstream blocks of any kind, two deltas *)
(* in each.  Blocks are treated alike, so they are a symmetric set.        *)
(***************************************************************************)
EXTENDS NativePolicy, TLC

BlockSymmetry == Permutations(Blocks)
=============================================================================
