\* Three upstream blocks, interleaved in any way.
CONSTANTS
  Blocks = {u1, u2, u3}
  MaxDeltas = 2
SPECIFICATION Spec
SYMMETRY BlockSymmetry
INVARIANTS
  WellFormed
  FailureEnds
  DeltasKept
  BlocksWhole
  ThinkingHidden
CHECK_DEADLOCK FALSE
