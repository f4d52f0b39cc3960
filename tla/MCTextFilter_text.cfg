\* Texts of seven characters in deltas of up to two, one item closed on the way.
CONSTANTS
  MaxText = 7
  MaxDelta = 2
  MaxItems = 1
SPECIFICATION Spec
INVARIANTS
  ChunkingIrrelevant
CHECK_DEADLOCK FALSE
