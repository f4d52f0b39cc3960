SPECIFICATION Spec
CONSTANTS
  Calls = {c1, c2}
  Searches = {s1}
  MaxRetries = 1
  MaxBlocks = 3
SYMMETRY CallSymmetry
INVARIANTS
  WellFormed
  EndsOnce
  CallsWhole
  CallsDelivered
  StopReasonAgrees
  ContentKnown
CHECK_DEADLOCK FALSE
