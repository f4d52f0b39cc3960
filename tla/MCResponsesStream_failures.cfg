SPECIFICATION Spec
CONSTANTS
  Calls = {c1}
  Searches = {}
  MaxRetries = 1
  MaxBlocks = 2
INVARIANT FailuresAreErrors
CHECK_DEADLOCK FALSE
