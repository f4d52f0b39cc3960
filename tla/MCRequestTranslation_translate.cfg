\* A function's call and a custom tool's, up to four messages and four blocks.
CONSTANTS
  Ids = {"call_f", "call_c"}
  Custom = {"call_c"}
  MaxMessages = 4
  MaxBlocks = 4
SPECIFICATION Spec
INVARIANTS
  CallsAnswered
  InventsNoAnswer
  TextKept
  KindsAgree
  OutputsMatch
CHECK_DEADLOCK FALSE
