SPECIFICATION Spec
CONSTANTS
  Sessions = {s1, s2}
  NoSession = none
  Profiles = {p1, p2}
  Blocks = {b1}
  MaxEntries = 2
  Handlers = {h1, h2}
  MaxRetries = 0
  ChainModes = {TRUE}
  AmbiguousErrors = FALSE
  MaxRequests = 3
  MaxMessages = 3
  MaxBlocks = 2
SYMMETRY Symmetry
INVARIANTS
  TypeOK
  ChainsStayInSession
  StoreBounded
  EntriesAreAnswers
  UserInputPreserved
PROPERTIES
  LeaveInOrderOfUse
CHECK_DEADLOCK FALSE
