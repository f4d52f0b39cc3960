SPECIFICATION FairSpec
CONSTANTS
  Sessions = {s1}
  NoSession = none
  Profiles = {p1}
  Blocks = {b1}
  MaxEntries = 1
  Handlers = {h1, h2}
  MaxRetries = 1
  ChainModes = {TRUE, FALSE}
  AmbiguousErrors = TRUE
  MaxRequests = 2
  MaxMessages = 3
  MaxBlocks = 2
INVARIANTS
  PostsBounded
PROPERTIES
  Answered
CHECK_DEADLOCK FALSE
