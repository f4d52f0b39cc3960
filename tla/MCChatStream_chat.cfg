\* Two calls, text and reasoning, one retry of the post.
CONSTANTS
  CallIds <- TwoCalls
  MaxRetries = 1
  MaxBlocks = 2
SPECIFICATION FairSpec
INVARIANTS
  WellFormed
  CallsWhole
  CallsDelivered
  CallsInOrder
  ReasonAgrees
PROPERTY
  Answered
CHECK_DEADLOCK FALSE
