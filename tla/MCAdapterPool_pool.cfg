SPECIFICATION FairSpec
CONSTANTS
  Handlers = {h1, h2, h3}
  Providers = {p1}
  NoProvider = none
  Limits = {0, 1, 2}
  MaxStates = 2
INVARIANTS
  LimitPerState
  SlotsReturned
PROPERTIES
  Served
CHECK_DEADLOCK FALSE
