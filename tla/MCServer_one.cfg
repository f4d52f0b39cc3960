SPECIFICATION ServerSpec
CONSTANTS
  Handlers = {h1, h2}
  Savers = {h1, h2}
  Providers = {p1}
  Chaining = {p1}
  NoProvider = noProvider
  Limits = {1}
  MaxStates = 1
  Keys = {k1, k2}
  Inodes = {i1, i2, i3}
  None = none
  MaxCommits = 3
SYMMETRY Symmetry
INVARIANTS
  Restartable
  Persisted
PROPERTIES
  ImplementsDurable
CHECK_DEADLOCK FALSE
