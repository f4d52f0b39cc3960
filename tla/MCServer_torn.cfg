SPECIFICATION ServerSpec
CONSTANTS
  Handlers = {h1, h2}
  Savers = {h1, h2}
  Providers = {p1}
  Chaining = {p1}
  NoProvider = noProvider
  Limits = {1}
  MaxStates = 2
  Keys = {k1, k2}
  Inodes = {i1, i2, i3}
  None = none
  MaxCommits = 2
SYMMETRY Symmetry
INVARIANTS
  Restartable
CHECK_DEADLOCK FALSE
