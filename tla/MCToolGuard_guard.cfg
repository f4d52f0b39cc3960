\* Two properties, one aliased, two other names, calls of three arguments.
CONSTANTS
  Props = {"type", "path"}
  Extras = {"x", "y"}
  MaxArgs = 3
SPECIFICATION Spec
INVARIANTS
  ValuesMoved
  GivenKept
  OrderIrrelevant
CHECK_DEADLOCK FALSE
