SPECIFICATION Spec
CONSTANTS
  c1 = c1
  c2 = c2
  Children = {c1, c2}
  Limit = 1
  MaxWork = 1
  MaxEdits = 0
  MaxMishaps = 1
INVARIANTS RunsOnItsBase
CHECK_DEADLOCK FALSE
