SPECIFICATION Spec
CONSTANTS
  None = None
  Gone = Gone
  p = p
  q = q
  Processes = {p, q}
  MaxEvents = 2
  MaxFaults = 1
SYMMETRY Symmetry
INVARIANTS DeletedStaysDeleted
CHECK_DEADLOCK FALSE
