SPECIFICATION Spec
CONSTANTS
  a1 = a1
  a2 = a2
  p1 = p1
  Adjustments = {a1, a2}
  Peers = {p1}
  WithImages = {a1, a2}
  MaxTurnImages = 1
  PerBoundary = 1
  MaxCalls = 1
  MaxTurns = 3
  MaxCrashes = 0
INVARIANTS CheckpointAgrees
CHECK_DEADLOCK FALSE
