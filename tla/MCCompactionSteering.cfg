CONSTANTS
  Retain = 1
  MaxAttempts = 2
  MaxHistory = 2
  MaxFacts = 0
  MaxCrashes = 0
SPECIFICATION Spec
INVARIANTS AdjustmentIsNoObstacle
CHECK_DEADLOCK FALSE
