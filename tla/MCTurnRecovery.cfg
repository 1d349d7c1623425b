SPECIFICATION Spec
CONSTANTS
  MaxTurns = 1
  MaxRequests = 1
  MaxCrashes = 1
  Corrections = 1
INVARIANT RecoveryIsAccepted
CHECK_DEADLOCK FALSE
