SPECIFICATION SideBySide
CONSTANTS
  None = None
  p = p
  c1 = c1
  c2 = c2
  Processes = {p}
  w1 = w1
  w2 = w2
  Workers = {w1, w2}
  i1 = i1
  Images = {i1}
  Nobody = Nobody
  Dead = Dead
  MaxAges = 1
  MaxSlips = 1
  Words = {"x", "y"}
  Batches <- MCBatches
  MaxMemories = 3
  MaxTurns = 2
  MaxChanges = 1
  MaxUpsets = 1
  Children = {c1, c2}
  MaxRequests = 3
  MaxTokens = 5
  Sizes = {1, 2}
  MaxApiRetries = 1
  MaxCapacityRetries = 1
  MaxOpens = 2
  MaxFaults = 2
SYMMETRY Symmetry
INVARIANTS TurnWithinLimits NothingIsFree StagedIsKept
PROPERTIES DeletionHolds StatementsSurvive
CHECK_DEADLOCK FALSE
