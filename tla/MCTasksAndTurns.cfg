SPECIFICATION SideBySide
CONSTANTS
  t1 = t1
  t2 = t2
  t3 = t3
  x1 = x1
  x2 = x2
  Tasks = {t1, t2, t3}
  Agents = {x1, x2}
  Main = Main
  Nobody = Nobody
  ReportLimit = 2
  MaxReports = 4
  MaxLosses = 2
  Corrections = 1
  MaxTurns = 3
  MaxRequests = 2
  MaxCrashes = 1
  IndexLimit = 1
  IndexRetries = 2
  MaxSaid = 3
  MaxMishaps = 3
  Revisions <- MCRevisions
SYMMETRY Symmetry
INVARIANTS
  FinalCheckNeverFires
  NeverWedged
  MemoryIsReplayed
  ReportsAreRead
PROPERTIES
  HistoryIsKept
  FoundationsHold
  PlanIsKept
  SearchIsCurrent
CHECK_DEADLOCK FALSE
