SPECIFICATION SideBySide
CONSTANTS
  None = None
  Empty = Empty
  p1 = p1
  p2 = p2
  p3 = p3
  t1 = t1
  t2 = t2
  t3 = t3
  Processes = {p1, p2, p3}
  Tokens = {t1, t2, t3}
  MaxCrashes = 3
  MaxReuses = 2
  Openers = {p1, p2}
  Gone = Gone
  MaxEvents = 3
  MaxFailures = 3
  Retain = 1
  MaxAttempts = 2
  MaxHistory = 2
  MaxFacts = 1
  MaxDeaths = 1
INVARIANTS MutualExclusion OrphansAreRecoverable JournalAcceptsEvents
PROPERTIES WaitingEnds ImplementsLog NeverAskedAgain StepGoesOn
CHECK_DEADLOCK FALSE
