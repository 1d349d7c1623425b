SPECIFICATION SideBySide
CONSTANTS
  None = None
  child = child
  Children = {child}
  t1 = t1
  t2 = t2
  Threads = {t1, t2}
  Limit = 1
  MaxWork = 2
  MaxEdits = 2
  MaxMishaps = 3
  p1 = p1
  p2 = p2
  Processes = {p1, p2}
  r1 = r1
  r2 = r2
  Requests = {r1, r2}
  page = page
  Pages = {page}
  MaxConns = 2
  MaxUpsets = 1
  MaxTurns = 1
  MaxBusy = 1
  MaxFailures = 1
  MaxChanges = 2
  MaxMoves = 2
  MaxReplies = 2
SYMMETRY Symmetry
INVARIANTS WorkIsKept DeliveredIsThere ResultIsDurable
  UnknownIsBlocked ReportIsTrue UnusedServiceEnds PageAgrees
PROPERTIES CompletedTurnHasSeenAll
CHECK_DEADLOCK FALSE
