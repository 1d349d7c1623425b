SPECIFICATION Spec
CONSTANTS
  a1 = a1
  a2 = a2
  t1 = t1
  t2 = t2
  Tasks = {t1, t2}
  Agents = {a1, a2}
  Main = Main
  Standalone = Standalone
  Unbound = Unbound
  Graphs <- SomeGraphs
  MaxConcurrent = 2
  MaxFaults = 2
CHECK_DEADLOCK FALSE
INVARIANTS
  NoOrphanExecution
  NoLostChild
PROPERTIES
  NeverRerun
  ClaimsEnd
  ImplementsAssignments
