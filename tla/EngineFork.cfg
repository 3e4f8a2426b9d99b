SPECIFICATION Spec
CONSTANTS
  p1 = p1
  t1 = t1
  t2 = t2
  t3 = t3
  c1 = c1
  c2 = c2
  c3 = c3
  c4 = c4
  m1 = m1
  m2 = m2
  m3 = m3
  u1 = u1
  u2 = u2
  l1 = l1
  a1 = a1
  None = None
  Projects = {p1}
  Threads = {t1, t2, t3}
  CommandIds = {c1, c2}
  Requests <- ForkRequests
  ReadLimit = 20
  Gapless = FALSE
  InitialLog <- ThreadWithFork
  InitialApplied <- CaughtUp
  MaxQueue = 2
  MaxFailures = 2
  MaxRuns = 2
SYMMETRY Ids
INVARIANTS ForkIsPrefixOfSource
PROPERTIES ImplementsCommandLog
CHECK_DEADLOCK FALSE
