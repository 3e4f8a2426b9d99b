SPECIFICATION FairSpec
CONSTANTS
  t1 = t1
  t2 = t2
  h1 = h1
  h2 = h2
  Threads = {h1, h2}
  Terminals = {t1, t2}
  ThreadOf <- OneEach
  MaxRetained = 1
  Drains = {1, 2}
  None = None
  MaxSessions = 3
  MaxSpawns = 2
  MaxOutputs = 1
  MaxOperations = 3
  MaxPolls = 1
INVARIANTS TypeOK NoShellForgotten HistoryIsSaved
PROPERTIES TerminalsSettle
CHECK_DEADLOCK FALSE
