SPECIFICATION Spec
CONSTANTS
  None = None
  Projects = {}
  Threads = {}
  Outcomes = {"completed", "failed", "interrupted"}
  Notices = "atEnd"
  MaxTurns = 3
  MaxEdits = 1
  MaxReverts = 2
  MaxFailures = 2
  MaxHurriedTurns = 2
INVARIANTS TypeOK DistinctCounts  CheckpointsMatchConversation
PROPERTIES CapturedStays 
