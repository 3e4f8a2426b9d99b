SPECIFICATION Spec
CONSTANTS
  Kinds = {"message", "quiet"}
  ReplayLimits = {1, 4}
  PageSize = 1
  MaxVersions = 4
  MaxTroubles = 2
INVARIANTS AppliedOnce
CHECK_DEADLOCK FALSE
