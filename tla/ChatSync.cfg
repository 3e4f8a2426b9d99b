SPECIFICATION FairSpec
CONSTANTS
  Kinds = {"message", "quiet"}
  ReplayLimits = {1, 4}
  PageSize = 1
  MaxVersions = 4
  MaxTroubles = 2
INVARIANTS TypeOK NothingMissing
PROPERTIES ViewNeverLoses CatchesUp
CHECK_DEADLOCK FALSE
