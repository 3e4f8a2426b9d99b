SPECIFICATION FairSpec
CONSTANTS
  None = None
  Kinds = {"turn", "mode", "interrupt", "stop"}
  MaxRequests = 2
  MaxFailures = 1
  MaxCrashes = 1
  MaxSweeps = 1
INVARIANTS TypeOK ConversationKept
PROPERTIES EveryTurnSettled 
CHECK_DEADLOCK FALSE
