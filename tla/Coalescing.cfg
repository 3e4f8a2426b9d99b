SPECIFICATION FairWorkerSpec
CONSTANTS
  k1 = k1
  k2 = k2
  k3 = k3
  NoKey = NoKey
  Keys = {k1, k2, k3}
  MaxEnqueues = 3
INVARIANTS NothingLost DrainMeansDone
PROPERTIES EveryItemSettled
CHECK_DEADLOCK FALSE
