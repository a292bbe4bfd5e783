CONSTANTS
  w1 = w1
  w2 = w2
  t1 = t1
  Workers = {w1, w2}
  Idle = {}
  Tasks = {t1}
  Malformed = {}
  MaxAttempts = 2
  ClaimTTL = 2
  BackoffBase = 1
  Faults = {"crash"}
  MaxDeliveries = 1
  MaxNow = 3
  Horizon = 2
SPECIFICATION FairSpec
PROPERTY EveryTaskEnds
CHECK_DEADLOCK FALSE
