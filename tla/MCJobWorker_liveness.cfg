CONSTANTS
  w1 = w1
  w2 = w2
  api = api
  t1 = t1
  t2 = t2
  Workers = {w1, w2}
  Idle = {api}
  Tasks = {t1, t2}
  Malformed = {t2}
  MaxAttempts = 2
  ClaimTTL = 1
  BackoffBase = 1
  Faults = {"rebalance", "slow"}
  MaxDeliveries = 3
  MaxNow = 2
  Horizon = 1
SPECIFICATION FairSpec
INVARIANT EndsOnceWithoutFaults
INVARIANT CommittedIsHandled
PROPERTY EveryTaskEnds
CHECK_DEADLOCK FALSE
