CONSTANTS
  w1 = w1
  w2 = w2
  api = api
  t1 = t1
  Workers = {w1, w2}
  Idle = {api}
  Tasks = {t1}
  Malformed = {}
  MaxAttempts = 2
  ClaimTTL = 1
  BackoffBase = 1
  Faults = {"crash", "write", "db", "rebalance", "slow"}
  MaxDeliveries = 1
  MaxNow = 3
  Horizon = 2
SYMMETRY Symmetry
SPECIFICATION Spec
INVARIANT TypeOK
INVARIANT EndWasAnnounced
INVARIANT RetriesFollowAttempts
PROPERTY TerminalIsFinal
PROPERTY LeaseRespected
CHECK_DEADLOCK FALSE
