CONSTANTS
  w1 = w1
  w2 = w2
  t1 = t1
  t2 = t2
  Workers = {w1, w2}
  Idle = {}
  Tasks = {t1, t2}
  Malformed = {}
  MaxAttempts = 2
  ClaimTTL = 1
  BackoffBase = 1
  Faults = {"write"}
  MaxDeliveries = 2
  MaxNow = 3
  Horizon = 2
SYMMETRY Symmetry
SPECIFICATION Spec
INVARIANT CommittedIsHandled
CHECK_DEADLOCK FALSE
