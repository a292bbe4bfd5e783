CONSTANTS
  r1 = r1
  r2 = r2
  d1 = d1
  d2 = d2
  k1 = k1
  Requesters = {r1, r2}
  Dispatchers = {d1, d2}
  Keys = {k1}
  BatchSize = 2
  ClaimTTL = 1
  BackoffBase = 1
  MaxRows = 2
  MaxFailures = 1
  MaxNow = 3
  Horizon = 3
SYMMETRY Symmetry
SPECIFICATION Spec
INVARIANT TypeOK
INVARIANT SentWasPublished
INVARIANT KeyOrder
PROPERTY LeaseRespected
PROPERTY FailureCounted
PROPERTY ImplementsEventQueue
