CONSTANTS
  r1 = r1
  d1 = d1
  d2 = d2
  k1 = k1
  k2 = k2
  Requesters = {r1}
  Dispatchers = {d1, d2}
  Keys = {k1, k2}
  BatchSize = 2
  ClaimTTL = 1
  BackoffBase = 1
  MaxRows = 2
  MaxFailures = 1
  MaxNow = 2
  Horizon = 1
SPECIFICATION FairSpec
INVARIANT ExactlyOnceWithoutFaults
PROPERTY EveryEventIsSent
