CONSTANTS
  c1 = c1
  c2 = c2
  Nobody = Nobody
  Collectors = {c1, c2}
  LockTTL = 1
  StaleTimeout = 1
  Faults = {"crash", "db", "redis", "fetch", "slow"}
  MaxFaults = 2
  MaxMail = 2
  MaxRuns = 4
SYMMETRY Symmetry
SPECIFICATION Spec
INVARIANT TypeOK
INVARIANT LeaseIsExclusive
INVARIANT SavedBehindCursor
PROPERTY NothingAfterDeletion
CHECK_DEADLOCK FALSE
