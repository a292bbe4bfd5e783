CONSTANTS
  c1 = c1
  c2 = c2
  Nobody = Nobody
  Collectors = {c1, c2}
  LockTTL = 1
  StaleTimeout = 1
  Faults = {"save"}
  MaxFaults = 1
  MaxMail = 1
  MaxRuns = 3
SPECIFICATION Spec
INVARIANT SavedBehindCursor
CHECK_DEADLOCK FALSE
