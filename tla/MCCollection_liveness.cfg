CONSTANTS
  c1 = c1
  c2 = c2
  Nobody = Nobody
  Collectors = {c1, c2}
  LockTTL = 2
  StaleTimeout = 2
  Faults = {"crash", "db", "redis", "fetch"}
  MaxFaults = 1
  MaxMail = 1
  MaxRuns = 3
SPECIFICATION FairSpec
PROPERTY OutcomeIsFinal
PROPERTY EveryMailIsSaved
PROPERTY EveryRunEnds
CHECK_DEADLOCK FALSE
