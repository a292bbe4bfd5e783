CONSTANTS
  Sources <- ThreeSources
  Pausable = {"s1"}
  Concurrency = 2
  Deployments <- LocalAndSplit
SPECIFICATION FairSpec
INVARIANT BackgroundIsOver
PROPERTY ShutdownCompletes
PROPERTY EverySourceIsCollected
CHECK_DEADLOCK FALSE
