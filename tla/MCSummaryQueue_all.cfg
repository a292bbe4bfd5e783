CONSTANTS
  r1 = r1
  w1 = w1
  w2 = w2
  a1 = a1
  Nothing = Nothing
  Requesters = {r1}
  Workers = {w1, w2}
  Articles = {a1}
  MaxAttempts = 2
  Backoff = 1
  MaxRequests = 3
  MaxFaults = 1
  MaxLate = 1
SPECIFICATION FairSpec
INVARIANT TypeOK
INVARIANT OneWorkerPerRequest
INVARIANT CallBudget
INVARIANT ProcessingIsHeld
PROPERTY AnswerIsFinal
PROPERTY EveryRequestSettles
