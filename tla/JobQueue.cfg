SPECIFICATION FairSpec
CONSTANTS
  j1 = j1
  j2 = j2
  s1 = s1
  Clients = {c1}
  Workers = {w1, w2}
  Jobs <- MCJobs
  Known = {j1}
  Stage <- MCStage
  MaxLosses = 1
  MaxDeaths = 1
  MaxExpiries = 1
INVARIANTS OneWorkerPerStage StartsBounded AttemptsCountStarts
PROPERTIES AckedWasStarted AcceptedJobAnswered
CHECK_DEADLOCK FALSE
