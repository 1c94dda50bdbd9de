SPECIFICATION FairSpec
CONSTANTS
  Jobs = {e1}
  Workers = {w1}
  Group = {e1}
  NoJob = NoJob
  NoWorker = NoWorker
  MaxAttempts = 2
  MaxStalls = 1
  FaultKinds = {"crash", "redis"}
  MaxFaults = 1
  MaxBounces = 0
  MaxCancels = 1
CHECK_DEADLOCK FALSE
INVARIANTS SummaryAgrees
PROPERTIES QueuedLeaves SummaryRecovers
