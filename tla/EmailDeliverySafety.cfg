SPECIFICATION Spec
CONSTANTS
  Jobs = {e1}
  Workers = {w1, w2}
  Group = {}
  NoJob = NoJob
  NoWorker = NoWorker
  MaxAttempts = 2
  MaxStalls = 1
  FaultKinds = {"crash", "redis", "stall", "call"}
  MaxFaults = 1
  MaxBounces = 1
  MaxCancels = 1
CHECK_DEADLOCK FALSE
SYMMETRY WorkerSymmetry
INVARIANTS DeliveryInv AtMostOneCopy SoleSender TruthfulRow
PROPERTIES KeepsLedger WithdrawnNotSent
