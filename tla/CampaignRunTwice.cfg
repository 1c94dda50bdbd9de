SPECIFICATION Spec
CONSTANTS
  Contacts = {c1}
  Tested = {}
  AbEnabled = FALSE
  Slots = {s1, s2}
  NoSlot = NoSlot
  Starts = {"send", "schedule"}
  MayMiss = FALSE
  MaxAttempts = 3
  FaultKinds = {}
  MaxFaults = 0
  MaxStarts = 2
  MaxPauses = 0
  MaxCancels = 0
  MaxTime = 1
  MaxFires = 0
  FirstAt = 0
CHECK_DEADLOCK FALSE
INVARIANTS OneShotRunsOnce
