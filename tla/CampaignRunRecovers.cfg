SPECIFICATION Spec
CONSTANTS
  Contacts = {c1}
  Tested = {}
  AbEnabled = FALSE
  Slots = {s1, s2}
  NoSlot = NoSlot
  Starts = {"schedule","recur"}
  MayMiss = TRUE
  MaxAttempts = 3
  FaultKinds = {"crash", "redis", "call"}
  MaxFaults = 1
  MaxStarts = 1
  MaxPauses = 1
  MaxCancels = 1
  MaxTime = 2
  MaxFires = 1
  FirstAt = 0
CHECK_DEADLOCK FALSE
SYMMETRY SlotSymmetry
INVARIANTS TypeOK OneRowPerRun
