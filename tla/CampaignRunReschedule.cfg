SPECIFICATION Spec
CONSTANTS
  Contacts = {c1}
  Tested = {}
  AbEnabled = FALSE
  Slots = {s1, s2}
  NoSlot = NoSlot
  Starts = {"schedule"}
  MayMiss = FALSE
  MaxAttempts = 3
  FaultKinds = {"crash", "redis", "call"}
  MaxFaults = 0
  MaxStarts = 1
  MaxPauses = 0
  MaxCancels = 0
  MaxTime = 2
  MaxFires = 0
  FirstAt = 1
CHECK_DEADLOCK FALSE
SYMMETRY SlotSymmetry
INVARIANTS OneRowPerRun
