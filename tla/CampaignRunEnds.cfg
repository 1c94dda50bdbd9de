SPECIFICATION FairSpec
CONSTANTS
  Contacts = {c1}
  Tested = {c1}
  AbEnabled = TRUE
  Slots = {s1}
  NoSlot = NoSlot
  Starts = {"schedule"}
  MayMiss = FALSE
  MaxAttempts = 3
  FaultKinds = {"crash", "redis", "call"}
  MaxFaults = 1
  MaxStarts = 1
  MaxPauses = 0
  MaxCancels = 0
  MaxTime = 1
  MaxFires = 0
  FirstAt = 0
CHECK_DEADLOCK FALSE
PROPERTIES ScheduledStarts 
