SPECIFICATION Spec
CONSTANTS
  Contacts = {c1, c2}
  Tested = {c1}
  AbEnabled = TRUE
  Slots = {s1}
  NoSlot = NoSlot
  Starts = {"send"}
  MayMiss = FALSE
  MaxAttempts = 3
  FaultKinds = {"crash", "call"}
  MaxFaults = 1
  MaxStarts = 1
  MaxPauses = 1
  MaxCancels = 0
  MaxTime = 0
  MaxFires = 0
  FirstAt = 0
CHECK_DEADLOCK FALSE
SYMMETRY Symmetry
INVARIANTS ClosedWhenDone
PROPERTIES HeldForWinner
