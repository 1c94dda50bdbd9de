SPECIFICATION FairSpec
CONSTANTS
  Recipients = {r1, r2}
  Slots = {s1, s2}
  NoSlot = NoSlot
  Callers = {c1}
  Crons = {k1, k2}
  NoCron = NoCron
  MaxAttempts = 2
  MaxStalls = 1
  FaultKinds = {"crash", "stall", "call", "redis", "api"}
  MaxFires = 1
  MaxCalls = 2
  MaxFaults = 1
CHECK_DEADLOCK FALSE
INVARIANTS TypeOK OneRowPerOccurrence
PROPERTIES ArmedAsWritten OccurrenceCompletes
