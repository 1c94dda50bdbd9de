SPECIFICATION Spec
CONSTANTS
  Tabs = {t1, t2}
  NoTab = NoTab
  Files = {}
  Absent = Absent
  Closed = Closed
  MaxEdits = 2
  MaxSaves = 2
  Uses = {"send"}
  MaxLeaves = 1
  MaxLids = 2
  MaxPasses = 1
  MaxFaults = 1
SYMMETRY Alike
CHECK_DEADLOCK FALSE
INVARIANTS TypeOK  SentAsSaved
PROPERTIES NothingOverwritten
