SPECIFICATION Spec
CONSTANTS
  Tabs = {t1, t2}
  NoTab = NoTab
  Files = {f1}
  Absent = Absent
  Closed = Closed
  MaxEdits = 2
  MaxSaves = 4
  Uses = {"send","delete"}
  MaxLids = 3
  MaxLeaves = 0
  MaxPasses = 0
  MaxFaults = 0
SYMMETRY Alike
CHECK_DEADLOCK FALSE
INVARIANTS FilesKept
PROPERTIES NothingOverwritten ToldTruthfully EndsOnce
