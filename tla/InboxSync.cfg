SPECIFICATION FairSpec
CONSTANTS
  Folders = {inbox, archive}
  Primary = inbox
  Fields = {"read"}
  MoveIds = {m1}
  NoMove = NoMove
  Rounds = 1
  OtherKinds = {"flag", "copy", "move", "expunge", "recreate"}
  FaultKinds = {"crash", "refused", "lost", "call"}
  MaxUids = 2
  MaxRecreations = 1
  MaxMarks = 2
  MaxOther = 1
  MaxFaults = 1
INVARIANTS TypeOK MoveOutcome 
PROPERTIES OwnActionKept  MovesConclude
