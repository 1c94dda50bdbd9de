SPECIFICATION Spec
CONSTANTS
  Users = {u1, u2, u3}
  NoUser = NoUser
  Boxes = {b1}
  NoBox = NoBox
  MaxInvites = 3
  Calls = {c1, c2}
  NoCall = NoCall
  MaxCalls = 3
  MaxFaults = 1
SYMMETRY Alike
CHECK_DEADLOCK FALSE
INVARIANTS TypeOK AlwaysOwned GrantsOfMembers DenialHolds ServerAsAsked
PROPERTIES JoinsByInvite
