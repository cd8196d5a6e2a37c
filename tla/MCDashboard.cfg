CONSTANTS
  r1 = r1
  r2 = r2
  Rooms = {r1, r2}
  NoRoom = NoRoom
  AllowedEmails = {"operator@"}
  AudienceScopes <- MCScopes
  Commands = {"coupang"}
  Users = {"u"}
  Windows = {1, 2}
  Selected = 2
  Kinds <- MCKinds
  DayLength = 2
  SpikeCount = 1
  SpikeRise = 0
  Zone = 1
  OverviewLimit = 1
  RoomLimit = 2
  IssueLimit = 2
  OpenRows = 2
  MaxClock = 2
  MaxActs = 2
SPECIFICATION PageSpec
SYMMETRY MCSymmetry
CHECK_DEADLOCK FALSE
INVARIANTS PanelsFollowWindow DetailIsSelected 
