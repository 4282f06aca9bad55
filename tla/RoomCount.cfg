SPECIFICATION FairSceneSpec
CONSTANTS
  Scenes = {"free"}
  Users = {u1, u2}
  Requests = {r1, r2}
  Operations = {"join", "leave", "get", "view", "mark", "abort"}
  Privacy = {FALSE}
  NoEntry = NoEntry
  MaxSeat = 3
  MaxSaves = 2
  MaxInvites = 0
PROPERTY CountSettles
CHECK_DEADLOCK FALSE
