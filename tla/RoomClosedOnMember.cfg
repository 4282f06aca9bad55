SPECIFICATION Spec
CONSTANTS
  Users = {u1, u2}
  Requests = {r1, r2}
  Operations = {"join", "leave"}
  Privacy = {FALSE}
  NoEntry = NoEntry
  MaxSeat = 3
  MaxSaves = 2
  MaxInvites = 0
SYMMETRY Symmetry
PROPERTY ClosesByOwner
CHECK_DEADLOCK FALSE
