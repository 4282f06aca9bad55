SPECIFICATION SceneSpec
CONSTANTS
  Scenes = {"overlap", "turns"}
  Users = {u1, u2, u3}
  Requests = {r1, r2}
  Operations = {"join", "leave", "kick", "role", "delete", "invite", "redeem", "get", "send"}
  Privacy = {TRUE, FALSE}
  NoEntry = NoEntry
  MaxSeat = 3
  MaxSaves = 2
  MaxInvites = 1
SYMMETRY Symmetry
INVARIANTS InvitesAdmitOne SingleOwner UniqueMembers CopiesAgree RedisInTurns
PROPERTIES EntersByJoining OwnerGoesByLeaving OldMembersStay OwnershipSpec RolesInTurns HeirsInTurns
CHECK_DEADLOCK FALSE
