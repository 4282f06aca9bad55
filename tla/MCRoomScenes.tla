---------------------------- MODULE MCRoomScenes ----------------------------
(***************************************************************************)
(* RoomService for TLC in scenes: requests that overlap and write the      *)
(* document, requests of every kind that take turns, and no restriction.   *)
(* A run takes the union of its scenes, not their product.                 *)
(***************************************************************************)
EXTENDS MCRoom

CONSTANT Scenes  \* of "overlap", "turns" and "free"

ASSUME ScenesAssumption == Scenes \subseteq {"overlap", "turns", "free"}

VARIABLE scene  \* chosen once

Writing == {"join", "leave", "kick", "role", "delete", "invite", "redeem"}

Busy == {r \in Requests : reqs[r] # Idle}

InScene ==
  /\ scene = "overlap" => \A r \in Busy : reqs[r].op \in Writing
  /\ scene = "turns" => \A r, q \in Busy : r = q

SceneInit == Init /\ scene \in Scenes

SceneNext == Next /\ scene' = scene /\ InScene'

SceneSpec == SceneInit /\ [][SceneNext]_<<vars, scene>>

FairSceneSpec == SceneSpec /\ Fairness

-----------------------------------------------------------------------------
(* What RoomProperties says of one request at a time.                      *)

InTurns == scene = "turns"

\* Once a request has ended, its own commands have left Redis right: no cached
\* count but that of the document, no counter of a user who is no member.
RedisInTurns == InTurns => QuietCache /\ QuietUnread

\* Roles change as requested, and saves of the whole array write back those of
\* everyone who stays; requireRoomRole and setMemberRole together let only the
\* owner promote.
RolesInTurns == [][InTurns => RoleRequested /\ OwnerPromotes]_vars

\* The room of a leaving owner goes to the longest-serving admin, or else to the
\* longest-serving member; it is deleted only under its last member.
HeirsInTurns == [][InTurns => EldestInherits /\ OwnerCloses]_vars
=============================================================================
