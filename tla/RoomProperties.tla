--------------------------- MODULE RoomProperties ---------------------------
(***************************************************************************)
(* What RoomService must and must not do.                                  *)
(***************************************************************************)
EXTENDS RoomService

\* Every variable holds a value the code can give it.
TypeOK ==
  /\ status \in {"none", "open", "closed"}
  /\ private \in BOOLEAN
  /\ members \in SUBSET Member
  /\ version \in Nat
  /\ cache \in Nat \cup {NoEntry}
  /\ live \in Nat /\ spent \in Nat
  /\ unread \in SUBSET Users /\ receipts \in SUBSET Users
  /\ reqs \in [Requests -> {Idle} \cup Request]

-----------------------------------------------------------------------------
(* Whatever the requests in flight.                                        *)

\* An open room has exactly one owner, a room that is not open has no members:
\* ownership changes hands in leaveRoom's read-modify-save, while other leaves,
\* kicks and role changes hold copies of the same array.
OneOwner(s) ==
  \E o \in s : \A m \in s : (m.role = "owner") <=> (m = o)

SingleOwner == IF status = "open" THEN OneOwner(members) ELSE members = {}

\* No user is in the members array twice, and no two entries share a place:
\* joins push without reading, whole-array saves write back what they read.
Distinct(s) == \A m, n \in s : m.user = n.user \/ m.seat = n.seat => m = n

UniqueMembers == Distinct(members)

\* A handler about to save holds a copy of the array that is itself in order
\* and, as long as __v has not moved, differs from the document only in roles
\* below owner and in members who joined since: what makes the version check
\* enough although joins and role changes leave __v alone.
Agrees(s) ==
  \A m \in s : \E n \in members :
    n.user = m.user /\ n.seat = m.seat /\ (n.role = "owner" <=> m.role = "owner")

GoodCopy(q) ==
  /\ Distinct(q.snap) /\ OneOwner(q.snap)
  /\ q.ver <= version
  /\ status = "open" /\ q.ver = version => Agrees(q.snap)
  /\ \/ /\ q.op = "leave" /\ q.actor \in UsersOf(q.snap)
        /\ IsOwner(q.snap, q.actor) => Without(q.snap, q.actor) # {}
     \/ /\ q.op \in {"kick", "role"} /\ q.target \in UsersOf(q.snap)
        /\ ~IsOwner(q.snap, q.target)

CopiesAgree == \A r \in Requests : reqs[r].pc = "save" => GoodCopy(reqs[r])

\* A private room never holds more members than its founder and the invite
\* tokens spent: a token admits one user at most, however often it is
\* presented at the same time.
InvitesAdmitOne == private => Cardinality(members) <= 1 + spent

\* A user who is not a member becomes one only by a join or an invite of his
\* own: no save of an older copy of the array brings a removed member back.
EntersByJoining ==
  [][\A u \in UsersOf(members') \ UsersOf(members) :
       \/ status = "none"
       \/ \E r \in Requests :
            /\ reqs[r].pc \in {"idle", "push"}
            /\ reqs'[r].pc = "uncache"
            /\ reqs'[r].op \in {"join", "redeem"} /\ reqs'[r].actor = u]_vars

\* While the room stays open its owner goes out only through his own leave:
\* a kick decided before he became the owner must not land afterwards.
OwnerGoesByLeaving ==
  [][\A u \in UsersOf(members) \ UsersOf(members') :
       IsOwner(members, u) /\ status' = "open" =>
         \E r \in Requests :
           At(r, "leave", "save") /\ reqs[r].actor = u
           /\ reqs'[r].pc = "uncache"]_vars

\* While the room stays open a member goes out by his own leave or a kick aimed
\* at him, or because he joined after the array that is saved was loaded: a
\* save overwrites nothing but joins.
OldMembersStay ==
  [][\A u \in UsersOf(members) \ UsersOf(members') :
       status' = "open" =>
         \E r \in Requests :
           /\ reqs'[r] # reqs[r] /\ reqs[r].pc = "save"
           /\ \/ reqs[r].op = "leave" /\ reqs[r].actor = u
              \/ reqs[r].op = "kick" /\ reqs[r].target = u
              \/ u \notin UsersOf(reqs[r].snap)]_vars

\* The room document implements the abstract membership of RoomOwnership.
OwnersOf(s) == {m.user : m \in {n \in s : n.role = "owner"}}

Ownership == INSTANCE RoomOwnership WITH
  phase <- status, owners <- OwnersOf(members), roster <- UsersOf(members)

OwnershipSpec == Ownership!Spec

-----------------------------------------------------------------------------
(* Liveness.                                                               *)

\* The event loop runs every handler to its end, and Redis expires a key with
\* a TTL.
Fairness == WF_vars(CacheExpire) /\ \A r \in Requests : WF_vars(Proceed(r))
FairSpec == Spec /\ Fairness

CacheIsRight == cache \in {NoEntry, Cardinality(members)}

\* Once the membership stops changing, the cached member count ends up right
\* and stays right: a count filled in too late goes with its TTL, although no
\* command deletes it, and later reads fill in the true one.
CountSettles == <>[][UNCHANGED members]_vars => <>[]CacheIsRight

-----------------------------------------------------------------------------
(* One request at a time.  Each of these is also what overlapping requests *)
(* may break.                                                              *)

Quiet == \A r \in Requests : reqs[r] = Idle

\* With no request in flight the cached member count is the room's.
QuietCache == Quiet => CacheIsRight

\* With no request in flight only members have an unread counter.
QuietUnread == Quiet => unread \subseteq UsersOf(members)

\* A room closes only on its owner's request, and by a leave only when he is
\* its last member.
OwnerCloses ==
  status = "open" /\ status' = "closed" =>
    \E r \in Requests :
      /\ reqs[r].pc = "drop" /\ reqs'[r].pc = "uncache"
      /\ IsOwner(members, reqs[r].actor)
      /\ reqs[r].op = "leave" => members' = Without(members, reqs[r].actor)

ClosesByOwner == [][OwnerCloses]_vars

\* The role of a member who stays changes only by a role change aimed at him
\* or by inheriting the room.
RoleRequested ==
  \A m \in members, n \in members' :
    m.user = n.user /\ m.role # n.role =>
      \E r \in Requests :
        /\ reqs'[r] # reqs[r]
        /\ \/ At(r, "role", "save") /\ reqs[r].target = m.user
           \/ At(r, "leave", "save") /\ n.role = "owner"

\* Whoever makes a member admin is the owner.
OwnerPromotes ==
  \A r \in Requests :
    At(r, "role", "save") /\ reqs[r].role = "admin" /\ members' # members
    /\ reqs'[r] # reqs[r] => IsOwner(members, reqs[r].actor)

\* When the owner leaves, the ownership goes to the admin who has been in the
\* room longest, or to the oldest member of a room without admins.
EldestInherits ==
  \A h \in members' :
    h.role = "owner" /\ status = "open" /\ ~IsOwner(members, h.user) =>
      \E m \in members :
        /\ m.user = h.user
        /\ \A n \in members : n # m /\ n.role # "owner" =>
             IF m.role = "admin" THEN n.role = "admin" => m.seat < n.seat
                                 ELSE n.role # "admin" /\ m.seat < n.seat
=============================================================================
