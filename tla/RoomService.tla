---------------------------- MODULE RoomService ----------------------------
(***************************************************************************)
(* One chat room: its MongoDB document, the Redis keys derived from it     *)
(* (cached response, invite tokens, unread counters, read receipts) and    *)
(* the HTTP and socket requests in flight on it, over every server         *)
(* instance.  A request is a JavaScript async function: between two of its *)
(* awaits any other request may run, so every awaited database or Redis    *)
(* command is one action and the request record holds what the function    *)
(* keeps in its local variables meanwhile.  Rooms share no state and an    *)
(* ObjectId is never reused, so one room stands for all of them.           *)
(***************************************************************************)
EXTENDS Naturals, FiniteSets

CONSTANTS
  Users,        \* authenticated, verified accounts
  Requests,     \* slots for requests in flight at the same time
  Operations,   \* the operations enabled in this instance of the model
  Privacy,      \* the values of isPrivate a room may be created with
  NoEntry,      \* the cache holds nothing for the room
  MaxSeat,      \* bound: places of the members array
  MaxSaves,     \* bound: whole-array saves of the document, the value of __v
  MaxInvites    \* bound: invite tokens live or spent

AllOperations == {"join", "leave", "kick", "role", "delete", "invite",
                  "redeem", "get", "send", "view", "mark", "abort"}

ASSUME OperationsAssumption == Operations \subseteq AllOperations
ASSUME PrivacyAssumption == Privacy \subseteq BOOLEAN
ASSUME BoundsAssumption == {MaxSeat, MaxSaves, MaxInvites} \subseteq Nat

VARIABLES
  status,     \* "none" before createRoom, "open", "closed" once deleted
  private,    \* isPrivate
  members,    \* the members array: a set of records with their place in it
  version,    \* __v, the version key Mongoose keeps in the document
  cache,      \* room:{id}, reduced to its memberCount
  live,       \* invite:{token} keys that can still be redeemed
  spent,      \* invite tokens taken by GETDEL
  unread,     \* users with an unread:{user}:{room} counter
  receipts,   \* users with a lastread:{user}:{room} timestamp
  reqs        \* the request in each slot

docVars == <<status, private, members, version>>
inviteVars == <<live, spent>>
keyVars == <<unread, receipts>>
vars == <<docVars, cache, inviteVars, keyVars, reqs>>

-----------------------------------------------------------------------------
(* The document's members, and what a request remembers of them.           *)

Roles == {"owner", "admin", "member"}
Rank == [owner |-> 3, admin |-> 2, member |-> 1]
Member == [user : Users, seat : Nat, role : Roles]

Steps == {"gated", "save", "drop", "push", "store", "uncache", "unread",
          "receipts", "find", "fill", "count", "incr", "view", "mark"}

Idle == [pc |-> "idle"]

Request == [pc : Steps, op : AllOperations, actor : Users, target : Users,
            role : {"admin", "member"}, snap : SUBSET Member, ver : Nat,
            left : SUBSET Users]

\* A handler awaiting step pc, with nothing loaded yet.
Call(op, pc, actor) ==
  [pc |-> pc, op |-> op, actor |-> actor, target |-> actor, role |-> "member",
   snap |-> {}, ver |-> 0, left |-> {}]

UsersOf(s) == {m.user : m \in s}
Without(s, u) == {m \in s : m.user # u}
IsMember(u) == status = "open" /\ u \in UsersOf(members)
IsOwner(s, u) == \E m \in s : m.user = u /\ m.role = "owner"

\* Faulty: the leaver is not excluded.
CandidatesWithSelf(s, u) ==
  LET admins == {m \in s : m.role = "admin"} IN IF admins # {} THEN admins ELSE s

\* The first admin of the array other than u, and the first other member when
\* there is no admin: the candidates of leaveRoom for the ownership.
Candidates(s, u) ==
  LET others == Without(s, u)
      admins == {m \in others : m.role = "admin"}
  IN  IF admins # {} THEN admins ELSE others

\* Faulty: the last candidate instead of the first.
YoungestHeirs(s, u) ==
  {h \in Candidates(s, u) : \A m \in Candidates(s, u) : h.seat >= m.seat}

Heirs(s, u) ==
  {h \in Candidates(s, u) : \A m \in Candidates(s, u) : h.seat <= m.seat}

\* The array with the entry at h's place given role.
WithRole(s, h, role) ==
  {IF m.seat = h.seat THEN [m EXCEPT !.role = role] ELSE m : m \in s}

-----------------------------------------------------------------------------
(* Moving a request along.                                                 *)

Enabled(r, op) == op \in Operations /\ status # "none" /\ reqs[r] = Idle
At(r, op, pc) == reqs[r].pc = pc /\ reqs[r].op = op
Become(r, q) == reqs' = [reqs EXCEPT ![r] = q]
Goto(r, pc) == reqs' = [reqs EXCEPT ![r].pc = pc]
Return(r) == Become(r, Idle)

\* Room.findById(roomId): the request keeps the document and its version.
Load(r, q, pc) ==
  Become(r, [q EXCEPT !.pc = pc, !.snap = members, !.ver = version])

\* Faulty: a leave does not invalidate the cache.
FirstCleanupUnread(op) == "unread"

\* The first Redis command after the document was written, and the next one.
FirstCleanup(op) == IF op = "kick" THEN "unread" ELSE "uncache"

Finish(r, done) ==
  LET op == reqs[r].op IN
  CASE done = "uncache" /\ op \in {"leave", "delete"} -> Goto(r, "unread")
    [] done = "unread" /\ op \in {"leave", "delete"} -> Goto(r, "receipts")
    [] done = "unread" /\ op = "kick" -> Goto(r, "uncache")
    [] OTHER -> Return(r)

\* Faulty: the last writer wins.
FreshUnversioned(r) == status = "open"

\* document.save() after an assignment to room.members: the whole array is
\* set where _id and __v still match, and __v is incremented.
Fresh(r) == status = "open" /\ version = reqs[r].ver

\* Faulty: __v is compared but not incremented.
SaveArraySameVersion(r, new) ==
  /\ Fresh(r)
  /\ members' = new
  /\ LET q == reqs[r] IN
     Become(r, [Call(q.op, FirstCleanup(q.op), q.actor) EXCEPT !.left = q.left])
  /\ UNCHANGED <<status, private, version, cache, inviteVars, keyVars>>

SaveArray(r, new) ==
  /\ Fresh(r)
  /\ version < MaxSaves
  /\ members' = new
  /\ version' = version + 1
  /\ LET q == reqs[r] IN
     Become(r, [Call(q.op, FirstCleanup(q.op), q.actor) EXCEPT !.left = q.left])
  /\ UNCHANGED <<status, private, cache, inviteVars, keyVars>>

\* Faulty: $push without the {$not: {$elemMatch}} guard.
PushableTwice(u) == status = "open"

\* findOneAndUpdate with {$not: {$elemMatch}} and $push: one atomic command
\* that neither reads nor writes __v.
Pushable(u) == status = "open" /\ u \notin UsersOf(members)

Push(u) ==
  /\ Pushable(u)
  /\ \E last \in members :
       /\ \A m \in members : m.seat <= last.seat
       /\ last.seat < MaxSeat
       /\ members' = members \cup
            {[user |-> u, seat |-> last.seat + 1, role |-> "member"]}
  /\ UNCHANGED <<status, private, version>>

-----------------------------------------------------------------------------
(* createRoom, joinRoom, createInvite, joinViaInvite                       *)

CreateRoom(u) ==
  /\ status = "none"
  /\ status' = "open"
  /\ private' \in Privacy
  /\ members' = {[user |-> u, seat |-> 1, role |-> "owner"]}
  /\ UNCHANGED <<version, cache, inviteVars, keyVars, reqs>>

\* The paths of joinRoom that push nothing (404, 403, already a member)
\* change no state.
JoinRoom(r, u) ==
  /\ Enabled(r, "join")
  /\ ~private
  /\ Push(u)
  /\ Become(r, Call("join", "uncache", u))
  /\ UNCHANGED <<cache, inviteVars, keyVars>>

InviteCheck(r, u) ==
  /\ Enabled(r, "invite")
  /\ IsMember(u)
  /\ Become(r, Call("invite", "store", u))
  /\ UNCHANGED <<docVars, cache, inviteVars, keyVars>>

InviteStore(r) ==
  /\ At(r, "invite", "store")
  /\ live + spent < MaxInvites
  /\ live' = live + 1
  /\ Return(r)
  /\ UNCHANGED <<docVars, cache, spent, keyVars>>

InviteExpire ==
  /\ live > 0
  /\ live' = live - 1
  /\ UNCHANGED <<docVars, cache, spent, keyVars, reqs>>

\* Faulty: the token is read by GET and stays.
RedeemTokenAgain(r, u) ==
  /\ Enabled(r, "redeem")
  /\ live > 0
  /\ Become(r, Call("redeem", "push", u))
  /\ UNCHANGED <<docVars, cache, inviteVars, keyVars>>

RedeemToken(r, u) ==
  /\ Enabled(r, "redeem")
  /\ live > 0
  /\ live' = live - 1
  /\ spent' = spent + 1
  /\ Become(r, Call("redeem", "push", u))
  /\ UNCHANGED <<docVars, cache, keyVars>>

RedeemPush(r) ==
  /\ At(r, "redeem", "push")
  /\ Push(reqs[r].actor)
  /\ Goto(r, "uncache")
  /\ UNCHANGED <<cache, inviteVars, keyVars>>

\* The room is gone or the user is in it already: the token is spent anyway.
RedeemNothing(r) ==
  /\ At(r, "redeem", "push")
  /\ ~Pushable(reqs[r].actor)
  /\ Return(r)
  /\ UNCHANGED <<docVars, cache, inviteVars, keyVars>>

-----------------------------------------------------------------------------
(* leaveRoom                                                               *)

\* A member of role owner without any other member deletes the room.
LeaveRead(r, u) ==
  /\ Enabled(r, "leave")
  /\ IsMember(u)
  /\ LET q == [Call("leave", "save", u) EXCEPT !.left = {u}]
         last == IsOwner(members, u) /\ Without(members, u) = {}
     IN  Load(r, q, IF last THEN "drop" ELSE "save")
  /\ UNCHANGED <<docVars, cache, inviteVars, keyVars>>

LeaveSave(r) ==
  LET q == reqs[r]
      rest == Without(q.snap, q.actor)
  IN
  /\ At(r, "leave", "save")
  /\ \/ /\ ~IsOwner(q.snap, q.actor)
        /\ SaveArray(r, rest)
     \/ /\ IsOwner(q.snap, q.actor)
        /\ \E h \in Heirs(q.snap, q.actor) :
             SaveArray(r, WithRole(rest, h, "owner"))

-----------------------------------------------------------------------------
(* kickMember, setMemberRole, deleteRoom                                   *)

\* requireRoomRole(minRole), a query of its own before the service is called.
MinRole == [kick |-> "admin", role |-> "admin", delete |-> "owner"]

Gate(r, op, actor, target, role) ==
  /\ Enabled(r, op)
  /\ status = "open"
  /\ \E m \in members : m.user = actor /\ Rank[m.role] >= Rank[MinRole[op]]
  /\ Become(r, [Call(op, "gated", actor) EXCEPT !.target = target, !.role = role])
  /\ UNCHANGED <<docVars, cache, inviteVars, keyVars>>

KickGate(r, actor, target) == Gate(r, "kick", actor, target, "member")
RoleGate(r, actor, target, role) == Gate(r, "role", actor, target, role)
DeleteGate(r, actor) == Gate(r, "delete", actor, actor, "member")

\* Faulty: the owner can be kicked.
MayKickOwner(q) == {q.actor, q.target} \subseteq UsersOf(members)

MayKick(q) ==
  \E a, t \in members :
    /\ a.user = q.actor /\ t.user = q.target
    /\ t.role # "owner"
    /\ ~(a.role = "admin" /\ Rank[t.role] >= Rank["admin"])

\* Faulty: admins promote.
MayAssignAsAdmin(q) ==
  /\ q.actor \in UsersOf(members)
  /\ \E t \in members : t.user = q.target /\ t.role # "owner"

MayAssign(q) ==
  \E a, t \in members :
    /\ a.user = q.actor /\ t.user = q.target
    /\ t.role # "owner"
    /\ ~(a.role = "admin" /\ q.role = "admin")

MayDelete(q) == IsOwner(members, q.actor)

KickRead(r) ==
  /\ At(r, "kick", "gated")
  /\ status = "open" /\ MayKick(reqs[r])
  /\ Load(r, [reqs[r] EXCEPT !.left = {reqs[r].target}], "save")
  /\ UNCHANGED <<docVars, cache, inviteVars, keyVars>>

RoleRead(r) ==
  /\ At(r, "role", "gated")
  /\ status = "open" /\ MayAssign(reqs[r])
  /\ Load(r, reqs[r], "save")
  /\ UNCHANGED <<docVars, cache, inviteVars, keyVars>>

DeleteRead(r) ==
  /\ At(r, "delete", "gated")
  /\ status = "open" /\ MayDelete(reqs[r])
  /\ Load(r, [reqs[r] EXCEPT !.left = UsersOf(members)], "drop")
  /\ UNCHANGED <<docVars, cache, inviteVars, keyVars>>

\* 404 or 403: the room is gone or the service's own checks refuse.
Refuse(r) ==
  /\ reqs[r].pc = "gated"
  /\ ~ /\ status = "open"
       /\ CASE reqs[r].op = "kick" -> MayKick(reqs[r])
            [] reqs[r].op = "role" -> MayAssign(reqs[r])
            [] OTHER -> MayDelete(reqs[r])
  /\ Return(r)
  /\ UNCHANGED <<docVars, cache, inviteVars, keyVars>>

\* Faulty: the actor is filtered out instead of the target.
KickSaveActor(r) ==
  /\ At(r, "kick", "save")
  /\ SaveArray(r, Without(reqs[r].snap, reqs[r].actor))

KickSave(r) ==
  /\ At(r, "kick", "save")
  /\ SaveArray(r, Without(reqs[r].snap, reqs[r].target))

\* target.role = newRole; save(): only members.<i>.role is set, where __v still
\* matches, and __v stays.  Nothing is written when the role is not modified.
RoleSave(r) ==
  /\ At(r, "role", "save")
  /\ Fresh(r)
  /\ \E t \in reqs[r].snap :
       /\ t.user = reqs[r].target
       /\ members' = IF t.role = reqs[r].role THEN members
                     ELSE WithRole(members, t, reqs[r].role)
  /\ Return(r)
  /\ UNCHANGED <<status, private, version, cache, inviteVars, keyVars>>

\* VersionError or DocumentNotFoundError: the request fails with a 500.
SaveStale(r) ==
  /\ reqs[r].pc = "save"
  /\ ~Fresh(r)
  /\ Return(r)
  /\ UNCHANGED <<docVars, cache, inviteVars, keyVars>>

\* Room.deleteOne({_id}), of leaveRoom and deleteRoom: whatever the document
\* has become since it was loaded.
DropRoom(r) ==
  /\ reqs[r].pc = "drop"
  /\ status' = "closed"
  /\ members' = {}
  /\ Goto(r, "uncache")
  /\ UNCHANGED <<private, version, cache, inviteVars, keyVars>>

-----------------------------------------------------------------------------
(* The Redis commands after the document was written.                      *)

DelCache(r) ==
  /\ reqs[r].pc = "uncache"
  /\ cache' = NoEntry
  /\ Finish(r, "uncache")
  /\ UNCHANGED <<docVars, inviteVars, keyVars>>

\* clearUnread: deleteRoom awaits one DEL per member it had loaded.
ClearUnread(r) ==
  /\ reqs[r].pc = "unread"
  /\ \E u \in reqs[r].left :
       /\ unread' = unread \ {u}
       /\ IF reqs[r].left = {u} THEN Finish(r, "unread")
          ELSE reqs' = [reqs EXCEPT ![r].left = @ \ {u}]
  /\ UNCHANGED <<docVars, cache, inviteVars, receipts>>

\* clearReceipt of the leaver, or clearAllReceipts of the members loaded.
ClearReceipts(r) ==
  /\ reqs[r].pc = "receipts"
  /\ receipts' = receipts \ (IF reqs[r].op = "leave" THEN {reqs[r].actor}
                             ELSE UsersOf(reqs[r].snap))
  /\ Finish(r, "receipts")
  /\ UNCHANGED <<docVars, cache, inviteVars, unread>>

-----------------------------------------------------------------------------
(* getRoomById                                                             *)

\* requireMember lets everyone read a public or a deleted room, and a private
\* room always has a member who may: some caller can always get here.
GetMiss(r, u) ==
  /\ Enabled(r, "get")
  /\ cache = NoEntry
  /\ Become(r, Call("get", "find", u))
  /\ UNCHANGED <<docVars, cache, inviteVars, keyVars>>

GetFind(r) ==
  /\ At(r, "get", "find")
  /\ IF status = "open" THEN Load(r, reqs[r], "fill") ELSE Return(r)
  /\ UNCHANGED <<docVars, cache, inviteVars, keyVars>>

GetFill(r) ==
  /\ At(r, "get", "fill")
  /\ cache' = Cardinality(reqs[r].snap)
  /\ Return(r)
  /\ UNCHANGED <<docVars, inviteVars, keyVars>>

\* Faulty: the key is set without a TTL.
CacheStays == FALSE

\* SET ... EX ROOM_CACHE_TTL
CacheExpire ==
  /\ cache # NoEntry
  /\ cache' = NoEntry
  /\ UNCHANGED <<docVars, inviteVars, keyVars, reqs>>

-----------------------------------------------------------------------------
(* incrementUnread, resetUnread, markRead                                  *)

\* createMessage checks the sender's membership; the message itself is not
\* part of this module.
SendCheck(r, u) ==
  /\ Enabled(r, "send")
  /\ IsMember(u)
  /\ Become(r, Call("send", "count", u))
  /\ UNCHANGED <<docVars, cache, inviteVars, keyVars>>

CountRead(r) ==
  /\ At(r, "send", "count")
  /\ LET others == UsersOf(members) \ {reqs[r].actor} IN
     IF status = "open" /\ others # {}
     THEN Become(r, [reqs[r] EXCEPT !.pc = "incr", !.left = others])
     ELSE Return(r)
  /\ UNCHANGED <<docVars, cache, inviteVars, keyVars>>

IncrementUnread(r) ==
  /\ At(r, "send", "incr")
  /\ unread' = unread \cup reqs[r].left
  /\ Return(r)
  /\ UNCHANGED <<docVars, cache, inviteVars, receipts>>

\* GET /rooms/:id/messages: requireMember, then the page is read, then the
\* reader's counter is deleted and the receipt set without waiting for either.
ViewHistory(r, u) ==
  /\ Enabled(r, "view")
  /\ ~(status = "open" /\ private /\ ~IsMember(u))
  /\ Become(r, Call("view", "view", u))
  /\ UNCHANGED <<docVars, cache, inviteVars, keyVars>>

ViewMarks(r) ==
  /\ At(r, "view", "view")
  /\ unread' = unread \ {reqs[r].actor}
  /\ receipts' = receipts \cup {reqs[r].actor}
  /\ Return(r)
  /\ UNCHANGED <<docVars, cache, inviteVars>>

\* The socket event read:mark.
MarkCheck(r, u) ==
  /\ Enabled(r, "mark")
  /\ IsMember(u)
  /\ Become(r, Call("mark", "mark", u))
  /\ UNCHANGED <<docVars, cache, inviteVars, keyVars>>

MarkRead(r) ==
  /\ At(r, "mark", "mark")
  /\ receipts' = receipts \cup {reqs[r].actor}
  /\ Return(r)
  /\ UNCHANGED <<docVars, cache, inviteVars, unread>>

-----------------------------------------------------------------------------
\* A process that dies, or a database command that is rejected, ends the
\* handler where it stands: nothing is rolled back and nothing is retried.
Abort(r) ==
  /\ "abort" \in Operations
  /\ reqs[r] # Idle
  /\ Return(r)
  /\ UNCHANGED <<docVars, cache, inviteVars, keyVars>>

Init ==
  /\ status = "none" /\ private = FALSE /\ members = {} /\ version = 0
  /\ cache = NoEntry
  /\ live = 0 /\ spent = 0
  /\ unread = {} /\ receipts = {}
  /\ reqs = [r \in Requests |-> Idle]

Arrive(r) ==
  \E u \in Users :
    \/ JoinRoom(r, u) \/ InviteCheck(r, u) \/ RedeemToken(r, u)
    \/ LeaveRead(r, u) \/ DeleteGate(r, u) \/ GetMiss(r, u)
    \/ SendCheck(r, u) \/ ViewHistory(r, u) \/ MarkCheck(r, u)
    \/ \E t \in Users :
         \/ KickGate(r, u, t)
         \/ \E role \in {"admin", "member"} : RoleGate(r, u, t, role)

Proceed(r) ==
  \/ InviteStore(r) \/ RedeemPush(r) \/ RedeemNothing(r)
  \/ LeaveSave(r) \/ KickRead(r) \/ RoleRead(r) \/ DeleteRead(r) \/ Refuse(r)
  \/ KickSave(r) \/ RoleSave(r) \/ SaveStale(r) \/ DropRoom(r)
  \/ DelCache(r) \/ ClearUnread(r) \/ ClearReceipts(r)
  \/ GetFind(r) \/ GetFill(r)
  \/ CountRead(r) \/ IncrementUnread(r) \/ ViewMarks(r) \/ MarkRead(r)

Next ==
  \/ \E u \in Users : CreateRoom(u)
  \/ \E r \in Requests : Arrive(r) \/ Proceed(r) \/ Abort(r)
  \/ InviteExpire \/ CacheExpire

Spec == Init /\ [][Next]_vars
=============================================================================
