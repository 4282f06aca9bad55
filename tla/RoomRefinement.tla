--------------------------- MODULE RoomRefinement ---------------------------
(***************************************************************************)
(* RoomService implements RoomOwnership, and never lets a member in or the *)
(* owner out in another way than it promises: what each write of the       *)
(* document does to its users and its owner, how many the invites let in,  *)
(* and what requests that take turns do to roles and leave behind in       *)
(* Redis.                                                                  *)
(***************************************************************************)
EXTENDS RoomServiceProofs, MCRoomScenes

\* The owner of a set of members in order is one user.
LEMMA OwnerIsOne ==
  ASSUME NEW s, OneOwner(s)
  PROVE  \E o \in s : o.role = "owner" /\ OwnersOf(s) = {o.user}
<1>1. PICK o \in s : \A m \in s : (m.role = "owner") <=> (m = o)
  BY DEF OneOwner
<1> QED
  BY <1>1 DEF OwnersOf

\* What a good copy whose version is current says of users and owner.
LEMMA CopyUsers ==
  ASSUME NEW s, Agrees(s), OneOwner(s), SingleOwner, UniqueMembers, status = "open"
  PROVE  UsersOf(s) \subseteq UsersOf(members) /\ OwnersOf(s) = OwnersOf(members)
<1>1. PICK o \in s : \A m \in s : (m.role = "owner") <=> (m = o)
  BY DEF OneOwner
<1>2. PICK n \in members : n.user = o.user /\ n.role = "owner"
  BY <1>1 DEF Agrees
<1>3. \A m \in members : (m.role = "owner") <=> (m = n)
  BY <1>2 DEF SingleOwner, OneOwner
<1>4. OwnersOf(s) = {o.user} /\ OwnersOf(members) = {n.user}
  BY <1>1, <1>3 DEF OwnersOf
<1>5. UsersOf(s) \subseteq UsersOf(members)
  BY DEF Agrees, UsersOf
<1> QED
  BY <1>2, <1>4, <1>5

\* Giving an entry a role moves nobody in or out.
LEMMA WithRoleUsers ==
  ASSUME NEW s \in SUBSET Member, NEW h, NEW role
  PROVE  UsersOf(WithRole(s, h, role)) = UsersOf(s)
<1>1. \A m \in s :
        (IF m.seat = h.seat THEN [m EXCEPT !.role = role] ELSE m).user = m.user
  BY DEF Member
<1> QED
  BY <1>1 DEF UsersOf, WithRole

\* $push adds one user.
LEMMA PushEffect ==
  ASSUME NEW u, Push(u)
  PROVE  /\ status = "open" /\ status' = status /\ u \notin UsersOf(members)
         /\ UsersOf(members') = UsersOf(members) \cup {u}
         /\ OwnersOf(members') = OwnersOf(members)
<1>1. PICK e : members' = members \cup {e} /\ e.user = u /\ e.role # "owner"
  <2>1. PICK last \in members :
          members' = members \cup
            {[user |-> u, seat |-> last.seat + 1, role |-> "member"]}
    BY DEF Push
  <2>2. PICK e : e = [user |-> u, seat |-> last.seat + 1, role |-> "member"]
    OBVIOUS
  <2>3. e.user = u /\ e.role # "owner"
    BY <2>2
  <2> QED
    BY <2>1, <2>2, <2>3
<1>2. UsersOf(members') = UsersOf(members) \cup {u}
  BY <1>1 DEF UsersOf
<1>3. OwnersOf(members') = OwnersOf(members)
  <2>1. {n \in members' : n.role = "owner"} = {n \in members : n.role = "owner"}
    BY <1>1
  <2> QED
    BY <2>1 DEF OwnersOf
<1> QED
  BY <1>2, <1>3 DEF Push, Pushable

\* Taking out a member who is not the owner leaves the owner where he is.
LEMMA RemovalEffect ==
  ASSUME NEW s, NEW u, ~IsOwner(s, u)
  PROVE  /\ UsersOf(Without(s, u)) = UsersOf(s) \ {u}
         /\ OwnersOf(Without(s, u)) = OwnersOf(s)
BY DEF UsersOf, OwnersOf, Without, IsOwner

\* A kick removes its target, perhaps others who joined meanwhile, and never
\* the owner.
LEMMA KickEffect ==
  ASSUME Inv, NEW r \in Requests, KickSave(r)
  PROVE  /\ status = "open" /\ status' = status
         /\ UsersOf(members') \subseteq UsersOf(members)
         /\ OwnersOf(members') = OwnersOf(members)
<1> DEFINE s == reqs[r].snap
           t == reqs[r].target
<1>1. GoodCopy(reqs[r]) /\ Fresh(r) /\ members' = Without(s, t) /\ ~IsOwner(s, t)
  BY DEF KickSave, SaveArray, At, Inv, OwnerInv, CopiesAgree, GoodCopy
<1>2. Agrees(s) /\ OneOwner(s) /\ status = "open"
  BY <1>1 DEF GoodCopy, Fresh
<1>3. UsersOf(s) \subseteq UsersOf(members) /\ OwnersOf(s) = OwnersOf(members)
  BY <1>2, CopyUsers DEF Inv, OwnerInv
<1> QED
  BY <1>1, <1>2, <1>3, RemovalEffect DEF KickSave, SaveArray

\* A leave removes the leaver; when he is the owner, one of those who stay
\* becomes the owner.
LEMMA LeaveEffect ==
  ASSUME Inv, NEW r \in Requests, LeaveSave(r)
  PROVE  LET u == reqs[r].actor IN
         /\ status = "open" /\ status' = status
         /\ UsersOf(members') \subseteq UsersOf(members) \ {u}
         /\ \/ OwnersOf(members') = OwnersOf(members)
            \/ /\ OwnersOf(members) = {u} /\ u \in Users
               /\ \E h \in UsersOf(members') : OwnersOf(members') = {h}
<1> DEFINE s == reqs[r].snap
           u == reqs[r].actor
<1>1. /\ GoodCopy(reqs[r]) /\ Fresh(r) /\ s \in SUBSET Member /\ u \in Users
      /\ status' = status
  BY BusySlot
  DEF LeaveSave, SaveArray, At, Inv, OwnerInv, CopiesAgree, TypeInv, TypeOK, Slots,
      Request
<1>2. Agrees(s) /\ OneOwner(s) /\ Distinct(s) /\ status = "open"
  BY <1>1 DEF GoodCopy, Fresh
<1>3. UsersOf(s) \subseteq UsersOf(members) /\ OwnersOf(s) = OwnersOf(members)
  BY <1>2, CopyUsers DEF Inv, OwnerInv
<1>4. UsersOf(Without(s, u)) = UsersOf(s) \ {u}
  BY DEF UsersOf, Without
<1>5. CASE ~IsOwner(s, u)
  <2>1. members' = Without(s, u)
    BY <1>5 DEF LeaveSave, SaveArray
  <2> QED
    BY <1>1, <1>2, <1>3, <1>5, <2>1, RemovalEffect
<1>6. CASE IsOwner(s, u)
  <2>1. PICK h \in Heirs(s, u) : members' = WithRole(Without(s, u), h, "owner")
    BY <1>6 DEF LeaveSave, SaveArray
  <2>2. OneOwner(members')
    BY <1>1, <1>2, <1>6, <2>1, HandOverKeepsOwner
  <2>3. UsersOf(members') = UsersOf(Without(s, u))
    BY <1>1, <2>1, WithoutType, WithRoleUsers
  <2>4. OwnersOf(s) = {u}
    BY <1>2, <1>6 DEF OneOwner, OwnersOf, IsOwner
  <2>5. \E h2 \in UsersOf(members') : OwnersOf(members') = {h2}
    BY <2>2, OwnerIsOne DEF UsersOf
  <2> QED
    BY <1>1, <1>2, <1>3, <1>4, <2>3, <2>4, <2>5
<1> QED
  BY <1>5, <1>6

\* A role change moves nobody in or out and leaves the owner alone.
LEMMA RoleEffect ==
  ASSUME Inv, NEW r \in Requests, RoleSave(r)
  PROVE  /\ status = "open" /\ status' = status
         /\ UsersOf(members') = UsersOf(members)
         /\ OwnersOf(members') = OwnersOf(members)
<1> DEFINE role == reqs[r].role
<1>1. /\ reqs[r].snap \in SUBSET Member /\ role \in {"admin", "member"}
      /\ GoodCopy(reqs[r]) /\ Fresh(r) /\ members \in SUBSET Member
      /\ status = "open" /\ status' = status
  BY BusySlot
  DEF RoleSave, Fresh, At, Inv, OwnerInv, CopiesAgree, TypeInv, TypeOK, Slots, Request
<1>2. PICK t \in reqs[r].snap :
        /\ t.user = reqs[r].target
        /\ members' = IF t.role = role THEN members ELSE WithRole(members, t, role)
  BY DEF RoleSave
<1>3. \A m \in members : m.seat = t.seat => m.role # "owner"
  BY <1>1, <1>2
  DEF RoleSave, At, Fresh, GoodCopy, IsOwner, Agrees, Inv, OwnerInv, UniqueMembers, Distinct
<1>4. CASE members' = members
  BY <1>1, <1>4
<1>5. CASE members' = WithRole(members, t, role)
  <2> DEFINE f(m) == IF m.seat = t.seat THEN [m EXCEPT !.role = role] ELSE m
  <2>1. \A m \in members : f(m).user = m.user /\ (f(m).role = "owner" <=> m.role = "owner")
    BY <1>1, <1>3 DEF Member
  <2>2. members' = {f(m) : m \in members}
    BY <1>5 DEF WithRole
  <2> HIDE DEF f
  <2>3. UsersOf(members') = UsersOf(members)
    BY <2>1, <2>2 DEF UsersOf
  <2>4. OwnersOf(members') = OwnersOf(members)
    BY <2>1, <2>2 DEF OwnersOf
  <2> QED
    BY <1>1, <2>3, <2>4
<1> QED
  BY <1>2, <1>4, <1>5

-----------------------------------------------------------------------------
\* Only these steps write the document.
LEMMA Writers ==
  ASSUME [Next]_vars, UNCHANGED <<status, members>> => FALSE
  PROVE  \/ \E u \in Users : CreateRoom(u)
         \/ \E r \in Requests :
              \/ \E u \in Users : JoinRoom(r, u)
              \/ RedeemPush(r) \/ LeaveSave(r) \/ KickSave(r) \/ RoleSave(r)
              \/ DropRoom(r)
<1>1. CASE UNCHANGED vars
  BY <1>1 DEF vars, docVars
<1>2. CASE Next
  <2>1. InviteExpire \/ CacheExpire => UNCHANGED <<status, members>>
    BY DEF InviteExpire, CacheExpire, docVars
  <2>2. ASSUME NEW r \in Requests, Abort(r) PROVE UNCHANGED <<status, members>>
    BY <2>2 DEF Abort, docVars
  <2>3. ASSUME NEW r \in Requests, Arrive(r)
        PROVE  \/ \E u \in Users : JoinRoom(r, u)
               \/ UNCHANGED <<status, members>>
    BY <2>3 DEF Arrive, InviteCheck, RedeemToken, LeaveRead, DeleteGate, KickGate,
                RoleGate, Gate, GetMiss, SendCheck, ViewHistory, MarkCheck, docVars
  <2>4. ASSUME NEW r \in Requests, Proceed(r)
        PROVE  \/ RedeemPush(r) \/ LeaveSave(r) \/ KickSave(r) \/ RoleSave(r)
               \/ DropRoom(r) \/ UNCHANGED <<status, members>>
    BY <2>4 DEF Proceed, InviteStore, RedeemNothing, KickRead, RoleRead, DeleteRead,
                Refuse, SaveStale, DelCache, ClearUnread, ClearReceipts, GetFind,
                GetFill, CountRead, IncrementUnread, ViewMarks, MarkRead, docVars
  <2> QED
    BY <1>2, <2>1, <2>2, <2>3, <2>4 DEF Next
<1> QED
  BY <1>1, <1>2

\* Every step of RoomService is a step of RoomOwnership or leaves its state.
LEMMA OwnershipStep ==
  Inv /\ [Next]_vars => [Ownership!Next]_(Ownership!vars)
<1> SUFFICES ASSUME Inv, [Next]_vars
             PROVE  Ownership!Next \/ UNCHANGED Ownership!vars
  OBVIOUS
<1>1. CASE UNCHANGED <<status, members>>
  BY <1>1 DEF Ownership!vars, OwnersOf, UsersOf
<1>2. ASSUME NEW u \in Users, CreateRoom(u) PROVE Ownership!Next
  <2>1. UsersOf(members') = {u} /\ OwnersOf(members') = {u}
    BY <1>2 DEF CreateRoom, UsersOf, OwnersOf
  <2> QED
    BY <1>2, <2>1 DEF CreateRoom, Ownership!Next, Ownership!Found
<1>3. ASSUME NEW u \in Users, Push(u) PROVE Ownership!Next
  BY <1>3, PushEffect DEF Ownership!Next, Ownership!Admit
<1>4. ASSUME NEW r \in Requests, LeaveSave(r) PROVE Ownership!Next
  <2> DEFINE u == reqs[r].actor
  <2>1. /\ status = "open" /\ status' = status
        /\ UsersOf(members') \subseteq UsersOf(members) \ {u}
        /\ UsersOf(members') \subseteq Users
        /\ OwnersOf(members') \subseteq UsersOf(members')
    BY <1>4, LeaveEffect, TypeStep DEF Inv, TypeInv, TypeOK, Member, UsersOf, OwnersOf
  <2>2. CASE OwnersOf(members') = OwnersOf(members)
    BY <2>1, <2>2 DEF Ownership!Next, Ownership!Dismiss
  <2>3. ASSUME OwnersOf(members) = {u}, u \in Users,
               NEW h \in UsersOf(members'), OwnersOf(members') = {h}
        PROVE  Ownership!Next
    BY <2>1, <2>3 DEF Ownership!Next, Ownership!HandOver
  <2> QED
    BY <1>4, <2>2, <2>3, LeaveEffect
<1>5. ASSUME NEW r \in Requests, KickSave(r) PROVE Ownership!Next
  <2>1. OwnersOf(members') \subseteq UsersOf(members')
    BY DEF UsersOf, OwnersOf
  <2> QED
    BY <1>5, <2>1, KickEffect DEF Ownership!Next, Ownership!Dismiss
<1>6. ASSUME NEW r \in Requests, RoleSave(r) PROVE UNCHANGED Ownership!vars
  BY <1>6, RoleEffect DEF Ownership!vars
<1>7. ASSUME NEW r \in Requests, DropRoom(r)
      PROVE  Ownership!Next \/ UNCHANGED Ownership!vars
  <2>1. UsersOf(members') = {} /\ OwnersOf(members') = {} /\ status' = "closed"
    BY <1>7 DEF DropRoom, UsersOf, OwnersOf
  <2>2. status \in {"open", "closed"}
    BY <1>7 DEF DropRoom, Inv, TypeInv, TypeOK, Started
  <2>3. CASE status = "open"
    BY <2>1, <2>3 DEF Ownership!Next, Ownership!Close
  <2>4. CASE status = "closed"
    <3>1. UsersOf(members) = {} /\ OwnersOf(members) = {}
      BY <2>4 DEF Inv, OwnerInv, SingleOwner, UsersOf, OwnersOf
    <3> QED
      BY <2>1, <2>4, <3>1 DEF Ownership!vars
  <2> QED
    BY <2>2, <2>3, <2>4
<1> QED
  <2>1. ASSUME NEW r \in Requests, RedeemPush(r) PROVE \E u \in Users : Push(u)
    BY <2>1, BusySlot DEF RedeemPush, At, Inv, TypeInv, TypeOK, Slots, Request
  <2>2. ASSUME NEW r \in Requests, NEW u \in Users, JoinRoom(r, u) PROVE Push(u)
    BY <2>2 DEF JoinRoom
  <2> QED
    BY <1>1, <1>2, <1>3, <1>4, <1>5, <1>6, <1>7, <2>1, <2>2, Writers

\* The room document, under any interleaving of requests, implements the
\* abstract membership.
THEOREM OwnershipRefined == Spec => OwnershipSpec
<1>1. Init => Ownership!Init
  BY DEF Init, Ownership!Init, OwnersOf, UsersOf
<1>2. Init => Inv
  BY TypeInit, OwnerInit DEF Inv
<1>3. Inv /\ [Next]_vars => Inv'
  BY TypeStep, OwnerStep DEF Inv
<1> QED
  BY <1>1, <1>2, <1>3, OwnershipStep, PTL DEF Spec, OwnershipSpec, Ownership!Spec

-----------------------------------------------------------------------------
\* One step lets a user in only by his own join or invite.
LEMMA EntryStep ==
  ASSUME Inv, [Next]_vars, NEW u \in UsersOf(members') \ UsersOf(members)
  PROVE  \/ status = "none"
         \/ \E r \in Requests :
              /\ reqs[r].pc \in {"idle", "push"}
              /\ reqs'[r].pc = "uncache"
              /\ reqs'[r].op \in {"join", "redeem"} /\ reqs'[r].actor = u
<1>1. reqs \in Slots
  BY DEF Inv, TypeInv, TypeOK, Slots
<1>2. ASSUME NEW v \in Users, CreateRoom(v) PROVE status = "none"
  BY <1>2 DEF CreateRoom
<1>3. ASSUME NEW r \in Requests, NEW v \in Users, JoinRoom(r, v)
      PROVE  /\ reqs[r].pc = "idle" /\ reqs'[r].pc = "uncache"
             /\ reqs'[r].op = "join" /\ reqs'[r].actor = u
  <2>1. u = v
    BY <1>3, PushEffect DEF JoinRoom
  <2> QED
    BY <1>1, <1>3, <2>1 DEF JoinRoom, Enabled, Idle, Become, Call, Slots
<1>4. ASSUME NEW r \in Requests, RedeemPush(r)
      PROVE  /\ reqs[r].pc = "push" /\ reqs'[r].pc = "uncache"
             /\ reqs'[r].op = "redeem" /\ reqs'[r].actor = u
  <2>1. u = reqs[r].actor
    BY <1>4, PushEffect DEF RedeemPush
  <2>2. reqs[r] \in Request
    BY <1>1, <1>4, BusySlot DEF RedeemPush, At
  <2> QED
    BY <1>1, <1>4, <2>1, <2>2 DEF RedeemPush, At, Goto, Slots, Request
<1>5. ASSUME NEW r \in Requests, DropRoom(r) PROVE FALSE
  BY <1>5 DEF DropRoom, UsersOf
<1>6. ASSUME NEW r \in Requests, LeaveSave(r) \/ KickSave(r) \/ RoleSave(r) PROVE FALSE
  BY <1>6, LeaveEffect, KickEffect, RoleEffect
<1> QED
  BY <1>2, <1>3, <1>4, <1>5, <1>6, Writers DEF UsersOf

\* One step takes the owner out of a room that stays open only by his leave.
LEMMA OwnerOutStep ==
  ASSUME Inv, [Next]_vars, NEW u \in UsersOf(members) \ UsersOf(members'),
         IsOwner(members, u), status' = "open"
  PROVE  \E r \in Requests :
           At(r, "leave", "save") /\ reqs[r].actor = u /\ reqs'[r].pc = "uncache"
<1>1. u \in OwnersOf(members) /\ u \notin OwnersOf(members')
  BY DEF OwnersOf, UsersOf, IsOwner
<1>2. ASSUME NEW v \in Users, CreateRoom(v) PROVE FALSE
  BY <1>2 DEF CreateRoom, Inv, OwnerInv, SingleOwner, UsersOf
<1>3. ASSUME NEW v, Push(v) PROVE FALSE
  BY <1>1, <1>3, PushEffect
<1>4. ASSUME NEW r \in Requests, KickSave(r) \/ RoleSave(r) PROVE FALSE
  BY <1>1, <1>4, KickEffect, RoleEffect
<1>5. ASSUME NEW r \in Requests, DropRoom(r) PROVE FALSE
  BY <1>5 DEF DropRoom
<1>6. ASSUME NEW r \in Requests, LeaveSave(r)
      PROVE  At(r, "leave", "save") /\ reqs[r].actor = u /\ reqs'[r].pc = "uncache"
  <2>1. reqs[r].actor = u
    BY <1>1, <1>6, LeaveEffect
  <2>2. reqs \in Slots /\ At(r, "leave", "save")
    BY <1>6 DEF LeaveSave, Inv, TypeInv, TypeOK, Slots
  <2>3. \E c : Become(r, c) /\ c.pc = "uncache"
    BY <1>6, <2>2 DEF LeaveSave, SaveArray, FirstCleanup, Call, At
  <2> QED
    BY <2>1, <2>2, <2>3 DEF Become, Slots
<1> QED
  <2>1. ~UNCHANGED <<status, members>>
    BY DEF UsersOf
  <2> QED
    BY <1>2, <1>3, <1>4, <1>5, <1>6, <2>1, Writers DEF JoinRoom, RedeemPush

\* No interleaving of requests brings a removed member back.
THEOREM EntriesAreJoins == Spec => EntersByJoining
<1>1. Init => Inv
  BY TypeInit, OwnerInit DEF Inv
<1>2. Inv /\ [Next]_vars => Inv'
  BY TypeStep, OwnerStep DEF Inv
<1>3. Inv /\ [Next]_vars =>
        [\A u \in UsersOf(members') \ UsersOf(members) :
           \/ status = "none"
           \/ \E r \in Requests :
                /\ reqs[r].pc \in {"idle", "push"}
                /\ reqs'[r].pc = "uncache"
                /\ reqs'[r].op \in {"join", "redeem"} /\ reqs'[r].actor = u]_vars
  BY EntryStep
<1> QED
  BY <1>1, <1>2, <1>3, PTL DEF Spec, EntersByJoining

\* No interleaving of requests takes the owner out against his will.
THEOREM OwnersLeaveThemselves == Spec => OwnerGoesByLeaving
<1>1. Init => Inv
  BY TypeInit, OwnerInit DEF Inv
<1>2. Inv /\ [Next]_vars => Inv'
  BY TypeStep, OwnerStep DEF Inv
<1>3. Inv /\ [Next]_vars =>
        [\A u \in UsersOf(members) \ UsersOf(members') :
           IsOwner(members, u) /\ status' = "open" =>
             \E r \in Requests :
               At(r, "leave", "save") /\ reqs[r].actor = u
               /\ reqs'[r].pc = "uncache"]_vars
  BY OwnerOutStep
<1> QED
  BY <1>1, <1>2, <1>3, PTL DEF Spec, OwnerGoesByLeaving

-----------------------------------------------------------------------------
(* Nobody is overwritten.                                                  *)

\* A save takes out nobody its copy holds but the one it is aimed at.
LEMMA SaveOuts ==
  ASSUME Inv, NEW r \in Requests, LeaveSave(r) \/ KickSave(r),
         NEW u, u \notin UsersOf(members')
  PROVE  /\ reqs'[r] # reqs[r] /\ reqs[r].pc = "save"
         /\ \/ reqs[r].op = "leave" /\ reqs[r].actor = u
            \/ reqs[r].op = "kick" /\ reqs[r].target = u
            \/ u \notin UsersOf(reqs[r].snap)
<1> DEFINE s == reqs[r].snap
<1>1. reqs \in Slots /\ reqs[r].pc = "save" /\ s \in SUBSET Member
  BY BusySlot DEF LeaveSave, KickSave, At, Inv, TypeInv, TypeOK, Slots, Request
<1>2. reqs'[r] # reqs[r]
  <2>1. PICK new : SaveArray(r, new)
    BY DEF LeaveSave, KickSave
  <2>2. PICK q : q.pc # "save" /\ Become(r, q)
    BY <2>1 DEF SaveArray, Call, FirstCleanup
  <2> QED
    BY <1>1, <2>2 DEF Become, Slots
<1>3. CASE KickSave(r)
  <2>1. UsersOf(members') = UsersOf(s) \ {reqs[r].target}
    BY <1>3 DEF KickSave, SaveArray, UsersOf, Without
  <2> QED
    BY <1>1, <1>2, <1>3, <2>1 DEF KickSave, At
<1>4. CASE LeaveSave(r)
  <2>1. PICK rest \in SUBSET Member : rest = Without(s, reqs[r].actor)
    BY <1>1, WithoutType
  <2>2. UsersOf(rest) = UsersOf(s) \ {reqs[r].actor}
    BY <2>1 DEF UsersOf, Without
  <2>3. members' = rest \/ \E h : members' = WithRole(rest, h, "owner")
    BY <1>4, <2>1 DEF LeaveSave, SaveArray
  <2>4. UsersOf(members') = UsersOf(s) \ {reqs[r].actor}
    BY <2>2, <2>3, WithRoleUsers
  <2> QED
    BY <1>1, <1>2, <1>4, <2>4 DEF LeaveSave, At
<1> QED
  BY <1>3, <1>4

\* Whatever requests overlap, a save overwrites nobody who was in the copy it
\* is made from and whom it does not mean: saves lose joins, and only joins.
THEOREM SavesLoseOnlyJoins == Spec => OldMembersStay
<1>1. Init => Inv
  BY TypeInit, OwnerInit DEF Inv
<1>2. Inv /\ [Next]_vars => Inv'
  BY TypeStep, OwnerStep DEF Inv
<1>3. ASSUME Inv, [Next]_vars, NEW u \in UsersOf(members) \ UsersOf(members'),
             status' = "open"
      PROVE  \E r \in Requests :
               /\ reqs'[r] # reqs[r] /\ reqs[r].pc = "save"
               /\ \/ reqs[r].op = "leave" /\ reqs[r].actor = u
                  \/ reqs[r].op = "kick" /\ reqs[r].target = u
                  \/ u \notin UsersOf(reqs[r].snap)
  <2>1. ASSUME NEW v \in Users, CreateRoom(v) PROVE FALSE
    BY <1>3, <2>1 DEF CreateRoom, Inv, OwnerInv, SingleOwner, UsersOf
  <2>2. ASSUME NEW v, Push(v) PROVE FALSE
    BY <1>3, <2>2, PushEffect
  <2>3. ASSUME NEW r \in Requests, RoleSave(r) \/ DropRoom(r) PROVE FALSE
    BY <1>3, <2>3, RoleEffect DEF DropRoom
  <2>4. ~UNCHANGED <<status, members>>
    BY <1>3 DEF UsersOf
  <2> QED
    BY <1>3, <2>1, <2>2, <2>3, <2>4, SaveOuts, Writers DEF JoinRoom, RedeemPush
<1>4. Inv /\ [Next]_vars =>
        [\A u \in UsersOf(members) \ UsersOf(members') :
           status' = "open" =>
             \E r \in Requests :
               /\ reqs'[r] # reqs[r] /\ reqs[r].pc = "save"
               /\ \/ reqs[r].op = "leave" /\ reqs[r].actor = u
                  \/ reqs[r].op = "kick" /\ reqs[r].target = u
                  \/ u \notin UsersOf(reqs[r].snap)]_vars
  BY <1>3
<1> QED
  BY <1>1, <1>2, <1>4, PTL DEF Spec, OldMembersStay

-----------------------------------------------------------------------------
(* What a step leaves in the slot it takes: which requests can be found    *)
(* with a document loaded, past the role check or with a token spent.      *)

Loaded == {"gated", "save", "drop", "fill"}

\* The steps that leave a request there.
Loads(r) ==
  \/ \E u \in Users : LeaveRead(r, u)
  \/ \E op, u, t, role : Gate(r, op, u, t, role)
  \/ KickRead(r) \/ RoleRead(r) \/ DeleteRead(r) \/ GetFind(r)

Leaves(r, q) ==
  /\ Become(r, q)
  /\ reqs[r] # Idle \/ q # Idle
  /\ q.pc = "push" => \E u \in Users : RedeemToken(r, u)
  /\ q.pc \in Loaded => Loads(r)

\* A request that goes to another step or ends.
LEMMA SlotMoves ==
  ASSUME Inv, NEW r \in Requests, reqs[r].pc # "idle", NEW pc, Goto(r, pc) \/ Return(r)
  PROVE  \E q : q.pc \in {pc, "idle"} /\ Become(r, q)
<1>1. CASE Goto(r, pc)
  <2>1. PICK q : q = [reqs[r] EXCEPT !.pc = pc]
    OBVIOUS
  <2>2. q.pc = pc /\ Become(r, q)
    BY <1>1, <2>1, BusySlot DEF Goto, Become, Inv, TypeInv, TypeOK, Slots, Request
  <2> QED
    BY <2>2
<1>2. CASE Return(r)
  BY <1>2 DEF Return, Idle
<1> QED
  BY <1>1, <1>2

\* A request that loads the document.
LEMMA SlotLoads ==
  ASSUME Inv, NEW r \in Requests, NEW q \in Request, NEW pc, Load(r, q, pc)
  PROVE  \E n : /\ Become(r, n) /\ n.pc = pc /\ n.snap = members
                /\ n.op = q.op /\ n.actor = q.actor /\ n.target = q.target
                /\ n.role = q.role /\ n.left = q.left
<1>1. PICK n : n = [q EXCEPT !.pc = pc, !.snap = members, !.ver = version]
  OBVIOUS
<1>2. /\ n.pc = pc /\ n.snap = members /\ n.op = q.op /\ n.actor = q.actor
      /\ n.target = q.target /\ n.role = q.role /\ n.left = q.left
  BY <1>1 DEF Request
<1> QED
  BY <1>1, <1>2 DEF Load

\* What the step of a request leaves in its slot.
LEMMA SlotTakes ==
  ASSUME Inv, NEW r \in Requests, Arrive(r) \/ Proceed(r) \/ Abort(r)
  PROVE  \E q : Leaves(r, q)
<1>r. ASSUME Return(r), reqs[r].pc # "idle"
      PROVE  \E q : Leaves(r, q)
  BY <1>r DEF Leaves, Return, Idle, Loaded
<1>q. ASSUME NEW q, Become(r, q), q.pc \notin {"idle", "push"},
             q.pc \in Loaded => Loads(r)
      PROVE  \E n : Leaves(r, n)
  BY <1>q DEF Leaves, Idle
<1>2. CASE Abort(r)
  BY <1>2 DEF Abort, Leaves, Return, Idle, Loaded
<1>3. CASE Arrive(r)
  <2>1. ASSUME NEW op, NEW pc \in {"uncache", "store", "find", "count", "view", "mark"},
               NEW u, Become(r, Call(op, pc, u))
        PROVE  \E q : Leaves(r, q)
    <3>1. Call(op, pc, u).pc = pc
      BY DEF Call
    <3>2. pc \notin {"idle", "push"} \cup Loaded
      BY <2>1 DEF Loaded
    <3> QED
      BY <2>1, <3>1, <3>2, <1>q
  <2>2. ASSUME NEW u \in Users, RedeemToken(r, u) PROVE \E q : Leaves(r, q)
    <3>1. PICK q : q = Call("redeem", "push", u)
      OBVIOUS
    <3>2. q.pc = "push" /\ Become(r, q)
      BY <2>2, <3>1 DEF RedeemToken, Call
    <3> QED
      BY <2>2, <3>2 DEF Leaves, Idle, Loaded
  <2>3. ASSUME NEW op, NEW u, NEW t, NEW role, Gate(r, op, u, t, role)
        PROVE  \E q : Leaves(r, q)
    <3>1. PICK q : q = [Call(op, "gated", u) EXCEPT !.target = t, !.role = role]
      OBVIOUS
    <3>2. q.pc = "gated" /\ Become(r, q)
      BY <2>3, <3>1 DEF Gate, Call
    <3> QED
      BY <2>3, <3>2, <1>q DEF Loads
  <2>4. ASSUME NEW u \in Users, LeaveRead(r, u) PROVE \E q : Leaves(r, q)
    <3>1. PICK c : c = [Call("leave", "save", u) EXCEPT !.left = {u}]
      OBVIOUS
    <3>2. c \in Request
      BY <3>1 DEF Call, Request, AllOperations, Steps
    <3>3. PICK pc \in {"drop", "save"} : Load(r, c, pc)
      BY <2>4, <3>1 DEF LeaveRead
    <3>4. \E q : Become(r, q) /\ q.pc = pc
      BY <3>2, <3>3, SlotLoads
    <3> QED
      BY <2>4, <3>4, <1>q DEF Loads
  <2> QED
    BY <1>3, <2>1, <2>2, <2>3, <2>4
    DEF Arrive, JoinRoom, InviteCheck, DeleteGate, KickGate, RoleGate, GetMiss,
        SendCheck, ViewHistory, MarkCheck
<1>4. CASE Proceed(r)
  <2>1. reqs[r].pc # "idle" => reqs[r] \in Request
    BY BusySlot DEF Inv, TypeInv, TypeOK, Slots
  <2>2. CASE RedeemPush(r) \/ DropRoom(r)
    <3>1. reqs[r].pc # "idle" /\ Goto(r, "uncache")
      BY <2>2 DEF RedeemPush, DropRoom, At
    <3>2. PICK q : q = [reqs[r] EXCEPT !.pc = "uncache"]
      OBVIOUS
    <3>3. q.pc = "uncache" /\ Become(r, q)
      BY <2>1, <3>1, <3>2 DEF Goto, Become, Request
    <3> QED
      BY <3>3, <1>q DEF Loaded
  <2>3. CASE LeaveSave(r) \/ KickSave(r)
    <3>1. PICK q : q.pc \in {"unread", "uncache"} /\ Become(r, q)
      BY <2>3 DEF LeaveSave, KickSave, SaveArray, Call, FirstCleanup
    <3> QED
      BY <3>1, <1>q DEF Loaded
  <2>4. CASE KickRead(r) \/ RoleRead(r) \/ DeleteRead(r) \/ GetFind(r)
    <3>1. reqs[r] \in Request /\ reqs[r].pc # "idle"
      BY <2>1, <2>4 DEF KickRead, RoleRead, DeleteRead, GetFind, At
    <3>2. PICK left, pc : /\ pc \in {"save", "drop", "fill"}
                          /\ left \in SUBSET Users
                          /\ \/ Return(r)
                             \/ Load(r, [reqs[r] EXCEPT !.left = left], pc)
                             \/ Load(r, reqs[r], pc)
      <4>1. UsersOf(members) \in SUBSET Users /\ {reqs[r].target} \in SUBSET Users
        BY <3>1 DEF UsersOf, Inv, TypeInv, TypeOK, Member, Request
      <4> QED
        BY <2>4, <4>1 DEF KickRead, RoleRead, DeleteRead, GetFind
    <3>3. CASE \E c \in Request : Load(r, c, pc)
      <4>1. \E q : Become(r, q) /\ q.pc = pc
        BY <3>3, SlotLoads
      <4> QED
        BY <2>4, <3>2, <4>1, <1>q DEF Loads
    <3>4. [reqs[r] EXCEPT !.left = left] \in Request
      BY <3>1, <3>2 DEF Request
    <3> QED
      BY <1>r, <3>1, <3>2, <3>3, <3>4
  <2>5. CASE DelCache(r) \/ ClearReceipts(r) \/ ClearUnread(r)
    <3>1. reqs[r] \in Request /\ reqs[r].pc \in {"uncache", "unread", "receipts"}
      BY <2>1, <2>5 DEF DelCache, ClearReceipts, ClearUnread
    <3>2. ASSUME NEW pc \in {"unread", "receipts", "uncache"}, Goto(r, pc)
          PROVE  \E q : Leaves(r, q)
      <4>1. PICK q : q.pc \in {pc, "idle"} /\ Become(r, q)
        BY <3>1, <3>2, SlotMoves
      <4>2. reqs[r] # Idle
        BY <3>1 DEF Idle
      <4> QED
        BY <3>2, <4>1, <4>2 DEF Leaves, Loaded
    <3>3. ASSUME NEW u, reqs' = [reqs EXCEPT ![r].left = @ \ {u}], reqs[r].pc = "unread"
          PROVE  \E q : Leaves(r, q)
      <4>1. PICK q : q = [reqs[r] EXCEPT !.left = @ \ {u}]
        OBVIOUS
      <4>2. q.pc = "unread" /\ Become(r, q)
        BY <2>1, <3>3, <4>1 DEF Become, Request
      <4> QED
        BY <4>2, <1>q DEF Loaded
    <3> QED
      BY <2>5, <3>1, <3>2, <3>3, <1>r DEF DelCache, ClearReceipts, ClearUnread, Finish
  <2>6. CASE CountRead(r)
    <3>1. PICK q : q = [reqs[r] EXCEPT !.pc = "incr", !.left = UsersOf(members) \ {reqs[r].actor}]
      OBVIOUS
    <3>2. q.pc = "incr" /\ reqs[r].pc # "idle"
      BY <2>1, <2>6, <3>1 DEF CountRead, At, Request
    <3>3. Become(r, q) \/ Return(r)
      BY <2>6, <3>1 DEF CountRead
    <3> QED
      BY <3>2, <3>3, <1>q, <1>r DEF Loaded
  <2>7. CASE Return(r) /\ reqs[r].pc # "idle"
    BY <2>7, <1>r
  <2> QED
    BY <1>4, <2>2, <2>3, <2>4, <2>5, <2>6, <2>7
    DEF Proceed, InviteStore, RedeemNothing, Refuse, RoleSave, SaveStale, GetFill,
        IncrementUnread, ViewMarks, MarkRead, At
<1> QED
  BY <1>2, <1>3, <1>4

\* Every step creates the room, leaves the requests and the document alone, or
\* is the step of one request.
LEMMA SlotNext ==
  ASSUME Inv, [Next]_vars
  PROVE  \/ \E u \in Users : CreateRoom(u)
         \/ UNCHANGED <<docVars, reqs>>
         \/ \E r \in Requests : \E q : Leaves(r, q)
<1>1. CASE UNCHANGED vars \/ InviteExpire \/ CacheExpire
  BY <1>1 DEF vars, InviteExpire, CacheExpire
<1> QED
  BY <1>1, SlotTakes DEF Next

-----------------------------------------------------------------------------
(* Invite tokens.  A token is spent before the member it admits is pushed, *)
(* so the bound on the members counts the requests in between as well.     *)

Redeeming == {r \in Requests : At(r, "redeem", "push")}

Admitted ==
  /\ IsFiniteSet(Redeeming)
  /\ private => Cardinality(members) + Cardinality(Redeeming) <= 1 + spent

\* A step that leaves a slot without a push to come adds nobody to those who are
\* redeeming.
LEMMA RedeemingStep ==
  ASSUME Inv, NEW r \in Requests, NEW q, q.pc # "push", Become(r, q)
  PROVE  Redeeming' = Redeeming \ {r}
BY DEF Redeeming, At, Become, Inv, TypeInv, TypeOK

\* The same for a request that goes to another step or ends.
LEMMA RedeemingMoves ==
  ASSUME Inv, NEW r \in Requests, reqs[r].pc # "idle", NEW pc, pc # "push",
         Goto(r, pc) \/ Return(r)
  PROVE  Redeeming' = Redeeming \ {r}
<1>1. PICK q : q.pc \in {pc, "idle"} /\ Become(r, q)
  BY SlotMoves
<1> QED
  BY <1>1, RedeemingStep

\* What a step does to the requests between a spent token and its push.
LEMMA RedeemingNext ==
  ASSUME Inv, [Next]_vars
  PROVE  \/ Redeeming' \subseteq Redeeming
         \/ \E r \in Requests, u \in Users : RedeemToken(r, u)
<1>1. CASE UNCHANGED reqs
  BY <1>1 DEF Redeeming, At
<1>2. ASSUME NEW r \in Requests, NEW q, Become(r, q), q.pc # "push"
      PROVE  Redeeming' \subseteq Redeeming
  BY <1>2, RedeemingStep
<1> QED
  BY <1>1, <1>2, SlotNext DEF CreateRoom, Leaves

\* Entries of distinct users are at most as many as the entries of a finite
\* array that has all these users.
LEMMA FewerUsers ==
  ASSUME NEW s, IsFiniteSet(s), NEW t, Distinct(t), UsersOf(t) \subseteq UsersOf(s)
  PROVE  IsFiniteSet(t) /\ Cardinality(t) <= Cardinality(s)
<1> DEFINE f == [m \in t |-> CHOOSE n \in s : n.user = m.user]
<1>1. \A m \in t : \E n \in s : n.user = m.user
  BY DEF UsersOf
<1>2. \A m \in t : f[m] \in s /\ f[m].user = m.user
  BY <1>1
<1>3. f \in [t -> s]
  BY <1>2
<1>4. \A m, n \in t : f[m] = f[n] => m = n
  BY <1>2 DEF Distinct
<1> HIDE DEF f
<1>5. f \in Injection(t, s)
  BY <1>3, <1>4 DEF Injection, IsInjective
<1> QED
  BY <1>5, FS_Injection

\* A push adds one entry.
LEMMA PushCount ==
  ASSUME Inv, NEW u, Push(u)
  PROVE  Cardinality(members') <= Cardinality(members) + 1
<1>1. PICK e : members' = members \cup {e}
  BY DEF Push
<1>2. IsFiniteSet(members) /\ Cardinality(members) \in Nat
  BY FS_CardinalityType DEF Inv, TypeInv, Finite
<1> QED
  BY <1>1, <1>2, FS_AddElement

\* A room's privacy is chosen when it is created, and spent tokens only add up.
LEMMA RoomNumbers ==
  ASSUME [Next]_vars, spent \in Nat
  PROVE  /\ private' = private \/ \E u \in Users : CreateRoom(u)
         /\ spent' >= spent
<1>1. CASE UNCHANGED vars
  BY <1>1 DEF vars, docVars, inviteVars
<1>2. CASE Next
  <2>1. ASSUME NEW u \in Users, CreateRoom(u) PROVE spent' >= spent
    BY <2>1 DEF CreateRoom, inviteVars
  <2>2. InviteExpire \/ CacheExpire => private' = private /\ spent' >= spent
    BY DEF InviteExpire, CacheExpire, docVars, inviteVars
  <2>3. ASSUME NEW r \in Requests, Abort(r)
        PROVE  private' = private /\ spent' >= spent
    BY <2>3 DEF Abort, docVars, inviteVars
  <2>4. ASSUME NEW r \in Requests, Arrive(r)
        PROVE  private' = private /\ spent' >= spent
    <3>1. PICK u \in Users :
            \/ JoinRoom(r, u) \/ InviteCheck(r, u) \/ LeaveRead(r, u) \/ GetMiss(r, u)
            \/ SendCheck(r, u) \/ ViewHistory(r, u) \/ MarkCheck(r, u)
            \/ RedeemToken(r, u)
            \/ \E op, t, role : Gate(r, op, u, t, role)
      BY <2>4 DEF Arrive, KickGate, RoleGate, DeleteGate
    <3>2. CASE RedeemToken(r, u)
      BY <3>2 DEF RedeemToken, docVars
    <3>3. CASE ~RedeemToken(r, u)
      <4>1. private' = private /\ spent' = spent
        BY <3>1, <3>3 DEF JoinRoom, Push, InviteCheck, LeaveRead, Gate, GetMiss,
                          SendCheck, ViewHistory, MarkCheck, docVars, inviteVars
      <4> QED
        BY <4>1
    <3> QED
      BY <3>2, <3>3
  <2>5. ASSUME NEW r \in Requests, Proceed(r)
        PROVE  private' = private /\ spent' >= spent
    <3>1. CASE RedeemPush(r) \/ LeaveSave(r) \/ KickSave(r) \/ RoleSave(r) \/ DropRoom(r)
      BY <3>1 DEF RedeemPush, Push, LeaveSave, KickSave, RoleSave, SaveArray, DropRoom,
                  inviteVars
    <3> QED
      BY <2>5, <3>1
      DEF Proceed, InviteStore, RedeemNothing, KickRead, RoleRead, DeleteRead, Refuse,
          SaveStale, DelCache, ClearUnread, ClearReceipts, GetFind, GetFill, CountRead,
          IncrementUnread, ViewMarks, MarkRead, docVars, inviteVars
  <2> QED
    BY <1>2, <2>1, <2>2, <2>3, <2>4, <2>5 DEF Next
<1> QED
  BY <1>1, <1>2

LEMMA AdmittedInit == Init => Admitted
<1> SUFFICES ASSUME Init PROVE Admitted
  OBVIOUS
<1>1. Redeeming = {}
  BY DEF Init, Redeeming, At, Idle
<1> QED
  BY <1>1, FS_EmptySet DEF Init, Admitted

LEMMA AdmittedStep == Inv /\ Admitted /\ [Next]_vars => Admitted'
<1> SUFFICES ASSUME Inv, Admitted, [Next]_vars PROVE Admitted'
  OBVIOUS
<1>1. Inv'
  BY TypeStep, OwnerStep DEF Inv
<1>2. /\ IsFiniteSet(members) /\ Cardinality(members) \in Nat /\ spent \in Nat
      /\ IsFiniteSet(members') /\ Cardinality(members') \in Nat /\ spent' \in Nat
      /\ IsFiniteSet(Redeeming) /\ Cardinality(Redeeming) \in Nat
      /\ UniqueMembers'
  BY <1>1, FS_CardinalityType DEF Inv, OwnerInv, TypeInv, TypeOK, Finite, Admitted
<1>3. ASSUME NEW r \in Requests, NEW u \in Users, RedeemToken(r, u)
      PROVE  Admitted'
  <2>1. reqs[r] = Idle /\ reqs' = [reqs EXCEPT ![r] = Call("redeem", "push", u)]
    BY <1>3 DEF RedeemToken, Enabled, Become
  <2>2. r \notin Redeeming /\ Redeeming' = Redeeming \cup {r}
    BY <2>1 DEF Redeeming, At, Idle, Call, Inv, TypeInv, TypeOK
  <2>3. IsFiniteSet(Redeeming') /\ Cardinality(Redeeming') = Cardinality(Redeeming) + 1
    BY <1>2, <2>2, FS_AddElement
  <2>4. private' = private /\ members' = members /\ spent' = spent + 1
    BY <1>3 DEF RedeemToken, docVars
  <2> QED
    BY <1>2, <2>3, <2>4 DEF Admitted
<1>4. ASSUME Redeeming' \subseteq Redeeming PROVE Admitted'
  <2>1. /\ IsFiniteSet(Redeeming') /\ Cardinality(Redeeming') \in Nat
        /\ Cardinality(Redeeming') <= Cardinality(Redeeming)
    BY <1>2, <1>4, FS_Subset, FS_CardinalityType
  <2>2. spent' >= spent
    BY <1>2, RoomNumbers
  <2>3. ASSUME NEW u \in Users, CreateRoom(u) PROVE Admitted'
    <3>1. Redeeming' = {}
      BY <2>3 DEF CreateRoom, Redeeming, At, Inv, TypeInv, Started
    <3>2. Cardinality(members') = 1
      BY <2>3, FS_Singleton DEF CreateRoom
    <3> QED
      BY <1>2, <2>2, <3>1, <3>2, FS_EmptySet DEF Admitted
  <2>4. ASSUME private' = private,
               Cardinality(members') <= Cardinality(members)
        PROVE  Admitted'
    BY <1>2, <2>1, <2>2, <2>4 DEF Admitted
  <2>5. ASSUME UNCHANGED <<status, members>>, private' = private PROVE Admitted'
    BY <1>2, <2>4, <2>5
  <2>6. ASSUME NEW r \in Requests, LeaveSave(r) \/ KickSave(r) \/ RoleSave(r)
        PROVE  Admitted'
    <3>1. private' = private
      BY <2>6 DEF LeaveSave, KickSave, RoleSave, SaveArray
    <3>2. UsersOf(members') \subseteq UsersOf(members)
      BY <2>6, LeaveEffect, KickEffect, RoleEffect
    <3>3. Distinct(members')
      BY <1>2 DEF UniqueMembers
    <3> QED
      BY <1>2, <2>4, <3>1, <3>2, <3>3, FewerUsers
  <2>7. ASSUME NEW r \in Requests, DropRoom(r) PROVE Admitted'
    BY <1>2, <2>4, <2>7, FS_EmptySet DEF DropRoom
  <2>8. ASSUME NEW r \in Requests, NEW u \in Users, JoinRoom(r, u) PROVE Admitted'
    BY <2>1, <2>8 DEF JoinRoom, Push, Admitted
  <2>9. ASSUME NEW r \in Requests, RedeemPush(r) PROVE Admitted'
    <3>1. r \in Redeeming
      BY <2>9 DEF RedeemPush, Redeeming
    <3>2. Redeeming' = Redeeming \ {r}
      BY <2>9, RedeemingMoves DEF RedeemPush, At
    <3>3. Cardinality(Redeeming') = Cardinality(Redeeming) - 1
      BY <1>2, <3>1, <3>2, FS_RemoveElement
    <3>4. Cardinality(members') <= Cardinality(members) + 1 /\ private' = private
      BY <2>9, PushCount DEF RedeemPush, Push
    <3> QED
      BY <1>2, <2>1, <2>2, <3>3, <3>4 DEF Admitted
  <2>10. private' = private \/ \E u \in Users : CreateRoom(u)
    BY <1>2, RoomNumbers
  <2> QED
    BY <2>3, <2>5, <2>6, <2>7, <2>8, <2>9, <2>10, Writers
<1> QED
  BY <1>3, <1>4, RedeemingNext

\* A private room never holds more members than its founder and the tokens
\* spent, however many invites are redeemed, left and redeemed again at once.
THEOREM InvitesAdmitOneEach == Spec => []InvitesAdmitOne
<1>1. Init => Inv
  BY TypeInit, OwnerInit DEF Inv
<1>2. Inv /\ [Next]_vars => Inv'
  BY TypeStep, OwnerStep DEF Inv
<1>3. Inv /\ Admitted => InvitesAdmitOne
  <2> SUFFICES ASSUME Inv, Admitted, private
               PROVE  Cardinality(members) <= 1 + spent
    BY DEF InvitesAdmitOne
  <2>1. Cardinality(members) \in Nat /\ Cardinality(Redeeming) \in Nat /\ spent \in Nat
    BY FS_CardinalityType DEF Inv, TypeInv, TypeOK, Finite, Admitted
  <2> QED
    BY <2>1 DEF Admitted
<1> QED
  BY <1>1, <1>2, <1>3, AdmittedInit, AdmittedStep, PTL DEF Spec

-----------------------------------------------------------------------------
(* One request at a time.  The invariant says of the one request in flight *)
(* that the document is still the one it loaded, checked or was let in by, *)
(* and, for Redis, what its remaining commands have yet to put right.      *)

OneBusy == \A r, q \in Busy : r = q

DocRight(q) ==
  /\ q.pc \in {"save", "drop", "fill"} => q.snap = members
  /\ q.pc \in {"save", "drop"} => status = "open"
  /\ q.pc = "drop" =>
       /\ q.op \in {"leave", "delete"}
       /\ IsOwner(members, q.actor)
       /\ q.op = "leave" => Without(members, q.actor) = {}
  /\ q.pc = "gated" /\ q.op \in {"kick", "role"} =>
       \E a \in members : a.user = q.actor /\ a.role # "member"
  /\ q.pc = "save" /\ q.op = "role" =>
       \E a \in members : /\ a.user = q.actor /\ a.role # "member"
                          /\ ~(a.role = "admin" /\ q.role = "admin")

TurnInv == OneBusy /\ \A r \in Busy : DocRight(reqs[r])

\* The one slot that a step takes is the only one that can be busy before and
\* after it.
LEMMA OneTurn ==
  ASSUME Inv, OneBusy, OneBusy', NEW r \in Requests, NEW q, Become(r, q),
         reqs[r] # Idle \/ q # Idle
  PROVE  reqs'[r] = q /\ Busy \subseteq {r} /\ Busy' \subseteq {r}
<1>1. /\ reqs'[r] = q
      /\ \A s \in Requests \ {r} : reqs'[s] = reqs[s]
  BY DEF Become, Inv, TypeInv, TypeOK
<1>2. r \in Busy \/ r \in Busy'
  BY <1>1 DEF Busy
<1>3. \A s \in Requests \ {r} : s \in Busy <=> s \in Busy'
  BY <1>1 DEF Busy
<1> QED
  BY <1>1, <1>2, <1>3 DEF OneBusy, Busy

\* What a request is left with when it loads the document or passes the gate.
LEMMA LoadsRight ==
  ASSUME Inv, NEW r \in Requests, NEW q, Loads(r), Become(r, q),
         r \in Busy => DocRight(reqs[r])
  PROVE  DocRight(q)'
<1>1. reqs'[r] = q /\ (reqs[r].pc # "idle" => reqs[r] \in Request)
  BY BusySlot DEF Become, Inv, TypeInv, TypeOK, Slots
<1>2. UNCHANGED <<status, members>>
  BY DEF Loads, LeaveRead, Gate, KickRead, RoleRead, DeleteRead, GetFind, docVars
<1>3. SUFFICES DocRight(q)
  BY <1>2 DEF DocRight
<1>4. ASSUME NEW n, Become(r, n) PROVE n = q
  BY <1>1, <1>4 DEF Become, Inv, TypeInv, TypeOK
<1>5. ASSUME NEW u \in Users, LeaveRead(r, u) PROVE DocRight(q)
  <2>1. PICK c : c = [Call("leave", "save", u) EXCEPT !.left = {u}]
    OBVIOUS
  <2>2. c \in Request /\ c.op = "leave" /\ c.actor = u
    BY <2>1 DEF Call, Request, AllOperations, Steps
  <2>3. PICK pc : /\ Load(r, c, pc) /\ pc \in {"drop", "save"}
                  /\ pc = "drop" => IsOwner(members, u) /\ Without(members, u) = {}
    BY <1>5, <2>1 DEF LeaveRead
  <2>4. q.pc = pc /\ q.snap = members /\ q.op = "leave" /\ q.actor = u
    BY <1>4, <2>2, <2>3, SlotLoads
  <2> QED
    BY <1>5, <2>3, <2>4 DEF LeaveRead, IsMember, DocRight
<1>6. ASSUME NEW op, NEW u, NEW t, NEW role, Gate(r, op, u, t, role) PROVE DocRight(q)
  <2>1. PICK n : n = [Call(op, "gated", u) EXCEPT !.target = t, !.role = role]
    OBVIOUS
  <2>2. n.pc = "gated" /\ n.op = op /\ n.actor = u /\ Become(r, n)
    BY <1>6, <2>1 DEF Gate, Call
  <2>3. op \in {"kick", "role"} => \E m \in members : m.user = u /\ m.role # "member"
    BY <1>6 DEF Gate, MinRole, Rank
  <2> QED
    BY <1>4, <2>2, <2>3 DEF DocRight
<1>7. CASE KickRead(r)
  <2>1. PICK c : c = [reqs[r] EXCEPT !.left = {reqs[r].target}]
    OBVIOUS
  <2>2. c \in Request /\ c.op = "kick"
    BY <1>1, <1>7, <2>1 DEF KickRead, At, Request
  <2>3. Load(r, c, "save") /\ status = "open"
    BY <1>7, <2>1 DEF KickRead
  <2>4. q.pc = "save" /\ q.snap = members /\ q.op = "kick"
    BY <1>4, <2>2, <2>3, SlotLoads
  <2> QED
    BY <2>3, <2>4 DEF DocRight
<1>8. CASE RoleRead(r)
  <2>1. reqs[r] \in Request /\ r \in Busy /\ reqs[r].pc = "gated" /\ reqs[r].op = "role"
    BY <1>1, <1>8 DEF RoleRead, At, Busy, Idle
  <2>2. /\ q.pc = "save" /\ q.snap = members /\ q.op = "role"
        /\ q.actor = reqs[r].actor /\ q.role = reqs[r].role /\ status = "open"
    BY <1>4, <1>8, <2>1, SlotLoads DEF RoleRead
  <2>3. \E a \in members : a.user = q.actor /\ a.role # "member"
    BY <2>1, <2>2 DEF DocRight
  <2>4. \E a \in members : a.user = q.actor /\ ~(a.role = "admin" /\ q.role = "admin")
    BY <1>8, <2>2 DEF RoleRead, MayAssign
  <2>5. \A a, b \in members : a.user = b.user => a = b
    BY DEF Inv, OwnerInv, UniqueMembers, Distinct
  <2> QED
    BY <2>2, <2>3, <2>4, <2>5 DEF DocRight
<1>9. CASE DeleteRead(r)
  <2>1. PICK c : c = [reqs[r] EXCEPT !.left = UsersOf(members)]
    OBVIOUS
  <2>2. c \in Request /\ c.op = "delete" /\ c.actor = reqs[r].actor
    BY <1>1, <1>9, <2>1
    DEF DeleteRead, At, Request, UsersOf, Inv, TypeInv, TypeOK, Member
  <2>3. Load(r, c, "drop") /\ status = "open" /\ IsOwner(members, c.actor)
    BY <1>9, <2>1, <2>2 DEF DeleteRead, MayDelete
  <2>4. q.pc = "drop" /\ q.snap = members /\ q.op = "delete" /\ q.actor = c.actor
    BY <1>4, <2>2, <2>3, SlotLoads
  <2> QED
    BY <2>3, <2>4 DEF DocRight
<1>10. CASE GetFind(r)
  <2>1. reqs[r] \in Request
    BY <1>1, <1>10 DEF GetFind, At
  <2>2. CASE Return(r)
    BY <1>4, <2>2 DEF Return, Idle, DocRight
  <2>3. CASE Load(r, reqs[r], "fill")
    <3>1. q.pc = "fill" /\ q.snap = members
      BY <1>4, <2>1, <2>3, SlotLoads
    <3> QED
      BY <3>1 DEF DocRight
  <2> QED
    BY <1>10, <2>2, <2>3 DEF GetFind
<1> QED
  BY <1>5, <1>6, <1>7, <1>8, <1>9, <1>10 DEF Loads

LEMMA TurnStep == Inv /\ TurnInv /\ [Next]_vars /\ OneBusy' => TurnInv'
<1> SUFFICES ASSUME Inv, TurnInv, [Next]_vars, OneBusy'
             PROVE  \A s \in Busy' : DocRight(reqs[s])'
  BY DEF TurnInv
<1>1. CASE UNCHANGED <<docVars, reqs>>
  BY <1>1 DEF TurnInv, Busy, DocRight, docVars
<1>2. ASSUME NEW u \in Users, CreateRoom(u) PROVE Busy' = {}
  <2>1. \A s \in Requests : reqs[s].pc = "idle"
    BY <1>2 DEF CreateRoom, Inv, TypeInv, Started
  <2>2. \A s \in Requests : reqs[s] \notin Request
    BY <2>1 DEF Request, Steps
  <2> QED
    BY <1>2, <2>2 DEF CreateRoom, Busy, Inv, TypeInv, TypeOK
<1>3. ASSUME NEW r \in Requests, NEW q, Leaves(r, q)
      PROVE  \A s \in Busy' : DocRight(reqs[s])'
  <2>1. reqs'[r] = q /\ Busy \subseteq {r} /\ Busy' \subseteq {r}
    BY <1>3, OneTurn DEF Leaves, TurnInv
  <2>2. DocRight(q)'
    <3>1. CASE q.pc \in Loaded
      BY <1>3, <3>1, LoadsRight DEF Leaves, TurnInv
    <3>2. CASE q.pc \notin Loaded
      BY <3>2 DEF DocRight, Loaded
    <3> QED
      BY <3>1, <3>2
  <2> QED
    BY <2>1, <2>2 DEF DocRight
<1> QED
  BY <1>1, <1>2, <1>3, SlotNext

\* The slot of a save changes.
LEMMA SaveMoves ==
  ASSUME Inv, NEW r \in Requests, LeaveSave(r) \/ KickSave(r) \/ RoleSave(r)
  PROVE  reqs[r].pc = "save" /\ reqs'[r] # reqs[r] /\ r \in Busy
<1>1. PICK q : q.pc # "save" /\ Become(r, q)
  BY DEF LeaveSave, KickSave, RoleSave, SaveArray, Call, FirstCleanup, Return, Idle
<1>2. reqs[r].pc = "save"
  BY DEF LeaveSave, KickSave, RoleSave, At
<1> QED
  BY <1>1, <1>2 DEF Become, Busy, Idle, Inv, TypeInv, TypeOK

\* A role that changes under a member who stays was asked to, or inherited.
LEMMA RolesStep ==
  ASSUME Inv, TurnInv, [Next]_vars
  PROVE  RoleRequested /\ OwnerPromotes
<1>d. \A m, n \in members : m.user = n.user \/ m.seat = n.seat => m = n
  BY DEF Inv, OwnerInv, UniqueMembers, Distinct
<1>1. ASSUME NEW m \in members, NEW n \in members', m.user = n.user, m.role # n.role
      PROVE  \E r \in Requests :
               /\ reqs'[r] # reqs[r]
               /\ \/ At(r, "role", "save") /\ reqs[r].target = m.user
                  \/ At(r, "leave", "save") /\ n.role = "owner"
  <2>1. n \notin members
    BY <1>1, <1>d
  <2>2. ASSUME NEW u \in Users, CreateRoom(u) PROVE FALSE
    BY <1>1, <2>2 DEF CreateRoom, Inv, OwnerInv, SingleOwner
  <2>3. ASSUME NEW u, Push(u) PROVE FALSE
    <3>1. PICK last \in members :
            members' = members \cup
              {[user |-> u, seat |-> last.seat + 1, role |-> "member"]}
      BY <2>3 DEF Push
    <3>2. n.user = u
      BY <2>1, <3>1
    <3> QED
      BY <1>1, <2>3, <3>2 DEF Push, Pushable, UsersOf
  <2>4. ASSUME NEW r \in Requests, DropRoom(r) PROVE FALSE
    BY <1>1, <2>4 DEF DropRoom
  <2>5. ASSUME NEW r \in Requests, KickSave(r) PROVE FALSE
    <3>1. reqs[r].snap = members
      BY <2>5, SaveMoves DEF TurnInv, DocRight
    <3> QED
      BY <2>1, <2>5, <3>1 DEF KickSave, SaveArray, Without
  <2>6. ASSUME NEW r \in Requests, LeaveSave(r)
        PROVE  reqs'[r] # reqs[r] /\ At(r, "leave", "save") /\ n.role = "owner"
    <3>1. reqs[r].snap = members
      BY <2>6, SaveMoves DEF TurnInv, DocRight
    <3>2. PICK h : members' = WithRole(Without(members, reqs[r].actor), h, "owner")
      BY <2>1, <2>6, <3>1 DEF LeaveSave, SaveArray, Without
    <3>3. PICK k \in members : n = [k EXCEPT !.role = "owner"]
      BY <2>1, <3>2 DEF WithRole, Without
    <3>4. k \in Member
      BY <3>3 DEF Inv, TypeInv, TypeOK
    <3> QED
      BY <2>6, <3>3, <3>4, SaveMoves DEF LeaveSave, Member
  <2>7. ASSUME NEW r \in Requests, RoleSave(r)
        PROVE  reqs'[r] # reqs[r] /\ At(r, "role", "save") /\ reqs[r].target = m.user
    <3>1. reqs[r].snap = members
      BY <2>7, SaveMoves DEF TurnInv, DocRight
    <3>2. PICK t \in members :
            t.user = reqs[r].target /\ members' = WithRole(members, t, reqs[r].role)
      BY <2>1, <2>7, <3>1 DEF RoleSave
    <3>3. PICK k \in members : k.seat = t.seat /\ n = [k EXCEPT !.role = reqs[r].role]
      BY <2>1, <3>2 DEF WithRole
    <3>4. k = t /\ k \in Member
      BY <1>d, <3>3 DEF Inv, TypeInv, TypeOK
    <3> QED
      BY <1>1, <2>7, <3>2, <3>3, <3>4, SaveMoves DEF RoleSave, Member
  <2> QED
    BY <2>1, <2>2, <2>3, <2>4, <2>5, <2>6, <2>7, Writers DEF JoinRoom, RedeemPush
<1>2. RoleRequested
  BY <1>1 DEF RoleRequested
<1>3. OwnerPromotes
  <2> SUFFICES ASSUME NEW r \in Requests, At(r, "role", "save"), reqs[r].role = "admin"
               PROVE  IsOwner(members, reqs[r].actor)
    BY DEF OwnerPromotes
  <2>1. DocRight(reqs[r])
    BY DEF At, TurnInv, Busy, Idle
  <2>2. members \in SUBSET Member
    BY DEF Inv, TypeInv, TypeOK
  <2> QED
    BY <2>1, <2>2 DEF DocRight, At, IsOwner, Member, Roles
<1> QED
  BY <1>2, <1>3

\* The heir the copy names is the eldest of the document.
LEMMA HeirIsEldest ==
  ASSUME Inv, NEW u, IsOwner(members, u), NEW m \in Heirs(members, u),
         status = "open", NEW n \in members, n # m, n.role # "owner"
  PROVE  IF m.role = "admin" THEN n.role = "admin" => m.seat < n.seat
                             ELSE n.role # "admin" /\ m.seat < n.seat
<1>1. \A a, b \in members : a.user = b.user \/ a.seat = b.seat => a = b
  BY DEF Inv, OwnerInv, UniqueMembers, Distinct
<1>2. m \in Without(members, u) /\ members \in SUBSET Member
  BY HeirsWithin DEF Inv, TypeInv, TypeOK
<1>3. m \in members /\ m.seat \in Nat /\ n.seat \in Nat /\ m.seat # n.seat
  BY <1>1, <1>2 DEF Without, Member
<1>4. n \in Without(members, u)
  BY <1>1 DEF Without, IsOwner
<1>5. \A c \in Candidates(members, u) : m.seat <= c.seat
  BY DEF Heirs
<1>6. CASE \E a \in Without(members, u) : a.role = "admin"
  <2>1. Candidates(members, u) = {a \in Without(members, u) : a.role = "admin"}
    BY <1>6 DEF Candidates
  <2> QED
    BY <1>3, <1>4, <1>5, <2>1 DEF Heirs
<1>7. CASE ~\E a \in Without(members, u) : a.role = "admin"
  <2>1. Candidates(members, u) = Without(members, u)
    BY <1>7 DEF Candidates
  <2> QED
    BY <1>2, <1>3, <1>4, <1>5, <1>7, <2>1
<1> QED
  BY <1>6, <1>7

\* A leaving owner's room goes to the eldest, and closes only under him.
LEMMA HeirsStep ==
  ASSUME Inv, TurnInv, [Next]_vars
  PROVE  EldestInherits /\ OwnerCloses
<1>d. \A m, n \in members : m.user = n.user \/ m.seat = n.seat => m = n
  BY DEF Inv, OwnerInv, UniqueMembers, Distinct
<1>1. ASSUME NEW h \in members', h.role = "owner", status = "open",
             ~IsOwner(members, h.user)
      PROVE  \E m \in members :
               /\ m.user = h.user
               /\ \A n \in members : n # m /\ n.role # "owner" =>
                    IF m.role = "admin" THEN n.role = "admin" => m.seat < n.seat
                                        ELSE n.role # "admin" /\ m.seat < n.seat
  <2>1. h \notin members
    BY <1>1 DEF IsOwner
  <2>2. ASSUME NEW u \in Users, CreateRoom(u) PROVE FALSE
    BY <1>1, <2>2 DEF CreateRoom
  <2>3. ASSUME NEW u, Push(u) PROVE FALSE
    BY <1>1, <2>1, <2>3 DEF Push
  <2>4. ASSUME NEW r \in Requests, DropRoom(r) PROVE FALSE
    BY <1>1, <2>4 DEF DropRoom
  <2>5. ASSUME NEW r \in Requests, KickSave(r) \/ RoleSave(r) PROVE FALSE
    <3>1. OwnersOf(members') = OwnersOf(members)
      BY <2>5, KickEffect, RoleEffect
    <3> QED
      BY <1>1, <3>1 DEF OwnersOf, IsOwner
  <2>6. ASSUME NEW r \in Requests, LeaveSave(r)
        PROVE  \E m \in members :
                 /\ m.user = h.user
                 /\ \A n \in members : n # m /\ n.role # "owner" =>
                      IF m.role = "admin" THEN n.role = "admin" => m.seat < n.seat
                                          ELSE n.role # "admin" /\ m.seat < n.seat
    <3>1. PICK u : u = reqs[r].actor
      OBVIOUS
    <3>2. reqs[r].snap = members
      BY <2>6, SaveMoves DEF TurnInv, DocRight
    <3>3. PICK m \in Heirs(members, u) :
            IsOwner(members, u) /\ members' = WithRole(Without(members, u), m, "owner")
      BY <2>1, <2>6, <3>1, <3>2 DEF LeaveSave, SaveArray, Without
    <3>4. m \in members
      BY <3>3, HeirsWithin DEF Without, Inv, TypeInv, TypeOK
    <3>5. PICK k \in members : k.seat = m.seat /\ h = [k EXCEPT !.role = "owner"]
      BY <2>1, <3>3 DEF WithRole, Without
    <3>6. k = m /\ m \in Member
      BY <1>d, <3>4, <3>5 DEF Inv, TypeInv, TypeOK
    <3>7. m.user = h.user
      BY <3>5, <3>6 DEF Member
    <3> QED
      BY <1>1, <3>3, <3>4, <3>7, HeirIsEldest
  <2> QED
    BY <2>1, <2>2, <2>3, <2>4, <2>5, <2>6, Writers DEF JoinRoom, RedeemPush
<1>2. ASSUME status = "open", status' = "closed"
      PROVE  \E r \in Requests :
               /\ reqs[r].pc = "drop" /\ reqs'[r].pc = "uncache"
               /\ IsOwner(members, reqs[r].actor)
               /\ reqs[r].op = "leave" => members' = Without(members, reqs[r].actor)
  <2>1. PICK r \in Requests : DropRoom(r)
    BY <1>2, Writers, PushEffect, LeaveEffect, KickEffect, RoleEffect
    DEF CreateRoom, JoinRoom, RedeemPush
  <2>2. reqs[r].pc = "drop" /\ r \in Busy
    BY <2>1 DEF DropRoom, Busy, Idle
  <2>3. reqs'[r].pc = "uncache"
    BY <2>1, <2>2, BusySlot DEF DropRoom, Goto, Inv, TypeInv, TypeOK, Slots, Request
  <2> QED
    BY <2>1, <2>2, <2>3 DEF DropRoom, TurnInv, DocRight
<1> QED
  BY <1>1, <1>2 DEF EldestInherits, OwnerCloses

-----------------------------------------------------------------------------
(* The scenes of MCRoomScenes.                                             *)

SceneInv == Inv /\ (InTurns => TurnInv)

LEMMA SceneStart == SceneInit => SceneInv
<1> SUFFICES ASSUME SceneInit PROVE SceneInv
  OBVIOUS
<1>1. Busy = {}
  BY DEF SceneInit, Init, Busy
<1> QED
  BY <1>1, TypeInit, OwnerInit DEF SceneInit, SceneInv, Inv, TurnInv, OneBusy

\* A step of a scene is a step of the room, and keeps the turns.
LEMMA SceneMoves ==
  ASSUME InTurns => OneBusy, [SceneNext]_<<vars, scene>>
  PROVE  [Next]_vars /\ scene' = scene /\ (InTurns => OneBusy')
<1>1. CASE SceneNext
  BY <1>1 DEF SceneNext, InScene, InTurns, OneBusy, Busy
<1>2. CASE UNCHANGED <<vars, scene>>
  BY <1>2 DEF vars, OneBusy, Busy
<1> QED
  BY <1>1, <1>2

LEMMA SceneStep == SceneInv /\ [SceneNext]_<<vars, scene>> => SceneInv'
<1> SUFFICES ASSUME SceneInv, [SceneNext]_<<vars, scene>> PROVE SceneInv'
  OBVIOUS
<1>1. [Next]_vars /\ scene' = scene /\ (InTurns => OneBusy')
  BY SceneMoves DEF SceneInv, TurnInv
<1>2. Inv'
  BY <1>1, TypeStep, OwnerStep DEF SceneInv, Inv
<1> QED
  BY <1>1, <1>2, TurnStep DEF SceneInv, InTurns

\* While requests take turns a role changes only as a role change asked or by
\* inheriting the room, and whoever makes a member admin is the owner: the two
\* role checks of setMemberRole say the same when nothing runs between them.
THEOREM RolesAsAsked == SceneSpec => RolesInTurns
<1>1. SceneInv /\ [SceneNext]_<<vars, scene>> =>
        [InTurns => RoleRequested /\ OwnerPromotes]_vars
  BY SceneMoves, RolesStep DEF SceneInv, TurnInv
<1> QED
  BY <1>1, SceneStart, SceneStep, PTL DEF SceneSpec, RolesInTurns

\* While requests take turns the room of a leaving owner goes to the admin, or
\* else the member, with the earliest place, and is deleted only on its owner's
\* request and, by a leave, only under its last member.
THEOREM HeirsAreEldest == SceneSpec => HeirsInTurns
<1>1. SceneInv /\ [SceneNext]_<<vars, scene>> =>
        [InTurns => EldestInherits /\ OwnerCloses]_vars
  BY SceneMoves, HeirsStep DEF SceneInv, TurnInv
<1> QED
  BY <1>1, SceneStart, SceneStep, PTL DEF SceneSpec, HeirsInTurns

-----------------------------------------------------------------------------
(* Redis, one request at a time, when no handler dies half way: whatever    *)
(* the keys still have wrong, the request in flight has yet to delete.     *)

Owed(q) ==
  IF q.pc = "unread" \/ (q.pc = "uncache" /\ q.op \in {"leave", "delete"})
  THEN q.left ELSE {}

RedisRight(q) ==
  /\ CacheIsRight \/ q.pc = "uncache" \/ (q.pc = "unread" /\ q.op = "kick")
  /\ unread \subseteq UsersOf(members) \cup Owed(q)
  /\ q.pc = "incr" => q.left \subseteq UsersOf(members)
  /\ q.pc = "save" /\ q.op = "leave" => q.actor \in q.left
  /\ q.pc = "save" /\ q.op = "kick" => q.target \in q.left
  /\ q.pc = "drop" => UsersOf(members) \subseteq q.left

RedisInv ==
  /\ status = "none" => cache = NoEntry
  /\ Busy = {} => RedisRight(Idle)
  /\ \A r \in Busy : RedisRight(reqs[r])

\* A request that has nothing to put right and loads nothing.
LEMMA RedisAside ==
  ASSUME NEW q, NEW p, RedisRight(q), q.pc \notin {"unread", "uncache"},
         UNCHANGED <<members, cache, unread>>,
         p.pc \notin {"incr", "save", "drop"}
  PROVE  RedisRight(p)'
BY DEF RedisRight, Owed, CacheIsRight

\* A request that loads the document with the users it means to take out.
LEMMA RedisLoads ==
  ASSUME NEW q, NEW p, RedisRight(q), q.pc \notin {"unread", "uncache"},
         UNCHANGED <<members, cache, unread>>,
         \/ p.pc = "save" /\ p.op = "leave" /\ p.actor \in p.left
         \/ p.pc = "save" /\ p.op = "kick" /\ p.target \in p.left
         \/ p.pc = "save" /\ p.op = "role"
         \/ p.pc = "drop" /\ UsersOf(members) \subseteq p.left
  PROVE  RedisRight(p)'
BY DEF RedisRight, Owed, CacheIsRight

\* The keys when a request is answered.
LEMMA RedisDone ==
  ASSUME CacheIsRight', unread' \subseteq UsersOf(members'), NEW p,
         p.pc \notin {"incr", "save", "drop"}
  PROVE  RedisRight(p)'
BY DEF RedisRight

\* What a step leaves of the keys is no more than its request has yet to delete.
LEMMA ArriveRight ==
  ASSUME Inv, NEW r \in Requests, Arrive(r), RedisRight(reqs[r])
  PROVE  RedisRight(reqs[r])'
<1>1. reqs[r] = Idle /\ reqs[r].pc = "idle"
  <2>1. PICK op : Enabled(r, op)
    BY DEF Arrive, JoinRoom, InviteCheck, RedeemToken, LeaveRead, DeleteGate, KickGate,
           RoleGate, Gate, GetMiss, SendCheck, ViewHistory, MarkCheck
  <2> QED
    BY <2>1 DEF Enabled, Idle
<1>2. ASSUME NEW q, Become(r, q), RedisRight(q)' PROVE RedisRight(reqs[r])'
  <2>1. reqs'[r] = q
    BY <1>2 DEF Become, Inv, TypeInv, TypeOK
  <2> QED
    BY <1>2, <2>1 DEF RedisRight, Owed
<1>3. ASSUME NEW op, NEW pc \in {"store", "push", "find", "count", "view", "mark"}, NEW u,
             Become(r, Call(op, pc, u)), UNCHANGED <<members, cache, unread>>
      PROVE  RedisRight(reqs[r])'
  <2>1. PICK q : q = Call(op, pc, u)
    OBVIOUS
  <2>2. q.pc = pc
    BY <2>1 DEF Call
  <2>3. RedisRight(q)'
    BY <1>1, <1>3, <2>2, RedisAside
  <2> QED
    BY <1>2, <1>3, <2>1, <2>3
<1>4. ASSUME NEW u \in Users, JoinRoom(r, u) PROVE RedisRight(reqs[r])'
  <2>1. PICK q : q = Call("join", "uncache", u)
    OBVIOUS
  <2>2. q.pc = "uncache" /\ q.op = "join" /\ Become(r, q)
    BY <1>4, <2>1 DEF Call, JoinRoom
  <2>3. UsersOf(members) \subseteq UsersOf(members') /\ unread' = unread
    BY <1>4, PushEffect DEF JoinRoom, keyVars
  <2>4. RedisRight(q)'
    BY <1>1, <2>2, <2>3 DEF RedisRight, Owed
  <2> QED
    BY <1>2, <2>2, <2>4
<1>5. ASSUME NEW op, NEW u, NEW t, NEW role, Gate(r, op, u, t, role)
      PROVE  RedisRight(reqs[r])'
  <2>1. PICK q : q = [Call(op, "gated", u) EXCEPT !.target = t, !.role = role]
    OBVIOUS
  <2>2. q.pc = "gated" /\ Become(r, q) /\ UNCHANGED <<members, cache, unread>>
    BY <1>5, <2>1 DEF Gate, Call, docVars, keyVars
  <2> QED
    BY <1>1, <1>2, <2>2, RedisAside
<1>6. ASSUME NEW u \in Users, LeaveRead(r, u) PROVE RedisRight(reqs[r])'
  <2>1. PICK c : c = [Call("leave", "save", u) EXCEPT !.left = {u}]
    OBVIOUS
  <2>2. c \in Request /\ c.op = "leave" /\ c.actor = u /\ c.left = {u}
    BY <2>1 DEF Call, Request, AllOperations, Steps
  <2>3. PICK pc \in {"drop", "save"} :
          Load(r, c, pc) /\ (pc = "drop" => Without(members, u) = {})
    BY <1>6, <2>1 DEF LeaveRead
  <2>4. PICK q : /\ Become(r, q) /\ q.pc = pc /\ q.op = "leave" /\ q.actor = u
                 /\ q.left = {u}
    BY <2>2, <2>3, SlotLoads
  <2>5. pc = "drop" => UsersOf(members) \subseteq {u}
    BY <2>3 DEF UsersOf, Without
  <2>6. UNCHANGED <<members, cache, unread>>
    BY <1>6 DEF LeaveRead, docVars, keyVars
  <2>7. RedisRight(q)'
    BY <1>1, <2>3, <2>4, <2>5, <2>6, RedisLoads
  <2> QED
    BY <1>2, <2>4, <2>7
<1> QED
  BY <1>3, <1>4, <1>5, <1>6
  DEF Arrive, InviteCheck, RedeemToken, DeleteGate, KickGate, RoleGate, GetMiss,
      SendCheck, ViewHistory, MarkCheck, docVars, keyVars

\* The writes of the document.
LEMMA WriteRight ==
  ASSUME Inv, UniqueMembers', IsFiniteSet(members'), NEW r \in Requests,
         RedisRight(reqs[r]), DocRight(reqs[r]),
         \/ RedeemPush(r) \/ LeaveSave(r) \/ KickSave(r) \/ RoleSave(r) \/ DropRoom(r)
  PROVE  RedisRight(reqs[r])'
<1>1. ASSUME NEW q, Become(r, q), RedisRight(q)' PROVE RedisRight(reqs[r])'
  <2>1. reqs'[r] = q
    BY <1>1 DEF Become, Inv, TypeInv, TypeOK
  <2> QED
    BY <1>1, <2>1 DEF RedisRight, Owed
<1>2. reqs[r] \in Request /\ reqs[r].pc \in {"push", "save", "drop"} /\ unread' = unread
  BY BusySlot
  DEF RedeemPush, LeaveSave, KickSave, RoleSave, DropRoom, SaveArray, At, keyVars, Inv,
      TypeInv, TypeOK, Slots
<1>3. unread \subseteq UsersOf(members)
  BY <1>2 DEF RedisRight, Owed
<1>4. CASE RedeemPush(r) \/ DropRoom(r)
  <2>1. PICK q : q = [reqs[r] EXCEPT !.pc = "uncache"]
    OBVIOUS
  <2>2. /\ q.pc = "uncache" /\ q.op = reqs[r].op /\ q.left = reqs[r].left
        /\ Become(r, q)
    BY <1>2, <1>4, <2>1 DEF RedeemPush, DropRoom, Goto, Become, Request
  <2>3. CASE RedeemPush(r)
    <3>1. UsersOf(members) \subseteq UsersOf(members') /\ q.op = "redeem"
      BY <2>2, <2>3, PushEffect DEF RedeemPush, At
    <3>2. RedisRight(q)'
      BY <1>2, <1>3, <2>2, <3>1 DEF RedisRight, Owed
    <3> QED
      BY <1>1, <2>2, <3>2
  <2>4. CASE DropRoom(r)
    <3>1. q.op \in {"leave", "delete"} /\ UsersOf(members) \subseteq q.left
      BY <2>2, <2>4 DEF DropRoom, DocRight, RedisRight
    <3>2. RedisRight(q)'
      BY <1>2, <1>3, <2>2, <3>1 DEF RedisRight, Owed
    <3> QED
      BY <1>1, <2>2, <3>2
  <2> QED
    BY <1>4, <2>3, <2>4
<1>5. CASE LeaveSave(r) \/ KickSave(r)
  <2>1. PICK q : /\ Become(r, q) /\ q.op = reqs[r].op /\ q.left = reqs[r].left
                 /\ q.pc = FirstCleanup(reqs[r].op)
    BY <1>5 DEF LeaveSave, KickSave, SaveArray, Call
  <2>2. reqs[r].snap = members /\ reqs[r].pc = "save"
    BY <1>5 DEF LeaveSave, KickSave, At, DocRight
  <2>3. CASE LeaveSave(r)
    <3>1. q.op = "leave" /\ q.pc = "uncache" /\ reqs[r].actor \in q.left
      BY <2>1, <2>3 DEF LeaveSave, At, FirstCleanup, RedisRight
    <3>2. \A u \in UsersOf(members) : u \in UsersOf(members') \/ u = reqs[r].actor
      BY <2>2, <2>3, SaveOuts DEF LeaveSave, At
    <3>3. RedisRight(q)'
      BY <1>2, <1>3, <2>1, <3>1, <3>2 DEF RedisRight, Owed
    <3> QED
      BY <1>1, <2>1, <3>3
  <2>4. CASE KickSave(r)
    <3>1. q.op = "kick" /\ q.pc = "unread" /\ reqs[r].target \in q.left
      BY <2>1, <2>4 DEF KickSave, At, FirstCleanup, RedisRight
    <3>2. \A u \in UsersOf(members) : u \in UsersOf(members') \/ u = reqs[r].target
      BY <2>2, <2>4, SaveOuts DEF KickSave, At
    <3>3. RedisRight(q)'
      BY <1>2, <1>3, <2>1, <3>1, <3>2 DEF RedisRight, Owed
    <3> QED
      BY <1>1, <2>1, <3>3
  <2> QED
    BY <1>5, <2>3, <2>4
<1>6. CASE RoleSave(r)
  <2>1. UsersOf(members') = UsersOf(members) /\ cache' = cache /\ Become(r, Idle)
    BY <1>6, RoleEffect DEF RoleSave, Return
  <2>2. /\ IsFiniteSet(members) /\ Distinct(members) /\ Distinct(members')
        /\ IsFiniteSet(members')
    BY DEF Inv, TypeInv, Finite, OwnerInv, UniqueMembers
  <2>3. Cardinality(members') <= Cardinality(members)
    BY <2>1, <2>2, FewerUsers
  <2>4. Cardinality(members) <= Cardinality(members')
    BY <2>1, <2>2, FewerUsers
  <2>5. Cardinality(members') = Cardinality(members)
    BY <2>2, <2>3, <2>4, FS_CardinalityType
  <2>6. CacheIsRight
    BY <1>6 DEF RoleSave, At, RedisRight
  <2>7. CacheIsRight' /\ unread' \subseteq UsersOf(members')
    BY <1>2, <1>3, <2>1, <2>5, <2>6 DEF CacheIsRight
  <2> QED
    BY <1>1, <2>1, <2>7, RedisDone DEF Idle
<1> QED
  BY <1>4, <1>5, <1>6

\* The other steps of a request in flight.
LEMMA ProceedRight ==
  ASSUME Inv, Inv', NEW r \in Requests, Proceed(r), RedisRight(reqs[r]),
         DocRight(reqs[r])
  PROVE  RedisRight(reqs[r])'
<1>1. ASSUME NEW q, Become(r, q), RedisRight(q)' PROVE RedisRight(reqs[r])'
  <2>1. reqs'[r] = q
    BY <1>1 DEF Become, Inv, TypeInv, TypeOK
  <2> QED
    BY <1>1, <2>1 DEF RedisRight, Owed
<1>2. reqs[r].pc # "idle" => reqs[r] \in Request
  BY BusySlot DEF Inv, TypeInv, TypeOK, Slots
<1>3. CASE RedeemPush(r) \/ LeaveSave(r) \/ KickSave(r) \/ RoleSave(r) \/ DropRoom(r)
  BY <1>3, WriteRight DEF Inv, TypeInv, Finite, OwnerInv
<1>4. ASSUME Return(r), UNCHANGED <<members, cache, unread>>,
             reqs[r].pc \notin {"unread", "uncache"}
      PROVE  RedisRight(reqs[r])'
  BY <1>1, <1>4, RedisAside DEF Return, Idle
<1>5. ASSUME Return(r), CacheIsRight', unread' \subseteq UsersOf(members')
      PROVE  RedisRight(reqs[r])'
  BY <1>1, <1>5, RedisDone DEF Return, Idle
<1>6. CASE KickRead(r) \/ RoleRead(r) \/ DeleteRead(r)
  <2>1. /\ reqs[r] \in Request /\ reqs[r].pc = "gated"
        /\ UNCHANGED <<members, cache, unread>>
    BY <1>2, <1>6 DEF KickRead, RoleRead, DeleteRead, At, docVars, keyVars
  <2>2. UsersOf(members) \in SUBSET Users
    BY DEF UsersOf, Inv, TypeInv, TypeOK, Member
  <2>3. CASE KickRead(r)
    <3>1. PICK c \in Request : c = [reqs[r] EXCEPT !.left = {reqs[r].target}]
      BY <2>1 DEF Request
    <3>2. c.op = "kick" /\ c.target \in c.left /\ Load(r, c, "save")
      BY <2>1, <2>3, <3>1 DEF KickRead, At, Request
    <3>3. PICK q : Become(r, q) /\ q.pc = "save" /\ q.op = "kick" /\ q.target \in q.left
      BY <3>2, SlotLoads
    <3> QED
      BY <1>1, <2>1, <3>3, RedisLoads
  <2>4. CASE DeleteRead(r)
    <3>1. PICK c \in Request : c = [reqs[r] EXCEPT !.left = UsersOf(members)]
      BY <2>1, <2>2 DEF Request
    <3>2. c.left = UsersOf(members) /\ Load(r, c, "drop")
      BY <2>1, <2>4, <3>1 DEF DeleteRead, Request
    <3>3. PICK q : Become(r, q) /\ q.pc = "drop" /\ q.left = UsersOf(members)
      BY <3>2, SlotLoads
    <3> QED
      BY <1>1, <2>1, <3>3, RedisLoads
  <2>5. CASE RoleRead(r)
    <3>1. PICK q : Become(r, q) /\ q.pc = "save" /\ q.op = "role"
      BY <2>1, <2>5, SlotLoads DEF RoleRead, At
    <3> QED
      BY <1>1, <2>1, <3>1, RedisLoads
  <2> QED
    BY <1>6, <2>3, <2>4, <2>5
<1>7. CASE DelCache(r)
  <2>1. /\ reqs[r] \in Request /\ reqs[r].pc = "uncache"
        /\ cache' = NoEntry /\ UNCHANGED <<members, unread>>
    BY <1>2, <1>7 DEF DelCache, docVars, keyVars
  <2>2. CASE reqs[r].op \in {"leave", "delete"}
    <3>1. PICK q : q = [reqs[r] EXCEPT !.pc = "unread"]
      OBVIOUS
    <3>2. q.pc = "unread" /\ q.op = reqs[r].op /\ q.left = reqs[r].left
      BY <2>1, <3>1 DEF Request
    <3>3. Become(r, q)
      BY <1>7, <2>2, <3>1 DEF DelCache, Finish, Goto, Become
    <3>4. RedisRight(q)'
      BY <2>1, <2>2, <3>2 DEF RedisRight, Owed, CacheIsRight
    <3> QED
      BY <1>1, <3>3, <3>4
  <2>3. CASE reqs[r].op \notin {"leave", "delete"}
    <3>1. Return(r)
      BY <1>7, <2>3 DEF DelCache, Finish
    <3> QED
      BY <1>5, <2>1, <2>3, <3>1 DEF RedisRight, Owed, CacheIsRight
  <2> QED
    BY <2>2, <2>3
<1>8. CASE ClearUnread(r)
  <2>1. /\ reqs[r] \in Request /\ reqs[r].pc = "unread"
        /\ UNCHANGED <<members, cache>>
    BY <1>2, <1>8 DEF ClearUnread, docVars
  <2>2. PICK u \in reqs[r].left :
          /\ unread' = unread \ {u}
          /\ IF reqs[r].left = {u} THEN Finish(r, "unread")
             ELSE reqs' = [reqs EXCEPT ![r].left = @ \ {u}]
    BY <1>8 DEF ClearUnread
  <2>3. CASE reqs[r].left # {u}
    <3>1. PICK q : q = [reqs[r] EXCEPT !.left = @ \ {u}]
      OBVIOUS
    <3>2. q.pc = "unread" /\ q.op = reqs[r].op /\ q.left = reqs[r].left \ {u}
      BY <2>1, <3>1 DEF Request
    <3>3. Become(r, q)
      BY <2>2, <2>3, <3>1 DEF Become
    <3>4. RedisRight(q)'
      BY <2>1, <2>2, <3>2 DEF RedisRight, Owed, CacheIsRight
    <3> QED
      BY <1>1, <3>3, <3>4
  <2>4. CASE reqs[r].left = {u}
    <3>1. unread' \subseteq UsersOf(members')
      BY <2>1, <2>2, <2>4 DEF RedisRight, Owed
    <3>2. CASE reqs[r].op = "kick"
      <4>1. PICK q : q = [reqs[r] EXCEPT !.pc = "uncache"]
        OBVIOUS
      <4>2. q.pc = "uncache" /\ q.op = "kick"
        BY <2>1, <3>2, <4>1 DEF Request
      <4>3. Become(r, q)
        BY <2>2, <2>4, <3>2, <4>1 DEF Finish, Goto, Become
      <4>4. RedisRight(q)'
        BY <3>1, <4>2 DEF RedisRight, Owed
      <4> QED
        BY <1>1, <4>3, <4>4
    <3>3. CASE reqs[r].op # "kick"
      <4>1. CacheIsRight'
        BY <2>1, <3>3 DEF RedisRight, CacheIsRight
      <4>2. PICK q : q.pc \in {"receipts", "idle"} /\ Become(r, q)
        <5>1. Goto(r, "receipts") \/ Return(r)
          BY <2>2, <2>4, <3>3 DEF Finish
        <5> QED
          BY <2>1, <5>1, SlotMoves
      <4> QED
        BY <1>1, <3>1, <4>1, <4>2, RedisDone
    <3> QED
      BY <3>2, <3>3
  <2> QED
    BY <2>3, <2>4
<1>9. CASE ClearReceipts(r)
  <2>1. Return(r) /\ reqs[r].pc = "receipts"
    BY <1>9 DEF ClearReceipts, Finish
  <2> QED
    BY <1>4, <1>9, <2>1 DEF ClearReceipts, docVars
<1>10. CASE GetFind(r)
  <2>1. /\ reqs[r] \in Request /\ reqs[r].pc = "find"
        /\ UNCHANGED <<members, cache, unread>>
    BY <1>2, <1>10 DEF GetFind, At, docVars, keyVars
  <2>2. CASE Load(r, reqs[r], "fill")
    <3>1. PICK q : Become(r, q) /\ q.pc = "fill"
      BY <2>1, <2>2, SlotLoads
    <3> QED
      BY <1>1, <2>1, <3>1, RedisAside
  <2> QED
    BY <1>4, <1>10, <2>1, <2>2 DEF GetFind
<1>11. CASE GetFill(r)
  <2>1. reqs[r].pc = "fill" /\ reqs[r].snap = members
    BY <1>11 DEF GetFill, At, DocRight
  <2>2. CacheIsRight' /\ unread' \subseteq UsersOf(members') /\ Return(r)
    BY <1>11, <2>1 DEF GetFill, CacheIsRight, RedisRight, Owed, docVars, keyVars
  <2> QED
    BY <1>5, <2>2
<1>12. CASE CountRead(r)
  <2>1. /\ reqs[r] \in Request /\ reqs[r].pc = "count"
        /\ UNCHANGED <<members, cache, unread>>
    BY <1>2, <1>12 DEF CountRead, At, docVars, keyVars
  <2>2. PICK q : q = [reqs[r] EXCEPT !.pc = "incr", !.left = UsersOf(members) \ {reqs[r].actor}]
    OBVIOUS
  <2>3. q.pc = "incr" /\ q.left \subseteq UsersOf(members)
    BY <2>1, <2>2 DEF Request
  <2>4. CASE Become(r, q)
    <3>1. RedisRight(q)'
      BY <2>1, <2>3 DEF RedisRight, Owed, CacheIsRight
    <3> QED
      BY <1>1, <2>4, <3>1
  <2> QED
    BY <1>4, <1>12, <2>1, <2>2, <2>4 DEF CountRead
<1>13. CASE IncrementUnread(r) \/ ViewMarks(r)
  <2>1. reqs[r].pc \in {"incr", "view"} /\ Return(r) /\ UNCHANGED <<members, cache>>
    BY <1>13 DEF IncrementUnread, ViewMarks, At, docVars
  <2>2. unread' \subseteq UsersOf(members')
    BY <1>13, <2>1 DEF IncrementUnread, ViewMarks, At, RedisRight, Owed
  <2>3. CacheIsRight'
    BY <2>1 DEF RedisRight, CacheIsRight
  <2> QED
    BY <1>5, <2>1, <2>2, <2>3
<1>14. CASE InviteStore(r) \/ RedeemNothing(r) \/ Refuse(r) \/ SaveStale(r) \/ MarkRead(r)
  BY <1>4, <1>14
  DEF InviteStore, RedeemNothing, Refuse, SaveStale, MarkRead, At, docVars, keyVars
<1> QED
  BY <1>3, <1>6, <1>7, <1>8, <1>9, <1>10, <1>11, <1>12, <1>13, <1>14 DEF Proceed

\* A cached count appears only by a read of the room.
LEMMA CacheBefore ==
  ASSUME Inv, [Next]_vars, status = "none"
  PROVE  cache' \in {cache, NoEntry}
<1>1. CASE UNCHANGED vars \/ InviteExpire \/ CacheExpire
  BY <1>1 DEF vars, InviteExpire, CacheExpire
<1>2. ASSUME NEW u \in Users, CreateRoom(u) PROVE cache' = cache
  BY <1>2 DEF CreateRoom
<1>3. ASSUME NEW r \in Requests, Arrive(r) PROVE FALSE
  <2>1. PICK op : Enabled(r, op)
    BY <1>3
    DEF Arrive, JoinRoom, InviteCheck, RedeemToken, LeaveRead, DeleteGate, KickGate,
        RoleGate, Gate, GetMiss, SendCheck, ViewHistory, MarkCheck
  <2> QED
    BY <2>1 DEF Enabled
<1>4. ASSUME NEW r \in Requests, Proceed(r) \/ Abort(r) PROVE FALSE
  <2>1. reqs[r].pc = "idle" /\ reqs[r] = Idle
    BY DEF Inv, TypeInv, TypeOK, Started, Request, Steps
  <2> QED
    BY <1>4, <2>1
    DEF Abort, Proceed, InviteStore, RedeemPush, RedeemNothing, LeaveSave, KickRead,
        RoleRead, DeleteRead, Refuse, KickSave, RoleSave, SaveStale, DropRoom,
        DelCache, ClearUnread, ClearReceipts, GetFind, GetFill, CountRead,
        IncrementUnread, ViewMarks, MarkRead, At
<1> QED
  BY <1>1, <1>2, <1>3, <1>4 DEF Next

LEMMA RedisStep ==
  ASSUME "abort" \notin Operations
  PROVE  Inv /\ TurnInv /\ RedisInv /\ [Next]_vars /\ OneBusy' => RedisInv'
<1> SUFFICES ASSUME Inv, TurnInv, RedisInv, [Next]_vars, OneBusy' PROVE RedisInv'
  OBVIOUS
<1>1. Inv'
  BY TypeStep, OwnerStep DEF Inv
<1>2. status' = "none" => status = "none" /\ cache' = NoEntry
  <2>1. status' = "none" => status = "none"
    BY Writers, PushEffect, LeaveEffect, KickEffect, RoleEffect
    DEF CreateRoom, JoinRoom, RedeemPush, DropRoom
  <2> QED
    BY <2>1, CacheBefore DEF RedisInv
<1>3. CASE UNCHANGED vars \/ InviteExpire \/ CacheExpire
  <2>1. UNCHANGED <<members, unread, reqs>> /\ cache' \in {cache, NoEntry}
    BY <1>3 DEF vars, docVars, keyVars, InviteExpire, CacheExpire
  <2>2. ASSUME NEW q, RedisRight(q) PROVE RedisRight(q)'
    BY <2>1, <2>2 DEF RedisRight, Owed, CacheIsRight
  <2>3. ASSUME NEW r \in Busy' PROVE RedisRight(reqs[r])'
    <3>1. PICK q : q = reqs[r]
      OBVIOUS
    <3>2. RedisRight(q)'
      BY <2>1, <2>2, <2>3, <3>1 DEF RedisInv, Busy
    <3> QED
      BY <2>1, <3>1, <3>2 DEF RedisRight, Owed
  <2>4. Busy' = {} => RedisRight(Idle)'
    BY <2>1, <2>2 DEF RedisInv, Busy
  <2> QED
    BY <1>2, <2>3, <2>4 DEF RedisInv
<1>4. ASSUME NEW u \in Users, CreateRoom(u) PROVE RedisInv'
  <2>1. Busy = {} /\ Busy' = {}
    BY <1>4 DEF CreateRoom, Busy, Inv, TypeInv, TypeOK, Started, Request, Steps
  <2>2. cache = NoEntry /\ unread = {} /\ status' # "none"
    BY <1>4, <2>1
    DEF CreateRoom, RedisInv, RedisRight, Owed, Idle, UsersOf, Inv, OwnerInv, SingleOwner
  <2>3. RedisRight(Idle)'
    BY <1>4, <2>2, RedisDone DEF CreateRoom, CacheIsRight, Idle, keyVars
  <2> QED
    BY <2>1, <2>2, <2>3 DEF RedisInv
<1>5. ASSUME NEW r \in Requests, Arrive(r) \/ Proceed(r) PROVE RedisInv'
  <2>1. PICK q : Leaves(r, q)
    BY <1>5, SlotTakes
  <2>2. reqs'[r] = q /\ Busy \subseteq {r} /\ Busy' \subseteq {r}
    BY <2>1, OneTurn DEF Leaves, TurnInv
  <2>3. RedisRight(reqs[r]) /\ DocRight(reqs[r])
    <3>1. CASE r \in Busy
      BY <3>1 DEF RedisInv, TurnInv
    <3>2. CASE r \notin Busy
      <4>1. reqs[r] = Idle /\ Busy = {}
        BY <2>2, <3>2 DEF Busy
      <4> QED
        BY <4>1 DEF RedisInv, DocRight, Idle
    <3> QED
      BY <3>1, <3>2
  <2>4. RedisRight(reqs[r])'
    BY <1>1, <1>5, <2>3, ArriveRight, ProceedRight
  <2>5. Busy' = {} => RedisRight(Idle)'
    <3> SUFFICES ASSUME Busy' = {} PROVE RedisRight(Idle)'
      OBVIOUS
    <3>1. reqs'[r] = Idle
      BY DEF Busy
    <3> QED
      BY <2>4, <3>1 DEF RedisRight, Owed
  <2> QED
    BY <1>2, <2>2, <2>4, <2>5 DEF RedisInv
<1>6. ASSUME NEW r \in Requests PROVE ~Abort(r)
  BY DEF Abort
<1> QED
  BY <1>3, <1>4, <1>5, <1>6 DEF Next

\* While requests take turns, and none dies half way, what they leave in Redis
\* is right: when all are answered there is no cached member count but that of
\* the document, and no unread counter of a user who is no member.
THEOREM RedisLeftRight ==
  ASSUME "abort" \notin Operations
  PROVE  SceneSpec => []RedisInTurns
<1> DEFINE I == SceneInv /\ (InTurns => RedisInv)
<1>1. SceneInit => I
  <2> SUFFICES ASSUME SceneInit PROVE RedisInv
    BY SceneStart
  <2>1. CacheIsRight /\ unread = {} /\ Busy = {} /\ cache = NoEntry
    BY DEF SceneInit, Init, CacheIsRight, Busy
  <2> QED
    BY <2>1 DEF RedisInv, RedisRight, Idle
<1>2. I /\ [SceneNext]_<<vars, scene>> => I'
  <2> SUFFICES ASSUME I, [SceneNext]_<<vars, scene>> PROVE I'
    OBVIOUS
  <2>1. [Next]_vars /\ scene' = scene /\ (InTurns => OneBusy')
    BY SceneMoves DEF SceneInv, TurnInv
  <2>2. SceneInv'
    BY SceneStep
  <2>3. InTurns => RedisInv'
    BY <2>1, RedisStep DEF SceneInv
  <2> QED
    BY <2>1, <2>2, <2>3 DEF InTurns
<1>3. I => RedisInTurns
  <2> SUFFICES ASSUME I, InTurns, Quiet PROVE CacheIsRight /\ unread \subseteq UsersOf(members)
    BY DEF RedisInTurns, QuietCache, QuietUnread
  <2>1. Busy = {}
    BY DEF Quiet, Busy
  <2> QED
    BY <2>1 DEF RedisInv, RedisRight, Owed, Idle
<1> QED
  BY <1>1, <1>2, <1>3, PTL DEF SceneSpec
=============================================================================
