------------------------- MODULE RoomServiceProofs -------------------------
(***************************************************************************)
(* Theorems about RoomService, for any number of users, request slots and  *)
(* operations.                                                             *)
(***************************************************************************)
EXTENDS RoomProperties, FiniteSetTheorems, TLAPS

-----------------------------------------------------------------------------
(* How the record of a request moves.                                      *)

Slots == [Requests -> {Idle} \cup Request]

\* A slot that is not idle holds a request.
LEMMA BusySlot ==
  ASSUME reqs \in Slots, NEW r \in Requests, reqs[r].pc # "idle"
  PROVE  reqs[r] \in Request
BY DEF Slots, Idle

\* A fresh request record is one.
LEMMA CallType ==
  ASSUME NEW op \in AllOperations, NEW pc \in Steps, NEW u \in Users
  PROVE  Call(op, pc, u) \in Request
BY DEF Call, Request

\* Replacing the record in a slot.
LEMMA BecomeType ==
  ASSUME reqs \in Slots, NEW r, NEW q \in {Idle} \cup Request, Become(r, q)
  PROVE  reqs' \in Slots
BY DEF Become, Slots

-----------------------------------------------------------------------------
(* What the edits of the array return.                                     *)

LEMMA WithoutType ==
  ASSUME NEW s \in SUBSET Member, NEW u
  PROVE  Without(s, u) \in SUBSET Member
BY DEF Without

LEMMA WithRoleType ==
  ASSUME NEW s \in SUBSET Member, NEW h, NEW role \in Roles
  PROVE  WithRole(s, h, role) \in SUBSET Member
BY DEF WithRole, Member

LEMMA HeirsWithin ==
  ASSUME NEW s \in SUBSET Member, NEW u, NEW h \in Heirs(s, u)
  PROVE  h \in Without(s, u)
BY DEF Heirs, Candidates, Without

\* Replacing entries of a finite array leaves it finite.
LEMMA WithRoleFinite ==
  ASSUME NEW s, IsFiniteSet(s), NEW h, NEW role
  PROVE  IsFiniteSet(WithRole(s, h, role))
<1> DEFINE f == [m \in s |-> IF m.seat = h.seat THEN [m EXCEPT !.role = role] ELSE m]
<1>1. f \in Surjection(s, WithRole(s, h, role))
  BY DEF Surjection, WithRole
<1> QED
  BY <1>1, FS_Surjection

-----------------------------------------------------------------------------
(* Types.                                                                  *)

\* The documents that exist are finite, and so are the copies of them; nothing
\* runs on a room before it is created.
Finite ==
  /\ IsFiniteSet(members)
  /\ \A r \in Requests : reqs[r].pc # "idle" => IsFiniteSet(reqs[r].snap)

Started == \A r \in Requests : reqs[r].pc # "idle" => status # "none"

TypeInv == TypeOK /\ Finite /\ Started

\* A whole-array save writes a well-typed, finite array.
LEMMA SaveArrayType ==
  ASSUME TypeInv, NEW r \in Requests, reqs[r].pc = "save",
         NEW new \in SUBSET Member, IsFiniteSet(new), SaveArray(r, new)
  PROVE  TypeInv'
<1> DEFINE q == reqs[r]
           c == [Call(q.op, FirstCleanup(q.op), q.actor) EXCEPT !.left = q.left]
<1>1. q \in Request
  BY BusySlot DEF TypeInv, TypeOK, Slots
<1>2. FirstCleanup(q.op) \in Steps
  BY DEF FirstCleanup, Steps
<1>3. Call(q.op, FirstCleanup(q.op), q.actor) \in Request
  BY <1>1, <1>2, CallType DEF Request
<1>4. c \in Request /\ c.snap = {}
  BY <1>1, <1>3 DEF Request, Call
<1>5. reqs' = [reqs EXCEPT ![r] = c]
  BY DEF SaveArray, Become
<1>6. IsFiniteSet({})
  BY FS_EmptySet
<1>7. TypeOK'
  BY <1>4, <1>5 DEF TypeInv, TypeOK, SaveArray, inviteVars, keyVars
<1>8. Finite'
  BY <1>4, <1>5, <1>6 DEF TypeInv, TypeOK, Finite, SaveArray
<1>9. Started'
  BY <1>5 DEF TypeInv, TypeOK, Started, SaveArray, Fresh
<1> QED
  BY <1>7, <1>8, <1>9 DEF TypeInv

\* A push adds one well-typed entry.
LEMMA PushType ==
  ASSUME TypeInv, NEW u \in Users, Push(u)
  PROVE  members' \in SUBSET Member /\ IsFiniteSet(members') /\ status = "open"
<1>1. PICK last \in members :
        members' = members \cup
          {[user |-> u, seat |-> last.seat + 1, role |-> "member"]}
  BY DEF Push
<1>2. [user |-> u, seat |-> last.seat + 1, role |-> "member"] \in Member
  BY DEF TypeInv, TypeOK, Member, Roles
<1> QED
  BY <1>1, <1>2, FS_AddElement DEF TypeInv, TypeOK, Finite, Push, Pushable

\* A step that leaves the document alone and gives one slot a good record.
LEMMA SlotStep ==
  ASSUME TypeInv, NEW r \in Requests, NEW q \in {Idle} \cup Request, Become(r, q),
         q.pc # "idle" => status # "none" /\ IsFiniteSet(q.snap),
         UNCHANGED docVars
  PROVE  reqs' \in Slots /\ Finite' /\ Started'
<1>1. reqs \in Slots
  BY DEF TypeInv, TypeOK, Slots
<1>2. reqs' \in Slots
  BY <1>1, BecomeType
<1>3. Finite'
  BY <1>1 DEF TypeInv, Finite, Become, docVars, Slots
<1>4. Started'
  BY <1>1 DEF TypeInv, Started, Become, docVars, Slots
<1> QED
  BY <1>2, <1>3, <1>4

\* A request starting with a record fresh from Call.
LEMMA ArrivalStep ==
  ASSUME TypeInv, NEW r \in Requests, NEW u \in Users, NEW op \in AllOperations,
         NEW pc \in Steps, status # "none", Become(r, Call(op, pc, u)),
         UNCHANGED docVars
  PROVE  reqs' \in Slots /\ Finite' /\ Started'
<1>1. Call(op, pc, u) \in Request /\ Call(op, pc, u).snap = {}
  BY CallType DEF Call
<1>2. IsFiniteSet({})
  BY FS_EmptySet
<1> QED
  BY <1>1, <1>2, SlotStep

\* A request moving on without touching its local variables, or ending.
LEMMA AdvanceStep ==
  ASSUME TypeInv, NEW r \in Requests, reqs[r].pc # "idle", NEW pc \in Steps,
         Goto(r, pc) \/ Return(r), UNCHANGED docVars
  PROVE  reqs' \in Slots /\ Finite' /\ Started'
<1> DEFINE q == [reqs[r] EXCEPT !.pc = pc]
<1>1. reqs[r] \in Request
  BY BusySlot DEF TypeInv, TypeOK, Slots
<1>2. q \in Request /\ q.snap = reqs[r].snap
  BY <1>1 DEF Request
<1>3. status # "none" /\ IsFiniteSet(q.snap)
  BY <1>2 DEF TypeInv, Finite, Started
<1>4. CASE Goto(r, pc)
  <2>1. Become(r, q)
    BY <1>4 DEF Goto, Become
  <2> HIDE DEF q
  <2> QED
    BY <1>2, <1>3, <2>1, SlotStep
<1>5. CASE Return(r)
  BY <1>5, SlotStep DEF Return, Idle
<1> QED
  BY <1>4, <1>5

\* A Redis command of the cleanup that is followed by the next one.
LEMMA FinishStep ==
  ASSUME TypeInv, NEW r \in Requests, reqs[r].pc # "idle",
         NEW done, Finish(r, done), UNCHANGED docVars
  PROVE  reqs' \in Slots /\ Finite' /\ Started'
<1>1. {"unread", "receipts", "uncache"} \subseteq Steps
  BY DEF Steps
<1>2. \/ Goto(r, "unread") \/ Goto(r, "receipts") \/ Goto(r, "uncache")
      \/ Return(r)
  BY DEF Finish
<1> QED
  BY <1>1, <1>2, AdvanceStep

\* A request loading the document.
LEMMA LoadStep ==
  ASSUME TypeInv, NEW r \in Requests, NEW q \in Request, NEW pc \in Steps,
         status # "none", Load(r, q, pc), UNCHANGED docVars
  PROVE  reqs' \in Slots /\ Finite' /\ Started'
<1> DEFINE c == [q EXCEPT !.pc = pc, !.snap = members, !.ver = version]
<1>1. c \in Request /\ c.snap = members
  BY DEF TypeInv, TypeOK, Request
<1>2. IsFiniteSet(members) /\ Become(r, c)
  BY DEF TypeInv, Finite, Load
<1> HIDE DEF c
<1> QED
  BY <1>1, <1>2, SlotStep

-----------------------------------------------------------------------------
\* The type invariant holds initially and every step preserves it.
LEMMA TypeInit == Init => TypeInv
<1> SUFFICES ASSUME Init PROVE TypeInv
  OBVIOUS
<1>1. \A r \in Requests : reqs[r].pc = "idle"
  BY DEF Init, Idle
<1>2. IsFiniteSet(members)
  BY FS_EmptySet DEF Init
<1>3. TypeOK
  BY DEF Init, TypeOK
<1> QED
  BY <1>1, <1>2, <1>3 DEF TypeInv, Finite, Started

LEMMA TypeStep == TypeInv /\ [Next]_vars => TypeInv'
<1> SUFFICES ASSUME TypeInv, [Next]_vars PROVE TypeInv'
  OBVIOUS
<1> USE DEF TypeInv
<1>typed. /\ reqs \in Slots /\ members \in SUBSET Member /\ version \in Nat
          /\ \A r \in Requests : reqs[r].pc # "idle" => reqs[r] \in Request
  BY BusySlot DEF TypeOK, Slots
<1>rest. ASSUME reqs' \in Slots, Finite', Started', UNCHANGED docVars,
                cache' \in Nat \cup {NoEntry}, live' \in Nat, spent' \in Nat,
                unread' \in SUBSET Users, receipts' \in SUBSET Users
         PROVE  TypeInv'
  BY <1>rest DEF TypeOK, docVars, Slots
<1>1. CASE UNCHANGED vars
  BY <1>1 DEF vars, docVars, inviteVars, keyVars, TypeOK, Finite, Started
<1>2. CASE Next
  <2>1. ASSUME NEW u \in Users, CreateRoom(u) PROVE TypeInv'
    <3>1. members' \in SUBSET Member /\ IsFiniteSet(members')
      <4>1. [user |-> u, seat |-> 1, role |-> "owner"] \in Member
        BY DEF Member, Roles
      <4> QED
        BY <2>1, <4>1, FS_Singleton DEF CreateRoom
    <3>2. private' \in BOOLEAN
      BY <2>1, PrivacyAssumption DEF CreateRoom
    <3> QED
      BY <2>1, <3>1, <3>2 DEF CreateRoom, TypeOK, Finite, Started, inviteVars, keyVars
  <2>2. ASSUME NEW r \in Requests, NEW u \in Users, JoinRoom(r, u) PROVE TypeInv'
    <3>1. members' \in SUBSET Member /\ IsFiniteSet(members') /\ status = "open"
      BY <2>2, PushType DEF JoinRoom
    <3>2. Call("join", "uncache", u) \in Request /\ Call("join", "uncache", u).snap = {}
      BY CallType DEF AllOperations, Steps, Call
    <3>3. reqs' = [reqs EXCEPT ![r] = Call("join", "uncache", u)] /\ IsFiniteSet({})
      BY <2>2, FS_EmptySet DEF JoinRoom, Become
    <3> HIDE DEF Call
    <3> QED
      BY <2>2, <3>1, <3>2, <3>3
      DEF JoinRoom, Push, TypeOK, Finite, Started, inviteVars, keyVars
  <2>3. ASSUME NEW r \in Requests, NEW u \in Users, InviteCheck(r, u) PROVE TypeInv'
    <3>1. Become(r, Call("invite", "store", u)) /\ status # "none"
      BY <2>3 DEF InviteCheck, Enabled
    <3>2. reqs' \in Slots /\ Finite' /\ Started'
      BY <2>3, <3>1, ArrivalStep DEF InviteCheck, AllOperations, Steps
    <3> QED
      BY <2>3, <3>2, <1>rest DEF InviteCheck, TypeOK, inviteVars, keyVars
  <2>4. ASSUME NEW r \in Requests, NEW u \in Users, GetMiss(r, u) PROVE TypeInv'
    <3>1. Become(r, Call("get", "find", u)) /\ status # "none"
      BY <2>4 DEF GetMiss, Enabled
    <3>2. reqs' \in Slots /\ Finite' /\ Started'
      BY <2>4, <3>1, ArrivalStep DEF GetMiss, AllOperations, Steps
    <3> QED
      BY <2>4, <3>2, <1>rest DEF GetMiss, TypeOK, inviteVars, keyVars
  <2>5. ASSUME NEW r \in Requests, NEW u \in Users, SendCheck(r, u) PROVE TypeInv'
    <3>1. Become(r, Call("send", "count", u)) /\ status # "none"
      BY <2>5 DEF SendCheck, Enabled
    <3>2. reqs' \in Slots /\ Finite' /\ Started'
      BY <2>5, <3>1, ArrivalStep DEF SendCheck, AllOperations, Steps
    <3> QED
      BY <2>5, <3>2, <1>rest DEF SendCheck, TypeOK, inviteVars, keyVars
  <2>6. ASSUME NEW r \in Requests, NEW u \in Users, ViewHistory(r, u) PROVE TypeInv'
    <3>1. Become(r, Call("view", "view", u)) /\ status # "none"
      BY <2>6 DEF ViewHistory, Enabled
    <3>2. reqs' \in Slots /\ Finite' /\ Started'
      BY <2>6, <3>1, ArrivalStep DEF ViewHistory, AllOperations, Steps
    <3> QED
      BY <2>6, <3>2, <1>rest DEF ViewHistory, TypeOK, inviteVars, keyVars
  <2>7. ASSUME NEW r \in Requests, NEW u \in Users, MarkCheck(r, u) PROVE TypeInv'
    <3>1. Become(r, Call("mark", "mark", u)) /\ status # "none"
      BY <2>7 DEF MarkCheck, Enabled
    <3>2. reqs' \in Slots /\ Finite' /\ Started'
      BY <2>7, <3>1, ArrivalStep DEF MarkCheck, AllOperations, Steps
    <3> QED
      BY <2>7, <3>2, <1>rest DEF MarkCheck, TypeOK, inviteVars, keyVars
  <2>8. ASSUME NEW r \in Requests, NEW u \in Users, RedeemToken(r, u) PROVE TypeInv'
    <3>1. Become(r, Call("redeem", "push", u)) /\ status # "none"
      BY <2>8 DEF RedeemToken, Enabled
    <3>2. reqs' \in Slots /\ Finite' /\ Started'
      BY <2>8, <3>1, ArrivalStep DEF RedeemToken, AllOperations, Steps
    <3> QED
      BY <2>8, <3>2, <1>rest DEF RedeemToken, TypeOK, keyVars
  <2>9. ASSUME NEW r \in Requests, NEW u \in Users, LeaveRead(r, u) PROVE TypeInv'
    <3> DEFINE q == [Call("leave", "save", u) EXCEPT !.left = {u}]
    <3>1. Call("leave", "save", u) \in Request
      BY CallType DEF AllOperations, Steps
    <3>2. q \in Request
      BY <3>1 DEF Request
    <3>3. PICK pc \in {"drop", "save"} : Load(r, q, pc)
      BY <2>9 DEF LeaveRead
    <3>4. status # "none" /\ pc \in Steps
      BY <2>9 DEF LeaveRead, Enabled, Steps
    <3> HIDE DEF q
    <3>5. reqs' \in Slots /\ Finite' /\ Started'
      BY <2>9, <3>2, <3>3, <3>4, LoadStep DEF LeaveRead
    <3> QED
      BY <2>9, <3>5, <1>rest DEF LeaveRead, TypeOK, inviteVars, keyVars
  <2>10. ASSUME NEW r \in Requests, NEW op \in AllOperations, NEW u \in Users, NEW t \in Users,
              NEW role \in {"admin", "member"}, Gate(r, op, u, t, role)
       PROVE  TypeInv'
    <3> DEFINE q == [Call(op, "gated", u) EXCEPT !.target = t, !.role = role]
    <3>1. Call(op, "gated", u) \in Request /\ Call(op, "gated", u).snap = {}
      BY CallType DEF Steps, Call
    <3>2. q \in Request /\ q.snap = {}
      BY <3>1 DEF Request
    <3>3. Become(r, q) /\ status # "none" /\ IsFiniteSet({})
      BY <2>10, FS_EmptySet DEF Gate, Enabled
    <3> HIDE DEF q
    <3>4. reqs' \in Slots /\ Finite' /\ Started'
      BY <2>10, <3>2, <3>3, SlotStep DEF Gate
    <3> QED
      BY <2>10, <3>4, <1>rest DEF Gate, TypeOK, inviteVars, keyVars
  <2>11. ASSUME NEW r \in Requests, RedeemNothing(r) PROVE TypeInv'
    <3>1. reqs' \in Slots /\ Finite' /\ Started'
      BY <2>11, SlotStep DEF RedeemNothing, Return, Idle
    <3> QED
      BY <2>11, <3>1, <1>rest DEF RedeemNothing, TypeOK, inviteVars, keyVars
  <2>12. ASSUME NEW r \in Requests, Refuse(r) PROVE TypeInv'
    <3>1. reqs' \in Slots /\ Finite' /\ Started'
      BY <2>12, SlotStep DEF Refuse, Return, Idle
    <3> QED
      BY <2>12, <3>1, <1>rest DEF Refuse, TypeOK, inviteVars, keyVars
  <2>13. ASSUME NEW r \in Requests, SaveStale(r) PROVE TypeInv'
    <3>1. reqs' \in Slots /\ Finite' /\ Started'
      BY <2>13, SlotStep DEF SaveStale, Return, Idle
    <3> QED
      BY <2>13, <3>1, <1>rest DEF SaveStale, TypeOK, inviteVars, keyVars
  <2>14. ASSUME NEW r \in Requests, Abort(r) PROVE TypeInv'
    <3>1. reqs' \in Slots /\ Finite' /\ Started'
      BY <2>14, SlotStep DEF Abort, Return, Idle
    <3> QED
      BY <2>14, <3>1, <1>rest DEF Abort, TypeOK, inviteVars, keyVars
  <2>15. ASSUME NEW r \in Requests, InviteStore(r) PROVE TypeInv'
    <3>1. reqs' \in Slots /\ Finite' /\ Started'
      BY <2>15, SlotStep DEF InviteStore, Return, Idle
    <3> QED
      BY <2>15, <3>1, <1>rest DEF InviteStore, TypeOK, keyVars
  <2>16. ASSUME NEW r \in Requests, RedeemPush(r) PROVE TypeInv'
    <3>1. reqs[r] \in Request /\ reqs[r].actor \in Users
      BY <2>16, <1>typed DEF RedeemPush, At, Request
    <3>2. members' \in SUBSET Member /\ IsFiniteSet(members') /\ status = "open"
      BY <2>16, <3>1, PushType DEF RedeemPush
    <3>3. [reqs[r] EXCEPT !.pc = "uncache"] \in Request
      BY <3>1 DEF Request, Steps
    <3>4. reqs' \in [Requests -> {Idle} \cup Request]
      BY <2>16, <3>3 DEF RedeemPush, Goto, TypeOK
    <3>5. \A s \in Requests : reqs'[s].pc # "idle" => IsFiniteSet(reqs'[s].snap)
      BY <2>16, <3>1 DEF RedeemPush, Goto, TypeOK, Finite, At, Request
    <3> QED
      BY <2>16, <3>2, <3>4, <3>5
      DEF RedeemPush, Push, TypeOK, Finite, Started, inviteVars, keyVars
  <2>17. ASSUME NEW r \in Requests, LeaveSave(r) PROVE TypeInv'
    <3> DEFINE q == reqs[r]
               rest == Without(q.snap, q.actor)
    <3>1. q \in Request /\ q.snap \in SUBSET Member /\ q.pc = "save"
      BY <2>17, <1>typed DEF LeaveSave, At, Request
    <3>2. rest \in SUBSET Member /\ IsFiniteSet(rest)
      BY <3>1, WithoutType, FS_Subset DEF Finite, Without
    <3>3. CASE SaveArray(r, rest)
      BY <3>1, <3>2, <3>3, SaveArrayType
    <3>4. ASSUME NEW h, SaveArray(r, WithRole(rest, h, "owner")) PROVE TypeInv'
      BY <3>1, <3>2, <3>4, SaveArrayType, WithRoleType, WithRoleFinite DEF Roles
    <3> QED
      BY <2>17, <3>3, <3>4 DEF LeaveSave
  <2>18. ASSUME NEW r \in Requests, KickSave(r) PROVE TypeInv'
    <3> DEFINE rest == Without(reqs[r].snap, reqs[r].target)
    <3>1. reqs[r].snap \in SUBSET Member /\ reqs[r].pc = "save"
      BY <2>18, <1>typed DEF KickSave, At, Request
    <3>2. rest \in SUBSET Member /\ IsFiniteSet(rest)
      BY <3>1, WithoutType, FS_Subset DEF Finite, Without
    <3> QED
      BY <2>18, <3>1, <3>2, SaveArrayType DEF KickSave
  <2>19. ASSUME NEW r \in Requests, KickRead(r) PROVE TypeInv'
    <3> DEFINE q == [reqs[r] EXCEPT !.left = {reqs[r].target}]
    <3>1. q \in Request
      BY <2>19, <1>typed DEF KickRead, At, Request, UsersOf
    <3>2. Load(r, q, "save") /\ status # "none" /\ "save" \in Steps
      BY <2>19 DEF KickRead, Steps
    <3> HIDE DEF q
    <3>3. reqs' \in Slots /\ Finite' /\ Started'
      BY <2>19, <3>1, <3>2, LoadStep DEF KickRead
    <3> QED
      BY <2>19, <3>3, <1>rest DEF KickRead, TypeOK, inviteVars, keyVars
  <2>20. ASSUME NEW r \in Requests, RoleRead(r) PROVE TypeInv'
    <3> DEFINE q == reqs[r]
    <3>1. q \in Request
      BY <2>20, <1>typed DEF RoleRead, At, Request, UsersOf
    <3>2. Load(r, q, "save") /\ status # "none" /\ "save" \in Steps
      BY <2>20 DEF RoleRead, Steps
    <3> HIDE DEF q
    <3>3. reqs' \in Slots /\ Finite' /\ Started'
      BY <2>20, <3>1, <3>2, LoadStep DEF RoleRead
    <3> QED
      BY <2>20, <3>3, <1>rest DEF RoleRead, TypeOK, inviteVars, keyVars
  <2>21. ASSUME NEW r \in Requests, DeleteRead(r) PROVE TypeInv'
    <3> DEFINE q == [reqs[r] EXCEPT !.left = UsersOf(members)]
    <3>1. q \in Request
      BY <2>21, <1>typed DEF DeleteRead, At, Request, UsersOf, Member
    <3>2. Load(r, q, "drop") /\ status # "none" /\ "drop" \in Steps
      BY <2>21 DEF DeleteRead, Steps
    <3> HIDE DEF q
    <3>3. reqs' \in Slots /\ Finite' /\ Started'
      BY <2>21, <3>1, <3>2, LoadStep DEF DeleteRead
    <3> QED
      BY <2>21, <3>3, <1>rest DEF DeleteRead, TypeOK, inviteVars, keyVars
  <2>22. ASSUME NEW r \in Requests, RoleSave(r) PROVE TypeInv'
    <3>1. /\ reqs[r].role \in Roles
          /\ \A t : /\ WithRole(members, t, reqs[r].role) \in SUBSET Member
                    /\ IsFiniteSet(WithRole(members, t, reqs[r].role))
      BY <2>22, <1>typed, WithRoleType, WithRoleFinite DEF RoleSave, At, Request, Roles, Finite
    <3>2. members' \in SUBSET Member /\ IsFiniteSet(members')
      BY <2>22, <3>1 DEF RoleSave, TypeOK, Finite
    <3>3. reqs' = [reqs EXCEPT ![r] = Idle]
      BY <2>22 DEF RoleSave, Return, Become
    <3> QED
      BY <2>22, <3>2, <3>3
      DEF RoleSave, TypeOK, Finite, Started, Fresh, Idle, inviteVars, keyVars
  <2>23. ASSUME NEW r \in Requests, DropRoom(r) PROVE TypeInv'
    <3>1. [reqs[r] EXCEPT !.pc = "uncache"] \in Request
      BY <2>23, <1>typed DEF DropRoom, Request, Steps
    <3>2. reqs' \in [Requests -> {Idle} \cup Request]
      BY <2>23, <3>1 DEF DropRoom, Goto, TypeOK
    <3>3. \A s \in Requests : reqs'[s].pc # "idle" => IsFiniteSet(reqs'[s].snap)
      BY <2>23, <1>typed DEF DropRoom, Goto, TypeOK, Finite, Request
    <3>4. IsFiniteSet({})
      BY FS_EmptySet
    <3> QED
      BY <2>23, <3>2, <3>3, <3>4
      DEF DropRoom, TypeOK, Finite, Started, inviteVars, keyVars
  <2>24. ASSUME NEW r \in Requests, DelCache(r) PROVE TypeInv'
    <3>1. reqs' \in Slots /\ Finite' /\ Started'
      BY <2>24, FinishStep DEF DelCache
    <3> QED
      BY <2>24, <3>1, <1>rest DEF DelCache, TypeOK, inviteVars, keyVars
  <2>25. ASSUME NEW r \in Requests, ClearUnread(r) PROVE TypeInv'
    <3>1. CASE Finish(r, "unread")
      <4>1. reqs' \in Slots /\ Finite' /\ Started'
        BY <2>25, <3>1, FinishStep DEF ClearUnread
      <4> QED
        BY <2>25, <4>1, <1>rest DEF ClearUnread, TypeOK, inviteVars
    <3>2. ASSUME NEW u, reqs' = [reqs EXCEPT ![r].left = @ \ {u}] PROVE TypeInv'
      <4> DEFINE q == [reqs[r] EXCEPT !.left = @ \ {u}]
      <4>1. reqs[r] \in Request /\ reqs[r].pc # "idle"
        BY <2>25, <1>typed DEF ClearUnread
      <4>2. q \in Request /\ q.snap = reqs[r].snap /\ q.pc = reqs[r].pc
        BY <4>1 DEF Request
      <4>3. Become(r, q) /\ status # "none" /\ IsFiniteSet(reqs[r].snap)
        BY <3>2, <4>1 DEF Become, Finite, Started
      <4> HIDE DEF q
      <4>4. reqs' \in Slots /\ Finite' /\ Started'
        BY <2>25, <4>2, <4>3, SlotStep DEF ClearUnread
      <4> QED
        BY <2>25, <4>4, <1>rest DEF ClearUnread, TypeOK, inviteVars
    <3> QED
      BY <2>25, <3>1, <3>2 DEF ClearUnread
  <2>26. ASSUME NEW r \in Requests, ClearReceipts(r) PROVE TypeInv'
    <3>1. reqs' \in Slots /\ Finite' /\ Started'
      BY <2>26, FinishStep DEF ClearReceipts
    <3>2. receipts' \in SUBSET Users
      BY <2>26 DEF ClearReceipts, TypeOK
    <3> QED
      BY <2>26, <3>1, <3>2, <1>rest DEF ClearReceipts, TypeOK, inviteVars
  <2>27. ASSUME NEW r \in Requests, GetFind(r) PROVE TypeInv'
    <3>1. reqs[r] \in Request /\ status # "none" /\ "fill" \in Steps
      BY <2>27, <1>typed DEF GetFind, At, Started, Steps
    <3>2. Load(r, reqs[r], "fill") \/ Return(r)
      BY <2>27 DEF GetFind
    <3>3. reqs' \in Slots /\ Finite' /\ Started'
      BY <2>27, <3>1, <3>2, LoadStep, SlotStep DEF GetFind, Return, Idle
    <3> QED
      BY <2>27, <3>3, <1>rest DEF GetFind, TypeOK, inviteVars, keyVars
  <2>28. ASSUME NEW r \in Requests, GetFill(r) PROVE TypeInv'
    <3>1. reqs' \in Slots /\ Finite' /\ Started'
      BY <2>28, SlotStep DEF GetFill, Return, Idle
    <3>2. cache' \in Nat
      BY <2>28, FS_CardinalityType DEF GetFill, At, Finite
    <3> QED
      BY <2>28, <3>1, <3>2, <1>rest DEF GetFill, TypeOK, inviteVars, keyVars
  <2>29. ASSUME NEW r \in Requests, CountRead(r) PROVE TypeInv'
    <3> DEFINE others == UsersOf(members) \ {reqs[r].actor}
               q == [reqs[r] EXCEPT !.pc = "incr", !.left = others]
    <3>1. reqs[r] \in Request /\ status # "none" /\ IsFiniteSet(reqs[r].snap)
      BY <2>29, <1>typed DEF CountRead, At, Started, Finite
    <3>2. others \in SUBSET Users
      BY <1>typed DEF UsersOf, Member
    <3>3. q \in Request /\ q.snap = reqs[r].snap
      BY <3>1, <3>2 DEF Request, Steps
    <3>4. Become(r, q) \/ Return(r)
      BY <2>29 DEF CountRead
    <3> HIDE DEF q
    <3>5. reqs' \in Slots /\ Finite' /\ Started'
      BY <2>29, <3>1, <3>3, <3>4, SlotStep DEF CountRead, Return, Idle
    <3> QED
      BY <2>29, <3>5, <1>rest DEF CountRead, TypeOK, inviteVars, keyVars
  <2>30. ASSUME NEW r \in Requests, IncrementUnread(r) PROVE TypeInv'
    <3>1. reqs' \in Slots /\ Finite' /\ Started'
      BY <2>30, SlotStep DEF IncrementUnread, Return, Idle
    <3>2. reqs[r].left \in SUBSET Users /\ reqs[r].actor \in Users
      BY <2>30, <1>typed DEF IncrementUnread, At, Request
    <3> QED
      BY <2>30, <3>1, <3>2, <1>rest DEF IncrementUnread, TypeOK, inviteVars
  <2>31. ASSUME NEW r \in Requests, ViewMarks(r) PROVE TypeInv'
    <3>1. reqs' \in Slots /\ Finite' /\ Started'
      BY <2>31, SlotStep DEF ViewMarks, Return, Idle
    <3>2. reqs[r].left \in SUBSET Users /\ reqs[r].actor \in Users
      BY <2>31, <1>typed DEF ViewMarks, At, Request
    <3> QED
      BY <2>31, <3>1, <3>2, <1>rest DEF ViewMarks, TypeOK, inviteVars
  <2>32. ASSUME NEW r \in Requests, MarkRead(r) PROVE TypeInv'
    <3>1. reqs' \in Slots /\ Finite' /\ Started'
      BY <2>32, SlotStep DEF MarkRead, Return, Idle
    <3>2. reqs[r].left \in SUBSET Users /\ reqs[r].actor \in Users
      BY <2>32, <1>typed DEF MarkRead, At, Request
    <3> QED
      BY <2>32, <3>1, <3>2, <1>rest DEF MarkRead, TypeOK, inviteVars
  <2>33. ASSUME InviteExpire \/ CacheExpire PROVE TypeInv'
    BY <2>33 DEF InviteExpire, CacheExpire, TypeOK, Finite, Started, docVars,
                inviteVars, keyVars
  <2> QED
    BY <1>2, <2>1, <2>2, <2>3, <2>4, <2>5, <2>6, <2>7, <2>8, <2>9, <2>10, <2>11, <2>12, <2>13, <2>14, <2>15, <2>16, <2>17, <2>18, <2>19, <2>20, <2>21, <2>22, <2>23, <2>24, <2>25, <2>26, <2>27, <2>28, <2>29, <2>30, <2>31, <2>32, <2>33
    DEF Next, Arrive, Proceed, KickGate, RoleGate, DeleteGate, AllOperations
<1> QED
  BY <1>1, <1>2

\* Every variable of the model keeps a value the code can give it, documents
\* and copies stay finite, and no request exists before its room.
THEOREM TypeCorrect == Spec => [](TypeOK /\ Finite /\ Started)
<1>1. TypeInv => TypeOK /\ Finite /\ Started
  BY DEF TypeInv
<1> QED
  BY <1>1, TypeInit, TypeStep, PTL DEF Spec

-----------------------------------------------------------------------------
(* Ownership.  The document alone is not inductive: a whole-array save puts *)
(* a copy in its place, so what the copies hold is part of the invariant,   *)
(* and the version check is what ties a copy to the document.              *)

OwnerInv == SingleOwner /\ UniqueMembers /\ CopiesAgree

Inv == TypeInv /\ OwnerInv

\* A step after which every good copy is still good, and which leaves a good
\* copy, or no copy about to be saved, in the one slot it changes.
LEMMA CopiesStep ==
  ASSUME CopiesAgree, TypeInv, NEW r \in Requests, NEW q, Become(r, q),
         \A c \in Request : GoodCopy(c) => GoodCopy(c)',
         q.pc = "save" => GoodCopy(q)'
  PROVE  CopiesAgree'
<1> SUFFICES ASSUME NEW s \in Requests, reqs'[s].pc = "save" PROVE GoodCopy(reqs[s])'
  BY DEF CopiesAgree
<1>1. reqs' = [reqs EXCEPT ![r] = q] /\ reqs \in Slots
  BY DEF Become, TypeInv, TypeOK, Slots
<1>2. CASE s = r
  <2>1. reqs'[s] = q
    BY <1>1, <1>2 DEF Slots
  <2> QED
    BY <2>1 DEF GoodCopy, Agrees
<1>3. CASE s # r
  <2> DEFINE c == reqs[s]
  <2>1. reqs'[s] = c
    BY <1>1, <1>3 DEF Slots
  <2>2. c \in Request /\ GoodCopy(c)
    BY <1>1, <2>1, BusySlot DEF CopiesAgree
  <2> QED
    BY <2>1, <2>2 DEF GoodCopy, Agrees
<1> QED
  BY <1>2, <1>3

\* While the document stays as it is, so does the worth of every copy.
LEMMA SameDocument ==
  ASSUME UNCHANGED docVars
  PROVE  \A c \in Request : GoodCopy(c) => GoodCopy(c)'
BY DEF GoodCopy, Agrees, docVars

\* A push disturbs no copy: it only adds a member.
LEMMA PushKeepsCopies ==
  ASSUME NEW u, Push(u)
  PROVE  \A c \in Request : GoodCopy(c) => GoodCopy(c)'
BY DEF Push, GoodCopy, Agrees

\* A whole-array save makes every copy made before it stale.
LEMMA SaveStalesCopies ==
  ASSUME TypeInv, version' = version + 1
  PROVE  \A c \in Request : GoodCopy(c) => GoodCopy(c)'
BY DEF GoodCopy, TypeInv, TypeOK, Request

\* Taking out a member who is not the owner.
LEMMA RemovalKeepsOwner ==
  ASSUME NEW s \in SUBSET Member, OneOwner(s), Distinct(s), NEW u, ~IsOwner(s, u)
  PROVE  OneOwner(Without(s, u)) /\ Distinct(Without(s, u))
<1>1. PICK o \in s : \A m \in s : (m.role = "owner") <=> (m = o)
  BY DEF OneOwner
<1>2. o \in Without(s, u)
  BY <1>1 DEF Without, IsOwner
<1> QED
  BY <1>1, <1>2 DEF OneOwner, Distinct, Without

\* Taking out the owner and giving the role to an heir.
LEMMA HandOverKeepsOwner ==
  ASSUME NEW s \in SUBSET Member, OneOwner(s), Distinct(s), NEW u, IsOwner(s, u),
         NEW h \in Heirs(s, u)
  PROVE  LET new == WithRole(Without(s, u), h, "owner")
         IN  OneOwner(new) /\ Distinct(new)
<1> DEFINE rest == Without(s, u)
           new == WithRole(rest, h, "owner")
<1>1. h \in rest /\ rest \in SUBSET Member /\ Distinct(rest)
  BY HeirsWithin DEF Distinct, Without
<1>2. \A m \in rest : m.role # "owner"
  BY DEF OneOwner, IsOwner, Distinct, Without
<1>3. new = {IF m = h THEN [m EXCEPT !.role = "owner"] ELSE m : m \in rest}
  BY <1>1 DEF WithRole, Distinct
<1> DEFINE o == [h EXCEPT !.role = "owner"]
<1>4. new = (rest \ {h}) \cup {o}
  BY <1>1, <1>3
<1>5. o.role = "owner" /\ o.user = h.user /\ o.seat = h.seat /\ o \in Member
  BY <1>1 DEF Member, Roles
<1> HIDE DEF rest, new, o
<1>6. OneOwner(new)
  BY <1>2, <1>4, <1>5 DEF OneOwner
<1>7. Distinct(new)
  <2>1. \A m \in rest \ {h} : m.user # o.user /\ m.seat # o.seat
    BY <1>1, <1>5 DEF Distinct
  <2> QED
    BY <1>1, <1>4, <2>1 DEF Distinct
<1> QED
  BY <1>6, <1>7 DEF new, rest

\* Giving a member who is not the owner a role below owner.
LEMMA RoleKeepsOwner ==
  ASSUME NEW s \in SUBSET Member, OneOwner(s), Distinct(s), NEW h \in Member,
         NEW role \in {"admin", "member"},
         \A m \in s : m.seat = h.seat => m.role # "owner"
  PROVE  OneOwner(WithRole(s, h, role)) /\ Distinct(WithRole(s, h, role))
<1> DEFINE new == WithRole(s, h, role)
<1>1. \A m \in new : \E n \in s :
        /\ m.user = n.user /\ m.seat = n.seat /\ (m.role = "owner" <=> n.role = "owner")
        /\ (m = IF n.seat = h.seat THEN [n EXCEPT !.role = role] ELSE n)
  BY DEF WithRole, Member
<1>2. Distinct(new)
  BY <1>1 DEF Distinct
<1>3. PICK o \in s : \A m \in s : (m.role = "owner") <=> (m = o)
  BY DEF OneOwner
<1>4. o \in new
  BY <1>3 DEF WithRole
<1>5. \A m \in new : (m.role = "owner") <=> (m = o)
  BY <1>1, <1>3, <1>4
<1> QED
  BY <1>2, <1>4, <1>5 DEF OneOwner

\* $push keeps one owner and no duplicates.
LEMMA PushKeepsOwner ==
  ASSUME TypeInv, SingleOwner, UniqueMembers, NEW u \in Users, Push(u)
  PROVE  SingleOwner' /\ UniqueMembers'
<1>1. PICK last \in members :
        /\ \A m \in members : m.seat <= last.seat
        /\ members' = members \cup
             {[user |-> u, seat |-> last.seat + 1, role |-> "member"]}
  BY DEF Push
<1>2. status = "open" /\ status' = "open" /\ u \notin UsersOf(members)
  BY DEF Push, Pushable
<1>3. \A m \in members : m.seat \in Nat /\ m.user # u /\ m.seat # last.seat + 1
  BY <1>1, <1>2 DEF TypeInv, TypeOK, Member, UsersOf
<1>4. UniqueMembers'
  BY <1>1, <1>3 DEF UniqueMembers, Distinct
<1>5. SingleOwner'
  BY <1>1, <1>2, <1>3 DEF SingleOwner, OneOwner
<1> QED
  BY <1>4, <1>5

\* A whole-array save of an array in order.
LEMMA SaveKeepsOwner ==
  ASSUME Inv, NEW r \in Requests, NEW new, OneOwner(new), Distinct(new),
         SaveArray(r, new)
  PROVE  OwnerInv'
<1>1. SingleOwner' /\ UniqueMembers'
  BY DEF SaveArray, Fresh, SingleOwner, UniqueMembers
<1>2. CopiesAgree'
  <2> DEFINE q == [Call(reqs[r].op, FirstCleanup(reqs[r].op), reqs[r].actor)
                     EXCEPT !.left = reqs[r].left]
  <2>1. q.pc # "save" /\ Become(r, q)
    BY DEF Call, FirstCleanup, SaveArray
  <2> HIDE DEF q
  <2>2. version' = version + 1
    BY DEF SaveArray
  <2> QED
    BY <2>1, <2>2, SaveStalesCopies, CopiesStep DEF Inv, OwnerInv
<1> QED
  BY <1>1, <1>2 DEF OwnerInv

\* A step that leaves the document alone and no new copy about to be saved.
LEMMA AsideKeepsOwner ==
  ASSUME Inv, NEW r \in Requests, NEW q, Become(r, q), q.pc # "save",
         UNCHANGED docVars
  PROVE  OwnerInv'
<1>1. SingleOwner' /\ UniqueMembers'
  BY DEF Inv, OwnerInv, SingleOwner, UniqueMembers, docVars
<1>2. CopiesAgree'
  BY SameDocument, CopiesStep DEF Inv, OwnerInv
<1> QED
  BY <1>1, <1>2 DEF OwnerInv

\* The same for a request that only goes to another step, or ends.
LEMMA AdvanceKeepsOwner ==
  ASSUME Inv, NEW r \in Requests, reqs[r].pc # "idle", NEW pc, pc # "save",
         Goto(r, pc) \/ Return(r), UNCHANGED docVars
  PROVE  OwnerInv'
<1>1. CASE Goto(r, pc)
  <2> DEFINE q == [reqs[r] EXCEPT !.pc = pc]
  <2>1. q.pc # "save"
    BY BusySlot DEF Inv, TypeInv, TypeOK, Slots, Request
  <2>2. Become(r, q)
    BY <1>1 DEF Goto, Become
  <2> HIDE DEF q
  <2> QED
    BY <2>1, <2>2, AsideKeepsOwner
<1>2. CASE Return(r)
  BY <1>2, AsideKeepsOwner DEF Return, Idle
<1> QED
  BY <1>1, <1>2

LEMMA FinishKeepsOwner ==
  ASSUME Inv, NEW r \in Requests, reqs[r].pc # "idle", NEW done, Finish(r, done),
         UNCHANGED docVars
  PROVE  OwnerInv'
<1>1. \/ Goto(r, "unread") \/ Goto(r, "receipts") \/ Goto(r, "uncache")
      \/ Return(r)
  BY DEF Finish
<1> QED
  BY <1>1, AdvanceKeepsOwner

\* A request that loads the document of an open room in order to save it.
LEMMA LoadKeepsOwner ==
  ASSUME Inv, status = "open", NEW r \in Requests, NEW q \in Request,
         Load(r, q, "save"), UNCHANGED docVars,
         \/ /\ q.op = "leave" /\ q.actor \in UsersOf(members)
            /\ IsOwner(members, q.actor) => Without(members, q.actor) # {}
         \/ /\ q.op \in {"kick", "role"} /\ q.target \in UsersOf(members)
            /\ ~IsOwner(members, q.target)
  PROVE  OwnerInv'
<1>0. PICK c : c = [q EXCEPT !.pc = "save", !.snap = members, !.ver = version]
  OBVIOUS
<1>1. /\ c.snap = members /\ c.ver = version /\ c.op = q.op
      /\ c.actor = q.actor /\ c.target = q.target
  BY <1>0 DEF Request
<1>2. Become(r, c)
  BY <1>0 DEF Load
<1>3. Agrees(members)
  BY DEF Agrees
<1>4. GoodCopy(c)
  <2>1. Distinct(c.snap) /\ OneOwner(c.snap)
    BY <1>1 DEF Inv, OwnerInv, SingleOwner, UniqueMembers
  <2>2. c.ver <= version
    BY <1>1 DEF Inv, TypeInv, TypeOK
  <2>3. Agrees(c.snap)
    BY <1>1, <1>3
  <2>4. \/ /\ c.op = "leave" /\ c.actor \in UsersOf(c.snap)
           /\ IsOwner(c.snap, c.actor) => Without(c.snap, c.actor) # {}
        \/ /\ c.op \in {"kick", "role"} /\ c.target \in UsersOf(c.snap)
           /\ ~IsOwner(c.snap, c.target)
    BY <1>1
  <2> QED
    BY <2>1, <2>2, <2>3, <2>4 DEF GoodCopy
<1>5. c \in Request
  BY <1>0 DEF Inv, TypeInv, TypeOK, Request, Steps
<1>6. GoodCopy(c)'
  BY <1>4, <1>5, SameDocument
<1>7. SingleOwner' /\ UniqueMembers'
  BY DEF Inv, OwnerInv, SingleOwner, UniqueMembers, docVars
<1>8. CopiesAgree'
  BY <1>2, <1>6, SameDocument, CopiesStep DEF Inv, OwnerInv
<1> QED
  BY <1>7, <1>8 DEF OwnerInv

-----------------------------------------------------------------------------
\* The ownership invariant holds initially and every step preserves it.
LEMMA OwnerInit == Init => OwnerInv
<1> SUFFICES ASSUME Init PROVE OwnerInv
  OBVIOUS
<1>1. \A r \in Requests : reqs[r].pc # "save"
  BY DEF Init, Idle
<1> QED
  BY <1>1 DEF Init, OwnerInv, SingleOwner, UniqueMembers, Distinct, CopiesAgree

LEMMA OwnerStep == Inv /\ [Next]_vars => OwnerInv'
<1> SUFFICES ASSUME Inv, [Next]_vars PROVE OwnerInv'
  OBVIOUS
<1>1. CASE UNCHANGED vars
  BY <1>1 DEF Inv, OwnerInv, SingleOwner, UniqueMembers, CopiesAgree, GoodCopy,
              Agrees, vars, docVars
<1>2. CASE Next
  <2>1. ASSUME NEW u \in Users, CreateRoom(u) PROVE OwnerInv'
    <3>1. \A r \in Requests : reqs'[r].pc = "idle"
      BY <2>1 DEF CreateRoom, Inv, TypeInv, Started
    <3>2. SingleOwner' /\ UniqueMembers'
      BY <2>1 DEF CreateRoom, SingleOwner, OneOwner, UniqueMembers, Distinct
    <3> QED
      BY <3>1, <3>2 DEF OwnerInv, CopiesAgree
  <2>2. ASSUME NEW r \in Requests, NEW u \in Users, JoinRoom(r, u) PROVE OwnerInv'
    <3>1. PICK q : q = Call("join", "uncache", u)
      OBVIOUS
    <3>2. q.pc # "save" /\ Become(r, q)
      BY <2>2, <3>1 DEF JoinRoom, Call
    <3>3. Push(u)
      BY <2>2 DEF JoinRoom
    <3>4. CopiesAgree'
      BY <3>2, <3>3, PushKeepsCopies, CopiesStep DEF Inv, OwnerInv
    <3> QED
      BY <3>3, <3>4, PushKeepsOwner DEF Inv, OwnerInv
  <2>3. ASSUME NEW r \in Requests, RedeemPush(r) PROVE OwnerInv'
    <3>1. PICK q : q = [reqs[r] EXCEPT !.pc = "uncache"]
      OBVIOUS
    <3>2. reqs[r] \in Request /\ reqs[r].actor \in Users
      BY <2>3, BusySlot DEF RedeemPush, At, Request, Inv, TypeInv, TypeOK, Slots
    <3>3. q.pc # "save" /\ Become(r, q)
      BY <2>3, <3>1, <3>2 DEF RedeemPush, Goto, Become, Request
    <3>4. Push(reqs[r].actor)
      BY <2>3 DEF RedeemPush
    <3>5. CopiesAgree'
      BY <3>3, <3>4, PushKeepsCopies, CopiesStep DEF Inv, OwnerInv
    <3> QED
      BY <3>2, <3>4, <3>5, PushKeepsOwner DEF Inv, OwnerInv
  <2>4. ASSUME NEW r \in Requests, NEW u \in Users, InviteCheck(r, u) PROVE OwnerInv'
    <3>1. Call("invite", "store", u).pc # "save"
      BY DEF Call
    <3> QED
      BY <2>4, <3>1, AsideKeepsOwner DEF InviteCheck
  <2>5. ASSUME NEW r \in Requests, NEW u \in Users, RedeemToken(r, u) PROVE OwnerInv'
    <3>1. Call("redeem", "push", u).pc # "save"
      BY DEF Call
    <3> QED
      BY <2>5, <3>1, AsideKeepsOwner DEF RedeemToken
  <2>6. ASSUME NEW r \in Requests, NEW u \in Users, GetMiss(r, u) PROVE OwnerInv'
    <3>1. Call("get", "find", u).pc # "save"
      BY DEF Call
    <3> QED
      BY <2>6, <3>1, AsideKeepsOwner DEF GetMiss
  <2>7. ASSUME NEW r \in Requests, NEW u \in Users, SendCheck(r, u) PROVE OwnerInv'
    <3>1. Call("send", "count", u).pc # "save"
      BY DEF Call
    <3> QED
      BY <2>7, <3>1, AsideKeepsOwner DEF SendCheck
  <2>8. ASSUME NEW r \in Requests, NEW u \in Users, ViewHistory(r, u) PROVE OwnerInv'
    <3>1. Call("view", "view", u).pc # "save"
      BY DEF Call
    <3> QED
      BY <2>8, <3>1, AsideKeepsOwner DEF ViewHistory
  <2>9. ASSUME NEW r \in Requests, NEW u \in Users, MarkCheck(r, u) PROVE OwnerInv'
    <3>1. Call("mark", "mark", u).pc # "save"
      BY DEF Call
    <3> QED
      BY <2>9, <3>1, AsideKeepsOwner DEF MarkCheck
  <2>10. ASSUME NEW r \in Requests, NEW op, NEW u, NEW t, NEW role, Gate(r, op, u, t, role)
       PROVE  OwnerInv'
    <3>1. PICK q : q = [Call(op, "gated", u) EXCEPT !.target = t, !.role = role]
      OBVIOUS
    <3>2. q.pc # "save" /\ Become(r, q)
      BY <2>10, <3>1 DEF Gate, Call
    <3> QED
      BY <2>10, <3>2, AsideKeepsOwner DEF Gate
  <2>11. ASSUME NEW r \in Requests, InviteStore(r) PROVE OwnerInv'
    BY <2>11, AsideKeepsOwner DEF InviteStore, Return, Idle
  <2>12. ASSUME NEW r \in Requests, RedeemNothing(r) PROVE OwnerInv'
    BY <2>12, AsideKeepsOwner DEF RedeemNothing, Return, Idle
  <2>13. ASSUME NEW r \in Requests, Refuse(r) PROVE OwnerInv'
    BY <2>13, AsideKeepsOwner DEF Refuse, Return, Idle
  <2>14. ASSUME NEW r \in Requests, SaveStale(r) PROVE OwnerInv'
    BY <2>14, AsideKeepsOwner DEF SaveStale, Return, Idle
  <2>15. ASSUME NEW r \in Requests, Abort(r) PROVE OwnerInv'
    BY <2>15, AsideKeepsOwner DEF Abort, Return, Idle
  <2>16. ASSUME NEW r \in Requests, GetFill(r) PROVE OwnerInv'
    BY <2>16, AsideKeepsOwner DEF GetFill, Return, Idle
  <2>17. ASSUME NEW r \in Requests, IncrementUnread(r) PROVE OwnerInv'
    BY <2>17, AsideKeepsOwner DEF IncrementUnread, Return, Idle
  <2>18. ASSUME NEW r \in Requests, ViewMarks(r) PROVE OwnerInv'
    BY <2>18, AsideKeepsOwner DEF ViewMarks, Return, Idle
  <2>19. ASSUME NEW r \in Requests, MarkRead(r) PROVE OwnerInv'
    BY <2>19, AsideKeepsOwner DEF MarkRead, Return, Idle
  <2>20. ASSUME NEW r \in Requests, DelCache(r) PROVE OwnerInv'
    BY <2>20, FinishKeepsOwner DEF DelCache
  <2>21. ASSUME NEW r \in Requests, ClearReceipts(r) PROVE OwnerInv'
    BY <2>21, FinishKeepsOwner DEF ClearReceipts
  <2>22. ASSUME NEW r \in Requests, ClearUnread(r) PROVE OwnerInv'
    <3>1. ASSUME NEW u, reqs' = [reqs EXCEPT ![r].left = @ \ {u}] PROVE OwnerInv'
      <4>1. PICK q : q = [reqs[r] EXCEPT !.left = @ \ {u}]
        OBVIOUS
      <4>2. reqs[r] \in Request
        BY <2>22, BusySlot DEF ClearUnread, Inv, TypeInv, TypeOK, Slots
      <4>3. q.pc # "save" /\ Become(r, q)
        BY <2>22, <3>1, <4>1, <4>2 DEF ClearUnread, Become, Request
      <4> QED
        BY <2>22, <4>3, AsideKeepsOwner DEF ClearUnread
    <3> QED
      BY <2>22, <3>1, FinishKeepsOwner DEF ClearUnread
  <2>23. ASSUME NEW r \in Requests, GetFind(r) PROVE OwnerInv'
    <3>1. PICK q : q = [reqs[r] EXCEPT !.pc = "fill", !.snap = members, !.ver = version]
      OBVIOUS
    <3>2. q.pc # "save"
      BY <2>23, <3>1, BusySlot DEF GetFind, At, Request, Inv, TypeInv, TypeOK, Slots
    <3>3. Become(r, q) \/ Return(r)
      BY <2>23, <3>1 DEF GetFind, Load
    <3> QED
      BY <2>23, <3>2, <3>3, AsideKeepsOwner DEF GetFind, Return, Idle
  <2>24. ASSUME NEW r \in Requests, CountRead(r) PROVE OwnerInv'
    <3>1. PICK q : q = [reqs[r] EXCEPT !.pc = "incr",
                          !.left = UsersOf(members) \ {reqs[r].actor}]
      OBVIOUS
    <3>2. q.pc # "save"
      BY <2>24, <3>1, BusySlot DEF CountRead, At, Request, Inv, TypeInv, TypeOK, Slots
    <3>3. Become(r, q) \/ Return(r)
      BY <2>24, <3>1 DEF CountRead
    <3> QED
      BY <2>24, <3>2, <3>3, AsideKeepsOwner DEF CountRead, Return, Idle
  <2>25. ASSUME NEW r \in Requests, DeleteRead(r) PROVE OwnerInv'
    <3>1. PICK q : q = [reqs[r] EXCEPT !.left = UsersOf(members), !.pc = "drop",
                          !.snap = members, !.ver = version]
      OBVIOUS
    <3>2. q.pc # "save"
      BY <2>25, <3>1, BusySlot DEF DeleteRead, At, Request, Inv, TypeInv, TypeOK, Slots
    <3>3. Become(r, q)
      BY <2>25, <3>1 DEF DeleteRead, Load
    <3> QED
      BY <2>25, <3>2, <3>3, AsideKeepsOwner DEF DeleteRead
  <2>26. ASSUME NEW r \in Requests, NEW u \in Users, LeaveRead(r, u) PROVE OwnerInv'
    <3>1. PICK q : q = [Call("leave", "save", u) EXCEPT !.left = {u}]
      OBVIOUS
    <3>2. q \in Request /\ q.op = "leave" /\ q.actor = u
      BY <3>1 DEF Call, Request, AllOperations, Steps
    <3>3. CASE Load(r, q, "drop")
      <4>1. PICK c : c = [q EXCEPT !.pc = "drop", !.snap = members, !.ver = version]
        OBVIOUS
      <4>2. c.pc # "save" /\ Become(r, c)
        BY <3>2, <3>3, <4>1 DEF Load, Request
      <4> QED
        BY <2>26, <4>2, AsideKeepsOwner DEF LeaveRead
    <3>4. CASE Load(r, q, "save") /\ ~(IsOwner(members, u) /\ Without(members, u) = {})
      BY <2>26, <3>2, <3>4, LoadKeepsOwner DEF LeaveRead, IsMember
    <3> QED
      BY <2>26, <3>1, <3>3, <3>4 DEF LeaveRead
  <2>27. ASSUME NEW r \in Requests, KickRead(r) PROVE OwnerInv'
    <3>1. PICK q : q = [reqs[r] EXCEPT !.left = {reqs[r].target}]
      OBVIOUS
    <3>2. reqs[r] \in Request /\ reqs[r].op = "kick"
      BY <2>27, BusySlot DEF KickRead, At, Inv, TypeInv, TypeOK, Slots
    <3>3. q \in Request /\ q.op = "kick" /\ q.target = reqs[r].target
      BY <3>1, <3>2 DEF Request
    <3>4. q.target \in UsersOf(members) /\ ~IsOwner(members, q.target)
      BY <2>27, <3>3 DEF KickRead, MayKick, UsersOf, IsOwner, Inv, OwnerInv, UniqueMembers, Distinct
    <3>5. Load(r, q, "save") /\ status = "open"
      BY <2>27, <3>1 DEF KickRead
    <3> QED
      BY <2>27, <3>3, <3>4, <3>5, LoadKeepsOwner DEF KickRead
  <2>28. ASSUME NEW r \in Requests, RoleRead(r) PROVE OwnerInv'
    <3>1. PICK q : q = reqs[r]
      OBVIOUS
    <3>2. reqs[r] \in Request /\ reqs[r].op = "role"
      BY <2>28, BusySlot DEF RoleRead, At, Inv, TypeInv, TypeOK, Slots
    <3>3. q \in Request /\ q.op = "role" /\ q.target = reqs[r].target
      BY <3>1, <3>2 DEF Request
    <3>4. q.target \in UsersOf(members) /\ ~IsOwner(members, q.target)
      BY <2>28, <3>3 DEF RoleRead, MayAssign, UsersOf, IsOwner, Inv, OwnerInv, UniqueMembers, Distinct
    <3>5. Load(r, q, "save") /\ status = "open"
      BY <2>28, <3>1 DEF RoleRead
    <3> QED
      BY <2>28, <3>3, <3>4, <3>5, LoadKeepsOwner DEF RoleRead
  <2>29. ASSUME NEW r \in Requests, LeaveSave(r) PROVE OwnerInv'
    <3> DEFINE s == reqs[r].snap
               u == reqs[r].actor
    <3>1. GoodCopy(reqs[r]) /\ s \in SUBSET Member
      BY <2>29, BusySlot
      DEF LeaveSave, At, Inv, OwnerInv, CopiesAgree, TypeInv, TypeOK, Slots, Request
    <3>2. OneOwner(s) /\ Distinct(s)
      BY <3>1 DEF GoodCopy
    <3>3. CASE ~IsOwner(s, u) /\ SaveArray(r, Without(s, u))
      BY <3>1, <3>2, <3>3, RemovalKeepsOwner, SaveKeepsOwner
    <3>4. ASSUME IsOwner(s, u), NEW h \in Heirs(s, u),
                 SaveArray(r, WithRole(Without(s, u), h, "owner"))
          PROVE  OwnerInv'
      BY <3>1, <3>2, <3>4, HandOverKeepsOwner, SaveKeepsOwner
    <3> QED
      BY <2>29, <3>3, <3>4 DEF LeaveSave
  <2>30. ASSUME NEW r \in Requests, KickSave(r) PROVE OwnerInv'
    <3> DEFINE s == reqs[r].snap
               t == reqs[r].target
    <3>1. GoodCopy(reqs[r]) /\ s \in SUBSET Member
      BY <2>30, BusySlot
      DEF KickSave, At, Inv, OwnerInv, CopiesAgree, TypeInv, TypeOK, Slots, Request
    <3>2. OneOwner(s) /\ Distinct(s) /\ ~IsOwner(s, t)
      BY <2>30, <3>1 DEF GoodCopy, KickSave, At
    <3> QED
      BY <2>30, <3>1, <3>2, RemovalKeepsOwner, SaveKeepsOwner DEF KickSave
  <2>31. ASSUME NEW r \in Requests, RoleSave(r) PROVE OwnerInv'
    <3> DEFINE role == reqs[r].role
    <3>1. /\ reqs[r] \in Request /\ reqs[r].snap \in SUBSET Member
          /\ role \in {"admin", "member"} /\ GoodCopy(reqs[r])
      BY <2>31, BusySlot
      DEF RoleSave, At, Inv, OwnerInv, CopiesAgree, TypeInv, TypeOK, Slots, Request
    <3>2. PICK t \in reqs[r].snap :
            /\ t.user = reqs[r].target
            /\ members' = IF t.role = role THEN members ELSE WithRole(members, t, role)
      BY <2>31 DEF RoleSave
    <3>3. /\ OneOwner(members) /\ Distinct(members) /\ Agrees(reqs[r].snap)
          /\ t \in Member /\ t.role # "owner" /\ members \in SUBSET Member
      BY <2>31, <3>1, <3>2
      DEF RoleSave, At, Fresh, GoodCopy, IsOwner, Inv, OwnerInv, SingleOwner,
          UniqueMembers, TypeInv, TypeOK
    <3>4. \A m \in members : m.seat = t.seat => m.role # "owner"
      BY <3>2, <3>3 DEF Agrees, Distinct
    <3>5. OneOwner(members') /\ Distinct(members')
      BY <3>1, <3>2, <3>3, <3>4, RoleKeepsOwner
    <3>6. \A m \in members : \E n \in members' :
            n.user = m.user /\ n.seat = m.seat /\ (n.role = "owner" <=> m.role = "owner")
      <4> SUFFICES ASSUME NEW m \in members, members' = WithRole(members, t, role)
                   PROVE  \E n \in members' : /\ n.user = m.user /\ n.seat = m.seat
                                              /\ n.role = "owner" <=> m.role = "owner"
        BY <3>2
      <4>1. PICK n : n = IF m.seat = t.seat THEN [m EXCEPT !.role = role] ELSE m
        OBVIOUS
      <4>2. n \in members'
        BY <4>1 DEF WithRole
      <4>3. n.user = m.user /\ n.seat = m.seat /\ (n.role = "owner" <=> m.role = "owner")
        BY <3>1, <3>3, <3>4, <4>1 DEF Member
      <4> QED
        BY <4>2, <4>3
    <3>7. \A c \in Request : GoodCopy(c) => GoodCopy(c)'
      <4> SUFFICES ASSUME NEW c \in Request, GoodCopy(c) PROVE GoodCopy(c)'
        OBVIOUS
      <4>1. Agrees(c.snap) => Agrees(c.snap)'
        BY <3>6 DEF Agrees
      <4> QED
        BY <2>31, <4>1 DEF GoodCopy, RoleSave
    <3>8. CopiesAgree'
      BY <2>31, <3>7, CopiesStep DEF RoleSave, Return, Idle, Inv, OwnerInv
    <3> QED
      BY <2>31, <3>5, <3>8 DEF RoleSave, Fresh, OwnerInv, SingleOwner, UniqueMembers
  <2>32. ASSUME NEW r \in Requests, DropRoom(r) PROVE OwnerInv'
    <3>1. PICK q : q = [reqs[r] EXCEPT !.pc = "uncache"]
      OBVIOUS
    <3>2. q.pc # "save" /\ Become(r, q)
      BY <2>32, <3>1, BusySlot
      DEF DropRoom, Goto, Become, Request, Inv, TypeInv, TypeOK, Slots
    <3>3. \A c \in Request : GoodCopy(c) => GoodCopy(c)'
      BY <2>32 DEF DropRoom, GoodCopy
    <3>4. CopiesAgree'
      BY <3>2, <3>3, CopiesStep DEF Inv, OwnerInv
    <3> QED
      BY <2>32, <3>4 DEF DropRoom, OwnerInv, SingleOwner, UniqueMembers, Distinct
  <2>33. ASSUME InviteExpire \/ CacheExpire PROVE OwnerInv'
    <3>1. UNCHANGED <<docVars, reqs>>
      BY <2>33 DEF InviteExpire, CacheExpire, docVars
    <3> QED
      BY <3>1 DEF Inv, OwnerInv, SingleOwner, UniqueMembers, CopiesAgree, GoodCopy,
                  Agrees, docVars
  <2> QED
    BY <1>2, <2>1, <2>2, <2>3, <2>4, <2>5, <2>6, <2>7, <2>8, <2>9, <2>10, <2>11, <2>12, <2>13, <2>14, <2>15, <2>16, <2>17, <2>18, <2>19, <2>20, <2>21, <2>22, <2>23, <2>24, <2>25, <2>26, <2>27, <2>28, <2>29, <2>30, <2>31, <2>32, <2>33
    DEF Next, Arrive, Proceed, KickGate, RoleGate, DeleteGate
<1> QED
  BY <1>1, <1>2

\* An open room always has exactly one owner and nobody in it twice, and what
\* a handler is about to save agrees with the document on that.
THEOREM OwnerCorrect == Spec => [](SingleOwner /\ UniqueMembers /\ CopiesAgree)
<1>1. Init => Inv
  BY TypeInit, OwnerInit DEF Inv
<1>2. Inv /\ [Next]_vars => Inv'
  BY TypeStep, OwnerStep DEF Inv
<1>3. Inv => SingleOwner /\ UniqueMembers /\ CopiesAgree
  BY DEF Inv, OwnerInv
<1> QED
  BY <1>1, <1>2, <1>3, PTL DEF Spec

\* The members array of the document holds no user and no place twice: joins
\* that push without reading and saves that write back what was read agree.
THEOREM MembersDistinct == Spec => []UniqueMembers
BY OwnerCorrect, PTL

\* Every copy a leave, a kick or a role change is about to save is in order, and
\* differs from a document with its version only in what a save may overwrite.
THEOREM CopiesInOrder == Spec => []CopiesAgree
BY OwnerCorrect, PTL

=============================================================================
