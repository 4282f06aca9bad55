------------------------------- MODULE Sockets -------------------------------
(***************************************************************************)
(* The socket servers' view of one room: which connections each instance   *)
(* tracks, which of them are in the room's channel, and what Redis says    *)
(* about who is online and present.  The instances share MongoDB and       *)
(* Redis; the map userSockets is private to each of them.  An event-loop   *)
(* turn, from a reply to the next await, is one action, and the commands   *)
(* an instance sends to Redis take effect in the order it sent them.       *)
(***************************************************************************)
EXTENDS Naturals, Sequences, FiniteSets

CONSTANTS
  Users,
  Instances,  \* server processes
  Tabs,       \* bound: connections a user may open to each instance
  Events      \* the events enabled in this instance of the model

AllEvents == {"join", "redeem", "leave", "dropEarly", "fail", "age", "crash"}

ASSUME SetsAssumption ==
  IsFiniteSet(Users) /\ IsFiniteSet(Instances) /\ IsFiniteSet(Tabs)
ASSUME EventsAssumption == Events \subseteq AllEvents

VARIABLES
  members,      \* the room's members in MongoDB
  joining,      \* <<user, instance>>: joined in MongoDB, sockets not yet told
  joinedAt,     \* history: the instances that have answered joins of a user
  pc,           \* how far the 'connection' handler of a socket has got
  up,           \* connected sockets
  userSockets,  \* the sockets in the map of their instance
  inRoom,       \* the sockets in the room's channel
  queue,        \* commands each instance has sent to Redis, in order
  online,       \* online:users, and whether the score is past the threshold
  present       \* presence:{room}

roomVars == <<members, joining, joinedAt>>
socketVars == <<pc, up, userSockets, inRoom>>
redisVars == <<queue, online, present>>
vars == <<roomVars, socketVars, redisVars>>

-----------------------------------------------------------------------------
\* A socket id is used for one connection only.
Sockets == [user : Users, at : Instances, tab : Tabs]

\* Waiting for: ZADD online, Room.find, that reply's turn, ZADD presence,
\* unread counts; then the other handlers are there ("ready"), or the client
\* was gone before they were ("lost"); "gone" after the disconnect handler.
Waiting == {"online", "find", "joinRoom", "presence", "counts"}

UserSockets(i, u) == {s \in userSockets : s.at = i /\ s.user = u}

Command == [cmd : {"online", "presence", "offline"}, by : Sockets,
            rooms : BOOLEAN]

Send(cmd, s, rooms) ==
  queue' = [queue EXCEPT ![s.at] =
              Append(@, [cmd |-> cmd, by |-> s, rooms |-> rooms])]

\* The last turn of the 'connection' handler registers all other handlers.
Registered(s) == IF s \in up THEN "ready" ELSE "lost"

-----------------------------------------------------------------------------
(* 'connection'                                                            *)

Connect(s) ==
  /\ pc[s] = "new"
  /\ pc' = [pc EXCEPT ![s] = "online"]
  /\ up' = up \cup {s}
  /\ userSockets' = userSockets \cup {s}
  /\ Send("online", s, FALSE)
  /\ UNCHANGED <<roomVars, inRoom, online, present>>

FindRooms(s) ==
  /\ pc[s] = "find"
  /\ pc' = [pc EXCEPT ![s] = IF s.user \in members THEN "joinRoom" ELSE "counts"]
  /\ UNCHANGED <<roomVars, up, userSockets, inRoom, redisVars>>

\* join is a no-op on a socket that has closed.
JoinChannel(s) ==
  /\ pc[s] = "joinRoom"
  /\ pc' = [pc EXCEPT ![s] = "presence"]
  /\ inRoom' = inRoom \cup ({s} \cap up)
  /\ Send("presence", s, FALSE)
  /\ UNCHANGED <<roomVars, up, userSockets, online, present>>

Counts(s) ==
  /\ pc[s] = "counts"
  /\ pc' = [pc EXCEPT ![s] = Registered(s)]
  /\ UNCHANGED <<roomVars, up, userSockets, inRoom, redisVars>>

\* MongoDB fails: the handler logs the error and goes on.
ReadFails(s) ==
  /\ "fail" \in Events
  /\ pc[s] \in {"find", "counts"}
  /\ pc' = [pc EXCEPT ![s] = Registered(s)]
  /\ UNCHANGED <<roomVars, up, userSockets, inRoom, redisVars>>

-----------------------------------------------------------------------------
(* Redis                                                                   *)

After(cmd) == IF cmd = "online" THEN "find" ELSE "counts"

\* zadd online:users; zadd presence; or the pipeline of zrems.
Exec(i) ==
  LET c == Head(queue[i]) u == c.by.user IN
  /\ queue[i] # <<>>
  /\ queue' = [queue EXCEPT ![i] = Tail(@)]
  /\ online' = [online EXCEPT ![u] =
                  CASE c.cmd = "online" -> "fresh"
                    [] c.cmd = "offline" -> "no"
                    [] OTHER -> @]
  /\ present' = CASE c.cmd = "presence" -> present \cup {u}
                  [] c.rooms -> present \ {u}
                  [] OTHER -> present
  /\ pc' = IF c.cmd = "offline" THEN pc ELSE [pc EXCEPT ![c.by] = After(c.cmd)]
  /\ UNCHANGED <<roomVars, up, userSockets, inRoom>>

\* The command is lost and its promise rejected.
ExecFails(i) ==
  LET c == Head(queue[i]) IN
  /\ "fail" \in Events
  /\ queue[i] # <<>>
  /\ queue' = [queue EXCEPT ![i] = Tail(@)]
  /\ pc' = IF c.cmd = "offline" THEN pc
           ELSE [pc EXCEPT ![c.by] = Registered(c.by)]
  /\ UNCHANGED <<roomVars, up, userSockets, inRoom, online, present>>

\* STALE_THRESHOLD passes since the score was set.
Age(u) ==
  /\ "age" \in Events
  /\ online[u] = "fresh"
  /\ online' = [online EXCEPT ![u] = "stale"]
  /\ UNCHANGED <<roomVars, socketVars, queue, present>>

Evict ==
  /\ \E u \in Users : online[u] = "stale"
  /\ online' = [u \in Users |-> IF online[u] = "stale" THEN "no" ELSE online[u]]
  /\ UNCHANGED <<roomVars, socketVars, queue, present>>

-----------------------------------------------------------------------------
(* 'disconnect'                                                            *)

\* Faulty: every socket that closes marks its user offline.
DropAnySocket(s) ==
  /\ pc[s] = "ready"
  /\ pc' = [pc EXCEPT ![s] = "gone"]
  /\ up' = up \ {s}
  /\ inRoom' = inRoom \ {s}
  /\ userSockets' = userSockets \ {s}
  /\ Send("offline", s, s \in inRoom')
  /\ UNCHANGED <<roomVars, online, present>>

\* Faulty: the map is looked at before the socket is deleted from it.
DropLooksFirst(s) ==
  /\ pc[s] = "ready"
  /\ pc' = [pc EXCEPT ![s] = "gone"]
  /\ up' = up \ {s}
  /\ inRoom' = inRoom \ {s}
  /\ userSockets' = userSockets \ {s}
  /\ IF UserSockets(s.at, s.user) = {} THEN Send("offline", s, s \in inRoom')
     ELSE UNCHANGED queue
  /\ UNCHANGED <<roomVars, online, present>>

\* socket.io empties socket.rooms before it calls the handler.
Drop(s) ==
  /\ pc[s] = "ready"
  /\ pc' = [pc EXCEPT ![s] = "gone"]
  /\ up' = up \ {s}
  /\ inRoom' = inRoom \ {s}
  /\ userSockets' = userSockets \ {s}
  /\ IF UserSockets(s.at, s.user) = {s} THEN Send("offline", s, s \in inRoom')
     ELSE UNCHANGED queue
  /\ UNCHANGED <<roomVars, online, present>>

\* The client goes before the handler of 'disconnect' is registered.
DropEarly(s) ==
  /\ "dropEarly" \in Events
  /\ s \in up /\ pc[s] \in Waiting
  /\ up' = up \ {s}
  /\ inRoom' = inRoom \ {s}
  /\ UNCHANGED <<roomVars, pc, userSockets, redisVars>>

\* The process dies and comes back with an empty map; no handler runs.
Crash(i) ==
  /\ "crash" \in Events
  /\ \E s \in userSockets : s.at = i
  /\ pc' = [s \in Sockets |-> IF s.at = i /\ pc[s] # "new" THEN "gone" ELSE pc[s]]
  /\ up' = {s \in up : s.at # i}
  /\ userSockets' = {s \in userSockets : s.at # i}
  /\ inRoom' = {s \in inRoom : s.at # i}
  /\ joining' = {j \in joining : j[2] # i}
  /\ queue' = [queue EXCEPT ![i] = <<>>]
  /\ UNCHANGED <<members, joinedAt, online, present>>

-----------------------------------------------------------------------------
(* Requests that change the membership, and what they do to the sockets.   *)

Join(u, i) ==
  /\ "join" \in Events
  /\ u \notin members
  /\ members' = members \cup {u}
  /\ joining' = joining \cup {<<u, i>>}
  /\ joinedAt' = [joinedAt EXCEPT ![u] = @ \cup {i}]
  /\ UNCHANGED <<socketVars, redisVars>>

\* Faulty: only the sockets whose handlers are there.
JoinReadySockets(u, i) ==
  /\ <<u, i>> \in joining
  /\ joining' = joining \ {<<u, i>>}
  /\ inRoom' = inRoom \cup {s \in UserSockets(i, u) : pc[s] = "ready"}
  /\ UNCHANGED <<members, joinedAt, pc, up, userSockets, redisVars>>

\* Faulty: also the sockets the server no longer has.
JoinTrackedSockets(u, i) ==
  /\ <<u, i>> \in joining
  /\ joining' = joining \ {<<u, i>>}
  /\ inRoom' = inRoom \cup UserSockets(i, u)
  /\ UNCHANGED <<members, joinedAt, pc, up, userSockets, redisVars>>

\* The sockets this instance tracks and the server still has.
JoinUserToRoom(u, i) ==
  /\ <<u, i>> \in joining
  /\ joining' = joining \ {<<u, i>>}
  /\ inRoom' = inRoom \cup (UserSockets(i, u) \cap up)
  /\ UNCHANGED <<members, joinedAt, pc, up, userSockets, redisVars>>

\* joinViaInvite tells no socket (nor does createRoom its founder's).
Redeem(u) ==
  /\ "redeem" \in Events
  /\ u \notin members
  /\ members' = members \cup {u}
  /\ UNCHANGED <<joining, joinedAt, socketVars, redisVars>>

\* leaveRoom and kickMember tell no socket.
Leave(u) ==
  /\ "leave" \in Events
  /\ u \in members
  /\ members' = members \ {u}
  /\ UNCHANGED <<joining, joinedAt, socketVars, redisVars>>

-----------------------------------------------------------------------------
Init ==
  /\ members \in SUBSET Users
  /\ joining = {}
  /\ joinedAt = [u \in Users |-> {}]
  /\ pc = [s \in Sockets |-> "new"]
  /\ up = {} /\ userSockets = {} /\ inRoom = {}
  /\ queue = [i \in Instances |-> <<>>]
  /\ online = [u \in Users |-> "no"]
  /\ present = {}

Proceed(s) == FindRooms(s) \/ JoinChannel(s) \/ Counts(s) \/ ReadFails(s)

Next ==
  \/ \E s \in Sockets : Connect(s) \/ Proceed(s) \/ Drop(s) \/ DropEarly(s)
  \/ \E i \in Instances : Exec(i) \/ ExecFails(i) \/ Crash(i)
  \/ \E u \in Users : Age(u) \/ Redeem(u) \/ Leave(u)
  \/ \E u \in Users, i \in Instances : Join(u, i) \/ JoinUserToRoom(u, i)
  \/ Evict

Spec == Init /\ [][Next]_vars

\* Redis answers, the event loop resumes what it has an answer for, and time
\* passes; clients promise nothing.
Fairness ==
  /\ \A s \in Sockets : WF_vars(Proceed(s))
  /\ \A i \in Instances : WF_vars(Exec(i) \/ ExecFails(i))
  /\ \A u \in Users : WF_vars(Age(u))
  /\ WF_vars(Evict)

FairSpec == Spec /\ Fairness

-----------------------------------------------------------------------------
(* Properties                                                              *)

\* Every variable holds a value the code can give it; only a connected socket
\* is in the channel.
TypeOK ==
  /\ members \subseteq Users
  /\ joining \subseteq Users \X Instances
  /\ joinedAt \in [Users -> SUBSET Instances]
  /\ pc \in [Sockets -> Waiting \cup {"new", "ready", "lost", "gone"}]
  /\ up \subseteq Sockets
  /\ userSockets \subseteq Sockets
  /\ inRoom \subseteq up
  /\ queue \in [Instances -> Seq(Command)]
  /\ online \in [Users -> {"no", "fresh", "stale"}]
  /\ present \subseteq Users

Connected(u) == \E s \in up : s.user = u

\* No handler of u's sockets is under way and Redis has answered all commands.
Quiet(u) ==
  /\ \A i \in Instances : queue[i] = <<>>
  /\ \A s \in Sockets : s.user = u => pc[s] \notin Waiting

\* A user all of whose connections were to one instance is online while one of
\* them is open: whatever tabs close, open or go early, and in whatever order
\* their commands are run.
OneInstance(u) ==
  \E i \in Instances : \A s \in Sockets : s.user = u /\ pc[s] # "new" => s.at = i

OnlineAtOneInstance ==
  \A u \in Users :
    Quiet(u) /\ Connected(u) /\ OneInstance(u) => online[u] # "no"

\* Once the last socket has closed properly the user is offline, in whatever
\* order the instances' commands reach Redis.
OfflineAfterLast ==
  \A u \in Users :
    /\ Quiet(u) /\ ~ Connected(u)
    /\ \A s \in Sockets : s.user = u => pc[s] # "lost"
    => online[u] = "no"

\* A connected member gets the room's messages, whichever of connecting and
\* joining came first, if the joins were answered by the socket's instance.
Joined(s) ==
  /\ s.user \in members /\ joinedAt[s.user] \subseteq {s.at}
  /\ \A i \in Instances : <<s.user, i>> \notin joining

SubscribedMembers == \A s \in up : pc[s] = "ready" /\ Joined(s) => s \in inRoom

-----------------------------------------------------------------------------
(* What documents of the repository promise, and the code does not keep.   *)

\* A user stays online as long as some tab is open.
OnlineWhileConnected ==
  \A u \in Users : Quiet(u) /\ Connected(u) => online[u] # "no"

\* Every connected member gets the room's messages.
MembersSubscribed ==
  \A s \in up :
    /\ pc[s] = "ready" /\ s.user \in members
    /\ \A i \in Instances : <<s.user, i>> \notin joining
    => s \in inRoom

\* Nobody but members gets the room's messages.
UnsubscribedOthers ==
  \A s \in inRoom : pc[s] = "ready" => s.user \in members

\* The map holds connections, not sockets that have closed.
TracksConnections == \A s \in userSockets : pc[s] \notin Waiting => s \in up

\* A user whose last socket has closed is in no presence set.
AbsentAfterLast ==
  \A u \in Users : Quiet(u) /\ ~ Connected(u) => u \notin present

-----------------------------------------------------------------------------
(* Presence.                                                               *)

\* Faulty: the score is not looked at.
ShownUnchecked(u) == u \in present

\* getRoomPresence lists the users present whose online score is fresh.
Shown(u) == u \in present /\ online[u] = "fresh"

\* Whatever is lost, a user without a connection is in the end not shown:
\* clients and servers that die, tracking that leaks, commands that fail.
PresenceEnds ==
  \A u \in Users : <>[](~ Connected(u)) => <>[](~ Shown(u))

=============================================================================
