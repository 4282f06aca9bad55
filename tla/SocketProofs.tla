---------------------------- MODULE SocketProofs ----------------------------
(***************************************************************************)
(* Proofs about Sockets, for any number of users, instances and tabs.      *)
(***************************************************************************)
EXTENDS Sockets, TLAPS

\* Entry k of the instance's commands is cmd on behalf of u.
Entry(i, k, cmd, u) ==
  k \in 1..Len(queue[i]) /\ queue[i][k].cmd = cmd /\ queue[i][k].by.user = u

\* Where an instance has no socket of u, each "online" it has yet to run is
\* followed by an "offline".
OnlineIsUndone ==
  \A i \in Instances, u \in Users : UserSockets(i, u) = {} =>
    \A k \in Nat : Entry(i, k, "online", u) =>
      \E l \in Nat : l > k /\ Entry(i, l, "offline", u)

\* Whoever is online has a socket somewhere, or is about to be offline.
OnlineHasReason ==
  \A u \in Users : online[u] # "no" =>
    \E i \in Instances :
      UserSockets(i, u) # {} \/ \E k \in Nat : Entry(i, k, "offline", u)

\* The map holds sockets that are connected, whose handler is under way, or
\* that closed before it was done.
Tracked == \A s \in userSockets : s \in up \/ pc[s] \in Waiting \cup {"lost"}

Fallible == {"fail", "crash"} \cap Events # {}

-----------------------------------------------------------------------------
\* Sending a command appends it to the commands of the socket's instance.
LEMMA SendType ==
  ASSUME queue \in [Instances -> Seq(Command)], NEW s \in Sockets,
         NEW cmd \in {"online", "presence", "offline"}, NEW b \in BOOLEAN,
         Send(cmd, s, b)
  PROVE  /\ queue' \in [Instances -> Seq(Command)]
         /\ s.at \in Instances /\ s.user \in Users
         /\ \A i \in Instances : i # s.at => queue'[i] = queue[i]
         /\ Len(queue'[s.at]) = Len(queue[s.at]) + 1
         /\ \A k \in 1..Len(queue[s.at]) : queue'[s.at][k] = queue[s.at][k]
         /\ queue'[s.at][Len(queue[s.at]) + 1].cmd = cmd
         /\ queue'[s.at][Len(queue[s.at]) + 1].by = s
<1> DEFINE c == [cmd |-> cmd, by |-> s, rooms |-> b]
<1>1. c \in Command /\ c.cmd = cmd /\ c.by = s
  BY DEF Command
<1>2. s.at \in Instances /\ s.user \in Users
  BY DEF Sockets
<1>3. queue' = [queue EXCEPT ![s.at] = Append(@, c)]
  BY DEF Send
<1> HIDE DEF c
<1>4. queue[s.at] \in Seq(Command)
  BY <1>2
<1>5. queue'[s.at] = Append(queue[s.at], c)
  BY <1>2, <1>3
<1>6. Append(queue[s.at], c) \in Seq(Command)
  BY <1>1, <1>4
<1>7. queue' \in [Instances -> Seq(Command)]
  BY <1>2, <1>3, <1>6
<1>8. \A i \in Instances : i # s.at => queue'[i] = queue[i]
  BY <1>2, <1>3
<1>9. /\ Len(queue'[s.at]) = Len(queue[s.at]) + 1
      /\ \A k \in 1..Len(queue[s.at]) : queue'[s.at][k] = queue[s.at][k]
      /\ queue'[s.at][Len(queue[s.at]) + 1] = c
  BY <1>1, <1>4, <1>5
<1> QED
  BY <1>1, <1>2, <1>7, <1>8, <1>9

\* Running the first command of i leaves the others, one place further on.
LEMMA RunType ==
  ASSUME queue \in [Instances -> Seq(Command)], NEW i \in Instances,
         queue[i] # <<>>, queue' = [queue EXCEPT ![i] = Tail(@)]
  PROVE  /\ queue' \in [Instances -> Seq(Command)]
         /\ Head(queue[i]) \in Command
         /\ Head(queue[i]) = queue[i][1]
         /\ \A j \in Instances : j # i => queue'[j] = queue[j]
         /\ Len(queue[i]) \in Nat /\ Len(queue'[i]) = Len(queue[i]) - 1
         /\ \A k \in 1..Len(queue'[i]) : queue'[i][k] = queue[i][k + 1]
<1>1. queue[i] \in Seq(Command)
  OBVIOUS
<1>2. queue'[i] = Tail(queue[i]) /\ Tail(queue[i]) \in Seq(Command)
  BY <1>1
<1>3. queue' \in [Instances -> Seq(Command)]
  BY <1>2
<1>4. \A j \in Instances : j # i => queue'[j] = queue[j]
  OBVIOUS
<1>5. Head(queue[i]) \in Command /\ Head(queue[i]) = queue[i][1]
  BY <1>1
<1>6. /\ Len(queue[i]) \in Nat /\ Len(queue'[i]) = Len(queue[i]) - 1
      /\ \A k \in 1..Len(queue'[i]) : queue'[i][k] = queue[i][k + 1]
  BY <1>1, <1>2
<1> QED
  BY <1>3, <1>4, <1>5, <1>6

-----------------------------------------------------------------------------
LEMMA TypeInit == Init => TypeOK
<1> SUFFICES ASSUME Init PROVE TypeOK
  OBVIOUS
<1>1. queue \in [Instances -> Seq(Command)]
  BY DEF Init
<1>2. pc \in [Sockets -> Waiting \cup {"new", "ready", "lost", "gone"}]
  BY DEF Init
<1>3. online \in [Users -> {"no", "fresh", "stale"}]
  BY DEF Init
<1> QED
  BY <1>1, <1>2, <1>3 DEF Init, TypeOK

LEMMA TypeStep == TypeOK /\ [Next]_vars => TypeOK'
<1> SUFFICES ASSUME TypeOK, [Next]_vars PROVE TypeOK'
  OBVIOUS
<1> USE DEF TypeOK, roomVars, redisVars, socketVars, Waiting
<1>0. \A s \in Sockets : Registered(s) \in {"ready", "lost"}
  BY DEF Registered
<1>1. ASSUME NEW s \in Sockets, Connect(s) PROVE TypeOK'
  <2>1. queue' \in [Instances -> Seq(Command)]
    BY <1>1, SendType DEF Connect
  <2> QED
    BY <1>1, <2>1 DEF Connect
<1>2. ASSUME NEW s \in Sockets, Proceed(s) PROVE TypeOK'
  <2>1. CASE FindRooms(s)
    BY <2>1 DEF FindRooms
  <2>2. CASE JoinChannel(s)
    <3>1. queue' \in [Instances -> Seq(Command)]
      BY <2>2, SendType DEF JoinChannel
    <3> QED
      BY <2>2, <3>1 DEF JoinChannel
  <2>3. CASE Counts(s)
    BY <1>0, <2>3 DEF Counts
  <2>4. CASE ReadFails(s)
    BY <1>0, <2>4 DEF ReadFails
  <2> QED
    BY <1>2, <2>1, <2>2, <2>3, <2>4 DEF Proceed
<1>3. ASSUME NEW s \in Sockets, Drop(s) PROVE TypeOK'
  <2>1. queue' \in [Instances -> Seq(Command)]
    <3>1. (s \in inRoom') \in BOOLEAN
      OBVIOUS
    <3> QED
      BY <1>3, <3>1, SendType DEF Drop
  <2> QED
    BY <1>3, <2>1 DEF Drop
<1>4. ASSUME NEW s \in Sockets, DropEarly(s) PROVE TypeOK'
  BY <1>4 DEF DropEarly
<1>5. ASSUME NEW i \in Instances, Exec(i) PROVE TypeOK'
  <2>1. PICK c : c = Head(queue[i])
    OBVIOUS
  <2>2. /\ queue' \in [Instances -> Seq(Command)]
        /\ c \in Command
    BY <1>5, <2>1, RunType DEF Exec
  <2>3. c.by \in Sockets /\ c.by.user \in Users
    BY <2>2 DEF Command, Sockets
  <2>4. online' \in [Users -> {"no", "fresh", "stale"}]
    <3>1. online' = [online EXCEPT ![c.by.user] =
                  CASE c.cmd = "online" -> "fresh"
                    [] c.cmd = "offline" -> "no"
                    [] OTHER -> @]
      BY <1>5, <2>1 DEF Exec
    <3> QED
      BY <2>3, <3>1
  <2>5. present' \subseteq Users
    <3>1. present' = CASE c.cmd = "presence" -> present \cup {c.by.user}
                  [] c.rooms -> present \ {c.by.user}
                  [] OTHER -> present
      BY <1>5, <2>1 DEF Exec
    <3> QED
      BY <2>3, <3>1
  <2>6. pc' \in [Sockets -> Waiting \cup {"new", "ready", "lost", "gone"}]
    <3>1. pc' = IF c.cmd = "offline" THEN pc
                ELSE [pc EXCEPT ![c.by] = After(c.cmd)]
      BY <1>5, <2>1 DEF Exec
    <3>2. After(c.cmd) \in Waiting
      BY DEF After
    <3> QED
      BY <2>3, <3>1, <3>2
  <2> QED
    BY <1>5, <2>2, <2>4, <2>5, <2>6 DEF Exec
<1>6. ASSUME NEW i \in Instances, ExecFails(i) PROVE TypeOK'
  <2>1. PICK c : c = Head(queue[i])
    OBVIOUS
  <2>2. /\ queue' \in [Instances -> Seq(Command)]
        /\ c.by \in Sockets
    BY <1>6, <2>1, RunType DEF ExecFails, Command
  <2>3. pc' = IF c.cmd = "offline" THEN pc
              ELSE [pc EXCEPT ![c.by] = Registered(c.by)]
    BY <1>6, <2>1 DEF ExecFails
  <2> QED
    BY <1>0, <1>6, <2>2, <2>3 DEF ExecFails
<1>7. ASSUME NEW i \in Instances, Crash(i) PROVE TypeOK'
  <2>1. queue' \in [Instances -> Seq(Command)]
    BY <1>7 DEF Crash
  <2>2. pc' \in [Sockets -> Waiting \cup {"new", "ready", "lost", "gone"}]
    BY <1>7 DEF Crash
  <2> QED
    BY <1>7, <2>1, <2>2 DEF Crash
<1>8. ASSUME NEW u \in Users, Age(u) \/ Redeem(u) \/ Leave(u) PROVE TypeOK'
  BY <1>8 DEF Age, Redeem, Leave
<1>9. ASSUME NEW u \in Users, NEW i \in Instances, Join(u, i) \/ JoinUserToRoom(u, i)
      PROVE  TypeOK'
  BY <1>9 DEF Join, JoinUserToRoom, UserSockets
<1>10. CASE Evict
  BY <1>10 DEF Evict
<1>11. CASE UNCHANGED vars
  BY <1>11 DEF vars
<1> QED
  BY <1>1, <1>2, <1>3, <1>4, <1>5, <1>6, <1>7, <1>8, <1>9, <1>10, <1>11 DEF Next

\* Every variable keeps its type; only connected sockets are in the channel.
THEOREM SocketTypes == Spec => []TypeOK
  BY TypeInit, TypeStep, PTL DEF Spec

-----------------------------------------------------------------------------
(* Who is online.                                                          *)

\* What sending a command adds to the entries.
LEMMA SendEntries ==
  ASSUME queue \in [Instances -> Seq(Command)], NEW s \in Sockets,
         NEW cmd \in {"online", "presence", "offline"}, NEW b \in BOOLEAN,
         Send(cmd, s, b),
         NEW i \in Instances, NEW k \in Nat, NEW d, NEW u
  PROVE  Entry(i, k, d, u)' <=>
           \/ Entry(i, k, d, u)
           \/ i = s.at /\ k = Len(queue[i]) + 1 /\ d = cmd /\ u = s.user
<1>1. /\ \A j \in Instances : j # s.at => queue'[j] = queue[j]
      /\ Len(queue'[s.at]) = Len(queue[s.at]) + 1
      /\ \A j \in 1..Len(queue[s.at]) : queue'[s.at][j] = queue[s.at][j]
      /\ queue'[s.at][Len(queue[s.at]) + 1].cmd = cmd
      /\ queue'[s.at][Len(queue[s.at]) + 1].by = s
      /\ s.at \in Instances
  BY SendType
<1>2. Len(queue[i]) \in Nat
  OBVIOUS
<1>3. CASE i # s.at
  BY <1>1, <1>3 DEF Entry
<1>4. CASE i = s.at /\ k \in 1..Len(queue[i])
  BY <1>1, <1>2, <1>4 DEF Entry
<1>5. CASE i = s.at /\ k = Len(queue[i]) + 1
  BY <1>1, <1>2, <1>5 DEF Entry
<1>6. CASE i = s.at /\ k \notin 1..(Len(queue[i]) + 1)
  BY <1>1, <1>2, <1>6 DEF Entry
<1> QED
  BY <1>2, <1>3, <1>4, <1>5, <1>6

\* What running a command leaves of the entries.
LEMMA RunEntries ==
  ASSUME queue \in [Instances -> Seq(Command)], NEW j \in Instances,
         queue[j] # <<>>, queue' = [queue EXCEPT ![j] = Tail(@)],
         NEW i \in Instances, NEW k \in Nat \ {0}, NEW d, NEW u
  PROVE  /\ i # j => (Entry(i, k, d, u)' <=> Entry(i, k, d, u))
         /\ i = j => (Entry(i, k, d, u)' <=> Entry(i, k + 1, d, u))
<1>1. /\ \A x \in Instances : x # j => queue'[x] = queue[x]
      /\ Len(queue[j]) \in Nat /\ Len(queue'[j]) = Len(queue[j]) - 1
      /\ \A x \in 1..Len(queue'[j]) : queue'[j][x] = queue[j][x + 1]
  BY RunType
<1>2. CASE i # j
  BY <1>1, <1>2 DEF Entry
<1>3. CASE i = j /\ k \in 1..Len(queue'[j])
  BY <1>1, <1>3 DEF Entry
<1>4. CASE i = j /\ k \notin 1..Len(queue'[j])
  BY <1>1, <1>4 DEF Entry
<1> QED
  BY <1>2, <1>3, <1>4

\* The entry at the head of the commands.
LEMMA FirstEntry ==
  ASSUME queue \in [Instances -> Seq(Command)], NEW i \in Instances,
         queue[i] # <<>>, NEW d, NEW u
  PROVE  Entry(i, 1, d, u) <=> Head(queue[i]).cmd = d /\ Head(queue[i]).by.user = u
<1>1. 1 \in 1..Len(queue[i]) /\ Head(queue[i]) = queue[i][1]
  OBVIOUS
<1> QED
  BY <1>1 DEF Entry

\* An entry has a place from 1 on.
LEMMA EntryPlace ==
  ASSUME NEW i, NEW k \in Nat, NEW d, NEW u, Entry(i, k, d, u)
  PROVE  k \in Nat \ {0}
  BY DEF Entry

LEMMA UndoneStep ==
  ASSUME TypeOK, OnlineIsUndone, [Next]_vars, ~ Fallible
  PROVE  OnlineIsUndone'
<1>0. queue \in [Instances -> Seq(Command)] /\ userSockets \subseteq Sockets
  BY DEF TypeOK
<1>1. ASSUME UNCHANGED <<queue, userSockets>> PROVE OnlineIsUndone'
  BY <1>1 DEF OnlineIsUndone, Entry, UserSockets
<1>2. ASSUME NEW s \in Sockets, Connect(s) PROVE OnlineIsUndone'
  <2>1. ASSUME NEW i \in Instances, NEW u \in Users, UserSockets(i, u)' = {},
               NEW k \in Nat, Entry(i, k, "online", u)'
        PROVE  \E l \in Nat : l > k /\ Entry(i, l, "offline", u)'
    <3>1. UserSockets(i, u) = {} /\ ~ (i = s.at /\ u = s.user)
      BY <1>2, <2>1 DEF Connect, UserSockets
    <3>2. Send("online", s, FALSE)
      BY <1>2 DEF Connect
    <3>3. Entry(i, k, "online", u)
      BY <1>0, <2>1, <3>1, <3>2, SendEntries
    <3>4. PICK l \in Nat : l > k /\ Entry(i, l, "offline", u)
      BY <3>1, <3>3 DEF OnlineIsUndone
    <3>5. Entry(i, l, "offline", u)'
      BY <1>0, <3>2, <3>4, SendEntries
    <3> QED
      BY <3>4, <3>5
  <2> QED
    BY <2>1 DEF OnlineIsUndone
<1>3. ASSUME NEW s \in Sockets, JoinChannel(s) PROVE OnlineIsUndone'
  <2>1. ASSUME NEW i \in Instances, NEW u \in Users, UserSockets(i, u)' = {},
               NEW k \in Nat, Entry(i, k, "online", u)'
        PROVE  \E l \in Nat : l > k /\ Entry(i, l, "offline", u)'
    <3>1. UserSockets(i, u) = {}
      BY <1>3, <2>1 DEF JoinChannel, UserSockets
    <3>2. Send("presence", s, FALSE)
      BY <1>3 DEF JoinChannel
    <3>3. Entry(i, k, "online", u)
      BY <1>0, <2>1, <3>2, SendEntries
    <3>4. PICK l \in Nat : l > k /\ Entry(i, l, "offline", u)
      BY <3>1, <3>3 DEF OnlineIsUndone
    <3>5. Entry(i, l, "offline", u)'
      BY <1>0, <3>2, <3>4, SendEntries
    <3> QED
      BY <3>4, <3>5
  <2> QED
    BY <2>1 DEF OnlineIsUndone
<1>4. ASSUME NEW s \in Sockets, Drop(s) PROVE OnlineIsUndone'
  <2>1. ASSUME NEW i \in Instances, NEW u \in Users, UserSockets(i, u)' = {},
               NEW k \in Nat, Entry(i, k, "online", u)'
        PROVE  \E l \in Nat : l > k /\ Entry(i, l, "offline", u)'
    <3>1. (s \in inRoom') \in BOOLEAN
      OBVIOUS
    <3>2. CASE UserSockets(s.at, s.user) = {s}
      <4>1. Send("offline", s, s \in inRoom')
        BY <1>4, <3>2 DEF Drop
      <4>2. Entry(i, k, "online", u)
        BY <1>0, <2>1, <3>1, <4>1, SendEntries
      <4>3. CASE i = s.at /\ u = s.user
        <5>1. PICK n \in Nat : n = Len(queue[i]) + 1
          BY <1>0
        <5>2. n > k
          BY <1>0, <4>2, <5>1 DEF Entry
        <5>3. Entry(i, n, "offline", u)'
          BY <1>0, <3>1, <4>1, <4>3, <5>1, SendEntries
        <5> QED
          BY <5>2, <5>3
      <4>4. CASE ~ (i = s.at /\ u = s.user)
        <5>1. UserSockets(i, u) = {}
          BY <1>4, <2>1, <4>4 DEF Drop, UserSockets
        <5>2. PICK l \in Nat : l > k /\ Entry(i, l, "offline", u)
          BY <4>2, <5>1 DEF OnlineIsUndone
        <5>3. Entry(i, l, "offline", u)'
          BY <1>0, <3>1, <4>1, <5>2, SendEntries
        <5> QED
          BY <5>2, <5>3
      <4> QED
        BY <4>3, <4>4
    <3>3. CASE UserSockets(s.at, s.user) # {s}
      <4>1. queue' = queue /\ userSockets' = userSockets \ {s}
        BY <1>4, <3>3 DEF Drop
      <4>2. UserSockets(i, u) = {}
        BY <2>1, <3>3, <4>1 DEF UserSockets
      <4> QED
        BY <2>1, <4>1, <4>2 DEF OnlineIsUndone, Entry
    <3> QED
      BY <3>2, <3>3
  <2> QED
    BY <2>1 DEF OnlineIsUndone
<1>5. ASSUME NEW j \in Instances, Exec(j) PROVE OnlineIsUndone'
  <2>0. queue[j] # <<>> /\ queue' = [queue EXCEPT ![j] = Tail(@)]
    BY <1>5 DEF Exec
  <2>1. ASSUME NEW i \in Instances, NEW u \in Users, UserSockets(i, u)' = {},
               NEW k \in Nat, Entry(i, k, "online", u)'
        PROVE  \E l \in Nat : l > k /\ Entry(i, l, "offline", u)'
    <3>1. UserSockets(i, u) = {}
      BY <1>5, <2>1 DEF Exec, UserSockets
    <3>2. k \in Nat \ {0}
      BY <2>1 DEF Entry
    <3>3. CASE i # j
      <4>1. Entry(i, k, "online", u)
        BY <1>0, <2>0, <2>1, <3>2, <3>3, RunEntries
      <4>2. PICK l \in Nat : l > k /\ Entry(i, l, "offline", u)
        BY <3>1, <4>1 DEF OnlineIsUndone
      <4>3. l \in Nat \ {0}
        BY <4>2, EntryPlace
      <4>4. Entry(i, l, "offline", u)'
        BY <1>0, <2>0, <3>3, <4>2, <4>3, RunEntries
      <4> QED
        BY <4>2, <4>4
    <3>4. CASE i = j
      <4>0. Entry(i, k + 1, "online", u)
        BY <1>0, <2>0, <2>1, <3>2, <3>4, RunEntries
      <4>1. Entry(i, k + 1, "online", u) /\ k + 1 \in Nat
        BY <3>2, <4>0
      <4>2. PICK l \in Nat : l > k + 1 /\ Entry(i, l, "offline", u)
        BY <3>1, <4>1 DEF OnlineIsUndone
      <4>3. l - 1 \in Nat \ {0} /\ l - 1 > k /\ (l - 1) + 1 = l
        BY <3>2, <4>2
      <4>4. Entry(i, l - 1, "offline", u)'
        BY <1>0, <2>0, <3>4, <4>2, <4>3, RunEntries
      <4> QED
        BY <4>3, <4>4
    <3> QED
      BY <3>3, <3>4
  <2> QED
    BY <2>1 DEF OnlineIsUndone
<1>6. ASSUME NEW i \in Instances, ExecFails(i) \/ Crash(i) PROVE FALSE
  BY <1>6 DEF ExecFails, Crash, Fallible
<1>7. ASSUME NEW s \in Sockets, FindRooms(s) \/ Counts(s) \/ ReadFails(s) \/ DropEarly(s)
      PROVE  UNCHANGED <<queue, userSockets>>
  BY <1>7 DEF FindRooms, Counts, ReadFails, DropEarly, redisVars
<1>8. ASSUME NEW u \in Users, Age(u) \/ Redeem(u) \/ Leave(u)
      PROVE  UNCHANGED <<queue, userSockets>>
  BY <1>8 DEF Age, Redeem, Leave, socketVars, redisVars
<1>9. ASSUME NEW u \in Users, NEW i \in Instances, Join(u, i) \/ JoinUserToRoom(u, i)
      PROVE  UNCHANGED <<queue, userSockets>>
  BY <1>9 DEF Join, JoinUserToRoom, socketVars, redisVars
<1>10. ASSUME Evict \/ UNCHANGED vars PROVE UNCHANGED <<queue, userSockets>>
  BY <1>10 DEF Evict, vars, socketVars, redisVars
<1> QED
  BY <1>1, <1>2, <1>3, <1>4, <1>5, <1>6, <1>7, <1>8, <1>9, <1>10 DEF Next, Proceed

\* The reason why u is online.
Reason(u) ==
  \E i \in Instances :
    UserSockets(i, u) # {} \/ \E k \in Nat : Entry(i, k, "offline", u)

LEMMA ReasonStep ==
  ASSUME TypeOK, OnlineIsUndone, OnlineHasReason, [Next]_vars, ~ Fallible
  PROVE  OnlineHasReason'
<1>0. /\ queue \in [Instances -> Seq(Command)] /\ userSockets \subseteq Sockets
      /\ online \in [Users -> {"no", "fresh", "stale"}]
  BY DEF TypeOK
<1> SUFFICES ASSUME NEW u \in Users, online'[u] # "no" PROVE Reason(u)'
  BY DEF OnlineHasReason, Reason
<1>1. online[u] # "no" => Reason(u)
  BY DEF OnlineHasReason, Reason
<1>2. ASSUME UNCHANGED <<queue, userSockets>>, online[u] # "no" PROVE Reason(u)'
  BY <1>1, <1>2 DEF Reason, Entry, UserSockets
\* Sending a command takes no entry away.
<1>3. ASSUME NEW s \in Sockets, NEW cmd \in {"online", "presence", "offline"},
             NEW b \in BOOLEAN, Send(cmd, s, b),
             NEW i \in Instances, NEW k \in Nat, Entry(i, k, "offline", u)
      PROVE  Reason(u)'
  <2>1. Entry(i, k, "offline", u)'
    BY <1>0, <1>3, SendEntries
  <2> QED
    BY <2>1 DEF Reason
<1>4. ASSUME NEW s \in Sockets, Connect(s) PROVE Reason(u)'
  <2>1. online' = online /\ Send("online", s, FALSE) /\ userSockets \subseteq userSockets'
    BY <1>4 DEF Connect
  <2>2. PICK i \in Instances :
          UserSockets(i, u) # {} \/ \E k \in Nat : Entry(i, k, "offline", u)
    BY <1>1, <2>1 DEF Reason
  <2>3. CASE UserSockets(i, u) # {}
    BY <2>1, <2>3 DEF Reason, UserSockets
  <2>4. CASE \E k \in Nat : Entry(i, k, "offline", u)
    BY <1>3, <2>1, <2>4
  <2> QED
    BY <2>2, <2>3, <2>4
<1>5. ASSUME NEW s \in Sockets, JoinChannel(s) PROVE Reason(u)'
  <2>1. online' = online /\ Send("presence", s, FALSE) /\ userSockets' = userSockets
    BY <1>5 DEF JoinChannel
  <2>2. PICK i \in Instances :
          UserSockets(i, u) # {} \/ \E k \in Nat : Entry(i, k, "offline", u)
    BY <1>1, <2>1 DEF Reason
  <2>3. CASE UserSockets(i, u) # {}
    BY <2>1, <2>3 DEF Reason, UserSockets
  <2>4. CASE \E k \in Nat : Entry(i, k, "offline", u)
    BY <1>3, <2>1, <2>4
  <2> QED
    BY <2>2, <2>3, <2>4
<1>6. ASSUME NEW s \in Sockets, Drop(s) PROVE Reason(u)'
  <2>0. (s \in inRoom') \in BOOLEAN /\ s.at \in Instances /\ s.user \in Users
    BY DEF Sockets
  <2>1. online' = online /\ userSockets' = userSockets \ {s}
    BY <1>6 DEF Drop
  <2>2. PICK i \in Instances :
          UserSockets(i, u) # {} \/ \E k \in Nat : Entry(i, k, "offline", u)
    BY <1>1, <2>1 DEF Reason
  <2>3. CASE UserSockets(s.at, s.user) = {s}
    <3>1. Send("offline", s, s \in inRoom')
      BY <1>6, <2>3 DEF Drop
    <3>2. CASE u = s.user
      <4>1. PICK j \in Instances, n \in Nat : j = s.at /\ n = Len(queue[j]) + 1
        BY <1>0, <2>0
      <4>2. PICK b \in BOOLEAN : Send("offline", s, b)
        BY <2>0, <3>1
      <4>3. Entry(j, n, "offline", u)'
        <5>1. Entry(j, n, "offline", s.user)' <=>
                \/ Entry(j, n, "offline", s.user)
                \/ j = s.at /\ n = Len(queue[j]) + 1
          BY <1>0, <4>2, SendEntries
        <5> QED
          BY <3>2, <4>1, <5>1
      <4> QED
        BY <4>3 DEF Reason
    <3>3. CASE u # s.user /\ UserSockets(i, u) # {}
      BY <2>1, <3>3 DEF Reason, UserSockets
    <3>4. CASE \E k \in Nat : Entry(i, k, "offline", u)
      BY <1>3, <2>0, <3>1, <3>4
    <3> QED
      BY <2>2, <3>2, <3>3, <3>4
  <2>4. CASE UserSockets(s.at, s.user) # {s}
    <3>1. queue' = queue
      BY <1>6, <2>4 DEF Drop
    <3>2. CASE UserSockets(i, u) # {}
      <4>1. UserSockets(i, u)' # {}
        BY <2>1, <2>4, <3>2 DEF UserSockets
      <4> QED
        BY <4>1 DEF Reason
    <3>3. CASE \E k \in Nat : Entry(i, k, "offline", u)
      BY <3>1, <3>3 DEF Reason, Entry
    <3> QED
      BY <2>2, <3>2, <3>3
  <2> QED
    BY <2>3, <2>4
<1>7. ASSUME NEW j \in Instances, Exec(j) PROVE Reason(u)'
  <2>1. PICK c : c = Head(queue[j])
    OBVIOUS
  <2>2. /\ queue[j] # <<>> /\ queue' = [queue EXCEPT ![j] = Tail(@)]
        /\ userSockets' = userSockets
        /\ online' = [online EXCEPT ![c.by.user] =
                  CASE c.cmd = "online" -> "fresh"
                    [] c.cmd = "offline" -> "no"
                    [] OTHER -> @]
    BY <1>7, <2>1 DEF Exec
  <2>3. ~ (c.cmd = "offline" /\ c.by.user = u)
    BY <1>0, <2>2
  <2>4. ASSUME NEW i \in Instances, NEW k \in Nat, Entry(i, k, "offline", u)
        PROVE  Reason(u)'
    <3>1. k \in Nat \ {0}
      BY <2>4, EntryPlace
    <3>2. CASE i # j
      <4>1. Entry(i, k, "offline", u)'
        BY <1>0, <2>2, <2>4, <3>1, <3>2, RunEntries
      <4> QED
        BY <4>1 DEF Reason
    <3>3. CASE i = j
      <4>1. k # 1
        BY <1>0, <2>1, <2>2, <2>3, <2>4, <3>3, FirstEntry
      <4>2. k - 1 \in Nat \ {0} /\ (k - 1) + 1 = k
        BY <3>1, <4>1
      <4>3. Entry(i, k - 1, "offline", u)'
        BY <1>0, <2>2, <2>4, <3>3, <4>2, RunEntries
      <4> QED
        BY <4>2, <4>3 DEF Reason
    <3> QED
      BY <3>2, <3>3
  <2>5. ASSUME NEW i \in Instances, UserSockets(i, u) # {} PROVE Reason(u)'
    BY <2>2, <2>5 DEF Reason, UserSockets
  <2>6. CASE online[u] # "no"
    BY <1>1, <2>4, <2>5, <2>6 DEF Reason
  <2>7. CASE online[u] = "no"
    <3>1. c.cmd = "online" /\ c.by.user = u
      BY <1>0, <2>2, <2>7
    <3>2. Entry(j, 1, "online", u)
      BY <1>0, <2>1, <2>2, <3>1, FirstEntry
    <3>3. CASE UserSockets(j, u) # {}
      BY <2>5, <3>3
    <3>4. CASE UserSockets(j, u) = {}
      BY <2>4, <3>2, <3>4 DEF OnlineIsUndone
    <3> QED
      BY <3>3, <3>4
  <2> QED
    BY <2>6, <2>7
<1>8. ASSUME NEW i \in Instances, ExecFails(i) \/ Crash(i) PROVE FALSE
  BY <1>8 DEF ExecFails, Crash, Fallible
<1>9. ASSUME NEW s \in Sockets, FindRooms(s) \/ Counts(s) \/ ReadFails(s) \/ DropEarly(s)
      PROVE  UNCHANGED <<queue, userSockets, online>>
  BY <1>9 DEF FindRooms, Counts, ReadFails, DropEarly, redisVars
<1>10. ASSUME NEW v \in Users, Redeem(v) \/ Leave(v)
      PROVE  UNCHANGED <<queue, userSockets, online>>
  BY <1>10 DEF Redeem, Leave, socketVars, redisVars
<1>11. ASSUME NEW v \in Users, NEW i \in Instances, Join(v, i) \/ JoinUserToRoom(v, i)
      PROVE  UNCHANGED <<queue, userSockets, online>>
  BY <1>11 DEF Join, JoinUserToRoom, socketVars, redisVars
<1>12. ASSUME Evict \/ (\E v \in Users : Age(v)) \/ UNCHANGED vars
       PROVE  UNCHANGED <<queue, userSockets>> /\ online[u] # "no"
  BY <1>0, <1>12 DEF Evict, Age, vars, socketVars, redisVars
<1>13. ASSUME UNCHANGED <<queue, userSockets, online>> PROVE Reason(u)'
  BY <1>2, <1>13
<1> QED
  BY <1>2, <1>4, <1>5, <1>6, <1>7, <1>8, <1>9, <1>10, <1>11, <1>12, <1>13
  DEF Next, Proceed

LEMMA TrackedStep ==
  ASSUME TypeOK, Tracked, [Next]_vars, ~ Fallible
  PROVE  Tracked'
<1> USE DEF Tracked, TypeOK, roomVars, socketVars, redisVars
<1>1. ASSUME NEW s \in Sockets,
             Connect(s) \/ FindRooms(s) \/ JoinChannel(s) \/ Counts(s) \/ ReadFails(s)
      PROVE  Tracked'
  BY <1>1 DEF Connect, FindRooms, JoinChannel, Counts, ReadFails, Registered, Waiting
<1>2. ASSUME NEW s \in Sockets, Drop(s) \/ DropEarly(s) PROVE Tracked'
  BY <1>2 DEF Drop, DropEarly
<1>3. ASSUME NEW i \in Instances, Exec(i) PROVE Tracked'
  <2>1. PICK c : c = Head(queue[i])
    OBVIOUS
  <2>2. pc' = pc \/ pc' = [pc EXCEPT ![c.by] = After(c.cmd)]
    BY <1>3, <2>1 DEF Exec
  <2>3. After(c.cmd) \in Waiting
    BY DEF After, Waiting
  <2> QED
    BY <1>3, <2>2, <2>3 DEF Exec
<1>4. ASSUME NEW i \in Instances, ExecFails(i) \/ Crash(i) PROVE FALSE
  BY <1>4 DEF ExecFails, Crash, Fallible
<1>5. ASSUME NEW u \in Users, Age(u) \/ Redeem(u) \/ Leave(u) PROVE Tracked'
  BY <1>5 DEF Age, Redeem, Leave
<1>6. ASSUME NEW u \in Users, NEW i \in Instances, Join(u, i) \/ JoinUserToRoom(u, i)
      PROVE  Tracked'
  BY <1>6 DEF Join, JoinUserToRoom
<1>7. CASE Evict \/ UNCHANGED vars
  BY <1>7 DEF Evict, vars
<1> QED
  BY <1>1, <1>2, <1>3, <1>4, <1>5, <1>6, <1>7 DEF Next, Proceed

LEMMA OnlineInit == Init => OnlineIsUndone /\ OnlineHasReason /\ Tracked
<1> SUFFICES ASSUME Init PROVE OnlineIsUndone /\ OnlineHasReason /\ Tracked
  OBVIOUS
<1>1. \A i \in Instances : queue[i] = <<>>
  BY DEF Init
<1>2. \A i \in Instances, k \in Nat, d \in {"online"}, u \in Users : ~ Entry(i, k, d, u)
  BY <1>1 DEF Entry
<1>3. OnlineHasReason /\ Tracked
  BY DEF Init, OnlineHasReason, Tracked
<1> QED
  BY <1>2, <1>3 DEF OnlineIsUndone

LEMMA NobodyOnline ==
  ASSUME TypeOK, OnlineHasReason, Tracked
  PROVE  OfflineAfterLast
<1> SUFFICES ASSUME NEW u \in Users, Quiet(u), ~ Connected(u),
                    \A s \in Sockets : s.user = u => pc[s] # "lost"
             PROVE  online[u] = "no"
  BY DEF OfflineAfterLast
<1>1. \A i \in Instances, k \in Nat : ~ Entry(i, k, "offline", u)
  BY DEF Quiet, Entry
<1>2. \A i \in Instances : UserSockets(i, u) = {}
  BY DEF Quiet, Connected, Tracked, TypeOK, UserSockets
<1> QED
  BY <1>1, <1>2 DEF OnlineHasReason

\* Unless a command fails or a server dies, a user all of whose sockets have
\* closed, none before its handlers were there, is offline: for any number of
\* instances, whatever the order in which their commands reach Redis.
THEOREM LastDropIsOffline == ~ Fallible /\ Spec => []OfflineAfterLast
<1> DEFINE Inv == TypeOK /\ OnlineIsUndone /\ OnlineHasReason /\ Tracked
<1>1. Init => Inv
  BY TypeInit, OnlineInit
<1>2. ~ Fallible /\ Inv /\ [Next]_vars => Inv'
  BY TypeStep, UndoneStep, ReasonStep, TrackedStep
<1>3. Inv => OfflineAfterLast
  BY NobodyOnline
<1>4. Fallible' <=> Fallible
  BY DEF Fallible
<1> HIDE DEF Inv
<1> QED
  BY <1>1, <1>2, <1>3, <1>4, PTL DEF Spec

-----------------------------------------------------------------------------
(* Commands and the sockets that sent them.                                *)

\* The map holds every connected socket, and an instance's commands are from
\* its own sockets.
HomeInv ==
  /\ up \subseteq userSockets
  /\ \A s \in userSockets : pc[s] # "new"
  /\ \A i \in Instances : \A k \in 1 .. Len(queue[i]) :
       queue[i][k].by.at = i /\ pc[queue[i][k].by] # "new"

\* A handler waits for one command at a time, and for the one it has sent.
QueueInv ==
  \A i \in Instances : \A k \in 1 .. Len(queue[i]) : queue[i][k].cmd # "offline" =>
    /\ pc[queue[i][k].by] = queue[i][k].cmd
    /\ \A l \in 1 .. Len(queue[i]) :
         queue[i][l].cmd # "offline" /\ queue[i][l].by = queue[i][k].by => l = k

\* Where a place of the commands comes from when one has been sent, or run.
LEMMA SendPlaces ==
  ASSUME queue \in [Instances -> Seq(Command)], NEW s \in Sockets,
         NEW cmd \in {"online", "presence", "offline"}, NEW b \in BOOLEAN,
         Send(cmd, s, b), NEW i \in Instances, NEW k \in 1 .. Len(queue'[i])
  PROVE  \/ k \in 1 .. Len(queue[i]) /\ queue'[i][k] = queue[i][k]
         \/ /\ i = s.at /\ k = Len(queue[i]) + 1
            /\ queue'[i][k].cmd = cmd /\ queue'[i][k].by = s
<1>1. Len(queue[i]) \in Nat
  OBVIOUS
<1>2. /\ \A x \in Instances : x # s.at => queue'[x] = queue[x]
      /\ Len(queue'[s.at]) = Len(queue[s.at]) + 1
      /\ \A x \in 1..Len(queue[s.at]) : queue'[s.at][x] = queue[s.at][x]
      /\ queue'[s.at][Len(queue[s.at]) + 1].cmd = cmd
      /\ queue'[s.at][Len(queue[s.at]) + 1].by = s
  BY SendType
<1>3. CASE i # s.at
  BY <1>2, <1>3
<1>4. CASE i = s.at
  BY <1>1, <1>2, <1>4
<1> QED
  BY <1>3, <1>4

LEMMA RunPlaces ==
  ASSUME queue \in [Instances -> Seq(Command)], NEW j \in Instances,
         queue[j] # <<>>, queue' = [queue EXCEPT ![j] = Tail(@)],
         NEW i \in Instances, NEW k \in 1 .. Len(queue'[i])
  PROVE  /\ i # j => k \in 1 .. Len(queue[i]) /\ queue'[i][k] = queue[i][k]
         /\ i = j => k + 1 \in 1 .. Len(queue[i]) /\ queue'[i][k] = queue[i][k + 1]
  BY RunType

LEMMA PlaceType ==
  ASSUME queue \in [Instances -> Seq(Command)], NEW i \in Instances,
         NEW k \in 1 .. Len(queue[i])
  PROVE  /\ queue[i][k].by \in Sockets
         /\ queue[i][k].cmd \in {"online", "presence", "offline"}
<1>1. queue[i] \in Seq(Command)
  OBVIOUS
<1>2. queue[i][k] \in Command
  BY <1>1
<1> QED
  BY <1>2 DEF Command

\* No socket becomes new again.
LEMMA NeverNew ==
  ASSUME TypeOK, [Next]_vars, NEW s \in Sockets, pc'[s] = "new"
  PROVE  pc[s] = "new"
<1> USE DEF TypeOK, roomVars, redisVars, socketVars, Waiting
<1>1. ASSUME NEW x \in Sockets, Connect(x) \/ Proceed(x) \/ Drop(x) \/ DropEarly(x)
      PROVE  pc[s] = "new"
  BY <1>1 DEF Connect, Proceed, FindRooms, JoinChannel, Counts, ReadFails, Registered, Drop,
              DropEarly
<1>2. ASSUME NEW i \in Instances, Exec(i) \/ ExecFails(i) PROVE pc[s] = "new"
  <2>1. PICK c : c = Head(queue[i])
    OBVIOUS
  <2>2. \/ pc' = pc \/ pc' = [pc EXCEPT ![c.by] = After(c.cmd)]
        \/ pc' = [pc EXCEPT ![c.by] = Registered(c.by)]
    BY <1>2, <2>1 DEF Exec, ExecFails
  <2>3. After(c.cmd) # "new" /\ Registered(c.by) # "new"
    BY DEF After, Registered
  <2> QED
    BY <2>2, <2>3
<1>3. ASSUME NEW i \in Instances, Crash(i) PROVE pc[s] = "new"
  BY <1>3 DEF Crash
<1>4. ASSUME NEW u \in Users, Age(u) \/ Redeem(u) \/ Leave(u) PROVE pc' = pc
  BY <1>4 DEF Age, Redeem, Leave
<1>5. ASSUME NEW u \in Users, NEW i \in Instances, Join(u, i) \/ JoinUserToRoom(u, i)
      PROVE  pc' = pc
  BY <1>5 DEF Join, JoinUserToRoom
<1>6. ASSUME Evict \/ UNCHANGED vars PROVE pc' = pc
  BY <1>6 DEF Evict, vars
<1> QED
  BY <1>1, <1>2, <1>3, <1>4, <1>5, <1>6 DEF Next

LEMMA HomeStep ==
  ASSUME TypeOK, HomeInv, [Next]_vars
  PROVE  HomeInv'
<1>0. /\ queue \in [Instances -> Seq(Command)] /\ userSockets \subseteq Sockets
      /\ pc \in [Sockets -> Waiting \cup {"new", "ready", "lost", "gone"}]
      /\ TypeOK'
  BY TypeStep DEF TypeOK
<1> DEFINE Commands ==
      \A i \in Instances : \A k \in 1 .. Len(queue[i]) :
        queue[i][k].by.at = i /\ pc[queue[i][k].by] # "new"
\* Old commands stay from sockets that are not new.
<1>1. ASSUME NEW i \in Instances, NEW k \in 1 .. Len(queue[i])
      PROVE  queue[i][k].by.at = i /\ pc'[queue[i][k].by] # "new"
  BY <1>0, <1>1, NeverNew, PlaceType DEF HomeInv
<1>2. ASSUME NEW s \in Sockets, NEW cmd \in {"online", "presence", "offline"},
             NEW b \in BOOLEAN, Send(cmd, s, b), pc'[s] # "new"
      PROVE  Commands'
  <2> SUFFICES ASSUME NEW i \in Instances, NEW k \in 1 .. Len(queue'[i])
               PROVE  queue'[i][k].by.at = i /\ pc'[queue'[i][k].by] # "new"
    OBVIOUS
  <2>1. \/ k \in 1 .. Len(queue[i]) /\ queue'[i][k] = queue[i][k]
        \/ i = s.at /\ queue'[i][k].by = s
    BY <1>0, <1>2, SendPlaces
  <2> QED
    BY <1>1, <1>2, <2>1
<1>3. ASSUME NEW j \in Instances, Exec(j) \/ ExecFails(j) PROVE Commands'
  <2> SUFFICES ASSUME NEW i \in Instances, NEW k \in 1 .. Len(queue'[i])
               PROVE  queue'[i][k].by.at = i /\ pc'[queue'[i][k].by] # "new"
    OBVIOUS
  <2>1. queue[j] # <<>> /\ queue' = [queue EXCEPT ![j] = Tail(@)]
    BY <1>3 DEF Exec, ExecFails
  <2>2. PICK l \in 1 .. Len(queue[i]) : queue'[i][k] = queue[i][l]
    BY <1>0, <2>1, RunPlaces
  <2> QED
    BY <1>1, <2>2
<1>4. ASSUME queue' = queue PROVE Commands'
  BY <1>1, <1>4
<1>5. ASSUME up' \subseteq up, \A s \in userSockets \ userSockets' : s \notin up',
             userSockets' \subseteq userSockets
      PROVE  up' \subseteq userSockets' /\ \A s \in userSockets' : pc'[s] # "new"
  BY <1>0, <1>5, NeverNew DEF HomeInv
<1>6. ASSUME NEW s \in Sockets, Connect(s) PROVE HomeInv'
  <2>1. pc'[s] # "new" /\ Send("online", s, FALSE)
    BY <1>0, <1>6 DEF Connect
  <2>2. up' \subseteq userSockets' /\ \A x \in userSockets' : pc'[x] # "new"
    BY <1>0, <1>6, <2>1, NeverNew DEF HomeInv, Connect
  <2> QED
    BY <1>2, <2>1, <2>2 DEF HomeInv
<1>7. ASSUME NEW s \in Sockets, JoinChannel(s) PROVE HomeInv'
  <2>1. pc'[s] # "new" /\ Send("presence", s, FALSE) /\ UNCHANGED <<up, userSockets>>
    BY <1>0, <1>7 DEF JoinChannel
  <2> QED
    BY <1>2, <1>5, <2>1 DEF HomeInv
<1>8. ASSUME NEW s \in Sockets, Drop(s) PROVE HomeInv'
  <2>1. /\ pc'[s] # "new" /\ up' = up \ {s} /\ userSockets' = userSockets \ {s}
        /\ (s \in inRoom') \in BOOLEAN
    BY <1>0, <1>8 DEF Drop
  <2>2. Send("offline", s, s \in inRoom') \/ queue' = queue
    BY <1>8 DEF Drop
  <2>3. Commands'
    BY <1>2, <1>4, <2>1, <2>2
  <2> QED
    BY <1>5, <2>1, <2>3 DEF HomeInv
<1>9. ASSUME NEW i \in Instances, Exec(i) \/ ExecFails(i) PROVE HomeInv'
  <2>1. UNCHANGED <<up, userSockets>>
    BY <1>9 DEF Exec, ExecFails
  <2> QED
    BY <1>3, <1>5, <1>9, <2>1 DEF HomeInv
<1>10. ASSUME NEW j \in Instances, Crash(j) PROVE HomeInv'
  <2>1. /\ up' = {s \in up : s.at # j} /\ userSockets' = {s \in userSockets : s.at # j}
        /\ queue' = [queue EXCEPT ![j] = <<>>]
    BY <1>10 DEF Crash
  <2>2. Commands'
    BY <1>0, <1>1, <2>1
  <2> QED
    BY <1>5, <2>1, <2>2 DEF HomeInv
<1>11. ASSUME UNCHANGED <<queue, userSockets>>, up' \subseteq up PROVE HomeInv'
  BY <1>4, <1>5, <1>11 DEF HomeInv
<1>12. ASSUME NEW s \in Sockets, FindRooms(s) \/ Counts(s) \/ ReadFails(s) \/ DropEarly(s)
       PROVE  UNCHANGED <<queue, userSockets>> /\ up' \subseteq up
  BY <1>12 DEF FindRooms, Counts, ReadFails, DropEarly, redisVars
<1>13. ASSUME NEW u \in Users, Age(u) \/ Redeem(u) \/ Leave(u)
       PROVE  UNCHANGED <<queue, userSockets>> /\ up' \subseteq up
  BY <1>13 DEF Age, Redeem, Leave, socketVars, redisVars
<1>14. ASSUME NEW u \in Users, NEW i \in Instances, Join(u, i) \/ JoinUserToRoom(u, i)
       PROVE  UNCHANGED <<queue, userSockets>> /\ up' \subseteq up
  BY <1>14 DEF Join, JoinUserToRoom, socketVars, redisVars
<1>15. ASSUME Evict \/ UNCHANGED vars
       PROVE  UNCHANGED <<queue, userSockets>> /\ up' \subseteq up
  BY <1>15 DEF Evict, vars, socketVars, redisVars
<1> QED
  BY <1>6, <1>7, <1>8, <1>9, <1>10, <1>11, <1>12, <1>13, <1>14, <1>15 DEF Next, Proceed

LEMMA QueueStep ==
  ASSUME TypeOK, HomeInv, QueueInv, [Next]_vars
  PROVE  QueueInv'
<1>0. /\ queue \in [Instances -> Seq(Command)] /\ userSockets \subseteq Sockets
      /\ pc \in [Sockets -> Waiting \cup {"new", "ready", "lost", "gone"}]
  BY DEF TypeOK
<1> DEFINE Awaited(i, k) == queue[i][k].cmd # "offline"
\* A handler that waits for no command has none among those to run.
<1>1. ASSUME NEW i \in Instances, NEW k \in 1 .. Len(queue[i]), Awaited(i, k)
      PROVE  /\ pc[queue[i][k].by] = queue[i][k].cmd
             /\ pc[queue[i][k].by] \in {"online", "presence"}
             /\ queue[i][k].by \in Sockets /\ queue[i][k].by.at = i
  BY <1>0, <1>1, PlaceType DEF QueueInv, HomeInv
<1>2. ASSUME NEW s \in Sockets, pc[s] \notin {"online", "presence"},
             \A x \in Sockets : x # s => pc'[x] = pc[x], queue' = queue
      PROVE  QueueInv'
  <2>1. ASSUME NEW i \in Instances, NEW k \in 1 .. Len(queue[i]), Awaited(i, k)
        PROVE  pc'[queue[i][k].by] = queue[i][k].cmd
    BY <1>1, <1>2, <2>1
  <2> QED
    BY <1>2, <2>1 DEF QueueInv
<1>3. ASSUME NEW s \in Sockets, pc[s] \notin {"online", "presence"},
             \A x \in Sockets : x # s => pc'[x] = pc[x],
             NEW cmd \in {"online", "presence", "offline"}, NEW b \in BOOLEAN,
             Send(cmd, s, b), cmd # "offline" => pc'[s] = cmd
      PROVE  QueueInv'
  <2> SUFFICES ASSUME NEW i \in Instances, NEW k \in 1 .. Len(queue'[i]), Awaited(i, k)'
               PROVE  /\ pc'[queue'[i][k].by] = queue'[i][k].cmd
                      /\ \A l \in 1 .. Len(queue'[i]) :
                           Awaited(i, l)' /\ queue'[i][l].by = queue'[i][k].by => l = k
    BY DEF QueueInv
  <2>1. ASSUME NEW l \in 1 .. Len(queue'[i]), Awaited(i, l)'
        PROVE  \/ /\ l \in 1 .. Len(queue[i]) /\ queue'[i][l] = queue[i][l]
                  /\ Awaited(i, l) /\ queue[i][l].by # s
               \/ /\ l = Len(queue[i]) + 1 /\ queue'[i][l].by = s
                  /\ queue'[i][l].cmd = cmd
    <3>0. queue \in [Instances -> Seq(Command)] /\ Send(cmd, s, b)
      BY <1>0, <1>3
    <3>1. \/ l \in 1 .. Len(queue[i]) /\ queue'[i][l] = queue[i][l]
          \/ /\ i = s.at /\ l = Len(queue[i]) + 1
             /\ queue'[i][l].cmd = cmd /\ queue'[i][l].by = s
      BY <3>0, SendPlaces
    <3> QED
      BY <1>1, <1>3, <2>1, <3>1
  <2>2. pc'[queue'[i][k].by] = queue'[i][k].cmd
    <3>1. CASE /\ k \in 1 .. Len(queue[i]) /\ queue'[i][k] = queue[i][k]
               /\ Awaited(i, k) /\ queue[i][k].by # s
      BY <1>1, <1>3, <3>1
    <3>2. CASE queue'[i][k].by = s /\ queue'[i][k].cmd = cmd
      BY <1>3, <3>2
    <3> QED
      BY <2>1, <3>1, <3>2
  <2>3. ASSUME NEW l \in 1 .. Len(queue'[i]), Awaited(i, l)',
               queue'[i][l].by = queue'[i][k].by
        PROVE  l = k
    BY <2>1, <2>3 DEF QueueInv
  <2> QED
    BY <2>2, <2>3
<1>4. ASSUME NEW j \in Instances, Exec(j) \/ ExecFails(j) PROVE QueueInv'
  <2>1. PICK c : c = Head(queue[j])
    OBVIOUS
  <2>2. /\ queue[j] # <<>> /\ queue' = [queue EXCEPT ![j] = Tail(@)]
        /\ IF c.cmd = "offline" THEN pc' = pc
           ELSE \A x \in Sockets : x # c.by => pc'[x] = pc[x]
    BY <1>0, <1>4, <2>1 DEF Exec, ExecFails
  <2>3. c = queue[j][1] /\ 1 \in 1 .. Len(queue[j])
    BY <1>0, <2>1, <2>2
  <2>4. ASSUME NEW i \in Instances, NEW k \in 1 .. Len(queue'[i])
        PROVE  /\ i # j => k \in 1 .. Len(queue[i]) /\ queue'[i][k] = queue[i][k]
               /\ i = j => k + 1 \in 1 .. Len(queue[i]) /\ queue'[i][k] = queue[i][k + 1]
    BY <1>0, <2>2, RunPlaces
  <2> SUFFICES ASSUME NEW i \in Instances, NEW k \in 1 .. Len(queue'[i]), Awaited(i, k)'
               PROVE  /\ pc'[queue'[i][k].by] = queue'[i][k].cmd
                      /\ \A l \in 1 .. Len(queue'[i]) :
                           Awaited(i, l)' /\ queue'[i][l].by = queue'[i][k].by => l = k
    BY DEF QueueInv
  <2>5. CASE i # j
    <3>1. k \in 1 .. Len(queue[i]) /\ queue'[i][k] = queue[i][k] /\ Awaited(i, k)
      BY <2>4, <2>5
    <3>2. pc'[queue[i][k].by] = pc[queue[i][k].by]
      <4>1. c.cmd # "offline" => c.by.at = j
        BY <1>1, <2>3
      <4> QED
        BY <1>1, <2>2, <2>5, <3>1, <4>1
    <3>3. pc'[queue'[i][k].by] = queue'[i][k].cmd
      BY <1>1, <3>1, <3>2
    <3>4. ASSUME NEW l \in 1 .. Len(queue'[i]), Awaited(i, l)',
                 queue'[i][l].by = queue'[i][k].by
          PROVE  l = k
      BY <2>4, <2>5, <3>1, <3>4 DEF QueueInv
    <3> QED
      BY <3>3, <3>4
  <2>6. CASE i = j
    <3>1. /\ k + 1 \in 1 .. Len(queue[i]) /\ queue'[i][k] = queue[i][k + 1]
          /\ Awaited(i, k + 1)
      BY <2>4, <2>6
    <3>2. pc'[queue[i][k + 1].by] = pc[queue[i][k + 1].by]
      <4>1. CASE c.cmd = "offline"
        BY <2>2, <4>1
      <4>2. CASE c.cmd # "offline"
        <5>1. k + 1 # 1
          OBVIOUS
        <5>2. queue[i][k + 1].by # c.by
          BY <2>3, <2>6, <3>1, <4>2, <5>1 DEF QueueInv
        <5> QED
          BY <1>1, <2>2, <3>1, <4>2, <5>2
      <4> QED
        BY <4>1, <4>2
    <3>3. pc'[queue'[i][k].by] = queue'[i][k].cmd
      BY <1>1, <3>1, <3>2
    <3>4. ASSUME NEW l \in 1 .. Len(queue'[i]), Awaited(i, l)',
                 queue'[i][l].by = queue'[i][k].by
          PROVE  l = k
      <4>1. l + 1 \in 1 .. Len(queue[i]) /\ queue'[i][l] = queue[i][l + 1]
        BY <2>4, <2>6
      <4>2. l + 1 = k + 1
        BY <3>1, <3>4, <4>1 DEF QueueInv
      <4> QED
        BY <4>2
    <3> QED
      BY <3>3, <3>4
  <2> QED
    BY <2>5, <2>6
<1>5. ASSUME NEW j \in Instances, Crash(j) PROVE QueueInv'
  <2>1. /\ queue' = [queue EXCEPT ![j] = <<>>]
        /\ \A s \in Sockets : s.at # j => pc'[s] = pc[s]
    BY <1>0, <1>5 DEF Crash
  <2>2. queue'[j] = <<>> /\ \A i \in Instances : i # j => queue'[i] = queue[i]
    BY <1>0, <2>1
  <2>3. ASSUME NEW i \in Instances, i # j, NEW k \in 1 .. Len(queue[i]), Awaited(i, k)
        PROVE  pc'[queue[i][k].by] = queue[i][k].cmd
    BY <1>1, <2>1, <2>3
  <2> QED
    BY <2>2, <2>3 DEF QueueInv
<1>6. ASSUME NEW s \in Sockets, Connect(s) \/ JoinChannel(s) PROVE QueueInv'
  <2>1. CASE Connect(s)
    <3>1. /\ pc[s] = "new" /\ pc'[s] = "online" /\ Send("online", s, FALSE)
          /\ \A x \in Sockets : x # s => pc'[x] = pc[x]
      BY <1>0, <2>1 DEF Connect
    <3> QED
      BY <1>3, <3>1
  <2>2. CASE JoinChannel(s)
    <3>1. /\ pc[s] = "joinRoom" /\ pc'[s] = "presence" /\ Send("presence", s, FALSE)
          /\ \A x \in Sockets : x # s => pc'[x] = pc[x]
      BY <1>0, <2>2 DEF JoinChannel
    <3> QED
      BY <1>3, <3>1
  <2> QED
    BY <1>6, <2>1, <2>2
<1>7. ASSUME NEW s \in Sockets, Drop(s) PROVE QueueInv'
  <2>1. /\ pc[s] = "ready" /\ \A x \in Sockets : x # s => pc'[x] = pc[x]
        /\ (s \in inRoom') \in BOOLEAN
        /\ Send("offline", s, s \in inRoom') \/ queue' = queue
    BY <1>0, <1>7 DEF Drop
  <2> QED
    BY <1>2, <1>3, <2>1
<1>8. ASSUME NEW s \in Sockets, FindRooms(s) \/ Counts(s) \/ ReadFails(s) PROVE QueueInv'
  <2>1. /\ pc[s] \in {"find", "counts"} /\ queue' = queue
        /\ \A x \in Sockets : x # s => pc'[x] = pc[x]
    BY <1>0, <1>8 DEF FindRooms, Counts, ReadFails, redisVars
  <2> QED
    BY <1>2, <2>1
<1>9. ASSUME UNCHANGED <<pc, queue>> PROVE QueueInv'
  BY <1>9 DEF QueueInv
<1>10. ASSUME NEW u \in Users, Age(u) \/ Redeem(u) \/ Leave(u) PROVE UNCHANGED <<pc, queue>>
  BY <1>10 DEF Age, Redeem, Leave, socketVars, redisVars
<1>11. ASSUME NEW u \in Users, NEW i \in Instances, Join(u, i) \/ JoinUserToRoom(u, i)
       PROVE  UNCHANGED <<pc, queue>>
  BY <1>11 DEF Join, JoinUserToRoom, socketVars, redisVars
<1>12. ASSUME Evict \/ UNCHANGED vars \/ \E s \in Sockets : DropEarly(s)
       PROVE  UNCHANGED <<pc, queue>>
  BY <1>12 DEF Evict, DropEarly, vars, socketVars, redisVars
<1> QED
  BY <1>4, <1>5, <1>6, <1>7, <1>8, <1>9, <1>10, <1>11, <1>12 DEF Next, Proceed

LEMMA CommandsAlways == Spec => [](TypeOK /\ HomeInv /\ QueueInv)
<1>1. Init => TypeOK /\ HomeInv /\ QueueInv
  <2> SUFFICES ASSUME Init PROVE HomeInv /\ QueueInv
    BY TypeInit
  <2>1. \A i \in Instances : queue[i] = <<>>
    BY DEF Init
  <2>2. \A i \in Instances : \A k \in 1 .. Len(queue[i]) : FALSE
    BY <2>1
  <2> QED
    BY <2>2 DEF Init, HomeInv, QueueInv
<1>2. TypeOK /\ HomeInv /\ QueueInv /\ [Next]_vars => TypeOK' /\ HomeInv' /\ QueueInv'
  BY TypeStep, HomeStep, QueueStep
<1> QED
  BY <1>1, <1>2, PTL DEF Spec

-----------------------------------------------------------------------------
(* Who is in the channel.                                                  *)

\* A handler past its look at the rooms, of a member whose joins were answered
\* here, has its socket in the channel.
JoinedInv ==
  /\ \A u \in Users, i \in Instances : <<u, i>> \in joining => i \in joinedAt[u]
  /\ \A s \in up : pc[s] \in {"presence", "counts", "ready"} /\ Joined(s) => s \in inRoom

Untold == {"fail", "redeem"} \cap Events # {}

LEMMA JoinedStep ==
  ASSUME TypeOK, HomeInv, QueueInv, JoinedInv, [Next]_vars, ~ Untold
  PROVE  JoinedInv'
<1>0. /\ queue \in [Instances -> Seq(Command)] /\ up \subseteq Sockets
      /\ pc \in [Sockets -> Waiting \cup {"new", "ready", "lost", "gone"}]
      /\ joinedAt \in [Users -> SUBSET Instances] /\ joining \subseteq Users \X Instances
      /\ \A s \in Sockets : s.at \in Instances /\ s.user \in Users
  BY DEF TypeOK, Sockets
<1> DEFINE Late == {"presence", "counts", "ready"}
           Told(s) == pc[s] \in Late /\ Joined(s) => s \in inRoom
           Recorded == \A u \in Users, i \in Instances : <<u, i>> \in joining => i \in joinedAt[u]
<1>1. Recorded /\ \A s \in up : Told(s)
  BY DEF JoinedInv
\* A step of one socket's handler.
<1>2. ASSUME NEW s \in Sockets, UNCHANGED roomVars, up' \subseteq up \cup {s},
             \A x \in Sockets : x # s => pc'[x] = pc[x],
             inRoom \ {s} \subseteq inRoom', s \in up' => Told(s)'
      PROVE  JoinedInv'
  <2>1. Recorded'
    BY <1>1, <1>2 DEF roomVars
  <2>2. ASSUME NEW x \in up', x # s PROVE Told(x)'
    BY <1>0, <1>1, <1>2, <2>2 DEF Joined, roomVars
  <2> QED
    BY <1>2, <2>1, <2>2 DEF JoinedInv
<1>3. ASSUME NEW s \in Sockets, Connect(s) PROVE JoinedInv'
  <2>1. pc'[s] = "online" /\ up' = up \cup {s} /\ inRoom' = inRoom /\ UNCHANGED roomVars
    BY <1>0, <1>3 DEF Connect
  <2>2. \A x \in Sockets : x # s => pc'[x] = pc[x]
    BY <1>0, <1>3 DEF Connect
  <2> QED
    BY <1>2, <2>1, <2>2
<1>4. ASSUME NEW s \in Sockets, Proceed(s) PROVE JoinedInv'
  <2>1. \A x \in Sockets : x # s => pc'[x] = pc[x]
    BY <1>0, <1>4 DEF Proceed, FindRooms, JoinChannel, Counts, ReadFails
  <2>2. UNCHANGED roomVars /\ up' = up /\ inRoom \subseteq inRoom'
    BY <1>4 DEF Proceed, FindRooms, JoinChannel, Counts, ReadFails
  <2>3. ~ ReadFails(s)
    BY DEF ReadFails, Untold
  <2>4. CASE FindRooms(s)
    <3>1. pc'[s] \in Late => s.user \notin members
      BY <1>0, <2>4 DEF FindRooms
    <3>2. Told(s)'
      BY <2>2, <3>1 DEF Joined, roomVars
    <3> QED
      BY <1>2, <2>1, <2>2, <3>2
  <2>5. CASE JoinChannel(s)
    <3>1. s \in up => s \in inRoom'
      BY <2>5 DEF JoinChannel
    <3> QED
      BY <1>2, <2>1, <2>2, <3>1
  <2>6. CASE Counts(s)
    <3>1. pc[s] = "counts" /\ inRoom' = inRoom
      BY <2>6 DEF Counts
    <3>2. s \in up => Told(s)'
      BY <1>1, <2>2, <3>1 DEF Joined, roomVars
    <3> QED
      BY <1>2, <2>1, <2>2, <3>2
  <2> QED
    BY <1>4, <2>3, <2>4, <2>5, <2>6 DEF Proceed
<1>5. ASSUME NEW s \in Sockets, Drop(s) \/ DropEarly(s) PROVE JoinedInv'
  <2>1. /\ up' = up \ {s} /\ inRoom' = inRoom \ {s} /\ UNCHANGED roomVars
        /\ \A x \in Sockets : x # s => pc'[x] = pc[x]
    BY <1>0, <1>5 DEF Drop, DropEarly
  <2> QED
    BY <1>2, <2>1
\* Running a command wakes the handler that waits for it.
<1>6. ASSUME NEW i \in Instances, Exec(i) PROVE JoinedInv'
  <2>1. PICK c : c = Head(queue[i])
    OBVIOUS
  <2>2. /\ c = queue[i][1] /\ 1 \in 1 .. Len(queue[i])
        /\ c.by \in Sockets /\ c.cmd \in {"online", "presence", "offline"}
    <3>1. c = queue[i][1] /\ 1 \in 1 .. Len(queue[i])
      BY <1>0, <1>6, <2>1 DEF Exec
    <3> QED
      BY <1>0, <3>1, PlaceType
  <2>3. /\ UNCHANGED <<roomVars, up, inRoom>>
        /\ pc' = IF c.cmd = "offline" THEN pc ELSE [pc EXCEPT ![c.by] = After(c.cmd)]
    BY <1>6, <2>1 DEF Exec
  <2>4. c.cmd = "presence" => pc[c.by] = "presence"
    BY <2>2 DEF QueueInv
  <2>5. c.by \in up => Told(c.by)'
    BY <1>0, <1>1, <2>2, <2>3, <2>4 DEF After, Joined, roomVars
  <2>6. \A x \in Sockets : x # c.by => pc'[x] = pc[x]
    BY <1>0, <2>3
  <2> QED
    BY <1>2, <2>2, <2>3, <2>5, <2>6
<1>7. ASSUME NEW i \in Instances, ExecFails(i) PROVE FALSE
  BY <1>7 DEF ExecFails, Untold
<1>8. ASSUME NEW j \in Instances, Crash(j) PROVE JoinedInv'
  <2>1. /\ up' = {s \in up : s.at # j} /\ inRoom' = {s \in inRoom : s.at # j}
        /\ joining' = {p \in joining : p[2] # j} /\ UNCHANGED <<members, joinedAt>>
        /\ \A s \in Sockets : s.at # j => pc'[s] = pc[s]
    BY <1>0, <1>8 DEF Crash
  <2>2. Recorded'
    BY <1>1, <2>1
  <2>3. ASSUME NEW s \in up' PROVE Told(s)'
    <3>1. s \in up /\ s.at # j /\ s \in Sockets /\ pc'[s] = pc[s]
      BY <1>0, <2>1
    <3>2. ASSUME Joined(s)', NEW i \in Instances PROVE <<s.user, i>> \notin joining
      <4>1. CASE i # j
        BY <2>1, <3>2, <4>1 DEF Joined
      <4>2. CASE i = j
        BY <1>0, <1>1, <2>1, <3>1, <3>2, <4>2 DEF Joined
      <4> QED
        BY <4>1, <4>2
    <3>3. Joined(s)' => Joined(s)
      BY <2>1, <3>2 DEF Joined
    <3> QED
      BY <1>1, <2>1, <3>1, <3>3
  <2> QED
    BY <2>2, <2>3 DEF JoinedInv
<1>9. ASSUME NEW u \in Users, NEW i \in Instances, Join(u, i) PROVE JoinedInv'
  <2>1. /\ joining' = joining \cup {<<u, i>>} /\ members' = members \cup {u}
        /\ joinedAt' = [joinedAt EXCEPT ![u] = @ \cup {i}]
        /\ UNCHANGED <<pc, up, inRoom>>
    BY <1>9 DEF Join, socketVars
  <2>2. Recorded'
    BY <1>0, <1>1, <2>1
  <2>3. ASSUME NEW s \in up' PROVE Told(s)'
    <3>1. s \in up /\ s \in Sockets
      BY <1>0, <2>1
    <3>2. Joined(s)' => Joined(s)
      <4>1. CASE s.user = u
        BY <2>1, <4>1 DEF Joined
      <4>2. CASE s.user # u
        BY <1>0, <2>1, <3>1, <4>2 DEF Joined
      <4> QED
        BY <4>1, <4>2
    <3> QED
      BY <1>1, <2>1, <3>1, <3>2
  <2> QED
    BY <2>2, <2>3 DEF JoinedInv
<1>10. ASSUME NEW u \in Users, NEW i \in Instances, JoinUserToRoom(u, i) PROVE JoinedInv'
  <2>1. /\ <<u, i>> \in joining /\ joining' = joining \ {<<u, i>>}
        /\ inRoom' = inRoom \cup (UserSockets(i, u) \cap up)
        /\ UNCHANGED <<members, joinedAt, pc, up>>
    BY <1>10 DEF JoinUserToRoom
  <2>2. Recorded'
    BY <1>1, <2>1
  <2>3. ASSUME NEW s \in up' PROVE Told(s)'
    <3>1. s \in up /\ s \in Sockets /\ s \in userSockets
      BY <1>0, <2>1 DEF HomeInv
    <3>2. CASE s.user = u
      <4>1. i \in joinedAt[u]
        BY <1>1, <2>1
      <4>2. Joined(s)' => s.at = i
        BY <2>1, <3>2, <4>1 DEF Joined
      <4>3. s.at = i => s \in inRoom'
        BY <2>1, <3>1, <3>2 DEF UserSockets
      <4> QED
        BY <4>2, <4>3
    <3>3. CASE s.user # u
      <4>1. Joined(s)' => Joined(s)
        BY <2>1, <3>3 DEF Joined
      <4> QED
        BY <1>1, <2>1, <3>1, <4>1
    <3> QED
      BY <3>2, <3>3
  <2> QED
    BY <2>2, <2>3 DEF JoinedInv
<1>11. ASSUME members' \subseteq members, UNCHANGED <<joining, joinedAt, pc, up, inRoom>>
       PROVE  JoinedInv'
  BY <1>11 DEF JoinedInv, Joined
<1>12. ASSUME NEW u \in Users, Age(u) \/ Redeem(u) \/ Leave(u) PROVE JoinedInv'
  BY <1>11, <1>12 DEF Age, Redeem, Leave, Untold, roomVars, socketVars
<1>13. CASE Evict \/ UNCHANGED vars
  BY <1>11, <1>13 DEF Evict, vars, roomVars, socketVars
<1> QED
  BY <1>3, <1>4, <1>5, <1>6, <1>7, <1>8, <1>9, <1>10, <1>12, <1>13 DEF Next

\* Unless a read or command fails or a membership comes from an invite, every
\* connected member whose joins its own instance answered is in the channel:
\* for any number of sockets, whichever of connecting, joining, leaving and a
\* restart of the server comes in between.
THEOREM MembersAreTold == ~ Untold /\ Spec => []SubscribedMembers
<1>1. Init => JoinedInv
  BY DEF Init, JoinedInv
<1>2. ~ Untold /\ TypeOK /\ HomeInv /\ QueueInv /\ JoinedInv /\ [Next]_vars => JoinedInv'
  BY JoinedStep
<1>3. JoinedInv => SubscribedMembers
  BY DEF JoinedInv, SubscribedMembers
<1>4. Untold' <=> Untold
  BY DEF Untold
<1> QED
  BY <1>1, <1>2, <1>3, <1>4, CommandsAlways, PTL DEF Spec

-----------------------------------------------------------------------------
(* Who stays online.                                                       *)

OnlyAt(i, u) == \A s \in Sockets : s.user = u /\ pc[s] # "new" => s.at = i

NoOffline(i, u) == \A l \in Nat : ~ Entry(i, l, "offline", u)

\* Place k of the commands marks u online, and none after it undoes this.
Marks(i, k, u) ==
  Entry(i, k, "online", u) /\ \A l \in Nat : l > k => ~ Entry(i, l, "offline", u)

\* A user of one instance, which tracks a socket of his, is online for good or
\* about to be.
StaysOnline(i, u) ==
  (\E k \in Nat : Marks(i, k, u)) \/ (online[u] # "no" /\ NoOffline(i, u))

OnlineInv ==
  /\ \A u \in Users : online[u] # "stale"
  /\ \A u \in Users, i \in Instances :
       OnlyAt(i, u) /\ UserSockets(i, u) # {} => StaysOnline(i, u)

\* A command runs: of the places after it nothing is lost.
LEMMA RunStays ==
  ASSUME TypeOK, NEW j \in Instances, Exec(j), NEW u \in Users, StaysOnline(j, u)
  PROVE  StaysOnline(j, u)'
<1>1. PICK c : c = Head(queue[j])
  OBVIOUS
<1>2. /\ queue \in [Instances -> Seq(Command)]
      /\ queue[j] # <<>> /\ queue' = [queue EXCEPT ![j] = Tail(@)]
      /\ online \in [Users -> {"no", "fresh", "stale"}]
      /\ online' = [online EXCEPT ![c.by.user] =
                  CASE c.cmd = "online" -> "fresh"
                    [] c.cmd = "offline" -> "no"
                    [] OTHER -> @]
  BY <1>1 DEF Exec, TypeOK
<1>3. \A k \in Nat \ {0} : \A d, v : Entry(j, k, d, v)' <=> Entry(j, k + 1, d, v)
  BY <1>2, RunEntries
<1>4. \A d, v : Entry(j, 1, d, v) <=> c.cmd = d /\ c.by.user = v
  BY <1>1, <1>2, FirstEntry
<1>5. \A k \in Nat : \A d, v : Entry(j, k, d, v) => k \in Nat \ {0}
  BY EntryPlace
<1>6. \A k \in Nat : \A d, v : Entry(j, k, d, v)' => k \in Nat \ {0}
  BY DEF Entry
<1>7. ASSUME NEW k \in Nat, Marks(j, k, u) PROVE StaysOnline(j, u)'
  <2>1. k \in Nat \ {0} /\ Entry(j, k, "online", u)
    BY <1>5, <1>7 DEF Marks
  <2>2. ASSUME NEW l \in Nat \ {0}, l + 1 > k PROVE ~ Entry(j, l, "offline", u)'
    BY <1>3, <1>7, <2>2 DEF Marks
  <2>3. CASE k = 1
    <3>1. c.cmd = "online" /\ c.by.user = u
      BY <1>4, <2>1, <2>3
    <3>2. online'[u] # "no"
      BY <1>2, <3>1
    <3>3. NoOffline(j, u)'
      BY <1>6, <2>2, <2>3 DEF NoOffline
    <3> QED
      BY <3>2, <3>3 DEF StaysOnline
  <2>4. CASE k # 1
    <3>1. k - 1 \in Nat \ {0} /\ (k - 1) + 1 = k
      BY <2>1, <2>4
    <3>2. Entry(j, k - 1, "online", u)'
      BY <1>3, <2>1, <3>1
    <3>3. \A l \in Nat : l > k - 1 => l \in Nat \ {0} /\ l + 1 > k
      BY <3>1
    <3>4. \A l \in Nat : l > k - 1 => ~ Entry(j, l, "offline", u)'
      BY <2>2, <3>3
    <3> QED
      BY <3>1, <3>2, <3>4 DEF StaysOnline, Marks
  <2> QED
    BY <2>3, <2>4
<1>8. ASSUME online[u] # "no", NoOffline(j, u) PROVE StaysOnline(j, u)'
  <2>1. ~ (c.cmd = "offline" /\ c.by.user = u)
    BY <1>4, <1>8 DEF NoOffline
  <2>2. online'[u] # "no"
    BY <1>2, <1>8, <2>1
  <2>3. NoOffline(j, u)'
    BY <1>3, <1>6, <1>8 DEF NoOffline
  <2> QED
    BY <2>2, <2>3 DEF StaysOnline
<1> QED
  BY <1>7, <1>8 DEF StaysOnline

\* The commands of one instance are all that StaysOnline looks at.
LEMMA SameStays ==
  ASSUME NEW i \in Instances, NEW u \in Users, StaysOnline(i, u), online'[u] = online[u],
         \A k \in Nat, d \in {"online", "offline"} :
           Entry(i, k, d, u)' <=> Entry(i, k, d, u)
  PROVE  StaysOnline(i, u)'
  BY DEF StaysOnline, Marks, NoOffline

Forgetful == {"fail", "age"} \cap Events # {}

LEMMA OnlineStep ==
  ASSUME TypeOK, HomeInv, OnlineInv, [Next]_vars, ~ Forgetful
  PROVE  OnlineInv'
<1>0. /\ queue \in [Instances -> Seq(Command)] /\ userSockets \subseteq Sockets
      /\ pc \in [Sockets -> Waiting \cup {"new", "ready", "lost", "gone"}]
      /\ online \in [Users -> {"no", "fresh", "stale"}]
      /\ \A s \in Sockets : s.at \in Instances /\ s.user \in Users
  BY DEF TypeOK, Sockets
<1> DEFINE Holds(i, u) == OnlyAt(i, u) /\ UserSockets(i, u) # {} => StaysOnline(i, u)
<1>1. ASSUME NEW u \in Users, NEW i \in Instances
      PROVE  Holds(i, u) /\ (OnlyAt(i, u)' => OnlyAt(i, u))
  BY NeverNew DEF OnlineInv, OnlyAt
<1>2. ASSUME UNCHANGED <<online, queue, userSockets>> PROVE OnlineInv'
  <2>1. ASSUME NEW u \in Users, NEW i \in Instances PROVE Holds(i, u)'
    <3>1. \A k \in Nat, d \in {"online", "offline"} : Entry(i, k, d, u)' <=> Entry(i, k, d, u)
      BY <1>2 DEF Entry
    <3>2. UserSockets(i, u)' = UserSockets(i, u) /\ online'[u] = online[u]
      BY <1>2 DEF UserSockets
    <3> QED
      BY <1>1, <3>1, <3>2, SameStays
  <2> QED
    BY <1>2, <2>1 DEF OnlineInv
<1>3. ASSUME NEW s \in Sockets, Connect(s) PROVE OnlineInv'
  <2>1. /\ Send("online", s, FALSE) /\ online' = online
        /\ userSockets' = userSockets \cup {s} /\ pc'[s] # "new"
    BY <1>0, <1>3 DEF Connect
  <2>2. ASSUME NEW u \in Users, NEW i \in Instances, OnlyAt(i, u)', UserSockets(i, u)' # {}
        PROVE  StaysOnline(i, u)'
    <3>1. CASE u = s.user
      <4>1. i = s.at
        BY <2>1, <2>2, <3>1 DEF OnlyAt
      <4>2. PICK n \in Nat : n = Len(queue[i]) + 1
        BY <1>0
      <4>3. Entry(i, n, "online", u)'
        <5>1. Entry(i, n, "online", s.user)' <=>
                \/ Entry(i, n, "online", s.user)
                \/ i = s.at /\ n = Len(queue[i]) + 1
          BY <1>0, <2>1, SendEntries
        <5> QED
          BY <3>1, <4>1, <4>2, <5>1
      <4>4. ASSUME NEW l \in Nat, l > n PROVE ~ Entry(i, l, "offline", u)'
        <5>1. Entry(i, l, "offline", u)' => Entry(i, l, "offline", u)
          BY <1>0, <2>1, SendEntries
        <5> QED
          BY <1>0, <4>2, <4>4, <5>1 DEF Entry
      <4> QED
        BY <4>3, <4>4 DEF StaysOnline, Marks
    <3>2. CASE u # s.user
      <4>1. \A k \in Nat, d \in {"online", "offline"} : Entry(i, k, d, u)' <=> Entry(i, k, d, u)
        BY <1>0, <2>1, <3>2, SendEntries
      <4>2. UserSockets(i, u)' = UserSockets(i, u)
        BY <2>1, <3>2 DEF UserSockets
      <4> QED
        BY <1>1, <2>1, <2>2, <4>1, <4>2, SameStays
    <3> QED
      BY <3>1, <3>2
  <2> QED
    BY <2>1, <2>2 DEF OnlineInv
<1>4. ASSUME NEW s \in Sockets, JoinChannel(s) PROVE OnlineInv'
  <2>1. Send("presence", s, FALSE) /\ UNCHANGED <<online, userSockets>>
    BY <1>4 DEF JoinChannel
  <2>2. ASSUME NEW u \in Users, NEW i \in Instances PROVE Holds(i, u)'
    <3>1. \A k \in Nat, d \in {"online", "offline"} : Entry(i, k, d, u)' <=> Entry(i, k, d, u)
      BY <1>0, <2>1, SendEntries
    <3>2. UserSockets(i, u)' = UserSockets(i, u)
      BY <2>1 DEF UserSockets
    <3> QED
      BY <1>1, <2>1, <3>1, <3>2, SameStays
  <2> QED
    BY <2>1, <2>2 DEF OnlineInv
<1>5. ASSUME NEW s \in Sockets, Drop(s) PROVE OnlineInv'
  <2>1. /\ online' = online /\ userSockets' = userSockets \ {s}
        /\ (s \in inRoom') \in BOOLEAN
        /\ IF UserSockets(s.at, s.user) = {s} THEN Send("offline", s, s \in inRoom')
           ELSE queue' = queue
    BY <1>5 DEF Drop
  <2>2. ASSUME NEW u \in Users, NEW i \in Instances, OnlyAt(i, u)', UserSockets(i, u)' # {}
        PROVE  StaysOnline(i, u)'
    <3>1. UserSockets(i, u) # {}
      BY <2>1, <2>2 DEF UserSockets
    <3>2. \A k \in Nat, d \in {"online", "offline"} : Entry(i, k, d, u)' <=> Entry(i, k, d, u)
      <4>1. CASE UserSockets(s.at, s.user) = {s}
        <5>1. ~ (i = s.at /\ u = s.user)
          BY <2>1, <2>2, <4>1 DEF UserSockets
        <5>2. PICK b \in BOOLEAN : Send("offline", s, b)
          BY <2>1, <4>1
        <5> QED
          BY <1>0, <5>1, <5>2, SendEntries
      <4>2. CASE UserSockets(s.at, s.user) # {s}
        BY <2>1, <4>2 DEF Entry
      <4> QED
        BY <4>1, <4>2
    <3> QED
      BY <1>1, <2>1, <2>2, <3>1, <3>2, SameStays
  <2> QED
    BY <2>1, <2>2 DEF OnlineInv
\* Another instance runs no command of a user it has no socket of.
<1>6. ASSUME NEW j \in Instances, Exec(j) PROVE OnlineInv'
  <2>1. PICK c : c = Head(queue[j])
    OBVIOUS
  <2>2. /\ queue[j] # <<>> /\ queue' = [queue EXCEPT ![j] = Tail(@)]
        /\ userSockets' = userSockets
        /\ online' = [online EXCEPT ![c.by.user] =
                  CASE c.cmd = "online" -> "fresh"
                    [] c.cmd = "offline" -> "no"
                    [] OTHER -> @]
    BY <1>6, <2>1 DEF Exec
  <2>3. c = queue[j][1] /\ 1 \in 1 .. Len(queue[j])
    BY <1>0, <2>1, <2>2
  <2>4. c.by \in Sockets /\ c.by.at = j /\ pc[c.by] # "new"
    BY <1>0, <2>3, PlaceType DEF HomeInv
  <2>5. ASSUME NEW u \in Users, NEW i \in Instances, OnlyAt(i, u)', UserSockets(i, u)' # {}
        PROVE  StaysOnline(i, u)'
    <3>1. StaysOnline(i, u) /\ OnlyAt(i, u)
      BY <1>1, <2>2, <2>5 DEF UserSockets
    <3>2. CASE i = j
      BY <1>6, <3>1, <3>2, RunStays
    <3>3. CASE i # j
      <4>1. c.by.user # u
        BY <2>4, <3>1, <3>3 DEF OnlyAt
      <4>2. online'[u] = online[u]
        BY <1>0, <2>2, <4>1
      <4>3. queue'[i] = queue[i]
        BY <1>0, <2>2, <3>3
      <4>4. \A k \in Nat, d \in {"online", "offline"} : Entry(i, k, d, u)' <=> Entry(i, k, d, u)
        BY <4>3 DEF Entry
      <4> QED
        BY <3>1, <4>2, <4>4, SameStays
    <3> QED
      BY <3>2, <3>3
  <2>6. \A u \in Users : online'[u] # "stale"
    BY <1>0, <2>2 DEF OnlineInv
  <2> QED
    BY <2>5, <2>6 DEF OnlineInv
<1>7. ASSUME NEW j \in Instances, Crash(j) PROVE OnlineInv'
  <2>1. /\ queue' = [queue EXCEPT ![j] = <<>>] /\ online' = online
        /\ userSockets' = {s \in userSockets : s.at # j}
    BY <1>7 DEF Crash
  <2>2. ASSUME NEW u \in Users, NEW i \in Instances, OnlyAt(i, u)', UserSockets(i, u)' # {}
        PROVE  StaysOnline(i, u)'
    <3>1. i # j /\ UserSockets(i, u) # {}
      BY <2>1, <2>2 DEF UserSockets
    <3>2. queue'[i] = queue[i]
      BY <1>0, <2>1, <3>1
    <3>3. \A k \in Nat, d \in {"online", "offline"} : Entry(i, k, d, u)' <=> Entry(i, k, d, u)
      BY <3>2 DEF Entry
    <3> QED
      BY <1>1, <2>1, <2>2, <3>1, <3>3, SameStays
  <2> QED
    BY <2>1, <2>2 DEF OnlineInv
<1>8. ASSUME (\E i \in Instances : ExecFails(i)) \/ (\E u \in Users : Age(u)) \/ Evict PROVE FALSE
  BY <1>8 DEF ExecFails, Age, Evict, Forgetful, OnlineInv
<1>9. ASSUME NEW s \in Sockets, FindRooms(s) \/ Counts(s) \/ ReadFails(s) \/ DropEarly(s)
      PROVE  UNCHANGED <<online, queue, userSockets>>
  BY <1>9 DEF FindRooms, Counts, ReadFails, DropEarly, redisVars
<1>10. ASSUME NEW u \in Users, Redeem(u) \/ Leave(u)
       PROVE  UNCHANGED <<online, queue, userSockets>>
  BY <1>10 DEF Redeem, Leave, socketVars, redisVars
<1>11. ASSUME NEW u \in Users, NEW i \in Instances, Join(u, i) \/ JoinUserToRoom(u, i)
       PROVE  UNCHANGED <<online, queue, userSockets>>
  BY <1>11 DEF Join, JoinUserToRoom, socketVars, redisVars
<1>12. ASSUME UNCHANGED vars PROVE UNCHANGED <<online, queue, userSockets>>
  BY <1>12 DEF vars, socketVars, redisVars
<1> QED
  BY <1>2, <1>3, <1>4, <1>5, <1>6, <1>7, <1>8, <1>9, <1>10, <1>11, <1>12 DEF Next, Proceed

\* Unless a command fails or a score grows stale, a user who has connected to
\* one instance only is online while one of his sockets is open: for any number
\* of tabs that open, close or go early, commands still to run, other users,
\* and restarts of the servers.
THEOREM OneInstanceIsOnline == ~ Forgetful /\ Spec => []OnlineAtOneInstance
<1>1. Init => OnlineInv
  BY DEF Init, OnlineInv, UserSockets
<1>2. ~ Forgetful /\ TypeOK /\ HomeInv /\ QueueInv /\ OnlineInv /\ [Next]_vars => OnlineInv'
  BY OnlineStep
<1>3. TypeOK /\ HomeInv /\ OnlineInv => OnlineAtOneInstance
  <2> SUFFICES ASSUME TypeOK, HomeInv, OnlineInv, NEW u \in Users,
                      Quiet(u), Connected(u), OneInstance(u)
               PROVE  online[u] # "no"
    BY DEF OnlineAtOneInstance
  <2>1. PICK i \in Instances : OnlyAt(i, u)
    BY DEF OneInstance, OnlyAt
  <2>2. UserSockets(i, u) # {}
    BY <2>1 DEF Connected, HomeInv, OnlyAt, UserSockets, TypeOK
  <2>3. \A k \in Nat : ~ Entry(i, k, "online", u)
    BY DEF Quiet, Entry
  <2> QED
    BY <2>1, <2>2, <2>3 DEF OnlineInv, StaysOnline, Marks
<1>4. Forgetful' <=> Forgetful
  BY DEF Forgetful
<1> QED
  BY <1>1, <1>2, <1>3, <1>4, CommandsAlways, PTL DEF Spec

=============================================================================
