--------------------------- MODULE MessageProofs ---------------------------
(***************************************************************************)
(* Proofs about Messages, for any number of overlapping requests, users    *)
(* and clients; and, with the history variable of MCMessages, about what   *)
(* the clients show after requests that do not overlap.                    *)
(***************************************************************************)
EXTENDS MCMessages, TLAPS

Event == [op : Kinds, doc : Messages]

\* A user whose toggle is between its two attempts is among the reactions,
\* unless the message has been deleted since; and has no second such toggle.
Between ==
  /\ \A r \in Requests : Waits(r, "react") =>
       reqs[r].user \in message.reactions \/ message.deleted
  /\ \A r, s \in Requests :
       /\ Waits(r, "react") /\ Waits(s, "react")
       /\ reqs[r].user = reqs[s].user
       => r = s

-----------------------------------------------------------------------------
\* A step that fills or empties the slot r keeps the slots' type.
LEMMA SlotType ==
  ASSUME NEW r \in Requests, reqs \in [Requests -> Request \cup {Idle}],
         NEW q \in Request \cup {Idle}, Become(r, q)
  PROVE  /\ reqs' \in [Requests -> Request \cup {Idle}]
         /\ reqs'[r] = q
         /\ \A x \in Requests : x # r => reqs'[x] = reqs[x]
  BY DEF Become

\* A call that starts to wait is a request.
LEMMA CallType ==
  ASSUME TypeOK, NEW op \in Kinds, NEW u \in Users
  PROVE  /\ Call(op, u) \in Request
         /\ Call(op, u).op = op /\ Call(op, u).user = u
         /\ Call(op, u).pc = "write" /\ Call(op, u).timely = editable
  BY DEF Call, Request, TypeOK

\* The answer to a request leaves its slot ready to broadcast.
LEMMA AnswerType ==
  ASSUME NEW r \in Requests, reqs \in [Requests -> Request \cup {Idle}],
         NEW q \in Request, message' \in Messages, Answer(r, q)
  PROVE  /\ reqs' \in [Requests -> Request \cup {Idle}]
         /\ reqs'[r] # Idle /\ reqs'[r].pc = "emit"
         /\ \A x \in Requests : x # r => reqs'[x] = reqs[x]
<1> DEFINE a == [q EXCEPT !.pc = "emit", !.doc = message']
<1>1. a \in Request /\ a.pc = "emit"
  BY DEF Request
<1>2. a # Idle
  BY <1>1 DEF Idle
<1>3. Become(r, a)
  BY DEF Answer
<1> HIDE DEF a
<1> QED
  BY <1>1, <1>2, <1>3, SlotType

\* A slot that returns is idle.
LEMMA ReturnType ==
  ASSUME NEW r \in Requests, reqs \in [Requests -> Request \cup {Idle}],
         Return(r)
  PROVE  /\ reqs' \in [Requests -> Request \cup {Idle}]
         /\ reqs'[r] = Idle
         /\ \A x \in Requests : x # r => reqs'[x] = reqs[x]
  BY SlotType DEF Return

\* A slot that waits holds a request.
LEMMA WaitsType ==
  ASSUME TypeOK, NEW r \in Requests, NEW op, Waits(r, op)
  PROVE  reqs[r] \in Request /\ reqs[r].op = op /\ reqs[r].user \in Users
  BY DEF TypeOK, Waits, Request

\* What findOneAndUpdate may write is a message.
LEMMA MessageType ==
  ASSUME message \in Messages
  PROVE  /\ [message EXCEPT !.content = @ + 1] \in Messages
         /\ [message EXCEPT !.deleted = TRUE] \in Messages
         /\ \A u \in Users :
              /\ [message EXCEPT !.reactions = @ \cup {u}] \in Messages
              /\ [message EXCEPT !.reactions = @ \ {u}] \in Messages
<1>1. /\ message.content + 1 \in Nat
      /\ \A u \in Users : /\ message.reactions \cup {u} \in SUBSET Users
                          /\ message.reactions \ {u} \in SUBSET Users
  BY DEF Messages
<1>2. \A n \in Nat : [message EXCEPT !.content = n] \in Messages
  BY DEF Messages
<1>3. \A b \in BOOLEAN : [message EXCEPT !.deleted = b] \in Messages
  BY DEF Messages
<1>4. \A S \in SUBSET Users : [message EXCEPT !.reactions = S] \in Messages
  BY DEF Messages
<1> QED
  BY <1>1, <1>2, <1>3, <1>4

-----------------------------------------------------------------------------
LEMMA TypeInit == Init => TypeOK
<1> SUFFICES ASSUME Init PROVE TypeOK
  OBVIOUS
<1>1. message \in Messages
  BY DEF Init, Messages
<1>2. reqs \in [Requests -> Request \cup {Idle}]
  BY DEF Init
<1>3. wire \in [Clients -> Seq(Event)] /\ view \in [Clients -> Messages]
  BY <1>1 DEF Init
<1>4. toggles \in [Users -> Nat] /\ editable \in BOOLEAN
  BY DEF Init
<1> QED
  BY <1>1, <1>2, <1>3, <1>4 DEF TypeOK, Event

LEMMA EmitType ==
  ASSUME TypeOK, NEW r \in Requests, Emit(r)
  PROVE  TypeOK'
<1> DEFINE e == [op |-> reqs[r].op, doc |-> reqs[r].doc]
<1>1. e \in Event
  BY DEF Emit, TypeOK, Request, Event
<1>2. wire' = [c \in Clients |-> Append(wire[c], e)]
  BY DEF Emit
<1> HIDE DEF e
<1>3. wire' \in [Clients -> Seq(Event)]
  <2>1. \A c \in Clients : wire[c] \in Seq(Event)
    BY DEF TypeOK, Event
  <2>2. \A c \in Clients : Append(wire[c], e) \in Seq(Event)
    BY <1>1, <2>1
  <2> QED
    BY <1>2, <2>2
<1>4. reqs' \in [Requests -> Request \cup {Idle}]
  BY ReturnType DEF Emit, TypeOK
<1> QED
  BY <1>3, <1>4 DEF TypeOK, Emit, Event

LEMMA DeliverType ==
  ASSUME TypeOK, NEW c \in Clients, Deliver(c)
  PROVE  TypeOK'
<1>1. wire[c] \in Seq(Event) /\ wire[c] # <<>> /\ view[c] \in Messages
  BY DEF Deliver, TypeOK, Event
<1>2. PICK e : e = Head(wire[c])
  OBVIOUS
<1>3. e \in Event /\ Tail(wire[c]) \in Seq(Event)
  BY <1>1, <1>2
<1>4. PICK v : v = CASE e.op = "edit" ->
              [view[c] EXCEPT !.content = e.doc.content, !.deleted = e.doc.deleted]
         [] e.op = "delete" -> [view[c] EXCEPT !.deleted = TRUE]
         [] e.op = "react" -> [view[c] EXCEPT !.reactions = e.doc.reactions]
  OBVIOUS
<1>5. v \in Messages
  <2>1. CASE e.op = "edit"
    BY <1>1, <1>3, <1>4, <2>1 DEF Event, Messages
  <2>2. CASE e.op = "delete"
    BY <1>1, <1>3, <1>4, <2>2 DEF Event, Messages
  <2>3. CASE e.op = "react"
    BY <1>1, <1>3, <1>4, <2>3 DEF Event, Messages
  <2> QED
    BY <1>3, <2>1, <2>2, <2>3 DEF Event, Kinds
<1>6. view' = [view EXCEPT ![c] = v]
  BY <1>2, <1>4 DEF Deliver
<1>7. wire' = [wire EXCEPT ![c] = Tail(@)]
  BY DEF Deliver
<1>8. view' \in [Clients -> Messages]
  BY <1>5, <1>6 DEF TypeOK
<1>9. wire' \in [Clients -> Seq(Event)]
  BY <1>3, <1>7 DEF TypeOK, Event
<1> QED
  BY <1>8, <1>9 DEF TypeOK, Deliver, Event

LEMMA TypeStep == TypeOK /\ [Next]_vars => TypeOK'
<1> SUFFICES ASSUME TypeOK, [Next]_vars PROVE TypeOK'
  OBVIOUS
<1>0. /\ reqs \in [Requests -> Request \cup {Idle}]
      /\ message \in Messages /\ toggles \in [Users -> Nat]
  BY DEF TypeOK
<1>1. ASSUME NEW r \in Requests, NEW u \in Users, EditCall(r, u)
      PROVE  TypeOK'
  <2>1. Call("edit", u) \in Request
    BY CallType DEF Kinds
  <2>2. reqs' \in [Requests -> Request \cup {Idle}]
    BY <1>0, <1>1, <2>1, SlotType DEF EditCall
  <2> QED
    BY <1>1, <2>2 DEF TypeOK, EditCall, clientVars
<1>2. ASSUME NEW r \in Requests, NEW u \in Users, Delete(r, u)
      PROVE  TypeOK'
  <2>1. Call("delete", u) \in Request /\ message' \in Messages
    BY <1>0, <1>2, CallType, MessageType DEF Kinds, Delete
  <2>2. reqs' \in [Requests -> Request \cup {Idle}]
    BY <1>0, <1>2, <2>1, AnswerType DEF Delete
  <2> QED
    BY <1>2, <2>1, <2>2 DEF TypeOK, Delete, clientVars
<1>3. ASSUME NEW r \in Requests, NEW u \in Users, React(r, u)
      PROVE  TypeOK'
  <2>1. Call("react", u) \in Request
    BY CallType DEF Kinds
  <2>2. CASE ~ message.deleted /\ u \notin message.reactions
    <3>1. message' \in Messages
      BY <1>0, <1>3, <2>2, MessageType DEF React
    <3>2. reqs' \in [Requests -> Request \cup {Idle}]
      BY <1>0, <1>3, <2>1, <2>2, <3>1, AnswerType DEF React
    <3>3. toggles' \in [Users -> Nat]
      BY <1>0, <1>3, <2>2 DEF React, Succeed
    <3> QED
      BY <1>3, <3>1, <3>2, <3>3 DEF TypeOK, React, clientVars
  <2>3. CASE ~ (~ message.deleted /\ u \notin message.reactions)
    <3>1. reqs' \in [Requests -> Request \cup {Idle}]
      BY <1>0, <1>3, <2>1, <2>3, SlotType DEF React
    <3> QED
      BY <1>3, <2>3, <3>1 DEF TypeOK, React, clientVars
  <2> QED
    BY <2>2, <2>3
<1>4. ASSUME NEW r \in Requests, EditWrite(r)
      PROVE  TypeOK'
  <2>1. reqs[r] \in Request
    BY <1>4, WaitsType DEF EditWrite
  <2>2. CASE MayEdit(reqs[r])
    <3>1. message' \in Messages
      BY <1>0, <1>4, <2>2, MessageType DEF EditWrite
    <3>2. reqs' \in [Requests -> Request \cup {Idle}]
      BY <1>0, <1>4, <2>1, <2>2, <3>1, AnswerType DEF EditWrite
    <3> QED
      BY <1>4, <3>1, <3>2 DEF TypeOK, EditWrite, clientVars
  <2>3. CASE ~ MayEdit(reqs[r])
    <3>1. reqs' \in [Requests -> Request \cup {Idle}]
      BY <1>0, <1>4, <2>3, ReturnType DEF EditWrite
    <3> QED
      BY <1>4, <2>3, <3>1 DEF TypeOK, EditWrite, clientVars
  <2> QED
    BY <2>2, <2>3
<1>5. ASSUME NEW r \in Requests, Unreact(r)
      PROVE  TypeOK'
  <2>1. reqs[r] \in Request /\ reqs[r].user \in Users
    BY <1>5, WaitsType DEF Unreact
  <2>2. CASE ~ message.deleted
    <3>1. message' \in Messages
      BY <1>0, <1>5, <2>1, <2>2, MessageType DEF Unreact
    <3>2. reqs' \in [Requests -> Request \cup {Idle}]
      BY <1>0, <1>5, <2>1, <2>2, <3>1, AnswerType DEF Unreact
    <3>3. toggles' \in [Users -> Nat]
      BY <1>0, <1>5, <2>1, <2>2 DEF Unreact, Succeed
    <3> QED
      BY <1>5, <3>1, <3>2, <3>3 DEF TypeOK, Unreact, clientVars
  <2>3. CASE message.deleted
    <3>1. reqs' \in [Requests -> Request \cup {Idle}]
      BY <1>0, <1>5, <2>3, ReturnType DEF Unreact
    <3> QED
      BY <1>5, <2>3, <3>1 DEF TypeOK, Unreact, clientVars
  <2> QED
    BY <2>2, <2>3
<1>6. CASE WindowCloses
  BY <1>6 DEF TypeOK, WindowCloses, clientVars
<1>7. CASE UNCHANGED vars
  BY <1>7 DEF TypeOK, vars, clientVars
<1> QED
  BY <1>1, <1>2, <1>3, <1>4, <1>5, <1>6, <1>7, EmitType, DeliverType DEF Next

\* Every variable keeps its type.
THEOREM MessageTypes == Spec => []TypeOK
  BY TypeInit, TypeStep, PTL DEF Spec

-----------------------------------------------------------------------------
\* No edit, deletion or reaction, early or late, changes a deleted message.
LEMMA DeletedStep ==
  ASSUME TypeOK, [Next]_vars, message.deleted
  PROVE  message' = message
<1>1. ASSUME NEW r \in Requests, NEW u \in Users,
             EditCall(r, u) \/ Delete(r, u) \/ React(r, u)
      PROVE  message' = message
  BY <1>1 DEF EditCall, Delete, React
<1>2. ASSUME NEW r \in Requests, EditWrite(r) \/ Unreact(r) \/ Emit(r)
      PROVE  message' = message
  BY <1>2 DEF EditWrite, MayEdit, Unreact, Emit
<1>3. ASSUME NEW c \in Clients, Deliver(c)
      PROVE  message' = message
  BY <1>3 DEF Deliver
<1>4. CASE WindowCloses \/ UNCHANGED vars
  BY <1>4 DEF WindowCloses, vars
<1> QED
  BY <1>1, <1>2, <1>3, <1>4 DEF Next

\* Whatever was under way when a message was deleted leaves it as it is.
THEOREM DeletionIsFinal == Spec => DeletedIsFinal
<1>1. TypeOK /\ [Next]_vars => [message.deleted => message' = message]_vars
  BY DeletedStep
<1> QED
  BY <1>1, MessageTypes, PTL DEF Spec, DeletedIsFinal

-----------------------------------------------------------------------------
\* A step that starts no toggle and takes no reaction away keeps Between.
LEMMA BetweenKept ==
  ASSUME Between,
         \A r \in Requests : Waits(r, "react")' =>
           Waits(r, "react") /\ reqs'[r] = reqs[r],
         message.deleted => message'.deleted,
         \A r \in Requests : Waits(r, "react")' /\ reqs[r].user \in message.reactions
           => reqs[r].user \in message'.reactions \/ message'.deleted
  PROVE  Between'
  BY DEF Between

LEMMA BetweenStep ==
  ASSUME OneToggleEach, TypeOK, Between, [Next]_vars
  PROVE  Between'
<1>0. /\ reqs \in [Requests -> Request \cup {Idle}]
      /\ message \in Messages
      /\ message' \in Messages
  BY TypeStep DEF TypeOK
<1>1. ASSUME NEW r \in Requests, NEW u \in Users, EditCall(r, u)
      PROVE  Between'
  <2>1. Call("edit", u) \in Request /\ Call("edit", u).op = "edit"
    BY CallType DEF Kinds
  <2>2. reqs'[r] = Call("edit", u) /\ \A x \in Requests : x # r => reqs'[x] = reqs[x]
    BY <1>0, <1>1, <2>1, SlotType DEF EditCall
  <2>3. \A x \in Requests : Waits(x, "react")' => Waits(x, "react") /\ reqs'[x] = reqs[x]
    BY <2>1, <2>2 DEF Waits
  <2> QED
    BY <1>1, <2>3, BetweenKept DEF EditCall
<1>2. ASSUME NEW r \in Requests, NEW u \in Users, Delete(r, u)
      PROVE  Between'
  <2>1. Call("delete", u) \in Request
    BY CallType DEF Kinds
  <2>2. /\ reqs'[r] # Idle /\ reqs'[r].pc = "emit"
        /\ \A x \in Requests : x # r => reqs'[x] = reqs[x]
    BY <1>0, <1>2, <2>1, AnswerType DEF Delete
  <2>3. \A x \in Requests : Waits(x, "react")' => Waits(x, "react") /\ reqs'[x] = reqs[x]
    BY <2>2 DEF Waits
  <2>4. message'.deleted
    BY <1>0, <1>2 DEF Delete, Messages
  <2> QED
    BY <2>3, <2>4, BetweenKept
<1>3. ASSUME NEW r \in Requests, NEW u \in Users, React(r, u)
      PROVE  Between'
  <2>1. /\ Call("react", u) \in Request /\ Call("react", u).user = u
    BY CallType DEF Kinds
  <2>2. CASE ~ message.deleted /\ u \notin message.reactions
    <3>1. /\ reqs'[r] # Idle /\ reqs'[r].pc = "emit"
          /\ \A x \in Requests : x # r => reqs'[x] = reqs[x]
      BY <1>0, <1>3, <2>1, <2>2, AnswerType DEF React
    <3>2. \A x \in Requests : Waits(x, "react")' => Waits(x, "react") /\ reqs'[x] = reqs[x]
      BY <3>1 DEF Waits
    <3>3. message'.reactions = message.reactions \cup {u}
      BY <1>0, <1>3, <2>2 DEF React, Messages
    <3> QED
      BY <2>2, <3>2, <3>3, BetweenKept
  <2>3. CASE message.deleted \/ u \in message.reactions
    <3>1. /\ reqs'[r] = Call("react", u) /\ message' = message
          /\ \A x \in Requests : x # r => reqs'[x] = reqs[x]
      BY <1>0, <1>3, <2>1, <2>3, SlotType DEF React
    <3>2. \A x \in Requests : ~ (Waits(x, "react") /\ reqs[x].user = u)
      BY <1>3 DEF React, Toggling
    <3>3. \A x \in Requests : x # r =>
            (Waits(x, "react")' <=> Waits(x, "react")) /\ reqs'[x] = reqs[x]
      BY <3>1 DEF Waits
    <3>4. \A x \in Requests : Waits(x, "react")' =>
            reqs'[x].user \in message'.reactions \/ message'.deleted
      BY <2>1, <2>3, <3>1, <3>3 DEF Between
    <3>5. \A x \in Requests : x # r /\ Waits(x, "react")' => reqs'[x].user # reqs'[r].user
      BY <2>1, <3>1, <3>2, <3>3
    <3>6. ASSUME NEW x \in Requests, NEW y \in Requests,
                 Waits(x, "react")', Waits(y, "react")', reqs'[x].user = reqs'[y].user
          PROVE  x = y
      BY <3>3, <3>5, <3>6 DEF Between
    <3> QED
      BY <3>4, <3>6 DEF Between
  <2> QED
    BY <2>2, <2>3
<1>4. ASSUME NEW r \in Requests, EditWrite(r)
      PROVE  Between'
  <2>1. reqs[r] \in Request
    BY <1>4, WaitsType DEF EditWrite
  <2>2. /\ \A x \in Requests : x # r => reqs'[x] = reqs[x]
        /\ reqs'[r] = Idle \/ reqs'[r].pc = "emit"
    <3>1. CASE MayEdit(reqs[r])
      BY <1>0, <1>4, <2>1, <3>1, AnswerType DEF EditWrite
    <3>2. CASE ~ MayEdit(reqs[r])
      BY <1>0, <1>4, <3>2, ReturnType DEF EditWrite
    <3> QED
      BY <3>1, <3>2
  <2>3. \A x \in Requests : Waits(x, "react")' => Waits(x, "react") /\ reqs'[x] = reqs[x]
    BY <2>2 DEF Waits
  <2>4. message'.reactions = message.reactions /\ message'.deleted = message.deleted
    BY <1>0, <1>4 DEF EditWrite, Messages
  <2> QED
    BY <2>3, <2>4, BetweenKept
<1>5. ASSUME NEW r \in Requests, Unreact(r)
      PROVE  Between'
  <2>1. reqs[r] \in Request
    BY <1>5, WaitsType DEF Unreact
  <2>2. CASE ~ message.deleted
    <3>1. /\ reqs'[r] # Idle /\ reqs'[r].pc = "emit"
          /\ \A x \in Requests : x # r => reqs'[x] = reqs[x]
      BY <1>0, <1>5, <2>1, <2>2, AnswerType DEF Unreact
    <3>2. \A x \in Requests : Waits(x, "react")' =>
            x # r /\ Waits(x, "react") /\ reqs'[x] = reqs[x]
      BY <3>1 DEF Waits
    <3>3. message'.reactions = message.reactions \ {reqs[r].user}
      BY <1>0, <1>5, <2>2 DEF Unreact, Messages
    <3>4. \A x \in Requests : Waits(x, "react")' => reqs[x].user # reqs[r].user
      BY <1>5, <3>2 DEF Between, Unreact
    <3> QED
      BY <2>2, <3>2, <3>3, <3>4, BetweenKept
  <2>3. CASE message.deleted
    <3>1. /\ \A x \in Requests : x # r => reqs'[x] = reqs[x]
          /\ reqs'[r] = Idle
      BY <1>0, <1>5, <2>3, ReturnType DEF Unreact
    <3>2. \A x \in Requests : Waits(x, "react")' => Waits(x, "react") /\ reqs'[x] = reqs[x]
      BY <3>1 DEF Waits
    <3>3. message' = message
      BY <1>5, <2>3 DEF Unreact
    <3> QED
      BY <3>2, <3>3, BetweenKept
  <2> QED
    BY <2>2, <2>3
<1>6. ASSUME NEW r \in Requests, Emit(r)
      PROVE  Between'
  <2>1. /\ \A x \in Requests : x # r => reqs'[x] = reqs[x]
        /\ reqs'[r] = Idle /\ message' = message
    BY <1>0, <1>6, ReturnType DEF Emit
  <2>2. \A x \in Requests : Waits(x, "react")' => Waits(x, "react") /\ reqs'[x] = reqs[x]
    BY <2>1 DEF Waits
  <2> QED
    BY <2>1, <2>2, BetweenKept
<1>7. ASSUME UNCHANGED <<reqs, message>> PROVE Between'
  BY <1>7 DEF Between, Waits
<1>8. ASSUME NEW c \in Clients, Deliver(c) PROVE Between'
  BY <1>7, <1>8 DEF Deliver
<1>9. CASE WindowCloses \/ UNCHANGED vars
  BY <1>7, <1>9 DEF WindowCloses, vars
<1> QED
  BY <1>1, <1>2, <1>3, <1>4, <1>5, <1>6, <1>8, <1>9 DEF Next

-----------------------------------------------------------------------------
\* Every step is a flip, the deletion, or no step at all of Reactions.
LEMMA FlipStep ==
  ASSUME OneToggleEach, TypeOK, Between, [Next]_vars
  PROVE  [R!Next]_(R!vars)
<1>0. message \in Messages /\ toggles \in [Users -> Nat]
  BY DEF TypeOK
<1>1. ASSUME NEW r \in Requests, NEW u \in Users, Delete(r, u)
      PROVE  R!Delete
  BY <1>0, <1>1 DEF Delete, R!Delete, Messages
<1>2. ASSUME NEW r \in Requests, NEW u \in Users, React(r, u)
      PROVE  R!Toggle(u) \/ UNCHANGED R!vars
  BY <1>0, <1>2 DEF React, Succeed, R!Toggle, R!Flip, R!vars, Messages
<1>3. ASSUME NEW r \in Requests, Unreact(r)
      PROVE  R!Toggle(reqs[r].user) \/ UNCHANGED R!vars
  <2>1. message.deleted \/ reqs[r].user \in message.reactions
    BY <1>3 DEF Unreact, Between
  <2> QED
    BY <1>0, <1>3, <2>1 DEF Unreact, Succeed, R!Toggle, R!Flip, R!vars, Messages
<1>4. ASSUME NEW r \in Requests, EditWrite(r)
      PROVE  UNCHANGED R!vars
  BY <1>0, <1>4 DEF EditWrite, R!vars, Messages
<1>5. ASSUME NEW r \in Requests, Unreact(r)
      PROVE  reqs[r].user \in Users
  BY <1>5, WaitsType DEF Unreact
<1>6. ASSUME UNCHANGED <<message, toggles>> PROVE UNCHANGED R!vars
  BY <1>6 DEF R!vars
<1>7. ASSUME NEW r \in Requests, NEW u \in Users, EditCall(r, u)
      PROVE  UNCHANGED R!vars
  BY <1>6, <1>7 DEF EditCall
<1>8. ASSUME NEW r \in Requests, Emit(r) PROVE UNCHANGED R!vars
  BY <1>6, <1>8 DEF Emit
<1>9. ASSUME NEW c \in Clients, Deliver(c) PROVE UNCHANGED R!vars
  BY <1>6, <1>9 DEF Deliver
<1>10. CASE WindowCloses \/ UNCHANGED vars
  BY <1>6, <1>10 DEF WindowCloses, vars
<1> QED
  BY <1>1, <1>2, <1>3, <1>4, <1>5, <1>7, <1>8, <1>9, <1>10 DEF Next, R!Next

\* If users toggle one reaction at a time, the two round trips of message:react
\* implement a single atomic flip, however the toggles of several users, edits
\* and the deletion overlap.
THEOREM TogglesAreAtomic == OneToggleEach /\ Spec => TogglesFlip
<1>1. Init => Between
  BY DEF Init, Between, Waits
<1>2. Init => R!Init
  BY DEF Init, R!Init
<1>3. OneToggleEach /\ TypeOK /\ Between /\ [Next]_vars => Between'
  BY BetweenStep
<1>4. OneToggleEach /\ TypeOK /\ Between /\ [Next]_vars => [R!Next]_(R!vars)
  BY FlipStep
<1>5. OneToggleEach' <=> OneToggleEach
  OBVIOUS
<1> QED
  BY <1>1, <1>2, <1>3, <1>4, <1>5, MessageTypes, PTL DEF Spec, TogglesFlip, R!Spec

-----------------------------------------------------------------------------
(* What the clients show of requests that do not overlap.                  *)

Emitting(r) == reqs[r] # Idle /\ reqs[r].pc = "emit"

Said(r) == [op |-> reqs[r].op, doc |-> reqs[r].doc]

\* The events c has yet to get: those on their way, then the one a request is
\* about to broadcast.
Coming(c, P) ==
  \/ (\A r \in Requests : ~ Emitting(r)) /\ P = wire[c]
  \/ \E r \in Requests : Emitting(r) /\ P = Append(wire[c], Said(r))

\* Place i of P has the last event of the kinds K; place 0 if there is none.
LastOf(P, K, i) ==
  /\ i # 0 => P[i].op \in K
  /\ \A j \in 1 .. Len(P) : j > i => P[j].op \notin K

\* Each field of the message is what the last of the coming events that tell of
\* it says, or what c shows already.
Shows(c, P) ==
  /\ \A i \in 0 .. Len(P) : LastOf(P, {"edit"}, i) =>
       message.content = IF i = 0 THEN view[c].content ELSE P[i].doc.content
  /\ \A i \in 0 .. Len(P) : LastOf(P, {"react"}, i) =>
       message.reactions = IF i = 0 THEN view[c].reactions ELSE P[i].doc.reactions
  /\ \A i \in 0 .. Len(P) : LastOf(P, {"edit", "delete"}, i) =>
       message.deleted = IF i = 0 THEN view[c].deleted
                         ELSE P[i].op = "delete" \/ P[i].doc.deleted

AloneShows ==
  alone =>
    /\ \A r, q \in Requests : reqs[r] # Idle /\ reqs[q] # Idle => r = q
    /\ \A c \in Clients : \A P : Coming(c, P) => Shows(c, P)

\* The last event of some kinds, when one event of another kind has been sent,
LEMMA LastKept ==
  ASSUME NEW P \in Seq(Event), NEW e \in Event, NEW K, e.op \notin K,
         NEW i \in 0 .. Len(Append(P, e)), LastOf(Append(P, e), K, i)
  PROVE  /\ i \in 0 .. Len(P) /\ LastOf(P, K, i)
         /\ i # 0 => Append(P, e)[i] = P[i]
<1> DEFINE Q == Append(P, e)
<1>1. /\ Len(P) \in Nat /\ Len(Q) = Len(P) + 1 /\ Q[Len(P) + 1] = e
      /\ \A j \in 1 .. Len(P) : Q[j] = P[j]
  OBVIOUS
<1>2. /\ i # 0 => Q[i].op \in K
      /\ \A j \in 1 .. Len(Q) : j > i => Q[j].op \notin K
  BY DEF LastOf
<1> HIDE DEF Q
<1>3. i \in 0 .. Len(P)
  BY <1>1, <1>2 DEF Q
<1> QED
  BY <1>1, <1>2, <1>3 DEF Q, LastOf

\* of one of them,
LEMMA LastAppend ==
  ASSUME NEW P \in Seq(Event), NEW e \in Event, NEW K, e.op \in K,
         NEW i \in 0 .. Len(Append(P, e)), LastOf(Append(P, e), K, i)
  PROVE  i # 0 /\ Append(P, e)[i] = e
<1>1. /\ Len(P) \in Nat /\ Len(Append(P, e)) = Len(P) + 1
      /\ Append(P, e)[Len(P) + 1] = e
  OBVIOUS
<1> QED
  BY <1>1 DEF LastOf

\* and when the first has been delivered.
LEMMA LastTail ==
  ASSUME NEW P \in Seq(Event), P # <<>>, NEW K,
         NEW i \in 0 .. Len(Tail(P)), LastOf(Tail(P), K, i)
  PROVE  /\ i # 0 => i + 1 \in 0 .. Len(P) /\ LastOf(P, K, i + 1) /\ Tail(P)[i] = P[i + 1]
         /\ i = 0 /\ Head(P).op \in K => 1 \in 0 .. Len(P) /\ LastOf(P, K, 1) /\ P[1] = Head(P)
         /\ i = 0 /\ Head(P).op \notin K => 0 \in 0 .. Len(P) /\ LastOf(P, K, 0)
<1>1. PICK T : T = Tail(P)
  OBVIOUS
<1>2. /\ Len(P) \in Nat \ {0} /\ Len(T) = Len(P) - 1 /\ P[1] = Head(P)
      /\ \A j \in 1 .. Len(T) : T[j] = P[j + 1]
  BY <1>1
<1>3. /\ i \in 0 .. Len(T) /\ i # 0 => T[i].op \in K
      /\ \A j \in 1 .. Len(T) : j > i => T[j].op \notin K
  BY <1>1 DEF LastOf
<1>4. ASSUME NEW j \in 1 .. Len(P), j > i + 1 PROVE P[j].op \notin K
  <2>1. j - 1 \in 1 .. Len(T) /\ j - 1 > i /\ (j - 1) + 1 = j
    BY <1>2, <1>4
  <2> QED
    BY <1>2, <1>3, <2>1
<1>5. CASE i # 0
  <2>1. i + 1 \in 0 .. Len(P) /\ P[i + 1].op \in K /\ T[i] = P[i + 1]
    BY <1>2, <1>3, <1>5
  <2> QED
    BY <1>1, <1>4, <1>5, <2>1 DEF LastOf
<1>6. CASE i = 0
  <2>1. \A j \in 1 .. Len(P) : j > 1 => P[j].op \notin K
    BY <1>4, <1>6
  <2>2. \A j \in 1 .. Len(P) : j > 0 /\ j # 1 => j > 1
    BY <1>2
  <2> QED
    BY <1>2, <1>6, <2>1, <2>2 DEF LastOf
<1> QED
  BY <1>5, <1>6

AllShow == \A c \in Clients : \A P : Coming(c, P) => Shows(c, P)

LEMMA SaidType ==
  ASSUME TypeOK, NEW r \in Requests, Emitting(r)
  PROVE  reqs[r] \in Request /\ Said(r) \in Event
         /\ Said(r).op = reqs[r].op /\ Said(r).doc = reqs[r].doc
  BY DEF TypeOK, Emitting, Said, Request, Event

\* A write that answers with the document it has written becomes the last event
\* of its kind, and changes no field the event does not tell of.
LEMMA WriteShows ==
  ASSUME TypeOK, TypeOK', AllShow, \A x \in Requests : ~ Emitting(x),
         UNCHANGED clientVars,
         NEW r \in Requests, Emitting(r)', reqs'[r].doc = message',
         \A x \in Requests : x # r => ~ Emitting(x)',
         reqs'[r].op = "edit" => message'.reactions = message.reactions,
         reqs'[r].op = "delete" => /\ message'.content = message.content
                                   /\ message'.reactions = message.reactions
                                   /\ message'.deleted,
         reqs'[r].op = "react" => /\ message'.content = message.content
                                  /\ message'.deleted = message.deleted
  PROVE  AllShow'
<1> SUFFICES ASSUME NEW c \in Clients, NEW Q, Coming(c, Q)' PROVE Shows(c, Q)'
  BY DEF AllShow
<1>1. PICK P : P = wire[c]
  OBVIOUS
<1>2. P \in Seq(Event) /\ Shows(c, P) /\ wire' = wire /\ view' = view
  BY <1>1 DEF TypeOK, Event, AllShow, Coming, clientVars
<1>3. PICK e : e = [op |-> reqs'[r].op, doc |-> reqs'[r].doc]
  OBVIOUS
<1>4. /\ e \in Event /\ e.op \in Kinds
      /\ e.op = reqs'[r].op /\ e.doc = message'
  BY <1>3 DEF TypeOK, Emitting, Request, Event
<1>5. Q = Append(P, e)
  BY <1>1, <1>2, <1>3 DEF Coming, Said
<1>6. ASSUME NEW i \in 0 .. Len(Q), LastOf(Q, {"edit"}, i)
      PROVE  message'.content = IF i = 0 THEN view[c].content ELSE Q[i].doc.content
  <2>1. CASE e.op = "edit"
    BY <1>2, <1>4, <1>5, <1>6, <2>1, LastAppend
  <2>2. CASE e.op # "edit"
    <3>1. /\ i \in 0 .. Len(P) /\ LastOf(P, {"edit"}, i)
          /\ i # 0 => Q[i] = P[i]
      <4> DEFINE K == {"edit"}
      <4>1. /\ i \in 0 .. Len(Append(P, e)) /\ LastOf(Append(P, e), K, i)
            /\ e.op \notin K
        BY <1>5, <1>6, <2>2
      <4> HIDE DEF K
      <4>2. /\ i \in 0 .. Len(P) /\ LastOf(P, K, i)
            /\ i # 0 => Append(P, e)[i] = P[i]
        BY <1>2, <1>4, <4>1, LastKept
      <4> QED
        BY <1>5, <4>2 DEF K
    <3>2. message'.content = message.content
      BY <1>4, <2>2 DEF Kinds
    <3> QED
      BY <1>2, <3>1, <3>2 DEF Shows
  <2> QED
    BY <2>1, <2>2
<1>7. ASSUME NEW i \in 0 .. Len(Q), LastOf(Q, {"react"}, i)
      PROVE  message'.reactions = IF i = 0 THEN view[c].reactions ELSE Q[i].doc.reactions
  <2>1. CASE e.op = "react"
    BY <1>2, <1>4, <1>5, <1>7, <2>1, LastAppend
  <2>2. CASE e.op # "react"
    <3>1. /\ i \in 0 .. Len(P) /\ LastOf(P, {"react"}, i)
          /\ i # 0 => Q[i] = P[i]
      <4> DEFINE K == {"react"}
      <4>1. /\ i \in 0 .. Len(Append(P, e)) /\ LastOf(Append(P, e), K, i)
            /\ e.op \notin K
        BY <1>5, <1>7, <2>2
      <4> HIDE DEF K
      <4>2. /\ i \in 0 .. Len(P) /\ LastOf(P, K, i)
            /\ i # 0 => Append(P, e)[i] = P[i]
        BY <1>2, <1>4, <4>1, LastKept
      <4> QED
        BY <1>5, <4>2 DEF K
    <3>2. message'.reactions = message.reactions
      BY <1>4, <2>2 DEF Kinds
    <3> QED
      BY <1>2, <3>1, <3>2 DEF Shows
  <2> QED
    BY <2>1, <2>2
<1>8. ASSUME NEW i \in 0 .. Len(Q), LastOf(Q, {"edit", "delete"}, i)
      PROVE  message'.deleted = IF i = 0 THEN view[c].deleted
                                ELSE Q[i].op = "delete" \/ Q[i].doc.deleted
  <2>0. message'.deleted \in BOOLEAN
    BY DEF TypeOK, Messages
  <2>1. CASE e.op = "edit"
    <3>1. i # 0 /\ Q[i] = e
      BY <1>2, <1>4, <1>5, <1>8, <2>1, LastAppend
    <3> QED
      BY <1>4, <2>0, <2>1, <3>1
  <2>2. CASE e.op = "delete"
    <3>1. i # 0 /\ Q[i] = e
      BY <1>2, <1>4, <1>5, <1>8, <2>2, LastAppend
    <3> QED
      BY <1>4, <2>0, <2>2, <3>1
  <2>3. CASE e.op = "react"
    <3>1. /\ i \in 0 .. Len(P) /\ LastOf(P, {"edit", "delete"}, i)
          /\ i # 0 => Q[i] = P[i]
      <4> DEFINE K == {"edit", "delete"}
      <4>1. /\ i \in 0 .. Len(Append(P, e)) /\ LastOf(Append(P, e), K, i)
            /\ e.op \notin K
        BY <1>5, <1>8, <2>3
      <4> HIDE DEF K
      <4>2. /\ i \in 0 .. Len(P) /\ LastOf(P, K, i)
            /\ i # 0 => Append(P, e)[i] = P[i]
        BY <1>2, <1>4, <4>1, LastKept
      <4> QED
        BY <1>5, <4>2 DEF K
    <3>2. message'.deleted = message.deleted
      BY <1>4, <2>3
    <3> QED
      BY <1>2, <3>1, <3>2 DEF Shows
  <2> QED
    BY <1>4, <2>1, <2>2, <2>3 DEF Kinds
<1> QED
  BY <1>2, <1>6, <1>7, <1>8 DEF Shows

\* A delivery takes the first of the coming events into what the client shows.
LEMMA DeliverShows ==
  ASSUME TypeOK, AllShow, NEW c \in Clients, Deliver(c)
  PROVE  AllShow'
<1> SUFFICES ASSUME NEW d \in Clients, NEW Q, Coming(d, Q)' PROVE Shows(d, Q)'
  BY DEF AllShow
<1>1. UNCHANGED <<message, reqs>> /\ wire[c] # <<>> /\ wire' = [wire EXCEPT ![c] = Tail(@)]
  BY DEF Deliver
<1>2. wire \in [Clients -> Seq(Event)] /\ view \in [Clients -> Messages]
  BY DEF TypeOK, Event
<1>3. CASE d # c
  <2>1. wire'[d] = wire[d] /\ view'[d] = view[d]
    BY <1>1, <1>2, <1>3 DEF Deliver
  <2>2. Coming(d, Q)
    BY <1>1, <2>1 DEF Coming, Emitting, Said
  <2> QED
    BY <1>1, <2>1, <2>2 DEF AllShow, Shows
<1>4. CASE d = c
  <2>1. wire'[c] = Tail(wire[c])
    BY <1>1, <1>2
  <2>2. PICK P \in Seq(Event) : /\ Coming(c, P) /\ P # <<>>
                                /\ Head(P) = Head(wire[c]) /\ Q = Tail(P)
    <3>1. CASE \A r \in Requests : ~ Emitting(r)
      <4>1. Coming(c, wire[c])
        BY <3>1 DEF Coming
      <4>2. Q = Tail(wire[c])
        BY <1>1, <1>4, <2>1, <3>1 DEF Coming, Emitting
      <4> QED
        BY <1>1, <1>2, <4>1, <4>2
    <3>2. CASE \E r \in Requests : Emitting(r)
      <4>1. PICK r \in Requests : Emitting(r) /\ Q = Append(Tail(wire[c]), Said(r))
        BY <1>1, <1>4, <2>1, <3>2 DEF Coming, Emitting, Said
      <4>2. Said(r) \in Event
        BY <4>1, SaidType
      <4>3. PICK e, w : e = Said(r) /\ w = wire[c]
        OBVIOUS
      <4>4. /\ e \in Event /\ w \in Seq(Event) /\ w # <<>>
        BY <1>1, <1>2, <4>2, <4>3
      <4>5. /\ Append(w, e) \in Seq(Event) /\ Append(w, e) # <<>>
            /\ Head(Append(w, e)) = Head(w) /\ Append(Tail(w), e) = Tail(Append(w, e))
        BY <4>4
      <4>6. Coming(c, Append(w, e))
        BY <4>1, <4>3 DEF Coming
      <4> QED
        BY <4>1, <4>3, <4>5, <4>6
    <3> QED
      BY <3>1, <3>2
  <2>3. Shows(c, P)
    BY <2>2 DEF AllShow
  <2>4. PICK e : e = Head(P)
    OBVIOUS
  <2>5. e \in Event /\ e.op \in Kinds
    <3>1. e \in Event
      BY <2>2, <2>4
    <3> QED
      BY <3>1 DEF Event
  <2>6. PICK v : v = CASE e.op = "edit" ->
              [view[c] EXCEPT !.content = e.doc.content, !.deleted = e.doc.deleted]
         [] e.op = "delete" -> [view[c] EXCEPT !.deleted = TRUE]
         [] e.op = "react" -> [view[c] EXCEPT !.reactions = e.doc.reactions]
    OBVIOUS
  <2>7. view'[c] = v
    BY <1>2, <2>2, <2>4, <2>6 DEF Deliver
  <2>8. /\ v.content = IF e.op = "edit" THEN e.doc.content ELSE view[c].content
        /\ v.reactions = IF e.op = "react" THEN e.doc.reactions ELSE view[c].reactions
        /\ v.deleted = IF e.op = "edit" THEN e.doc.deleted
                       ELSE IF e.op = "delete" THEN TRUE ELSE view[c].deleted
    BY <1>2, <2>5, <2>6 DEF Kinds, Messages
  <2>9. e.doc.deleted \in BOOLEAN
    BY <2>5 DEF Event, Messages
  <2>10. ASSUME NEW i \in 0 .. Len(Q), LastOf(Q, {"edit"}, i)
         PROVE  message.content = IF i = 0 THEN v.content ELSE Q[i].doc.content
    BY <2>2, <2>3, <2>4, <2>8, <2>10, LastTail DEF Shows
  <2>11. ASSUME NEW i \in 0 .. Len(Q), LastOf(Q, {"react"}, i)
         PROVE  message.reactions = IF i = 0 THEN v.reactions ELSE Q[i].doc.reactions
    BY <2>2, <2>3, <2>4, <2>8, <2>11, LastTail DEF Shows
  <2>12. ASSUME NEW i \in 0 .. Len(Q), LastOf(Q, {"edit", "delete"}, i)
         PROVE  message.deleted = IF i = 0 THEN v.deleted
                                  ELSE Q[i].op = "delete" \/ Q[i].doc.deleted
    <3> DEFINE K == {"edit", "delete"}
    <3>1. /\ i \in 0 .. Len(Tail(P)) /\ LastOf(Tail(P), K, i)
          /\ \A j \in 0 .. Len(P) : LastOf(P, K, j) =>
               message.deleted = IF j = 0 THEN view[c].deleted
                                 ELSE P[j].op = "delete" \/ P[j].doc.deleted
      BY <2>2, <2>3, <2>12 DEF Shows
    <3>2. e.op \in K <=> e.op = "edit" \/ e.op = "delete"
      OBVIOUS
    <3> HIDE DEF K
    <3>3. CASE i # 0
      BY <2>2, <3>1, <3>3, LastTail
    <3>4. CASE i = 0 /\ e.op \in K
      <4>1. message.deleted = (e.op = "delete" \/ e.doc.deleted)
        BY <2>2, <2>4, <3>1, <3>4, LastTail
      <4> QED
        BY <2>8, <2>9, <3>2, <3>4, <4>1
    <3>5. CASE i = 0 /\ e.op \notin K
      <4>1. message.deleted = view[c].deleted
        BY <2>2, <2>4, <3>1, <3>5, LastTail
      <4> QED
        BY <2>8, <3>2, <3>5, <4>1
    <3> QED
      BY <3>3, <3>4, <3>5
  <2> QED
    BY <1>1, <1>4, <2>7, <2>10, <2>11, <2>12 DEF Shows
<1> QED
  BY <1>3, <1>4

\* A broadcast puts the event last on every client's way.
LEMMA EmitShows ==
  ASSUME TypeOK, AllShow, NEW r \in Requests, Emit(r),
         \A x \in Requests : x # r => reqs[x] = Idle
  PROVE  AllShow'
<1> SUFFICES ASSUME NEW c \in Clients, NEW Q, Coming(c, Q)' PROVE Shows(c, Q)'
  BY DEF AllShow
<1>1. \A x \in Requests : reqs'[x] = Idle
  BY ReturnType DEF Emit, TypeOK
<1>2. wire'[c] = Append(wire[c], Said(r)) /\ Emitting(r) /\ UNCHANGED <<message, view>>
  BY DEF Emit, Said, Emitting
<1>3. Coming(c, Q)
  BY <1>1, <1>2 DEF Coming, Emitting
<1> QED
  BY <1>2, <1>3 DEF AllShow, Shows

\* A step that neither writes, broadcasts nor delivers.
LEMMA QuietShows ==
  ASSUME AllShow, UNCHANGED <<message, clientVars>>,
         \A x \in Requests : /\ Emitting(x)' <=> Emitting(x)
                             /\ Emitting(x) => reqs'[x] = reqs[x]
  PROVE  AllShow'
<1> SUFFICES ASSUME NEW c \in Clients, NEW Q, Coming(c, Q)' PROVE Shows(c, Q)'
  BY DEF AllShow
<1>1. Coming(c, Q)
  BY DEF Coming, Said, clientVars
<1> QED
  BY <1>1 DEF AllShow, Shows, clientVars

LEMMA AloneStep ==
  TypeOK /\ AloneShows /\ [MCNext]_<<vars, alone>> => AloneShows'
<1> SUFFICES ASSUME TypeOK, AloneShows, [MCNext]_<<vars, alone>>, alone'
             PROVE  AloneShows'
  BY DEF AloneShows
<1>0. /\ [Next]_vars /\ TypeOK'
      /\ \A r, q \in Requests : reqs[r] # Idle /\ reqs[q] # Idle => r = q
      /\ \A r, q \in Requests : reqs'[r] # Idle /\ reqs'[q] # Idle => r = q
      /\ AllShow
  BY TypeStep DEF MCNext, vars, AloneShows, AllShow
<1>1. /\ reqs \in [Requests -> Request \cup {Idle}] /\ message \in Messages
      /\ reqs' \in [Requests -> Request \cup {Idle}] /\ message' \in Messages
  BY <1>0 DEF TypeOK
\* A write, from a slot that was idle or waiting.
<1>2. ASSUME NEW r \in Requests, NEW q \in Request, Answer(r, q), UNCHANGED clientVars,
             reqs[r] = Idle \/ reqs[r].pc = "write",
             q.op = "edit" => message'.reactions = message.reactions,
             q.op = "delete" => /\ message'.content = message.content
                                /\ message'.reactions = message.reactions
                                /\ message'.deleted,
             q.op = "react" => /\ message'.content = message.content
                               /\ message'.deleted = message.deleted
      PROVE  AllShow'
  <2>1. reqs'[r] = [q EXCEPT !.pc = "emit", !.doc = message']
    BY <1>1, <1>2 DEF Answer, Become
  <2>2. /\ reqs'[r].pc = "emit" /\ reqs'[r].doc = message' /\ reqs'[r].op = q.op
        /\ reqs'[r] # Idle
    BY <1>1, <2>1 DEF Request, Idle
  <2>3. \A x \in Requests : x # r => reqs'[x] = Idle /\ reqs[x] = Idle
    BY <1>0, <1>1, <1>2, <2>2, AnswerType
  <2>4. ~ Emitting(r) /\ Emitting(r)'
    BY <1>2, <2>2 DEF Emitting
  <2>5. \A x \in Requests : ~ Emitting(x) /\ (x # r => ~ Emitting(x)')
    BY <2>3, <2>4 DEF Emitting
  <2> QED
    BY <1>0, <1>2, <2>2, <2>4, <2>5, WriteShows
\* A call that starts or ends without a write.
<1>3. ASSUME NEW r \in Requests, NEW q \in Request \cup {Idle}, Become(r, q),
             ~ Emitting(r), q = Idle \/ q.pc = "write", UNCHANGED <<message, clientVars>>
      PROVE  AllShow'
  <2>1. reqs'[r] = q /\ \A x \in Requests : x # r => reqs'[x] = reqs[x]
    BY <1>1, <1>3, SlotType
  <2>2. \A x \in Requests : /\ Emitting(x)' <=> Emitting(x)
                            /\ Emitting(x) => reqs'[x] = reqs[x]
    BY <1>3, <2>1 DEF Emitting
  <2> QED
    BY <1>0, <1>3, <2>2, QuietShows
<1>4. ASSUME NEW r \in Requests, NEW u \in Users,
             EditCall(r, u) \/ Delete(r, u) \/ React(r, u)
      PROVE  AllShow'
  <2>1. /\ Call("edit", u) \in Request /\ Call("edit", u).pc = "write"
        /\ Call("delete", u) \in Request /\ Call("delete", u).op = "delete"
        /\ Call("react", u) \in Request /\ Call("react", u).op = "react"
        /\ Call("react", u).pc = "write"
    BY CallType DEF Kinds
  <2>2. reqs[r] = Idle /\ ~ Emitting(r)
    BY <1>4 DEF EditCall, Delete, React, Emitting
  <2>3. CASE EditCall(r, u)
    BY <1>3, <2>1, <2>2, <2>3 DEF EditCall
  <2>4. CASE Delete(r, u)
    <3>1. /\ message'.content = message.content /\ message'.reactions = message.reactions
          /\ message'.deleted
      BY <1>1, <2>4 DEF Delete, Messages
    <3> QED
      BY <1>2, <2>1, <2>2, <2>4, <3>1 DEF Delete
  <2>5. CASE React(r, u) /\ ~ message.deleted /\ u \notin message.reactions
    <3>1. /\ message'.content = message.content /\ message'.deleted = message.deleted
      BY <1>1, <2>5 DEF React, Messages
    <3> QED
      BY <1>2, <2>1, <2>2, <2>5, <3>1 DEF React
  <2>6. CASE React(r, u) /\ ~ (~ message.deleted /\ u \notin message.reactions)
    BY <1>3, <2>1, <2>2, <2>6 DEF React
  <2> QED
    BY <1>4, <2>3, <2>4, <2>5, <2>6
<1>5. ASSUME NEW r \in Requests, EditWrite(r) \/ Unreact(r) PROVE AllShow'
  <2>1. reqs[r] \in Request /\ reqs[r].pc = "write" /\ ~ Emitting(r)
    BY <1>5, WaitsType DEF EditWrite, Unreact, Waits, Emitting
  <2>2. CASE EditWrite(r) /\ MayEdit(reqs[r])
    <3>1. reqs[r].op = "edit" /\ message'.reactions = message.reactions
      BY <1>1, <2>2 DEF EditWrite, Waits, Messages
    <3> QED
      BY <1>2, <2>1, <2>2, <3>1 DEF EditWrite
  <2>3. CASE Unreact(r) /\ ~ message.deleted
    <3>1. /\ reqs[r].op = "react"
          /\ message'.content = message.content /\ message'.deleted = message.deleted
      BY <1>1, <2>3 DEF Unreact, Waits, Messages
    <3> QED
      BY <1>2, <2>1, <2>3, <3>1 DEF Unreact
  <2>4. CASE (EditWrite(r) /\ ~ MayEdit(reqs[r])) \/ (Unreact(r) /\ message.deleted)
    BY <1>3, <2>1, <2>4 DEF EditWrite, Unreact, Return
  <2> QED
    BY <1>5, <2>2, <2>3, <2>4
<1>6. ASSUME NEW r \in Requests, Emit(r) PROVE AllShow'
  <2>1. \A x \in Requests : x # r => reqs[x] = Idle
    BY <1>0, <1>6 DEF Emit
  <2> QED
    BY <1>0, <1>6, <2>1, EmitShows
<1>7. ASSUME UNCHANGED <<message, clientVars, reqs>> PROVE AllShow'
  BY <1>0, <1>7, QuietShows DEF Emitting
<1>8. AllShow'
  BY <1>0, <1>4, <1>5, <1>6, <1>7, DeliverShows DEF Next, WindowCloses, vars
<1> QED
  BY <1>0, <1>8 DEF AloneShows, AllShow

\* As long as no two requests overlap every client in the end shows the message
\* MongoDB holds: of each field the last event that tells of it is the last to
\* arrive, and all events arrive in the order of the writes.
THEOREM AloneConverges == MCSpec => []ConvergedAlone
<1>1. MCInit => TypeOK /\ AloneShows
  <2> SUFFICES ASSUME MCInit PROVE AloneShows
    BY TypeInit DEF MCInit
  <2>1. \A r \in Requests : reqs[r] = Idle
    BY DEF MCInit, Init
  <2>2. ASSUME NEW c \in Clients, NEW P, Coming(c, P) PROVE Shows(c, P)
    <3>1. P = <<>> /\ view[c] = message
      BY <2>1, <2>2 DEF MCInit, Init, Coming, Emitting
    <3>2. \A i \in 0 .. Len(P) : i = 0
      BY <3>1
    <3> QED
      BY <3>1, <3>2 DEF Shows
  <2> QED
    BY <2>1, <2>2 DEF AloneShows
<1>2. TypeOK /\ AloneShows /\ [MCNext]_<<vars, alone>> => TypeOK' /\ AloneShows'
  BY TypeStep, AloneStep DEF MCNext
<1>3. TypeOK /\ AloneShows => ConvergedAlone
  <2> SUFFICES ASSUME TypeOK, AloneShows, alone, Quiet, NEW c \in Clients
               PROVE  view[c] = message
    BY DEF ConvergedAlone, Converged
  <2>1. Coming(c, <<>>)
    BY DEF Quiet, Coming, Emitting
  <2>2. Shows(c, <<>>)
    BY <2>1 DEF AloneShows
  <2>3. \A K : LastOf(<<>>, K, 0)
    BY DEF LastOf
  <2>4. /\ message.content = view[c].content /\ message.reactions = view[c].reactions
        /\ message.deleted = view[c].deleted
    BY <2>2, <2>3 DEF Shows
  <2>5. \A m \in Messages :
          m = [content |-> m.content, reactions |-> m.reactions, deleted |-> m.deleted]
    BY DEF Messages
  <2>6. message \in Messages /\ view[c] \in Messages
    BY DEF TypeOK
  <2> QED
    BY <2>4, <2>5, <2>6
<1> QED
  BY <1>1, <1>2, <1>3, PTL DEF MCSpec
=============================================================================
