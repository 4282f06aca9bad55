------------------------------ MODULE Messages -------------------------------
(***************************************************************************)
(* One message after it has been sent: its document in MongoDB, the        *)
(* requests that edit it, delete it and react to it, and what the clients  *)
(* in the room show of it.  A handler writes, waits for the reply, and     *)
(* broadcasts what the reply holds; the replies of two handlers may be     *)
(* resumed in another order than MongoDB applied their writes.             *)
(***************************************************************************)
EXTENDS Naturals, Sequences, FiniteSets

CONSTANTS
  Requests,     \* slots for requests in flight at the same time
  Users,
  Author,       \* the sender of the message
  Clients,      \* sockets in the room's channel
  OneToggleEach, \* whether a user waits for one toggle before the next
  MaxCalls      \* bound: edits, and toggles of a user, begun before none begins

ASSUME RequestsAssumption == IsFiniteSet(Requests)
ASSUME AuthorAssumption == Author \in Users
ASSUME ToggleAssumption == OneToggleEach \in BOOLEAN
ASSUME MaxCallsAssumption == MaxCalls \in Nat

VARIABLES
  message,    \* content (a version), reactions to one emoji, deletedAt
  editable,   \* whether the message is less than 15 minutes old
  toggles,    \* history: the toggles of each user that succeeded
  reqs,       \* the request in each slot
  wire,       \* broadcasts on their way to each client
  view        \* what each client shows

clientVars == <<wire, view>>
vars == <<message, editable, toggles, reqs, clientVars>>

-----------------------------------------------------------------------------
Messages == [content : Nat, reactions : SUBSET Users, deleted : BOOLEAN]

Idle == [pc |-> "idle"]
Kinds == {"edit", "delete", "react"}
Request == [pc : {"write", "emit"}, op : Kinds, user : Users,
            timely : BOOLEAN, doc : Messages]

Call(op, u) == [pc |-> "write", op |-> op, user |-> u, timely |-> editable,
                doc |-> message]

Waits(r, op) == reqs[r] # Idle /\ reqs[r].pc = "write" /\ reqs[r].op = op
Become(r, q) == reqs' = [reqs EXCEPT ![r] = q]
Return(r) == Become(r, Idle)

\* Faulty: findOneAndUpdate answers the document it found.
AnswerFound(r, q) == Become(r, [q EXCEPT !.pc = "emit", !.doc = message])

\* findOneAndUpdate with {new: true} answers the document it has written.
Answer(r, q) == Become(r, [q EXCEPT !.pc = "emit", !.doc = message'])

\* u's first attempt found the reaction, and the second is still to come.
Toggling(u) == \E r \in Requests : Waits(r, "react") /\ reqs[r].user = u

-----------------------------------------------------------------------------
(* message:edit                                                            *)

\* The start of the 15-minute window is computed before the write.
EditCall(r, u) ==
  /\ reqs[r] = Idle
  /\ message.content < MaxCalls
  /\ Become(r, Call("edit", u))
  /\ UNCHANGED <<message, editable, toggles, clientVars>>

MayEdit(q) == q.user = Author /\ ~ message.deleted /\ q.timely

\* Faulty: a deleted message can be edited.
EditDeleted(r) ==
  /\ Waits(r, "edit")
  /\ IF reqs[r].user = Author /\ reqs[r].timely
     THEN /\ message' = [message EXCEPT !.content = @ + 1]
          /\ Answer(r, reqs[r])
     ELSE Return(r) /\ UNCHANGED message
  /\ UNCHANGED <<editable, toggles, clientVars>>

EditWrite(r) ==
  /\ Waits(r, "edit")
  /\ IF MayEdit(reqs[r])
     THEN /\ message' = [message EXCEPT !.content = @ + 1]
          /\ Answer(r, reqs[r])
     ELSE Return(r) /\ UNCHANGED message
  /\ UNCHANGED <<editable, toggles, clientVars>>

WindowCloses ==
  /\ editable
  /\ editable' = FALSE
  /\ UNCHANGED <<message, toggles, reqs, clientVars>>

-----------------------------------------------------------------------------
(* message:delete                                                          *)

Delete(r, u) ==
  /\ reqs[r] = Idle
  /\ u = Author /\ ~ message.deleted
  /\ message' = [message EXCEPT !.deleted = TRUE]
  /\ Answer(r, Call("delete", u))
  /\ UNCHANGED <<editable, toggles, clientVars>>

-----------------------------------------------------------------------------
(* message:react                                                           *)

Succeed(u) == toggles' = [toggles EXCEPT ![u] = @ + 1]

\* Attempt 1, matched when the user has not reacted: add the reaction.
React(r, u) ==
  /\ reqs[r] = Idle
  /\ OneToggleEach => ~ Toggling(u)
  /\ toggles[u] < MaxCalls
  /\ IF ~ message.deleted /\ u \notin message.reactions
     THEN /\ message' = [message EXCEPT !.reactions = @ \cup {u}]
          /\ Answer(r, Call("react", u))
          /\ Succeed(u)
     ELSE /\ Become(r, Call("react", u))
          /\ UNCHANGED <<message, toggles>>
  /\ UNCHANGED <<editable, clientVars>>

\* Faulty: the reactions the first attempt saw are written back without u.
WriteBack(r) ==
  /\ Waits(r, "react")
  /\ IF message.deleted THEN Return(r) /\ UNCHANGED <<message, toggles>>
     ELSE /\ message' = [message EXCEPT !.reactions =
                           reqs[r].doc.reactions \ {reqs[r].user}]
          /\ Answer(r, reqs[r])
          /\ Succeed(reqs[r].user)
  /\ UNCHANGED <<editable, clientVars>>

\* Attempt 2, on any message that is not deleted: take the reaction away.
Unreact(r) ==
  /\ Waits(r, "react")
  /\ IF message.deleted THEN Return(r) /\ UNCHANGED <<message, toggles>>
     ELSE /\ message' = [message EXCEPT !.reactions = @ \ {reqs[r].user}]
          /\ Answer(r, reqs[r])
          /\ Succeed(reqs[r].user)
  /\ UNCHANGED <<editable, clientVars>>

-----------------------------------------------------------------------------
(* io.to(room).emit, and the clients                                       *)

Emit(r) ==
  /\ reqs[r] # Idle /\ reqs[r].pc = "emit"
  /\ wire' = [c \in Clients |->
                Append(wire[c], [op |-> reqs[r].op, doc |-> reqs[r].doc])]
  /\ Return(r)
  /\ UNCHANGED <<message, editable, toggles, view>>

\* A client applies an event as SOCKET_EVENTS.md tells it to: the message
\* object of an edit, "[deleted]", the full map of reactions.
Deliver(c) ==
  LET e == Head(wire[c]) IN
  /\ wire[c] # <<>>
  /\ wire' = [wire EXCEPT ![c] = Tail(@)]
  /\ view' = [view EXCEPT ![c] =
       CASE e.op = "edit" ->
              [@ EXCEPT !.content = e.doc.content, !.deleted = e.doc.deleted]
         [] e.op = "delete" -> [@ EXCEPT !.deleted = TRUE]
         [] e.op = "react" -> [@ EXCEPT !.reactions = e.doc.reactions]]
  /\ UNCHANGED <<message, editable, toggles, reqs>>

-----------------------------------------------------------------------------
Init ==
  /\ message = [content |-> 0, reactions |-> {}, deleted |-> FALSE]
  /\ editable = TRUE
  /\ toggles = [u \in Users |-> 0]
  /\ reqs = [r \in Requests |-> Idle]
  /\ wire = [c \in Clients |-> <<>>]
  /\ view = [c \in Clients |-> message]

Next ==
  \/ \E r \in Requests, u \in Users : EditCall(r, u) \/ Delete(r, u) \/ React(r, u)
  \/ \E r \in Requests : EditWrite(r) \/ Unreact(r) \/ Emit(r)
  \/ \E c \in Clients : Deliver(c)
  \/ WindowCloses

Spec == Init /\ [][Next]_vars

-----------------------------------------------------------------------------
(* Properties                                                              *)

\* Every variable holds a value the code can give it; only a document that was
\* found is broadcast.
TypeOK ==
  /\ message \in Messages
  /\ editable \in BOOLEAN
  /\ toggles \in [Users -> Nat]
  /\ reqs \in [Requests -> Request \cup {Idle}]
  /\ wire \in [Clients -> Seq([op : Kinds, doc : Messages])]
  /\ view \in [Clients -> Messages]

\* A deleted message never changes again, whatever was in flight when it was
\* deleted: an edit in its window, the second attempt of a toggle.
DeletedIsFinal == [][message.deleted => message' = message]_vars

\* If each user toggles one reaction at a time, the two round trips amount
\* to one step, among the toggles of others and the deletion.
R == INSTANCE Reactions WITH reactions <- message.reactions,
                             deleted <- message.deleted
TogglesFlip == R!Spec

\* A user who has toggled an odd number of times is among the reactions.
TogglesCount ==
  \A u \in Users : u \in message.reactions <=> toggles[u] % 2 = 1

Quiet == /\ \A r \in Requests : reqs[r] = Idle
         /\ \A c \in Clients : wire[c] = <<>>

\* When nothing is under way every client shows what MongoDB holds.
Converged == Quiet => \A c \in Clients : view[c] = message

\* ... of the reactions.
ReactionsShown ==
  Quiet => \A c \in Clients : view[c].reactions = message.reactions

\* ... of the content of a message that is not deleted.
EditsShown ==
  Quiet /\ ~ message.deleted => \A c \in Clients : view[c].content = message.content

\* A message deleted for good is shown as deleted.
DeletionShown ==
  Quiet /\ message.deleted => \A c \in Clients : view[c].deleted

=============================================================================
