------------------------------- MODULE Sending -------------------------------
(***************************************************************************)
(* What becomes of an accepted message:send, up to the unread counter of   *)
(* one other member of the room, who reads the history meanwhile.  Sender  *)
(* and reader stay members; RoomService has the counter's fate when they   *)
(* leave.  Refused for its content, or for a sender not verified, a        *)
(* message:send changes nothing.                                           *)
(***************************************************************************)
EXTENDS MessageLimit

CONSTANT MaxReads  \* bound: readings of the history in flight

ASSUME MaxReadsAssumption == MaxReads \in Nat

VARIABLES
  posting,   \* accepted messages on their way to MongoDB
  stored,    \* how many are in MongoDB
  counting,  \* increments under way for messages already stored
  counter,   \* unread:{reader}:{room}
  reading,   \* readings whose page has been read, but the counter not deleted
  seen,      \* how many messages there were on the last page read
  settled    \* history: whether the last reading met no send and no failure

readVars == <<reading, seen>>
sendVars == <<posting, stored, counting, counter, readVars, settled>>
vars == <<windowVars, sendVars>>

-----------------------------------------------------------------------------
(* message:send                                                            *)

\* Faulty: a refused message goes on, too.
AnswerAll(r) ==
  /\ Count(r)
  /\ posting' = posting \cup {reqs[r].id}
  /\ UNCHANGED <<stored, counting, counter, readVars, settled>>

\* The limiter answers, and an accepted message goes on to createMessage.
Answer(r) ==
  /\ Count(r)
  /\ posting' = posting \cup (accepted' \ accepted)
  /\ UNCHANGED <<stored, counting, counter, readVars, settled>>

Limiter ==
  /\ Tick \/ \E r \in Requests : Attempt(r) \/ Trim(r) \/ Record(r) \/ Break(r)
  /\ UNCHANGED sendVars

\* Message.create, the broadcast, and incrementUnread, which nobody awaits.
Store(i) ==
  /\ i \in posting
  /\ posting' = posting \ {i}
  /\ stored' = stored + 1
  /\ counting' = counting + 1
  /\ UNCHANGED <<windowVars, counter, readVars, settled>>

\* MongoDB refuses, or the process dies before.
StoreFails(i) ==
  /\ i \in posting
  /\ posting' = posting \ {i}
  /\ UNCHANGED <<windowVars, stored, counting, counter, readVars, settled>>

\* Faulty: GET, then SET of one more: increments at the same time are lost.
IncrementTogether ==
  /\ counting > 0
  /\ counting' = 0
  /\ counter' = counter + 1
  /\ UNCHANGED <<windowVars, posting, stored, readVars, settled>>

\* INCR
Increment ==
  /\ counting > 0
  /\ counting' = counting - 1
  /\ counter' = counter + 1
  /\ UNCHANGED <<windowVars, posting, stored, readVars, settled>>

\* The failure is logged; the message stays uncounted.
IncrementFails ==
  /\ counting > 0
  /\ counting' = counting - 1
  /\ settled' = FALSE
  /\ UNCHANGED <<windowVars, posting, stored, counter, readVars>>

-----------------------------------------------------------------------------
(* GET /rooms/:id/messages                                                 *)

ReadPage ==
  /\ reading < MaxReads
  /\ reading' = reading + 1
  /\ seen' = stored
  /\ settled' = FALSE
  /\ UNCHANGED <<windowVars, posting, stored, counting, counter>>

\* DEL, after the page has been read.
Reset ==
  /\ reading > 0
  /\ reading' = reading - 1
  /\ counter' = 0
  /\ settled' = (counting = 0 /\ stored = seen)
  /\ UNCHANGED <<windowVars, posting, stored, counting, seen>>

\* The failure is swallowed.
ResetFails ==
  /\ reading > 0
  /\ reading' = reading - 1
  /\ UNCHANGED <<windowVars, posting, stored, counting, counter, seen, settled>>

-----------------------------------------------------------------------------
Init ==
  /\ WindowInit
  /\ posting = {} /\ stored = 0
  /\ counting = 0 /\ counter = 0
  /\ reading = 0 /\ seen = 0
  /\ settled = TRUE

Next ==
  \/ Limiter
  \/ \E r \in Requests : Answer(r)
  \/ \E i \in Attempts : Store(i) \/ StoreFails(i)
  \/ Increment \/ IncrementFails
  \/ ReadPage \/ Reset \/ ResetFails

Spec == Init /\ [][Next]_vars

-----------------------------------------------------------------------------
(* Properties                                                              *)

\* Every variable holds a value the code can give it; only a message that was
\* accepted is posted.
TypeOK ==
  /\ WindowTypeOK
  /\ posting \subseteq accepted
  /\ stored \in Nat /\ seen \in Nat /\ reading \in Nat
  /\ counting \in Nat /\ counter \in Nat
  /\ settled \in BOOLEAN

\* From a reading that met no send under way on, the counter and the increments
\* still under way are the messages sent since, however the sends overlap; a
\* lost increment, and a reading that does overlap a send, are made good by the
\* next reading.
UnreadExact == settled => counter + counting = stored - seen

\* What the counter is for, and a message stored while a page is being read
\* breaks: it is neither on the page nor counted.
UnseenIsCounted == stored > seen => counter + counting > 0
=============================================================================
