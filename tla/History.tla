------------------------------- MODULE History -------------------------------
(***************************************************************************)
(* Reading a room's history page by page, newest first, while messages are *)
(* being sent.  A page is the first n messages older than the cursor; the  *)
(* next cursor is the creation time of the last of them.  Messages are     *)
(* only ever soft-deleted, so none disappears from the history.            *)
(***************************************************************************)
EXTENDS Integers, FiniteSets

CONSTANTS
  Default,      \* DEFAULT_LIMIT
  MaxLimit,     \* MAX_LIMIT
  Limits,       \* values parseInt makes of the query's limit, 0 also for NaN
  MaxMessages,  \* bound: messages in the room
  MaxTime       \* bound: milliseconds the model distinguishes

ASSUME LimitAssumption == Default \in Nat \ {0} /\ MaxLimit \in Nat \ {0}
ASSUME LimitsAssumption == Limits \subseteq Int
ASSUME BoundsAssumption == MaxMessages \in Nat /\ MaxTime \in Nat

VARIABLES
  clock,
  pending,  \* messages with a creation time that MongoDB has not got yet
  stored,   \* messages in MongoDB
  pc,       \* "idle", "reading" when there is a next page, "done"
  limit,    \* the limit the reader asks for on every page
  cursor,   \* nextCursor of the last page; at first later than every message
  known,    \* history: the messages there when the reader began
  seen,     \* history: the messages on the pages so far
  repeated  \* history: whether a page held a message of an earlier page

storeVars == <<clock, pending, stored>>
readVars == <<pc, limit, cursor, known, seen, repeated>>
vars == <<storeVars, readVars>>

-----------------------------------------------------------------------------
Message == [id : Nat, at : Nat]
All == pending \cup stored

\* Mongoose sets createdAt, then inserts.
Create ==
  /\ Cardinality(All) < MaxMessages
  /\ pending' = pending \cup {[id |-> Cardinality(All), at |-> clock]}
  /\ UNCHANGED <<clock, stored, readVars>>

Insert ==
  \E m \in pending :
    /\ pending' = pending \ {m}
    /\ stored' = stored \cup {m}
    /\ UNCHANGED <<clock, readVars>>

Tick ==
  /\ clock < MaxTime
  /\ clock' = clock + 1
  /\ UNCHANGED <<pending, stored, readVars>>

-----------------------------------------------------------------------------
\* Math.min(Math.max(1, parseInt(limit) || DEFAULT_LIMIT), MAX_LIMIT)
PageSize(asked) ==
  LET wanted == IF asked = 0 THEN Default ELSE asked
      atLeast == IF wanted < 1 THEN 1 ELSE wanted
  IN IF atLeast > MaxLimit THEN MaxLimit ELSE atLeast

\* Faulty: $lte.
UpTo(c) == {m \in stored : m.at <= c}

\* createdAt: {$lt: cursor}
Before(c) == {m \in stored : m.at < c}

\* Faulty: the message after the page is the cursor.
CursorAfter(page, rest) ==
  CHOOSE t \in {m.at : m \in rest} : \A m \in rest : t >= m.at

\* The creation time of the last message of the page.
NextCursor(page, rest) ==
  CHOOSE t \in {m.at : m \in page} : \A m \in page : t <= m.at

\* page is a possible first n of docs: sorted by createdAt, newest first,
\* messages of the same time in any order.
IsPage(page, docs, n) ==
  /\ page \subseteq docs
  /\ Cardinality(page) <= n
  /\ page = docs \/ Cardinality(page) = n
  /\ \A x \in page, y \in docs \ page : x.at >= y.at

\* n + 1 documents are fetched: one more than fit on the page means hasMore.
Read ==
  LET docs == Before(cursor) IN
  /\ pc = "reading"
  /\ \E page \in SUBSET docs :
       /\ IsPage(page, docs, PageSize(limit))
       /\ seen' = seen \cup page
       /\ repeated' = (repeated \/ page \cap seen # {})
       /\ IF page # docs
          THEN cursor' = NextCursor(page, docs \ page) /\ pc' = pc
          ELSE pc' = "done" /\ cursor' = cursor
  /\ UNCHANGED <<storeVars, limit, known>>

\* The first page has no cursor.
Begin ==
  /\ pc = "idle"
  /\ pc' = "reading"
  /\ limit' \in Limits
  /\ cursor' = MaxTime + 1
  /\ known' = stored
  /\ UNCHANGED <<storeVars, seen, repeated>>

-----------------------------------------------------------------------------
Init ==
  /\ clock = 0
  /\ pending = {} /\ stored = {}
  /\ pc = "idle" /\ limit = 0 /\ cursor = 0
  /\ known = {} /\ seen = {}
  /\ repeated = FALSE

Next ==
  \/ Create \/ Insert \/ Tick
  \/ Begin \/ Read

Spec == Init /\ [][Next]_vars

\* The reader goes on; messages may stop at any time.
FairSpec == Spec /\ WF_vars(Read)

-----------------------------------------------------------------------------
(* Properties                                                              *)

\* Every variable holds a value the code can give it; a message is inserted
\* once.
TypeOK ==
  /\ clock \in Nat
  /\ pending \subseteq Message /\ stored \subseteq Message
  /\ pending \cap stored = {}
  /\ pc \in {"idle", "reading", "done"}
  /\ limit \in Int /\ cursor \in Nat
  /\ known \subseteq stored /\ seen \subseteq stored
  /\ repeated \in BOOLEAN

\* No message is on two pages, however many are sent between them.
NeverRepeated == ~ repeated

\* For every message stored before the reader began, when it ends the message
\* or another of the same creation time is on some page: only messages of the
\* same millisecond can be skipped, whatever is inserted meanwhile.
NoneSkipped ==
  pc = "done" => \A m \in known : \E x \in seen : x.at = m.at

\* What a test of the documents asks for, and ties break: nothing is skipped.
AllSeen == pc = "done" => known \subseteq seen

\* Every page but the last moves the cursor: the reader comes to an end.
ReaderEnds == pc = "reading" ~> pc = "done"

=============================================================================
