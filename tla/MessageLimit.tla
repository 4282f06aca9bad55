---------------------------- MODULE MessageLimit -----------------------------
(***************************************************************************)
(* The sliding window that limits how often one user may send a message.   *)
(* Every socket of the user, at whatever instance, shares one sorted set   *)
(* of attempts, scored with the clock of the instance that handles them.   *)
(* A check is a pipeline of commands without MULTI: those of other checks  *)
(* may come between them.                                                  *)
(***************************************************************************)
EXTENDS Naturals, Sequences, FiniteSets

CONSTANTS
  Requests,     \* slots for checks in flight at the same time
  Window,       \* MESSAGE_WINDOW_SEC
  Max,          \* MESSAGE_MAX
  Lag,          \* how far an instance's clock is behind the fastest one, and
                \* the way to Redis, together
  MaxClock,     \* bound: ticks
  MaxAttempts   \* bound: attempts

ASSUME WindowAssumption == Window \in Nat /\ Lag \in Nat /\ Lag < Window
ASSUME MaxAssumption == Max \in Nat
ASSUME BoundsAssumption == MaxClock \in Nat /\ MaxAttempts \in Nat

VARIABLES
  clock,      \* the time of the fastest clock
  attempts,   \* the Date.now() of each attempt so far, in order
  entries,    \* rl:msg:{user}: the attempts in the sorted set
  deadline,   \* when the key expires, 0 when it has no TTL
  accepted,   \* history: the attempts that were told to go on
  refused,    \* history: the attempts that were answered RATE_LIMITED
  reqs        \* the check in each slot

windowVars == <<clock, attempts, entries, deadline, accepted, refused, reqs>>

-----------------------------------------------------------------------------
Attempts == DOMAIN attempts

Idle == [pc |-> "idle"]
Check == [pc : {"trim", "add", "count"}, id : Nat]

At(r, pc) == reqs[r].pc = pc
Goto(r, pc) == reqs' = [reqs EXCEPT ![r].pc = pc]
Return(r) == reqs' = [reqs EXCEPT ![r] = Idle]

\* Redis removes a sorted set with its last member, and the TTL with it.
Keep(s) == entries' = s /\ deadline' = IF s = {} THEN 0 ELSE deadline

-----------------------------------------------------------------------------
(* checkMessageRateLimit                                                   *)

\* Date.now() at an instance, then the commands are on their way.
Attempt(r) ==
  /\ reqs[r] = Idle
  /\ Len(attempts) < MaxAttempts
  /\ \E behind \in 0..Lag : attempts' = Append(attempts, clock - behind)
  /\ reqs' = [reqs EXCEPT ![r] = [pc |-> "trim", id |-> Len(attempts) + 1]]
  /\ UNCHANGED <<clock, entries, deadline, accepted, refused>>

\* Faulty: nothing is removed, the key's TTL is relied on.
OutsideNothing(now) == {}

\* ZREMRANGEBYSCORE -inf to now - windowMs, both included.
Outside(now) == {i \in entries : attempts[i] + Window <= now}

Trim(r) ==
  /\ At(r, "trim")
  /\ Keep(entries \ Outside(attempts[reqs[r].id]))
  /\ Goto(r, "add")
  /\ UNCHANGED <<clock, attempts, accepted, refused>>

\* ZADD
Record(r) ==
  /\ At(r, "add")
  /\ entries' = entries \cup {reqs[r].id}
  /\ Goto(r, "count")
  /\ UNCHANGED <<clock, attempts, deadline, accepted, refused>>

\* Faulty: only the command that creates the key gives it a TTL.
LifeOfFirst == IF deadline = 0 THEN clock + Window ELSE deadline

\* EXPIRE restarts the TTL.
Life == clock + Window

\* ZCARD, whose answer decides, and EXPIRE.
Count(r) ==
  /\ At(r, "count")
  /\ deadline' = Life
  /\ IF Cardinality(entries) <= Max
     THEN accepted' = accepted \cup {reqs[r].id} /\ UNCHANGED refused
     ELSE refused' = refused \cup {reqs[r].id} /\ UNCHANGED accepted
  /\ Return(r)
  /\ UNCHANGED <<clock, attempts, entries>>

\* The process dies or its connection breaks: the commands before it stand.
Break(r) ==
  /\ reqs[r] # Idle
  /\ Return(r)
  /\ UNCHANGED <<clock, attempts, entries, deadline, accepted, refused>>

Expired == deadline # 0 /\ clock + 1 >= deadline

\* An attempt reaches Redis no more than Lag after its stamp, and Redis runs
\* the commands of one pipeline within a tick.
Tick ==
  /\ clock < Lag + MaxClock
  /\ \A r \in Requests :
       reqs[r] # Idle => At(r, "trim") /\ clock < attempts[reqs[r].id] + Lag
  /\ clock' = clock + 1
  /\ Keep(IF Expired THEN {} ELSE entries)
  /\ UNCHANGED <<attempts, accepted, refused, reqs>>

-----------------------------------------------------------------------------
WindowInit ==
  /\ clock = Lag
  /\ attempts = <<>>
  /\ entries = {} /\ deadline = 0
  /\ accepted = {} /\ refused = {}
  /\ reqs = [r \in Requests |-> Idle]

WindowNext ==
  \/ \E r \in Requests :
       Attempt(r) \/ Trim(r) \/ Record(r) \/ Count(r) \/ Break(r)
  \/ Tick

WindowSpec == WindowInit /\ [][WindowNext]_windowVars

-----------------------------------------------------------------------------
(* Properties                                                              *)

WindowTypeOK ==
  /\ clock \in Nat
  /\ attempts \in Seq(Nat)
  /\ entries \subseteq Attempts /\ accepted \subseteq Attempts
  /\ refused \subseteq Attempts
  /\ deadline \in Nat
  /\ reqs \in [Requests -> {Idle} \cup Check]

\* In no stretch of time as long as the window, less what the clocks and the
\* way to Redis may differ by, are more than Max messages accepted: however
\* many instances check at once, and whichever checks break off halfway.
InWindowFrom(i) ==
  {j \in accepted : attempts[i] <= attempts[j]
                    /\ attempts[j] + Lag < attempts[i] + Window}

AtMostMax == \A i \in accepted : Cardinality(InWindowFrom(i)) <= Max

\* Only a user with more than Max attempts in the window that ends with his own
\* is refused: what lies further back never counts against him.
Around(i) == {j \in Attempts : attempts[i] < attempts[j] + Window
                               /\ attempts[j] <= attempts[i] + Lag}

RefusalsJustified == \A i \in refused : Cardinality(Around(i)) > Max
=============================================================================
