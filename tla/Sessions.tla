------------------------------ MODULE Sessions ------------------------------
(***************************************************************************)
(* One account's password, login lockout, refresh tokens and reset links:  *)
(* a MongoDB user document and Redis keys with a TTL, and the requests on  *)
(* them in flight over every server instance.  Accounts share none of      *)
(* this, so one stands for all of them.  As in RoomService every awaited   *)
(* command is one action.  Access tokens are signed and never stored; they *)
(* are left out.                                                           *)
(***************************************************************************)
EXTENDS Naturals, Sequences, FiniteSets

CONSTANTS
  Requests,     \* slots for requests in flight at the same time
  Operations,   \* the operations enabled in this instance of the model
  Threshold,    \* LOCKOUT_THRESHOLD, failed logins until the account is locked
  MaxAsks,      \* reset links one address may ask for in an hour
  MaxTokens,    \* bound: refresh tokens issued
  MaxLinks      \* bound: reset links live or spent

AllOperations == {"login", "refresh", "logout", "forgot", "reset"}

ASSUME RequestsAssumption == IsFiniteSet(Requests)
ASSUME OperationsAssumption == Operations \subseteq AllOperations
ASSUME ThresholdAssumption == Threshold \in Nat \ {0}
ASSUME MaxAsksAssumption == MaxAsks \in Nat
ASSUME BoundsAssumption == {MaxTokens, MaxLinks} \subseteq Nat

VARIABLES
  password,   \* passwordHash, as the number of resets it has been through
  attempts,   \* login-attempts:{user}, 0 when there is no such key
  lock,       \* login-locked:{user}: "none", "set", or "outlives" when it was
              \* set after the attempts key was created
  tokens,     \* the refresh tokens signed so far, with where they come from
  keys,       \* the tokens whose refresh:{user}:{id} key exists
  asks,       \* rl:forgot:{email}, requests for a reset link in this hour
  links,      \* pwd-reset:{token} keys
  used,       \* reset links taken by GETDEL
  reqs        \* the request in each slot

lockVars == <<attempts, lock>>
tokenVars == <<tokens, keys>>
linkVars == <<asks, links, used>>
vars == <<password, lockVars, tokenVars, linkVars, reqs>>

-----------------------------------------------------------------------------
TokenIds == DOMAIN tokens

\* Where a token comes from: the session, begun by a login, that it continues;
\* the password that login was checked against; whether this was still the
\* account's password when the token was issued.
Token == [session : Nat \ {0}, pass : Nat, timely : BOOLEAN]

Steps == {"lock?", "count", "lock", "forgive", "issue", "revoke", "mint",
          "update", "scan", "scanned", "delete"}

Idle == [pc |-> "idle"]
Request == [pc : Steps, op : AllOperations, right : BOOLEAN, pass : Nat,
            token : Nat, seen : SUBSET Nat]

Call(op, pc) == [pc |-> pc, op |-> op, right |-> FALSE, pass |-> 0,
                 token |-> 0, seen |-> {}]

Enabled(r, op) == op \in Operations /\ reqs[r] = Idle
At(r, pc) == reqs[r].pc = pc
Become(r, q) == reqs' = [reqs EXCEPT ![r] = q]
Goto(r, pc) == reqs' = [reqs EXCEPT ![r].pc = pc]
Return(r) == Become(r, Idle)

-----------------------------------------------------------------------------
(* login                                                                   *)

\* User.findOne loads the hash; right is whether the password sent matches it.
LoginFind(r, right) ==
  /\ Enabled(r, "login")
  /\ Become(r, [Call("login", "lock?") EXCEPT !.right = right, !.pass = password])
  /\ UNCHANGED <<password, lockVars, tokenVars, linkVars>>

\* Faulty: the lock is not looked at.
LockCheckSkipped(r) ==
  /\ At(r, "lock?")
  /\ Goto(r, IF reqs[r].right THEN "forgive" ELSE "count")
  /\ UNCHANGED <<password, lockVars, tokenVars, linkVars>>

\* EXISTS login-locked, then bcrypt.compare against the hash loaded above.
LockCheck(r) ==
  /\ At(r, "lock?")
  /\ IF lock # "none" THEN Return(r)
     ELSE Goto(r, IF reqs[r].right THEN "forgive" ELSE "count")
  /\ UNCHANGED <<password, lockVars, tokenVars, linkVars>>

CountFailure(r) ==
  /\ At(r, "count")
  /\ attempts' = attempts + 1
  /\ IF attempts' >= Threshold THEN Goto(r, "lock") ELSE Return(r)
  /\ UNCHANGED <<password, lock, tokenVars, linkVars>>

SetLock(r) ==
  /\ At(r, "lock")
  /\ lock' = IF attempts = 0 THEN "set" ELSE "outlives"
  /\ Return(r)
  /\ UNCHANGED <<password, attempts, tokenVars, linkVars>>

DropAttempts ==
  /\ attempts' = 0
  /\ lock' = IF lock = "outlives" THEN "set" ELSE lock

Forgive(r) ==
  /\ At(r, "forgive")
  /\ DropAttempts
  /\ Goto(r, "issue")
  /\ UNCHANGED <<password, tokenVars, linkVars>>

\* issueRefreshToken: SET refresh:{user}:{uuid}.  A refresh continues the
\* session of the token it exchanges.
Issue(r) ==
  LET next == Len(tokens) + 1
      q == reqs[r]
      session == IF q.op = "refresh" THEN tokens[q.token].session ELSE next
      pass == IF q.op = "refresh" THEN tokens[q.token].pass ELSE q.pass
  IN
  /\ At(r, "issue")
  /\ Len(tokens) < MaxTokens
  /\ tokens' = Append(tokens, [session |-> session, pass |-> pass,
                               timely |-> pass = password])
  /\ keys' = keys \cup {next}
  /\ Return(r)
  /\ UNCHANGED <<password, lockVars, linkVars>>

AttemptsExpire ==
  /\ attempts # 0
  /\ DropAttempts
  /\ UNCHANGED <<password, tokenVars, linkVars, reqs>>

\* Faulty: the lock may go before the counter.
LockExpireFirst ==
  /\ lock # "none"
  /\ lock' = "none"
  /\ UNCHANGED <<password, attempts, tokenVars, linkVars, reqs>>

\* Both keys have the same TTL, and SET restarts the lock's: a counter older
\* than the lock has expired when the lock does.
LockExpire ==
  /\ lock = "set"
  /\ lock' = "none"
  /\ UNCHANGED <<password, attempts, tokenVars, linkVars, reqs>>

-----------------------------------------------------------------------------
(* refresh and logout                                                      *)

\* validateRefreshToken of a token the client was given: EXISTS refresh:...
\* A token without its key is answered at once and changes nothing.
Validate(r, op, t) ==
  /\ Enabled(r, op)
  /\ t \in keys
  /\ Become(r, [Call(op, "revoke") EXCEPT !.token = t])
  /\ UNCHANGED <<password, lockVars, tokenVars, linkVars>>

\* Faulty: the old token stays when the new one is issued.
RevokeNothing(r) ==
  /\ At(r, "revoke")
  /\ IF reqs[r].op = "refresh" THEN Goto(r, "issue") ELSE Return(r)
  /\ UNCHANGED <<password, lockVars, tokenVars, linkVars>>

Revoke(r) ==
  /\ At(r, "revoke")
  /\ keys' = keys \ {reqs[r].token}
  /\ IF reqs[r].op = "refresh" THEN Goto(r, "issue") ELSE Return(r)
  /\ UNCHANGED <<password, lockVars, tokens, linkVars>>

KeyExpire(t) ==
  /\ t \in keys
  /\ keys' = keys \ {t}
  /\ UNCHANGED <<password, lockVars, tokens, linkVars, reqs>>

-----------------------------------------------------------------------------
(* forgotPassword and resetPassword                                        *)

\* Above the limit forgotPassword answers as if it had sent a link.
Ask(r) ==
  /\ Enabled(r, "forgot")
  /\ asks < MaxAsks
  /\ asks' = asks + 1
  /\ Become(r, Call("forgot", "mint"))
  /\ UNCHANGED <<password, lockVars, tokenVars, links, used>>

MintLink(r) ==
  /\ At(r, "mint")
  /\ links + used < MaxLinks
  /\ links' = links + 1
  /\ Return(r)
  /\ UNCHANGED <<password, lockVars, tokenVars, asks, used>>

\* Faulty: the link is read by GET and stays.
UseLinkAgain(r) ==
  /\ Enabled(r, "reset")
  /\ links > 0
  /\ Become(r, Call("reset", "update"))
  /\ UNCHANGED <<password, lockVars, tokenVars, linkVars>>

\* Faulty: the answer of GETDEL is not looked at.
UseAnyLink(r) ==
  /\ Enabled(r, "reset")
  /\ links' = links - 1
  /\ used' = used + 1
  /\ Become(r, Call("reset", "update"))
  /\ UNCHANGED <<password, lockVars, tokenVars, asks>>

UseLink(r) ==
  /\ Enabled(r, "reset")
  /\ links > 0
  /\ links' = links - 1
  /\ used' = used + 1
  /\ Become(r, Call("reset", "update"))
  /\ UNCHANGED <<password, lockVars, tokenVars, asks>>

UpdatePassword(r) ==
  /\ At(r, "update")
  /\ password' = password + 1
  /\ Goto(r, "scan")
  /\ UNCHANGED <<lockVars, tokenVars, linkVars>>

\* The first SCAN of invalidateAllRefreshTokens.
ScanStart(r) ==
  /\ At(r, "scan")
  /\ Become(r, [reqs[r] EXCEPT !.pc = "scanned", !.seen = keys])
  /\ UNCHANGED <<password, lockVars, tokenVars, linkVars>>

\* Faulty: the loop stops after the first batch.
ScanBatch(r) ==
  /\ At(r, "scanned")
  /\ \E found \in SUBSET keys : Become(r, [reqs[r] EXCEPT !.pc = "delete", !.seen = found])
  /\ UNCHANGED <<password, lockVars, tokenVars, linkVars>>

\* The last SCAN: every key that existed from the first to the last call has
\* been returned, one set in between may have been.
ScanEnd(r) ==
  /\ At(r, "scanned")
  /\ \E late \in SUBSET (keys \ reqs[r].seen) :
       Become(r, [reqs[r] EXCEPT !.pc = "delete", !.seen = @ \cup late])
  /\ UNCHANGED <<password, lockVars, tokenVars, linkVars>>

DeleteFound(r) ==
  /\ At(r, "delete")
  /\ keys' = keys \ reqs[r].seen
  /\ Return(r)
  /\ UNCHANGED <<password, lockVars, tokens, linkVars>>

AsksExpire ==
  /\ asks # 0
  /\ asks' = 0
  /\ UNCHANGED <<password, lockVars, tokenVars, links, used, reqs>>

LinkExpire ==
  /\ links > 0
  /\ links' = links - 1
  /\ UNCHANGED <<password, lockVars, tokenVars, asks, used, reqs>>

-----------------------------------------------------------------------------
Init ==
  /\ password = 0
  /\ attempts = 0 /\ lock = "none"
  /\ tokens = <<>> /\ keys = {}
  /\ asks = 0 /\ links = 0 /\ used = 0
  /\ reqs = [r \in Requests |-> Idle]

Arrive(r) ==
  \/ \E right \in BOOLEAN : LoginFind(r, right)
  \/ \E op \in {"refresh", "logout"}, t \in TokenIds : Validate(r, op, t)
  \/ Ask(r) \/ UseLink(r)

Proceed(r) ==
  \/ LockCheck(r) \/ CountFailure(r) \/ SetLock(r) \/ Forgive(r) \/ Issue(r)
  \/ Revoke(r) \/ MintLink(r)
  \/ UpdatePassword(r) \/ ScanStart(r) \/ ScanEnd(r) \/ DeleteFound(r)

Next ==
  \/ \E r \in Requests : Arrive(r) \/ Proceed(r)
  \/ \E t \in TokenIds : KeyExpire(t)
  \/ AttemptsExpire \/ LockExpire \/ AsksExpire \/ LinkExpire

Spec == Init /\ [][Next]_vars

-----------------------------------------------------------------------------
(* Whatever the requests in flight.                                        *)

\* Every variable holds a value the code can give it.
TypeOK ==
  /\ password \in Nat /\ attempts \in Nat
  /\ lock \in {"none", "set", "outlives"}
  /\ asks \in Nat /\ links \in Nat /\ used \in Nat
  /\ tokens \in Seq(Token) /\ keys \subseteq TokenIds
  /\ reqs \in [Requests -> {Idle} \cup Request]

Quiet == \A r \in Requests : reqs[r] = Idle

\* A counter that has reached the threshold has its lock, or a login about to
\* set it: no failed login is let through above the threshold, although the
\* counter and the lock are two keys that expire on their own.
FullCounterIsLocked ==
  attempts >= Threshold => lock # "none" \/ \E r \in Requests : At(r, "lock")

\* A reset link changes the password once, however often it is presented.
LinksUsedOnce == password <= used

\* A refresh token issued while its password was the present one does not
\* outlive the reset that replaces this password: it goes with the reset's DEL,
\* or the reset still has it to find, whatever is issued, exchanged or revoked
\* during the SCAN.
Doomed(t) ==
  \E r \in Requests :
    \/ At(r, "scan")
    \/ reqs[r].pc \in {"scanned", "delete"} /\ t \in reqs[r].seen

ResetEndsSessions ==
  \A t \in keys : tokens[t].timely /\ tokens[t].pass # password => Doomed(t)

-----------------------------------------------------------------------------
(* What requests that do not overlap keep, and overlapping ones may break. *)

\* With no request in flight a session has one live refresh token at most:
\* an exchanged token is dead when its successor is issued.
OneTokenPerSession ==
  Quiet => \A s, t \in keys : tokens[s].session = tokens[t].session => s = t

\* With no request in flight every live refresh token comes from a login with
\* the present password: a reset ends all sessions before it.
SessionsArePresent == Quiet => \A t \in keys : tokens[t].pass = password

\* A login begins a session.
Begins(r) == At(r, "issue") /\ reqs[r].op = "login" /\ reqs'[r] # reqs[r]
=============================================================================
