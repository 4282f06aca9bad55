------------------------------ MODULE Accounts -------------------------------
(***************************************************************************)
(* Accounts from registration to a verified address: the user documents    *)
(* with their two unique indexes, the verification tokens in Redis, the    *)
(* queue of mails with its worker, and the limit on requests of one        *)
(* network address.  As in RoomService every awaited command is an action. *)
(***************************************************************************)
EXTENDS Naturals, Sequences, FiniteSets

CONSTANTS
  Requests,     \* slots for requests in flight at the same time
  Names, Mails, \* what clients register with
  MaxHits,      \* max of authRateLimiter
  MaxResends,   \* mails a user may ask for again in an hour
  Tries,        \* attempts of a job
  Workers,      \* concurrency of the mail worker
  MaxUsers,     \* bound: accounts
  MaxTokens     \* bound: verification tokens made

ASSUME RequestsAssumption == IsFiniteSet(Requests)
ASSUME LimitsAssumption ==
  MaxHits \in Nat /\ MaxResends \in Nat /\ Tries \in Nat \ {0} /\ Workers \in Nat
ASSUME BoundsAssumption == MaxUsers \in Nat /\ MaxTokens \in Nat

VARIABLES
  users,     \* the users collection, an account's place is its _id
  verified,  \* the accounts whose verified is set
  tokens,    \* the verification tokens made so far, with the account
  keys,      \* the tokens whose email-verify:{token} key exists
  taken,     \* history: the tokens returned by GETDEL
  resends,   \* rl:resend:{user} of each account
  hits,      \* rl:auth:{ip}, and whether it has a TTL
  jobs,      \* the jobs of the mail queue, waiting or active
  mailed,    \* history: the tokens for which a job was ever queued
  cut,       \* history: accounts whose registration ended before its end
  reqs       \* the request in each slot

userVars == <<users, verified>>
tokenVars == <<tokens, keys, taken>>
limitVars == <<resends, hits>>
mailVars == <<jobs, mailed>>
vars == <<userVars, tokenVars, limitVars, mailVars, cut, reqs>>

-----------------------------------------------------------------------------
UserIds == DOMAIN users
TokenIds == DOMAIN tokens

Account == [name : Names, mail : Mails]
Nobody == [name |-> "none", mail |-> "none"]
Job == [token : Nat, tried : Nat, pc : {"waiting", "active"}]

Idle == [pc |-> "idle"]

\* Suspended at: findOne and bcrypt, User.create, SET email-verify, emailQueue.add,
\* findByIdAndUpdate of a verification, INCR rl:resend.
Steps == {"find", "create", "store", "queue", "verify", "count"}
Request == [pc : Steps, op : {"register", "verify", "resend"},
            who : Account \cup {Nobody}, user : Nat, token : Nat]

Call(op, pc) ==
  [pc |-> pc, op |-> op, who |-> Nobody, user |-> 0, token |-> 0]

At(r, pc) == reqs[r].pc = pc
Become(r, q) == reqs' = [reqs EXCEPT ![r] = q]
Goto(r, pc) == reqs' = [reqs EXCEPT ![r].pc = pc]
Return(r) == Become(r, Idle)

\* Some account has the name or the address: what findOne looks for, and what
\* the two unique indexes forbid.
Clash(a) == \E u \in UserIds : users[u].name = a.name \/ users[u].mail = a.mail

-----------------------------------------------------------------------------
(* authRateLimiter                                                         *)

\* Faulty: EXPIRE is a command of its own, lost with a process that dies.
TimedApart == IF hits.n = 0 THEN BOOLEAN ELSE {hits.timed}

\* One script: INCR, and EXPIRE when the key is new.
Timed == IF hits.n = 0 THEN {TRUE} ELSE {hits.timed}

\* The count is not told apart above MaxHits + 1.
Hit ==
  /\ \E t \in Timed :
       hits' = [n |-> IF hits.n > MaxHits THEN hits.n ELSE hits.n + 1, timed |-> t]
  /\ UNCHANGED resends

HitsExpire ==
  /\ hits.timed
  /\ hits' = [n |-> 0, timed |-> FALSE]
  /\ UNCHANGED <<userVars, tokenVars, resends, mailVars, cut, reqs>>

-----------------------------------------------------------------------------
(* register                                                                *)

Register(r, a) ==
  /\ reqs[r] = Idle
  /\ Hit
  /\ IF hits'.n > MaxHits THEN Return(r)
     ELSE Become(r, [Call("register", "find") EXCEPT !.who = a])
  /\ UNCHANGED <<userVars, tokenVars, mailVars, cut>>

FindTaken(r) ==
  /\ At(r, "find")
  /\ IF Clash(reqs[r].who) THEN Return(r) ELSE Goto(r, "create")
  /\ UNCHANGED <<userVars, tokenVars, limitVars, mailVars, cut>>

\* Faulty: there is no unique index; the findOne is relied on.
CreateUnindexed(r) ==
  /\ At(r, "create")
  /\ Len(users) < MaxUsers
  /\ users' = Append(users, reqs[r].who)
  /\ resends' = Append(resends, 0)
  /\ Become(r, [reqs[r] EXCEPT !.pc = "store", !.user = Len(users) + 1])
  /\ UNCHANGED <<verified, tokenVars, hits, mailVars, cut>>

\* Faulty: the error of a duplicate key is swallowed.
CreateSwallowed(r) ==
  /\ At(r, "create")
  /\ IF Clash(reqs[r].who) THEN Goto(r, "store") /\ UNCHANGED <<users, resends>>
     ELSE /\ Len(users) < MaxUsers
          /\ users' = Append(users, reqs[r].who)
          /\ resends' = Append(resends, 0)
          /\ Become(r, [reqs[r] EXCEPT !.pc = "store", !.user = Len(users) + 1])
  /\ UNCHANGED <<verified, tokenVars, hits, mailVars, cut>>

\* User.create; a duplicate key is answered like a taken name.
Create(r) ==
  /\ At(r, "create")
  /\ IF Clash(reqs[r].who) THEN Return(r) /\ UNCHANGED <<users, resends>>
     ELSE /\ Len(users) < MaxUsers
          /\ users' = Append(users, reqs[r].who)
          /\ resends' = Append(resends, 0)
          /\ Become(r, [reqs[r] EXCEPT !.pc = "store", !.user = Len(users) + 1])
  /\ UNCHANGED <<verified, tokenVars, hits, mailVars, cut>>

\* Faulty: register, too, names a variable that does not exist.
StoreTokenOnly(r) ==
  /\ At(r, "store")
  /\ Len(tokens) < MaxTokens
  /\ tokens' = Append(tokens, reqs[r].user)
  /\ keys' = keys \cup {Len(tokens) + 1}
  /\ Return(r)
  /\ UNCHANGED <<userVars, taken, limitVars, mailVars, cut>>

\* Of register and of resendVerification, which goes on to name a variable that
\* does not exist: its token is stored, but never mailed.
StoreToken(r) ==
  /\ At(r, "store")
  /\ Len(tokens) < MaxTokens
  /\ tokens' = Append(tokens, reqs[r].user)
  /\ keys' = keys \cup {Len(tokens) + 1}
  /\ IF reqs[r].op = "register"
     THEN Become(r, [reqs[r] EXCEPT !.pc = "queue", !.token = Len(tokens) + 1])
     ELSE Return(r)
  /\ UNCHANGED <<userVars, taken, limitVars, mailVars, cut>>

\* emailQueue.add.  The refresh token issued next is in Sessions.
QueueMail(r) ==
  /\ At(r, "queue")
  /\ jobs' = jobs \cup {[token |-> reqs[r].token, tried |-> 0, pc |-> "waiting"]}
  /\ mailed' = mailed \cup {reqs[r].token}
  /\ Return(r)
  /\ UNCHANGED <<userVars, tokenVars, limitVars, cut>>

-----------------------------------------------------------------------------
(* verifyEmail                                                             *)

\* Faulty: GET.
ReadToken(r, t) ==
  /\ reqs[r] = Idle
  /\ t \in keys
  /\ taken' = taken \cup {t}
  /\ Become(r, [Call("verify", "verify") EXCEPT !.token = t])
  /\ UNCHANGED <<userVars, tokens, keys, limitVars, mailVars, cut>>

\* GETDEL; a token without its key is refused and changes nothing.
TakeToken(r, t) ==
  /\ reqs[r] = Idle
  /\ t \in keys
  /\ keys' = keys \ {t}
  /\ taken' = taken \cup {t}
  /\ Become(r, [Call("verify", "verify") EXCEPT !.token = t])
  /\ UNCHANGED <<userVars, tokens, limitVars, mailVars, cut>>

Verify(r) ==
  /\ At(r, "verify")
  /\ verified' = verified \cup {tokens[reqs[r].token]}
  /\ Return(r)
  /\ UNCHANGED <<users, tokenVars, limitVars, mailVars, cut>>

TokenExpire(t) ==
  /\ t \in keys
  /\ keys' = keys \ {t}
  /\ UNCHANGED <<userVars, tokens, taken, limitVars, mailVars, cut, reqs>>

-----------------------------------------------------------------------------
(* resendVerification                                                      *)

ResendFind(r, u) ==
  /\ reqs[r] = Idle
  /\ u \in UserIds \ verified
  /\ Become(r, [Call("resend", "count") EXCEPT !.user = u])
  /\ UNCHANGED <<userVars, tokenVars, limitVars, mailVars, cut>>

CountResend(r) ==
  LET u == reqs[r].user IN
  /\ At(r, "count")
  /\ resends' = [resends EXCEPT ![u] = IF @ > MaxResends THEN @ ELSE @ + 1]
  /\ IF resends'[u] > MaxResends THEN Return(r) ELSE Goto(r, "store")
  /\ UNCHANGED <<userVars, tokenVars, hits, mailVars, cut>>

ResendsExpire(u) ==
  /\ u \in UserIds /\ resends[u] > 0
  /\ resends' = [resends EXCEPT ![u] = 0]
  /\ UNCHANGED <<userVars, tokenVars, hits, mailVars, cut, reqs>>

-----------------------------------------------------------------------------
(* The mail worker                                                         *)

StartJob(j) ==
  /\ j \in jobs /\ j.pc = "waiting"
  /\ Cardinality({k \in jobs : k.pc = "active"}) < Workers
  /\ jobs' = (jobs \ {j}) \cup {[j EXCEPT !.pc = "active"]}
  /\ UNCHANGED <<userVars, tokenVars, limitVars, mailed, cut, reqs>>

\* Faulty: a retry does not count as an attempt.
FailJobAgain(j) ==
  /\ j \in jobs /\ j.pc = "active"
  /\ jobs' = (jobs \ {j}) \cup {[j EXCEPT !.pc = "waiting"]}
  /\ UNCHANGED <<userVars, tokenVars, limitVars, mailed, cut, reqs>>

\* sendVerificationEmail calls a variable that does not exist: as written every
\* attempt throws.  The queue tries again until the attempts are used up.
FailJob(j) ==
  /\ j \in jobs /\ j.pc = "active"
  /\ jobs' = (jobs \ {j}) \cup
       IF j.tried + 1 < Tries
       THEN {[j EXCEPT !.pc = "waiting", !.tried = @ + 1]} ELSE {}
  /\ UNCHANGED <<userVars, tokenVars, limitVars, mailed, cut, reqs>>

-----------------------------------------------------------------------------
\* A process that dies, or a command that is rejected, ends the handler.
Abort(r) ==
  /\ reqs[r] # Idle
  /\ cut' = IF reqs[r].op = "register" THEN cut \cup {reqs[r].user} ELSE cut
  /\ Return(r)
  /\ UNCHANGED <<userVars, tokenVars, limitVars, mailVars>>

Init ==
  /\ users = <<>> /\ verified = {}
  /\ tokens = <<>> /\ keys = {} /\ taken = {}
  /\ resends = <<>> /\ hits = [n |-> 0, timed |-> FALSE]
  /\ jobs = {} /\ mailed = {}
  /\ cut = {}
  /\ reqs = [r \in Requests |-> Idle]

Arrive(r) ==
  \/ \E a \in Account : Register(r, a)
  \/ \E t \in TokenIds : TakeToken(r, t)
  \/ \E u \in UserIds : ResendFind(r, u)

Proceed(r) ==
  \/ FindTaken(r) \/ Create(r) \/ StoreToken(r) \/ QueueMail(r)
  \/ Verify(r) \/ CountResend(r)

Next ==
  \/ \E r \in Requests : Arrive(r) \/ Proceed(r) \/ Abort(r)
  \/ \E j \in jobs : StartJob(j) \/ FailJob(j)
  \/ \E t \in TokenIds : TokenExpire(t)
  \/ \E u \in UserIds : ResendsExpire(u)
  \/ HitsExpire

Spec == Init /\ [][Next]_vars

\* Redis expires a key that has a TTL, and the worker goes on.
Fairness ==
  /\ WF_vars(HitsExpire)
  /\ WF_vars(\E j \in jobs : StartJob(j)) /\ WF_vars(\E j \in jobs : FailJob(j))

FairSpec == Spec /\ Fairness

-----------------------------------------------------------------------------
(* Properties                                                              *)

\* Every variable holds a value the code can give it; a token is one of an
\* account that exists, whichever of two racing registrations lost.
TypeOK ==
  /\ users \in Seq(Account) /\ verified \subseteq UserIds
  /\ tokens \in Seq(UserIds)
  /\ keys \subseteq TokenIds /\ taken \subseteq TokenIds
  /\ resends \in Seq(Nat) /\ Len(resends) = Len(users)
  /\ hits \in [n : Nat, timed : BOOLEAN]
  /\ jobs \subseteq Job /\ mailed \subseteq TokenIds
  /\ cut \subseteq UserIds \cup {0}
  /\ reqs \in [Requests -> {Idle} \cup Request]

\* No two accounts have a name or an address in common, however registrations
\* overlap between their look and their insert.
AccountsDiffer ==
  \A u, v \in UserIds :
    users[u].name = users[v].name \/ users[u].mail = users[v].mail => u = v

\* An account is verified by a token of its own, and a token is spent on one
\* request, however often it is presented at the same time.
TokensWorkOnce ==
  /\ verified \subseteq {tokens[t] : t \in taken}
  /\ \A r, q \in Requests :
       At(r, "verify") /\ At(q, "verify") /\ reqs[r].token = reqs[q].token => r = q

\* An account nobody cut short gets a mail with a token of its own that is in
\* Redis before the mail is queued.
Registering(u) ==
  \E r \in Requests : reqs[r] # Idle /\ reqs[r].op = "register" /\ reqs[r].user = u

EveryoneIsMailed ==
  \A u \in UserIds \ cut : Registering(u) \/ \E t \in mailed : tokens[t] = u

\* Nobody asks in vain for a mail: no token lies in Redis unmailed.  Not so.
NoTokenUnmailed ==
  (\A r \in Requests : reqs[r] = Idle) => keys \subseteq mailed

\* Whatever dies halfway, an address that has used up its requests is let in
\* again, as the key that counts them has a TTL from the first on.
BlocksEnd == hits.n > MaxHits ~> hits.n <= MaxHits

\* The mail queue does not keep a job for ever, though every attempt may fail.
JobsEnd == \A t \in 1..MaxTokens :
             (\E j \in jobs : j.token = t) ~> ~ \E j \in jobs : j.token = t
=============================================================================
