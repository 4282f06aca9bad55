--------------------------- MODULE AccountProofs ----------------------------
(***************************************************************************)
(* Theorems about Accounts, for any number of requests in flight, names,   *)
(* addresses and limits.                                                   *)
(***************************************************************************)
EXTENDS Accounts, TLAPS

\* What a suspended handler has in its local variables.
Fits(q) ==
  /\ q.pc \in {"find", "create"} =>
       q.op = "register" /\ q.user = 0 /\ q.who \in Account
  /\ q.pc \in {"store", "queue", "count"} => q.user \in UserIds
  /\ q.pc = "queue" =>
       q.op = "register" /\ q.token \in TokenIds /\ tokens[q.token] = q.user
  /\ q.pc = "verify" => q.op = "verify" /\ q.token \in taken
  /\ q.pc = "count" => q.op = "resend"

InFlight == \A r \in Requests : reqs[r] # Idle => Fits(reqs[r])

\* A token that was taken is gone.
Spent == keys \cap taken = {}

AccountInv ==
  TypeOK /\ InFlight /\ Spent /\ AccountsDiffer /\ TokensWorkOnce /\ EveryoneIsMailed

\* No step takes back an account, a token, a mail or what history remembers.
Grows ==
  /\ UserIds \subseteq UserIds' /\ TokenIds \subseteq TokenIds'
  /\ \A t \in TokenIds : tokens'[t] = tokens[t]
  /\ taken \subseteq taken' /\ mailed \subseteq mailed' /\ cut \subseteq cut'

-----------------------------------------------------------------------------
LEMMA AppendFacts ==
  ASSUME NEW S, NEW s \in Seq(S), NEW e \in S
  PROVE  /\ Append(s, e) \in Seq(S)
         /\ Len(s) \in Nat /\ Len(Append(s, e)) = Len(s) + 1
         /\ DOMAIN Append(s, e) = DOMAIN s \cup {Len(s) + 1}
         /\ Len(s) + 1 \notin DOMAIN s
         /\ \A i \in DOMAIN s : Append(s, e)[i] = s[i]
         /\ Append(s, e)[Len(s) + 1] = e
  OBVIOUS

LEMMA UpdateFacts ==
  ASSUME NEW S, NEW s \in Seq(S), NEW i \in DOMAIN s, NEW e \in S
  PROVE  [s EXCEPT ![i] = e] \in Seq(S) /\ Len([s EXCEPT ![i] = e]) = Len(s)
  OBVIOUS

\* The other handlers fit the state that a handler leaves, if it only adds to it.
LEMMA SlotChanges ==
  ASSUME AccountInv, Grows, NEW r \in Requests, NEW q \in {Idle} \cup Request,
         reqs' = [reqs EXCEPT ![r] = q], q # Idle => Fits(q)'
  PROVE  reqs' \in [Requests -> {Idle} \cup Request] /\ InFlight'
  <1>1. reqs' \in [Requests -> {Idle} \cup Request]
      BY DEF AccountInv, TypeOK
  <1>2. ASSUME NEW p \in Requests, NEW x, x = reqs'[p], x # Idle PROVE Fits(x)'
      <2>1. CASE p = r
          BY <2>1, <1>2 DEF AccountInv, TypeOK
      <2>2. CASE p # r
          <3>1. x = reqs[p] /\ Fits(x)
              BY <2>2, <1>2 DEF AccountInv, TypeOK, InFlight
          <3> QED BY <3>1 DEF Fits, Grows
      <2> QED BY <2>1, <2>2
  <1> QED BY <1>1, <1>2 DEF InFlight

\* An account stays mailed, or in the hands of its registration, when no handler
\* of register leaves its slot without having mailed it.
LEMMA MailedStays ==
  ASSUME AccountInv, Grows, UNCHANGED users, NEW r \in Requests, NEW q,
         reqs' = [reqs EXCEPT ![r] = q],
         reqs[r] # Idle /\ reqs[r].op = "register" /\ reqs[r].user \in UserIds =>
           \/ q # Idle /\ q.op = "register" /\ q.user = reqs[r].user
           \/ reqs[r].user \in cut'
           \/ \E t \in mailed' : tokens'[t] = reqs[r].user
  PROVE  EveryoneIsMailed'
  <1> SUFFICES ASSUME NEW u \in UserIds, u \notin cut'
               PROVE  Registering(u)' \/ \E t \in mailed' : tokens'[t] = u
      BY DEF EveryoneIsMailed, UserIds
  <1>1. Registering(u) \/ \E t \in mailed : tokens[t] = u
      BY DEF AccountInv, EveryoneIsMailed, Grows
  <1>2. CASE \E t \in mailed : tokens[t] = u
      BY <1>2 DEF AccountInv, TypeOK, Grows
  <1>3. ASSUME NEW p \in Requests, p # r, reqs[p] # Idle, reqs[p].op = "register",
               reqs[p].user = u
        PROVE  Registering(u)'
      BY <1>3 DEF Registering, AccountInv, TypeOK
  <1>4. CASE reqs[r] # Idle /\ reqs[r].op = "register" /\ reqs[r].user = u
      BY <1>4 DEF Registering, AccountInv, TypeOK
  <1> QED BY <1>1, <1>2, <1>3, <1>4 DEF Registering

\* No request is at work at first.
LEMMA AccountInvInit == Init => AccountInv
  <1> SUFFICES ASSUME Init PROVE AccountInv
      OBVIOUS
  <1> USE DEF Init, UserIds, TokenIds
  <1>1. TypeOK
      <2>1. hits \in [n : Nat, timed : BOOLEAN]
          OBVIOUS
      <2> QED BY <2>1 DEF TypeOK
  <1>2. InFlight /\ Spent /\ AccountsDiffer /\ TokensWorkOnce /\ EveryoneIsMailed
      BY DEF InFlight, Spent, AccountsDiffer, TokensWorkOnce, EveryoneIsMailed, At, Idle
  <1> QED BY <1>1, <1>2 DEF AccountInv

-----------------------------------------------------------------------------
\* A registration begins with what its client sent.
LEMMA RegisterKeeps ==
  ASSUME AccountInv, NEW r \in Requests, NEW a \in Account, Register(r, a)
  PROVE  AccountInv'
  <1> DEFINE q0 == [Call("register", "find") EXCEPT !.who = a]
  <1>1. PICK t \in Timed :
          hits' = [n |-> IF hits.n > MaxHits THEN hits.n ELSE hits.n + 1, timed |-> t]
      BY DEF Register, Hit
  <1>2. hits' \in [n : Nat, timed : BOOLEAN]
      <2>1. hits.n \in Nat /\ hits.timed \in BOOLEAN
          BY DEF AccountInv, TypeOK
      <2>2. t \in BOOLEAN
          BY <2>1 DEF Timed
      <2>3. (IF hits.n > MaxHits THEN hits.n ELSE hits.n + 1) \in Nat
          BY <2>1, LimitsAssumption
      <2> QED BY <1>1, <2>2, <2>3
  <1>3. UNCHANGED <<users, verified, tokens, keys, taken, resends, jobs, mailed, cut>>
        /\ reqs[r] = Idle
      BY DEF Register, Hit, userVars, tokenVars, mailVars
  <1>4. PICK q \in {Idle, q0} : reqs' = [reqs EXCEPT ![r] = q]
      BY DEF Register, Return, Become
  <1>5. q \in {Idle} \cup Request /\ (q # Idle => Fits(q)') /\ (q # Idle => q.pc = "find")
      BY DEF Call, Request, Steps, Fits, Nobody
  <1>6. Grows
      BY <1>3 DEF Grows, UserIds, TokenIds
  <1>7. reqs' \in [Requests -> {Idle} \cup Request] /\ InFlight'
      BY <1>4, <1>5, <1>6, SlotChanges
  <1>8. TypeOK'
      BY <1>2, <1>3, <1>7 DEF AccountInv, TypeOK, UserIds, TokenIds
  <1>9. Spent' /\ AccountsDiffer'
      BY <1>3 DEF AccountInv, Spent, AccountsDiffer, UserIds
  <1>10. TokensWorkOnce'
      BY <1>3, <1>4, <1>5 DEF AccountInv, TypeOK, TokensWorkOnce, At, Idle
  <1>11. EveryoneIsMailed'
      BY <1>3, <1>4, <1>6, MailedStays
  <1> QED BY <1>7, <1>8, <1>9, <1>10, <1>11 DEF AccountInv

\* A look that finds nothing leads to the insert.
LEMMA FindTakenKeeps ==
  ASSUME AccountInv, NEW r \in Requests, FindTaken(r)
  PROVE  AccountInv'
  <1>1. UNCHANGED <<users, verified, tokens, keys, taken, resends, hits, jobs, mailed, cut>>
        /\ At(r, "find")
      BY DEF FindTaken, userVars, tokenVars, limitVars, mailVars
  <1>2. reqs[r] \in Request /\ reqs[r] # Idle /\ Fits(reqs[r])
      BY <1>1 DEF AccountInv, TypeOK, InFlight, At, Idle
  <1>3. PICK q \in {Idle, [reqs[r] EXCEPT !.pc = "create"]} :
          reqs' = [reqs EXCEPT ![r] = q]
      BY DEF FindTaken, Return, Become, Goto
  <1>4. q \in {Idle} \cup Request /\ (q # Idle => Fits(q)') /\ (q # Idle => q.pc = "create")
      BY <1>1, <1>2 DEF Request, Steps, Fits, At
  <1>5. Grows
      BY <1>1 DEF Grows, UserIds, TokenIds
  <1>6. reqs' \in [Requests -> {Idle} \cup Request] /\ InFlight'
      BY <1>3, <1>4, <1>5, SlotChanges
  <1>7. TypeOK'
      BY <1>1, <1>6 DEF AccountInv, TypeOK, UserIds, TokenIds
  <1>8. Spent' /\ AccountsDiffer'
      BY <1>1 DEF AccountInv, Spent, AccountsDiffer, UserIds
  <1>9. TokensWorkOnce'
      BY <1>1, <1>3, <1>4 DEF AccountInv, TypeOK, TokensWorkOnce, At, Idle
  <1>10. reqs[r].user \notin UserIds
      BY <1>1, <1>2 DEF Fits, At, AccountInv, TypeOK, UserIds
  <1>11. EveryoneIsMailed'
      BY <1>1, <1>3, <1>5, <1>10, MailedStays
  <1> QED BY <1>6, <1>7, <1>8, <1>9, <1>11 DEF AccountInv

\* The index lets only a new name and address in; the account is in the hands of
\* its registration.
LEMMA CreateKeeps ==
  ASSUME AccountInv, NEW r \in Requests, Create(r)
  PROVE  AccountInv'
  <1>1. UNCHANGED <<verified, tokens, keys, taken, hits, jobs, mailed, cut>>
        /\ At(r, "create")
      BY DEF Create, tokenVars, mailVars
  <1>2. reqs[r] \in Request /\ reqs[r] # Idle /\ Fits(reqs[r])
      BY <1>1 DEF AccountInv, TypeOK, InFlight, At, Idle
  <1>3. reqs[r].who \in Account /\ reqs[r].user = 0 /\ reqs[r].op = "register"
      BY <1>1, <1>2 DEF Fits, At
  <1>4. CASE Clash(reqs[r].who)
      <2>1. UNCHANGED <<users, resends>> /\ reqs' = [reqs EXCEPT ![r] = Idle]
          BY <1>4 DEF Create, Return, Become
      <2>2. Grows
          BY <1>1, <2>1 DEF Grows, UserIds, TokenIds
      <2>3. reqs' \in [Requests -> {Idle} \cup Request] /\ InFlight'
          BY <2>1, <2>2, SlotChanges
      <2>4. TypeOK'
          BY <1>1, <2>1, <2>3 DEF AccountInv, TypeOK, UserIds, TokenIds
      <2>5. Spent' /\ AccountsDiffer'
          BY <1>1, <2>1 DEF AccountInv, Spent, AccountsDiffer, UserIds
      <2>6. TokensWorkOnce'
          BY <1>1, <2>1 DEF AccountInv, TypeOK, TokensWorkOnce, At, Idle
      <2>7. reqs[r].user \notin UserIds
          BY <1>3 DEF AccountInv, TypeOK, UserIds
      <2>8. EveryoneIsMailed'
          BY <2>1, <2>2, <2>7, MailedStays
      <2> QED BY <2>3, <2>4, <2>5, <2>6, <2>8 DEF AccountInv
  <1>5. CASE ~ Clash(reqs[r].who)
      <2> DEFINE a == reqs[r].who
                 new == Len(users) + 1
      <2> PICK q : q = [reqs[r] EXCEPT !.pc = "store", !.user = new]
          OBVIOUS
      <2>1. /\ users' = Append(users, a) /\ resends' = Append(resends, 0)
            /\ reqs' = [reqs EXCEPT ![r] = q]
          BY <1>5 DEF Create, Become
      <2>2. /\ users' \in Seq(Account) /\ Len(users') = new /\ new \in Nat
            /\ UserIds' = UserIds \cup {new} /\ new \notin UserIds
            /\ \A u \in UserIds : users'[u] = users[u]
            /\ users'[new] = a
          BY <1>3, <2>1, AppendFacts DEF AccountInv, TypeOK, UserIds
      <2>3. resends' \in Seq(Nat) /\ Len(resends') = new
          BY <2>1, AppendFacts DEF AccountInv, TypeOK
      <2>4. Grows
          BY <1>1, <2>2 DEF Grows, TokenIds
      <2>5. q \in Request /\ Fits(q)' /\ q.pc = "store" /\ q.op = "register" /\ q.user = new
          BY <1>2, <1>3, <2>2 DEF Request, Steps, Fits
      <2>6. reqs' \in [Requests -> {Idle} \cup Request] /\ InFlight'
          BY <2>1, <2>4, <2>5, SlotChanges
      <2>7. TypeOK'
          <3>1. tokens' \in Seq(UserIds') /\ verified' \subseteq UserIds'
                /\ cut' \subseteq UserIds' \cup {0}
              BY <1>1, <2>2 DEF AccountInv, TypeOK
          <3> QED BY <1>1, <2>2, <2>3, <2>6, <3>1 DEF AccountInv, TypeOK, TokenIds
      <2>8. Spent'
          BY <1>1 DEF AccountInv, Spent
      <2>9. AccountsDiffer'
          <3>1. \A u \in UserIds : users[u].name # a.name /\ users[u].mail # a.mail
              BY <1>5 DEF Clash
          <3> QED BY <2>2, <3>1 DEF AccountInv, AccountsDiffer
      <2>10. TokensWorkOnce'
          BY <1>1, <2>1, <2>5 DEF AccountInv, TypeOK, TokensWorkOnce, At
      <2>11. EveryoneIsMailed'
          <3> SUFFICES ASSUME NEW u \in UserIds', u \notin cut'
                       PROVE  Registering(u)' \/ \E t \in mailed' : tokens'[t] = u
              BY DEF EveryoneIsMailed
          <3>1. CASE u = new
              <4>1. reqs'[r] = q /\ q # Idle
                  BY <2>1, <2>5 DEF AccountInv, TypeOK, Idle
              <4> QED BY <2>5, <3>1, <4>1 DEF Registering
          <3>2. CASE u \in UserIds
              <4>1. Registering(u) \/ \E t \in mailed : tokens[t] = u
                  BY <1>1, <3>2 DEF AccountInv, EveryoneIsMailed
              <4>2. Registering(u) => Registering(u)'
                  BY <1>3, <2>1, <3>2 DEF Registering, AccountInv, TypeOK, UserIds
              <4> QED BY <1>1, <4>1, <4>2
          <3> QED BY <2>2, <3>1, <3>2
      <2> QED BY <2>6, <2>7, <2>8, <2>9, <2>10, <2>11 DEF AccountInv
  <1> QED BY <1>4, <1>5

\* A token is made for an account that exists.
LEMMA StoreTokenKeeps ==
  ASSUME AccountInv, NEW r \in Requests, StoreToken(r)
  PROVE  AccountInv'
  <1> DEFINE new == Len(tokens) + 1
             q0 == [reqs[r] EXCEPT !.pc = "queue", !.token = new]
  <1>1. UNCHANGED <<users, verified, taken, resends, hits, jobs, mailed, cut>>
        /\ tokens' = Append(tokens, reqs[r].user) /\ keys' = keys \cup {new}
        /\ At(r, "store")
      BY DEF StoreToken, userVars, limitVars, mailVars
  <1>2. reqs[r] \in Request /\ reqs[r] # Idle /\ reqs[r].user \in UserIds
      BY <1>1 DEF AccountInv, TypeOK, InFlight, Fits, At, Idle
  <1>3. /\ tokens' \in Seq(UserIds) /\ new \in Nat
        /\ TokenIds' = TokenIds \cup {new} /\ new \notin TokenIds
        /\ \A t \in TokenIds : tokens'[t] = tokens[t]
        /\ tokens'[new] = reqs[r].user
      BY <1>1, <1>2, AppendFacts DEF AccountInv, TypeOK, TokenIds
  <1>4. Grows
      BY <1>1, <1>3 DEF Grows, UserIds
  <1>5. PICK q \in {Idle, q0} :
          /\ reqs' = [reqs EXCEPT ![r] = q]
          /\ reqs[r].op = "register" => q = q0
          /\ q # Idle => reqs[r].op = "register"
      BY DEF StoreToken, Return, Become
  <1>6. q \in {Idle} \cup Request /\ (q # Idle => Fits(q)') /\ (q # Idle => q.pc = "queue")
        /\ (reqs[r].op = "register" => q # Idle /\ q.op = "register" /\ q.user = reqs[r].user)
      <2>1. CASE q = Idle
          BY <1>2, <1>5, <2>1 DEF Request, Idle
      <2>2. CASE q # Idle
          <3>1. q = q0 /\ reqs[r].op = "register"
              BY <1>5, <2>2
          <3>2. q0 \in Request /\ q0.pc = "queue" /\ q0.token = new
                /\ q0.user = reqs[r].user /\ q0.op = reqs[r].op
              BY <1>2, <1>3 DEF Request, Steps
          <3> QED BY <1>1, <1>2, <1>3, <2>2, <3>1, <3>2 DEF Fits, UserIds
      <2> QED BY <2>1, <2>2
  <1>7. reqs' \in [Requests -> {Idle} \cup Request] /\ InFlight'
      BY <1>4, <1>5, <1>6, SlotChanges
  <1>8. TypeOK'
      BY <1>1, <1>3, <1>7 DEF AccountInv, TypeOK, UserIds
  <1>9. Spent' /\ AccountsDiffer'
      BY <1>1, <1>3 DEF AccountInv, TypeOK, Spent, AccountsDiffer, UserIds
  <1>10. TokensWorkOnce'
      <2>1. verified' \subseteq {tokens'[t] : t \in taken'}
          <3> SUFFICES ASSUME NEW v \in verified PROVE \E t \in taken : tokens'[t] = v
              BY <1>1
          <3>1. PICK t \in taken : tokens[t] = v
              BY DEF AccountInv, TokensWorkOnce
          <3> QED BY <1>3, <3>1 DEF AccountInv, TypeOK
      <2>2. \A p \in Requests : At(p, "verify")' => At(p, "verify") /\ reqs'[p] = reqs[p]
          BY <1>5, <1>6 DEF AccountInv, TypeOK, At, Idle
      <2> QED BY <2>1, <2>2 DEF AccountInv, TokensWorkOnce
  <1>11. EveryoneIsMailed'
      BY <1>1, <1>4, <1>5, <1>6, MailedStays
  <1> QED BY <1>7, <1>8, <1>9, <1>10, <1>11 DEF AccountInv

\* The mail that ends a registration carries a token of its account.
LEMMA QueueMailKeeps ==
  ASSUME AccountInv, NEW r \in Requests, QueueMail(r)
  PROVE  AccountInv'
  <1>1. UNCHANGED <<users, verified, tokens, keys, taken, resends, hits, cut>>
        /\ jobs' = jobs \cup {[token |-> reqs[r].token, tried |-> 0, pc |-> "waiting"]}
        /\ mailed' = mailed \cup {reqs[r].token}
        /\ reqs' = [reqs EXCEPT ![r] = Idle] /\ At(r, "queue")
      BY DEF QueueMail, userVars, tokenVars, limitVars, Return, Become
  <1>2. reqs[r].token \in TokenIds /\ tokens[reqs[r].token] = reqs[r].user
      BY <1>1 DEF AccountInv, TypeOK, InFlight, Fits, At, Idle
  <1>3. Grows
      BY <1>1 DEF Grows, UserIds, TokenIds
  <1>4. reqs' \in [Requests -> {Idle} \cup Request] /\ InFlight'
      BY <1>1, <1>3, SlotChanges
  <1>5. TypeOK'
      <2>1. reqs[r].token \in Nat
          BY <1>2 DEF AccountInv, TypeOK, TokenIds
      <2>2. jobs' \subseteq Job
          BY <1>1, <2>1 DEF AccountInv, TypeOK, Job
      <2> QED BY <1>1, <1>2, <1>4, <2>2 DEF AccountInv, TypeOK, UserIds, TokenIds
  <1>6. Spent' /\ AccountsDiffer'
      BY <1>1 DEF AccountInv, Spent, AccountsDiffer, UserIds
  <1>7. TokensWorkOnce'
      BY <1>1 DEF AccountInv, TypeOK, TokensWorkOnce, At, Idle
  <1>8. EveryoneIsMailed'
      BY <1>1, <1>2, <1>3, MailedStays
  <1> QED BY <1>4, <1>5, <1>6, <1>7, <1>8 DEF AccountInv

\* GETDEL gives a token to the one request that finds its key.
LEMMA TakeTokenKeeps ==
  ASSUME AccountInv, NEW r \in Requests, NEW t \in TokenIds, TakeToken(r, t)
  PROVE  AccountInv'
  <1> PICK q : q = [Call("verify", "verify") EXCEPT !.token = t]
      OBVIOUS
  <1>1. UNCHANGED <<users, verified, tokens, resends, hits, jobs, mailed, cut>>
        /\ t \in keys /\ keys' = keys \ {t} /\ taken' = taken \cup {t}
        /\ reqs[r] = Idle /\ reqs' = [reqs EXCEPT ![r] = q]
      BY DEF TakeToken, userVars, limitVars, mailVars, Become
  <1>2. Grows
      BY <1>1 DEF Grows, UserIds, TokenIds
  <1>3. q \in Request /\ Fits(q)' /\ q.token = t
      <2>1. t \in Nat
          BY DEF AccountInv, TypeOK, TokenIds
      <2> QED BY <1>1, <2>1 DEF Call, Request, Steps, Fits
  <1>4. reqs' \in [Requests -> {Idle} \cup Request] /\ InFlight'
      BY <1>1, <1>2, <1>3, SlotChanges
  <1>5. TypeOK'
      BY <1>1, <1>4 DEF AccountInv, TypeOK, UserIds, TokenIds
  <1>6. Spent' /\ AccountsDiffer'
      BY <1>1 DEF AccountInv, Spent, AccountsDiffer, UserIds
  <1>7. TokensWorkOnce'
      <2>1. \A p \in Requests : p # r => reqs'[p] = reqs[p]
          BY <1>1 DEF AccountInv, TypeOK
      <2>2. reqs'[r].token = t
          BY <1>1, <1>3 DEF AccountInv, TypeOK
      <2>3. \A p \in Requests : At(p, "verify") => reqs[p].token \in taken
          BY DEF AccountInv, InFlight, Fits, At, Idle
      <2>4. t \notin taken
          BY <1>1 DEF AccountInv, Spent
      <2> QED BY <1>1, <2>1, <2>2, <2>3, <2>4 DEF AccountInv, TokensWorkOnce, At
  <1>8. EveryoneIsMailed'
      BY <1>1, <1>2, MailedStays
  <1> QED BY <1>4, <1>5, <1>6, <1>7, <1>8 DEF AccountInv

\* The account of a token that was taken is verified.
LEMMA VerifyKeeps ==
  ASSUME AccountInv, NEW r \in Requests, Verify(r)
  PROVE  AccountInv'
  <1>1. UNCHANGED <<users, tokens, keys, taken, resends, hits, jobs, mailed, cut>>
        /\ verified' = verified \cup {tokens[reqs[r].token]}
        /\ reqs' = [reqs EXCEPT ![r] = Idle] /\ At(r, "verify")
      BY DEF Verify, tokenVars, limitVars, mailVars, Return, Become
  <1>2. reqs[r].token \in taken /\ reqs[r].op = "verify"
      BY <1>1 DEF AccountInv, TypeOK, InFlight, Fits, At, Idle
  <1>3. tokens[reqs[r].token] \in UserIds
      BY <1>2 DEF AccountInv, TypeOK, TokenIds
  <1>4. Grows
      BY <1>1 DEF Grows, UserIds, TokenIds
  <1>5. reqs' \in [Requests -> {Idle} \cup Request] /\ InFlight'
      BY <1>1, <1>4, SlotChanges
  <1>6. TypeOK'
      BY <1>1, <1>3, <1>5 DEF AccountInv, TypeOK, UserIds, TokenIds
  <1>7. Spent' /\ AccountsDiffer'
      BY <1>1 DEF AccountInv, Spent, AccountsDiffer, UserIds
  <1>8. TokensWorkOnce'
      <2>1. verified' \subseteq {tokens'[t] : t \in taken'}
          BY <1>1, <1>2 DEF AccountInv, TokensWorkOnce
      <2>2. \A p \in Requests : At(p, "verify")' => At(p, "verify") /\ reqs'[p] = reqs[p]
          BY <1>1 DEF AccountInv, TypeOK, At, Idle
      <2> QED BY <2>1, <2>2 DEF AccountInv, TokensWorkOnce
  <1>9. EveryoneIsMailed'
      BY <1>1, <1>2, <1>4, MailedStays
  <1> QED BY <1>5, <1>6, <1>7, <1>8, <1>9 DEF AccountInv

\* A second mail is asked for by an account that exists.
LEMMA ResendFindKeeps ==
  ASSUME AccountInv, NEW r \in Requests, NEW u \in UserIds, ResendFind(r, u)
  PROVE  AccountInv'
  <1> PICK q : q = [Call("resend", "count") EXCEPT !.user = u]
      OBVIOUS
  <1>1. UNCHANGED <<users, verified, tokens, keys, taken, resends, hits, jobs, mailed, cut>>
        /\ reqs[r] = Idle /\ reqs' = [reqs EXCEPT ![r] = q]
      BY DEF ResendFind, userVars, tokenVars, limitVars, mailVars, Become
  <1>2. Grows
      BY <1>1 DEF Grows, UserIds, TokenIds
  <1>3. q \in Request /\ Fits(q)' /\ q.pc = "count"
      <2>1. u \in Nat
          BY DEF AccountInv, TypeOK, UserIds
      <2> QED BY <1>1, <2>1 DEF Call, Request, Steps, Fits, UserIds
  <1>4. reqs' \in [Requests -> {Idle} \cup Request] /\ InFlight'
      BY <1>1, <1>2, <1>3, SlotChanges
  <1>5. TypeOK'
      BY <1>1, <1>4 DEF AccountInv, TypeOK, UserIds, TokenIds
  <1>6. Spent' /\ AccountsDiffer'
      BY <1>1 DEF AccountInv, Spent, AccountsDiffer, UserIds
  <1>7. TokensWorkOnce'
      BY <1>1, <1>3 DEF AccountInv, TypeOK, TokensWorkOnce, At
  <1>8. EveryoneIsMailed'
      BY <1>1, <1>2, MailedStays
  <1> QED BY <1>4, <1>5, <1>6, <1>7, <1>8 DEF AccountInv

\* Counting refuses the request or lets it make a token.
LEMMA CountResendKeeps ==
  ASSUME AccountInv, NEW r \in Requests, CountResend(r)
  PROVE  AccountInv'
  <1> DEFINE u == reqs[r].user
  <1>1. UNCHANGED <<users, verified, tokens, keys, taken, hits, jobs, mailed, cut>>
        /\ resends' = [resends EXCEPT ![u] = IF @ > MaxResends THEN @ ELSE @ + 1]
        /\ At(r, "count")
      BY DEF CountResend, userVars, tokenVars, mailVars
  <1>2. /\ reqs[r] \in Request /\ reqs[r] # Idle
        /\ reqs[r].user \in UserIds /\ reqs[r].op = "resend"
      BY <1>1 DEF AccountInv, TypeOK, InFlight, Fits, At, Idle
  <1>3. PICK q \in {Idle, [reqs[r] EXCEPT !.pc = "store"]} :
          reqs' = [reqs EXCEPT ![r] = q]
      BY DEF CountResend, Return, Become, Goto
  <1>4. Grows
      BY <1>1 DEF Grows, UserIds, TokenIds
  <1>5. q \in {Idle} \cup Request /\ (q # Idle => Fits(q)') /\ (q # Idle => q.pc = "store")
      BY <1>1, <1>2, <1>3 DEF Request, Steps, Fits, UserIds
  <1>6. reqs' \in [Requests -> {Idle} \cup Request] /\ InFlight'
      BY <1>3, <1>4, <1>5, SlotChanges
  <1>7. TypeOK'
      <2>1. resends' \in Seq(Nat) /\ Len(resends') = Len(resends)
          <3>1. PICK n : n = IF resends[u] > MaxResends THEN resends[u] ELSE resends[u] + 1
              OBVIOUS
          <3>2. resends \in Seq(Nat) /\ u \in DOMAIN resends
              BY <1>2 DEF AccountInv, TypeOK, UserIds
          <3>3. n \in Nat
              BY <3>1, <3>2, LimitsAssumption
          <3>4. resends' = [resends EXCEPT ![u] = n]
              BY <1>1, <3>1
          <3> QED BY <3>2, <3>3, <3>4, UpdateFacts
      <2> QED BY <1>1, <1>6, <2>1 DEF AccountInv, TypeOK, UserIds, TokenIds
  <1>8. Spent' /\ AccountsDiffer'
      BY <1>1 DEF AccountInv, Spent, AccountsDiffer, UserIds
  <1>9. TokensWorkOnce'
      BY <1>1, <1>3, <1>5 DEF AccountInv, TypeOK, TokensWorkOnce, At, Idle
  <1>10. EveryoneIsMailed'
      BY <1>1, <1>2, <1>3, <1>4, MailedStays
  <1> QED BY <1>6, <1>7, <1>8, <1>9, <1>10 DEF AccountInv

\* A registration that is cut short is remembered.
LEMMA AbortKeeps ==
  ASSUME AccountInv, NEW r \in Requests, Abort(r)
  PROVE  AccountInv'
  <1>1. UNCHANGED <<users, verified, tokens, keys, taken, resends, hits, jobs, mailed>>
        /\ cut' = (IF reqs[r].op = "register" THEN cut \cup {reqs[r].user} ELSE cut)
        /\ reqs[r] # Idle /\ reqs' = [reqs EXCEPT ![r] = Idle]
      BY DEF Abort, userVars, tokenVars, limitVars, mailVars, Return, Become
  <1>2. Grows
      BY <1>1 DEF Grows, UserIds, TokenIds
  <1>3. reqs' \in [Requests -> {Idle} \cup Request] /\ InFlight'
      BY <1>1, <1>2, SlotChanges
  <1>4. reqs[r] \in Request /\ Fits(reqs[r])
      BY <1>1 DEF AccountInv, TypeOK, InFlight
  <1>5. cut' \subseteq UserIds \cup {0}
      BY <1>1, <1>4 DEF AccountInv, TypeOK, Request, Steps, Fits
  <1>6. TypeOK'
      BY <1>1, <1>3, <1>5 DEF AccountInv, TypeOK, UserIds, TokenIds
  <1>7. Spent' /\ AccountsDiffer'
      BY <1>1 DEF AccountInv, Spent, AccountsDiffer, UserIds
  <1>8. TokensWorkOnce'
      BY <1>1 DEF AccountInv, TypeOK, TokensWorkOnce, At, Idle
  <1>9. EveryoneIsMailed'
      BY <1>1, <1>2, MailedStays
  <1> QED BY <1>3, <1>6, <1>7, <1>8, <1>9 DEF AccountInv

\* What leaves the handlers, the accounts and the tokens alone, or only drops
\* keys, keeps the invariant if it keeps the types.
LEMMA AroundKeeps ==
  ASSUME AccountInv,
         UNCHANGED <<users, verified, tokens, taken, mailed, cut, reqs>>,
         keys' \subseteq keys, jobs' \subseteq Job,
         resends' \in Seq(Nat), Len(resends') = Len(resends),
         hits' \in [n : Nat, timed : BOOLEAN]
  PROVE  AccountInv'
  <1>1. TypeOK'
      BY DEF AccountInv, TypeOK, UserIds, TokenIds
  <1>2. InFlight'
      BY DEF AccountInv, InFlight, Fits, UserIds, TokenIds
  <1>3. Spent' /\ AccountsDiffer'
      BY DEF AccountInv, Spent, AccountsDiffer, UserIds
  <1>4. TokensWorkOnce' /\ EveryoneIsMailed'
      BY DEF AccountInv, TokensWorkOnce, At, EveryoneIsMailed, Registering, UserIds
  <1> QED BY <1>1, <1>2, <1>3, <1>4 DEF AccountInv

\* The worker and the expiry of keys.
LEMMA ExpiryKeeps ==
  ASSUME AccountInv,
         \/ HitsExpire
         \/ \E t \in TokenIds : TokenExpire(t)
         \/ \E u \in UserIds : ResendsExpire(u)
         \/ \E j \in jobs : StartJob(j) \/ FailJob(j)
  PROVE  AccountInv'
  <1>1. /\ jobs \subseteq Job /\ resends \in Seq(Nat)
        /\ hits \in [n : Nat, timed : BOOLEAN]
      BY DEF AccountInv, TypeOK
  <1>2. CASE HitsExpire
      <2>1. hits' \in [n : Nat, timed : BOOLEAN]
          BY <1>2 DEF HitsExpire
      <2> QED BY <1>1, <1>2, <2>1, AroundKeeps
              DEF HitsExpire, userVars, tokenVars, mailVars
  <1>3. ASSUME NEW t \in TokenIds, TokenExpire(t) PROVE AccountInv'
      BY <1>1, <1>3, AroundKeeps DEF TokenExpire, userVars, limitVars, mailVars
  <1>4. ASSUME NEW u \in UserIds, ResendsExpire(u) PROVE AccountInv'
      <2>1. resends' \in Seq(Nat) /\ Len(resends') = Len(resends)
          <3>1. u \in DOMAIN resends
              BY DEF AccountInv, TypeOK, UserIds
          <3> QED BY <1>1, <1>4, <3>1, UpdateFacts DEF ResendsExpire
      <2> QED BY <1>1, <1>4, <2>1, AroundKeeps
              DEF ResendsExpire, userVars, tokenVars, mailVars
  <1>5. ASSUME NEW j \in jobs, StartJob(j) \/ FailJob(j) PROVE AccountInv'
      <2>1. j \in Job
          BY <1>1
      <2>2. [j EXCEPT !.pc = "active"] \in Job
          BY <2>1 DEF Job
      <2>3. [j EXCEPT !.pc = "waiting", !.tried = @ + 1] \in Job
          <3> PICK n : n = j.tried + 1
              OBVIOUS
          <3>1. n \in Nat
              BY <2>1 DEF Job
          <3>2. [j EXCEPT !.pc = "waiting", !.tried = n] \in Job
              BY <2>1, <3>1 DEF Job
          <3> QED BY <3>2
      <2>4. jobs' \subseteq Job
          BY <1>1, <1>5, <2>2, <2>3 DEF StartJob, FailJob
      <2> QED BY <1>1, <1>5, <2>4, AroundKeeps
              DEF StartJob, FailJob, userVars, tokenVars, limitVars
  <1> QED BY <1>2, <1>3, <1>4, <1>5

-----------------------------------------------------------------------------
\* Every step keeps the invariant.
LEMMA AccountInvNext == AccountInv /\ [Next]_vars => AccountInv'
  <1> SUFFICES ASSUME AccountInv, [Next]_vars PROVE AccountInv'
      OBVIOUS
  <1>1. ASSUME NEW r \in Requests, Arrive(r) PROVE AccountInv'
      BY <1>1, RegisterKeeps, TakeTokenKeeps, ResendFindKeeps DEF Arrive
  <1>2. ASSUME NEW r \in Requests, Proceed(r) PROVE AccountInv'
      BY <1>2, FindTakenKeeps, CreateKeeps, StoreTokenKeeps, QueueMailKeeps,
         VerifyKeeps, CountResendKeeps DEF Proceed
  <1>3. ASSUME NEW r \in Requests, Abort(r) PROVE AccountInv'
      BY <1>3, AbortKeeps
  <1>4. CASE UNCHANGED vars
      BY <1>4, AroundKeeps
      DEF vars, userVars, tokenVars, limitVars, mailVars, AccountInv, TypeOK
  <1> QED BY <1>1, <1>2, <1>3, <1>4, ExpiryKeeps DEF Next

\* The inductive invariant of Accounts.
LEMMA AccountInvHolds == Spec => []AccountInv
  BY AccountInvInit, AccountInvNext, PTL DEF Spec

\* TypeOK: a token is one of an account that exists, whoever lost the race.
THEOREM AccountTypes == Spec => []TypeOK
  <1>1. AccountInv => TypeOK
      BY DEF AccountInv
  <1> QED BY <1>1, AccountInvHolds, PTL

\* AccountsDiffer: no two accounts share a name or an address, as the insert is
\* what decides and not the look before it.
THEOREM NamesAreUnique == Spec => []AccountsDiffer
  <1>1. AccountInv => AccountsDiffer
      BY DEF AccountInv
  <1> QED BY <1>1, AccountInvHolds, PTL

\* TokensWorkOnce: a token is spent on one request and verifies its own account.
THEOREM TokensAreSpent == Spec => []TokensWorkOnce
  <1>1. AccountInv => TokensWorkOnce
      BY DEF AccountInv
  <1> QED BY <1>1, AccountInvHolds, PTL

\* EveryoneIsMailed: a registration nobody cut short has queued its mail.
THEOREM MailsAreQueued == Spec => []EveryoneIsMailed
  <1>1. AccountInv => EveryoneIsMailed
      BY DEF AccountInv
  <1> QED BY <1>1, AccountInvHolds, PTL
=============================================================================
