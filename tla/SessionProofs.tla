--------------------------- MODULE SessionProofs ---------------------------
(***************************************************************************)
(* Proofs about Sessions, for any number of overlapping requests, refresh  *)
(* tokens and reset links; and, with the history variables of MCSessions,  *)
(* about the requests that do not overlap and the sessions logged out.     *)
(***************************************************************************)
EXTENDS MCSessions, FiniteSetTheorems, TLAPS

\* A refresh or logout under way holds a token that has been issued.
Known ==
  \A r \in Requests :
    /\ reqs[r].pc \in {"lock?", "forgive"} => reqs[r].op = "login"
    /\ reqs[r].pc \in {"revoke", "issue"} /\ reqs[r].op # "login" =>
         reqs[r].token \in TokenIds

TypeInv == TypeOK /\ Known

\* A step that fills or empties the slot r keeps the slots' type.
LEMMA SlotType ==
  ASSUME NEW r \in Requests, reqs \in [Requests -> {Idle} \cup Request],
         NEW q \in {Idle} \cup Request, Become(r, q)
  PROVE  /\ reqs' \in [Requests -> {Idle} \cup Request]
         /\ reqs'[r] = q
         /\ \A x \in Requests : x # r => reqs'[x] = reqs[x]
  BY DEF Become

\* A slot waiting at a step holds a request.
LEMMA Busy ==
  ASSUME NEW r \in Requests, reqs \in [Requests -> {Idle} \cup Request],
         reqs[r].pc # "idle"
  PROVE  reqs[r] \in Request
  BY DEF Idle

\* A step that only moves the request in r along.
LEMMA GotoType ==
  ASSUME NEW r \in Requests, NEW pc \in Steps,
         reqs \in [Requests -> {Idle} \cup Request],
         reqs[r] \in Request, Goto(r, pc)
  PROVE  /\ reqs' \in [Requests -> {Idle} \cup Request]
         /\ reqs'[r] = [reqs[r] EXCEPT !.pc = pc]
         /\ reqs'[r] \in Request
         /\ \A x \in Requests : x # r => reqs'[x] = reqs[x]
  BY DEF Goto, Request

-----------------------------------------------------------------------------
(* Types.                                                                  *)

LEMMA TypeInit == Init => TypeInv
  BY DEF Init, TypeInv, TypeOK, Known, TokenIds, Idle

LEMMA TypeStep == TypeInv /\ [Next]_vars => TypeInv'
<1> SUFFICES ASSUME TypeInv, [Next]_vars PROVE TypeInv'
  OBVIOUS
<1> USE DEF TypeInv, TypeOK, TokenIds
<1> reqs \in [Requests -> {Idle} \cup Request]
  OBVIOUS
<1>1. ASSUME NEW r \in Requests, NEW right \in BOOLEAN, LoginFind(r, right)
      PROVE  TypeInv'
  <2> DEFINE q == [Call("login", "lock?") EXCEPT !.right = right, !.pass = password]
  <2>1. q \in Request /\ q.op = "login" /\ q.pc = "lock?"
    BY DEF Call, Request, Steps, AllOperations
  <2>2. Become(r, q)
    BY <1>1 DEF LoginFind
  <2> HIDE DEF q
  <2>3. /\ reqs' \in [Requests -> {Idle} \cup Request] /\ reqs'[r] = q
        /\ \A x \in Requests : x # r => reqs'[x] = reqs[x]
    BY <2>1, <2>2, SlotType
  <2> QED
    BY <1>1, <2>1, <2>3 DEF LoginFind, Known, lockVars, tokenVars, linkVars
<1>2. ASSUME NEW r \in Requests, NEW op \in {"refresh", "logout"}, NEW t \in TokenIds,
             Validate(r, op, t)
      PROVE  TypeInv'
  <2> DEFINE q == [Call(op, "revoke") EXCEPT !.token = t]
  <2>1. t \in Nat
    BY SMT
  <2>2. q \in Request /\ q.token = t /\ q.pc = "revoke"
    BY <2>1 DEF Call, Request, Steps, AllOperations
  <2>3. Become(r, q)
    BY <1>2 DEF Validate
  <2> HIDE DEF q
  <2>4. /\ reqs' \in [Requests -> {Idle} \cup Request] /\ reqs'[r] = q
        /\ \A x \in Requests : x # r => reqs'[x] = reqs[x]
    BY <2>2, <2>3, SlotType
  <2> QED
    BY <1>2, <2>2, <2>4 DEF Validate, Known, lockVars, tokenVars, linkVars
<1>3. ASSUME NEW r \in Requests, Ask(r) \/ UseLink(r) PROVE TypeInv'
  <2> PICK q : q \in {Call("forgot", "mint"), Call("reset", "update")} /\ Become(r, q)
    BY <1>3 DEF Ask, UseLink
  <2>1. q \in Request /\ q.pc \notin {"lock?", "forgive", "revoke", "issue"}
    <3>1. CASE q = Call("forgot", "mint")
      BY <3>1 DEF Call, Request, Steps, AllOperations
    <3>2. CASE q = Call("reset", "update")
      BY <3>2 DEF Call, Request, Steps, AllOperations
    <3> QED
      BY <3>1, <3>2
  <2>2. /\ reqs' \in [Requests -> {Idle} \cup Request] /\ reqs'[r] = q
        /\ \A x \in Requests : x # r => reqs'[x] = reqs[x]
    BY <2>1, SlotType
  <2>3. asks' \in Nat /\ links' \in Nat /\ used' \in Nat
    BY <1>3 DEF Ask, UseLink, lockVars, tokenVars, linkVars
  <2> QED
    BY <1>3, <2>1, <2>2, <2>3 DEF Ask, UseLink, Known, lockVars, tokenVars, linkVars
<1>4. ASSUME NEW r \in Requests, Proceed(r) PROVE TypeInv'
  <2>1. reqs[r] \in Request
    <3>1. reqs[r].pc # "idle"
      BY <1>4 DEF Proceed, At, LockCheck, CountFailure, SetLock, Forgive, Issue, Revoke,
                  MintLink, UpdatePassword, ScanStart, ScanEnd, DeleteFound
    <3> QED
      BY <3>1, Busy
  <2>2. CASE Issue(r)
    <3>1. Return(r) /\ Become(r, Idle)
      BY <2>2 DEF Issue, Return
    <3>2. /\ reqs' \in [Requests -> {Idle} \cup Request] /\ reqs'[r] = Idle
          /\ \A x \in Requests : x # r => reqs'[x] = reqs[x]
      BY <3>1, SlotType
    <3>3. PICK token \in Token : tokens' = Append(tokens, token)
      <4>1. CASE reqs[r].op = "refresh"
        <5>1. reqs[r].token \in TokenIds
          BY <2>2, <4>1 DEF Issue, At, Known
        <5>2. tokens[reqs[r].token] \in Token
          BY <5>1
        <5>3. tokens' = Append(tokens, [session |-> tokens[reqs[r].token].session,
                                        pass |-> tokens[reqs[r].token].pass,
                                        timely |-> tokens[reqs[r].token].pass = password])
          BY <2>2, <4>1 DEF Issue
        <5> QED
          BY <5>2, <5>3 DEF Token
      <4>2. CASE reqs[r].op # "refresh"
        <5>1. tokens' = Append(tokens, [session |-> Len(tokens) + 1, pass |-> reqs[r].pass,
                                        timely |-> reqs[r].pass = password])
          BY <2>2, <4>2 DEF Issue
        <5>2. reqs[r].pass \in Nat /\ Len(tokens) \in Nat
          BY <2>1 DEF Request
        <5>3. PICK b \in BOOLEAN : b = (reqs[r].pass = password)
          OBVIOUS
        <5>4. [session |-> Len(tokens) + 1, pass |-> reqs[r].pass, timely |-> b] \in Token
          BY <5>2 DEF Token
        <5> QED
          BY <5>1, <5>3, <5>4
      <4> QED
        BY <4>1, <4>2
    <3>4. tokens' \in Seq(Token) /\ TokenIds \subseteq TokenIds' /\ Len(tokens) + 1 \in TokenIds'
      BY <3>3
    <3>5. keys' \subseteq TokenIds'
      BY <2>2, <3>4 DEF Issue
    <3>6. Known'
      BY <3>2, <3>4 DEF Known, Idle
    <3> QED
      BY <2>2, <3>2, <3>4, <3>5, <3>6 DEF Issue, lockVars, linkVars
  <2>3. CASE LockCheck(r) \/ CountFailure(r) \/ SetLock(r) \/ Forgive(r)
    <3>3. CASE Forgive(r)
      <4>1. /\ reqs' \in [Requests -> {Idle} \cup Request]
            /\ reqs'[r] = [reqs[r] EXCEPT !.pc = "issue"]
            /\ \A x \in Requests : x # r => reqs'[x] = reqs[x]
        BY <2>1, <3>3, GotoType DEF Steps, Forgive
      <4>2. reqs'[r].op = "login" /\ reqs'[r].pc = "issue"
        BY <2>1, <3>3, <4>1 DEF Known, Forgive, At, Request
      <4>3. Known'
        BY <3>3, <4>1, <4>2 DEF Known, Forgive, tokenVars
      <4> QED
        BY <3>3, <4>1, <4>3 DEF Forgive, DropAttempts, lockVars, tokenVars, linkVars
    <3>1. CASE Return(r)
      <4>1. /\ reqs' \in [Requests -> {Idle} \cup Request] /\ reqs'[r] = Idle
            /\ \A x \in Requests : x # r => reqs'[x] = reqs[x]
        BY <3>1, SlotType DEF Return
      <4> QED
        BY <2>3, <4>1 DEF LockCheck, CountFailure, SetLock, Forgive, DropAttempts, Known, Idle,
                          lockVars, tokenVars, linkVars
    <3>2. CASE \E pc \in {"forgive", "count", "lock"} : Goto(r, pc)
      <4>1. /\ reqs' \in [Requests -> {Idle} \cup Request]
            /\ reqs'[r].op = reqs[r].op
            /\ reqs'[r].pc \in {"forgive", "count", "lock"}
            /\ \A x \in Requests : x # r => reqs'[x] = reqs[x]
        <5>1. PICK pc \in {"forgive", "count", "lock"} : Goto(r, pc)
          BY <3>2
        <5>2. pc \in Steps
          BY DEF Steps
        <5> QED
          BY <2>1, <5>1, <5>2, GotoType DEF Request
      <4>2. CASE LockCheck(r)
        <5>1. Known'
          BY <4>1, <4>2 DEF Known, LockCheck, At, tokenVars
        <5> QED
          BY <4>1, <4>2, <5>1 DEF LockCheck, lockVars, tokenVars, linkVars
      <4>3. CASE CountFailure(r)
        <5>1. reqs'[r].pc # "forgive"
          BY <4>3, <2>1, <4>1 DEF CountFailure, Goto, Return, Become, Idle, Request
        <5> QED
          BY <4>1, <4>3, <5>1 DEF CountFailure, Known, tokenVars, linkVars
      <4> QED
        BY <2>3, <4>1, <4>2, <4>3, <3>3 DEF SetLock, Return, Become, Idle
    <3> QED
      BY <2>3, <3>1, <3>2, <3>3 DEF LockCheck, CountFailure, SetLock
  <2>4. CASE Revoke(r)
    <3>1. CASE Return(r)
      <4>1. /\ reqs' \in [Requests -> {Idle} \cup Request] /\ reqs'[r] = Idle
            /\ \A x \in Requests : x # r => reqs'[x] = reqs[x]
        BY <3>1, SlotType DEF Return
      <4> QED
        BY <2>4, <4>1 DEF Revoke, Known, Idle, lockVars, linkVars
    <3>2. CASE Goto(r, "issue")
      <4>1. /\ reqs' \in [Requests -> {Idle} \cup Request]
            /\ reqs'[r] = [reqs[r] EXCEPT !.pc = "issue"]
            /\ \A x \in Requests : x # r => reqs'[x] = reqs[x]
        BY <2>1, <3>2, GotoType DEF Steps
      <4>2. Known'
        BY <2>1, <2>4, <4>1 DEF Known, Revoke, At, Request
      <4> QED
        BY <2>4, <4>1, <4>2 DEF Revoke, lockVars, linkVars
    <3> QED
      BY <2>4, <3>1, <3>2 DEF Revoke
  <2>5. CASE MintLink(r) \/ DeleteFound(r)
    <3>1. /\ reqs' \in [Requests -> {Idle} \cup Request] /\ reqs'[r] = Idle
          /\ \A x \in Requests : x # r => reqs'[x] = reqs[x]
      BY <2>5, SlotType DEF Return, MintLink, DeleteFound
    <3> QED
      BY <2>5, <3>1 DEF MintLink, DeleteFound, Known, Idle, lockVars, tokenVars, linkVars
  <2>6. CASE UpdatePassword(r)
    <3>1. /\ reqs' \in [Requests -> {Idle} \cup Request] /\ reqs'[r].pc = "scan"
          /\ \A x \in Requests : x # r => reqs'[x] = reqs[x]
      BY <2>1, <2>6, GotoType DEF UpdatePassword, Steps, Request
    <3> QED
      BY <2>6, <3>1 DEF UpdatePassword, Known, lockVars, tokenVars, linkVars
  <2>7. CASE ScanStart(r) \/ ScanEnd(r)
    <3>1. PICK pc \in {"scanned", "delete"}, seen \in SUBSET Nat :
            Become(r, [reqs[r] EXCEPT !.pc = pc, !.seen = seen])
      <4>1. keys \subseteq Nat
        OBVIOUS
      <4>2. CASE ScanStart(r)
        BY <4>1, <4>2 DEF ScanStart
      <4>3. CASE ScanEnd(r)
        <5>1. PICK late \in SUBSET (keys \ reqs[r].seen) :
                Become(r, [reqs[r] EXCEPT !.pc = "delete", !.seen = @ \cup late])
          BY <4>3 DEF ScanEnd
        <5>2. reqs[r].seen \cup late \in SUBSET Nat
          BY <2>1, <4>1 DEF Request
        <5>3. [reqs[r] EXCEPT !.pc = "delete", !.seen = @ \cup late]
                = [reqs[r] EXCEPT !.pc = "delete", !.seen = reqs[r].seen \cup late]
          BY <2>1 DEF Request
        <5> QED
          BY <5>1, <5>2, <5>3
      <4> QED
        BY <2>7, <4>2, <4>3
    <3>2. PICK q : q = [reqs[r] EXCEPT !.pc = pc, !.seen = seen]
      OBVIOUS
    <3>3. q \in Request /\ q.pc \notin {"lock?", "forgive", "revoke", "issue"}
      BY <2>1, <3>2 DEF Request, Steps
    <3>4. /\ reqs' \in [Requests -> {Idle} \cup Request] /\ reqs'[r] = q
          /\ \A x \in Requests : x # r => reqs'[x] = reqs[x]
      BY <3>1, <3>2, <3>3, SlotType
    <3> QED
      BY <2>7, <3>3, <3>4 DEF ScanStart, ScanEnd, Known, lockVars, tokenVars, linkVars
  <2> QED
    BY <1>4, <2>2, <2>3, <2>4, <2>5, <2>6, <2>7 DEF Proceed
<1>5. ASSUME \/ \E t \in TokenIds : KeyExpire(t)
             \/ AttemptsExpire \/ LockExpire \/ AsksExpire \/ LinkExpire
             \/ UNCHANGED vars
      PROVE  TypeInv'
  BY <1>5 DEF KeyExpire, AttemptsExpire, DropAttempts, LockExpire, AsksExpire, LinkExpire, vars,
              lockVars, tokenVars, linkVars, Known
<1> QED
  BY <1>1, <1>2, <1>3, <1>4, <1>5 DEF Next, Arrive

LEMMA TypeAlways == Spec => []TypeInv
  BY TypeInit, TypeStep, PTL DEF Spec

\* Every variable of Sessions keeps its type, whatever overlaps: what the
\* theorems below start from.
THEOREM SessionTypes == Spec => []TypeOK
  BY TypeAlways, PTL DEF TypeInv

-----------------------------------------------------------------------------
(* The lockout.                                                            *)

\* A step of the request in r touches no other slot.
LEMMA OneSlot ==
  ASSUME TypeInv, NEW r \in Requests, Arrive(r) \/ Proceed(r),
         NEW x \in Requests, x # r
  PROVE  reqs'[x] = reqs[x]
<1>1. (\E q : Become(r, q)) \/ \E pc : Goto(r, pc)
  <2>1. CASE Arrive(r)
    BY <2>1 DEF Arrive, LoginFind, Validate, Ask, UseLink
  <2>2. CASE LockCheck(r) \/ CountFailure(r) \/ SetLock(r) \/ Forgive(r) \/ Issue(r)
    BY <2>2 DEF LockCheck, CountFailure, SetLock, Forgive, Issue, Return
  <2>3. CASE Revoke(r) \/ MintLink(r) \/ UpdatePassword(r)
    BY <2>3 DEF Revoke, MintLink, UpdatePassword, Return
  <2>4. CASE ScanStart(r) \/ ScanEnd(r) \/ DeleteFound(r)
    BY <2>4 DEF ScanStart, ScanEnd, DeleteFound, Return
  <2> QED
    BY <2>1, <2>2, <2>3, <2>4 DEF Proceed
<1> QED
  BY <1>1 DEF TypeInv, TypeOK, Become, Goto

\* A request starts in an empty slot, at one of the first steps.
LEMMA ArrivesIdle ==
  ASSUME NEW r \in Requests, reqs \in [Requests -> {Idle} \cup Request], Arrive(r)
  PROVE  reqs[r].pc = "idle" /\ (reqs'[r].pc = "update" => UseLink(r))
<1>1. CASE \E right \in BOOLEAN : LoginFind(r, right)
  <2>1. PICK right \in BOOLEAN : LoginFind(r, right)
    BY <1>1
  <2>2. reqs[r].pc = "idle"
    BY <2>1 DEF LoginFind, Enabled, Idle
  <2>3. reqs'[r] = [Call("login", "lock?") EXCEPT !.right = right, !.pass = password]
    BY <2>1 DEF LoginFind, Become
  <2>4. reqs'[r].pc = "lock?"
    BY <2>3 DEF Call
  <2> QED
    BY <2>2, <2>4
<1>2. CASE \E op \in {"refresh", "logout"}, t \in TokenIds : Validate(r, op, t)
  <2>1. PICK op \in {"refresh", "logout"}, t \in TokenIds : Validate(r, op, t)
    BY <1>2
  <2>2. reqs[r].pc = "idle"
    BY <2>1 DEF Validate, Enabled, Idle
  <2>3. reqs'[r] = [Call(op, "revoke") EXCEPT !.token = t]
    BY <2>1 DEF Validate, Become
  <2>4. reqs'[r].pc = "revoke"
    BY <2>3 DEF Call
  <2> QED
    BY <2>2, <2>4
<1>3. CASE Ask(r)
  BY <1>3 DEF Ask, Enabled, Idle, Become, Call
<1>4. CASE UseLink(r)
  BY <1>4 DEF UseLink, Enabled, Idle
<1> QED
  BY <1>1, <1>2, <1>3, <1>4 DEF Arrive

\* A full counter is never left to itself: the lock key outlives it, or a
\* login is about to set the lock.
LockInv ==
  attempts >= Threshold => lock = "outlives" \/ \E r \in Requests : At(r, "lock")

LEMMA LockStep == TypeInv /\ LockInv /\ [Next]_vars => LockInv'
<1> SUFFICES ASSUME TypeInv, LockInv, [Next]_vars PROVE LockInv'
  OBVIOUS
<1> USE DEF TypeInv, TypeOK
<1>1. ASSUME NEW r \in Requests, Arrive(r) \/ Proceed(r), reqs[r].pc # "lock",
             UNCHANGED lockVars
      PROVE  LockInv'
  BY <1>1, OneSlot DEF LockInv, lockVars, At
<1>2. ASSUME DropAttempts PROVE LockInv'
  BY <1>2, ThresholdAssumption DEF DropAttempts, LockInv
<1>3. ASSUME NEW r \in Requests, Arrive(r) PROVE LockInv'
  <2>1. reqs[r].pc # "lock"
    BY <1>3, ArrivesIdle
  <2>2. UNCHANGED lockVars
    BY <1>3 DEF Arrive, LoginFind, Validate, Ask, UseLink
  <2> QED
    BY <1>1, <1>3, <2>1, <2>2
<1>4. ASSUME NEW r \in Requests, Proceed(r) PROVE LockInv'
  <2>1. CASE CountFailure(r)
    <3>1. CASE attempts' >= Threshold
      <4>1. Goto(r, "lock")
        BY <2>1, <3>1 DEF CountFailure
      <4>2. reqs'[r].pc = "lock"
        <5>1. reqs[r] \in Request
          BY <2>1, Busy DEF CountFailure, At
        <5> QED
          BY <4>1, <5>1 DEF Goto, Request
      <4> QED
        BY <4>2 DEF LockInv, At
    <3>2. CASE ~(attempts' >= Threshold)
      BY <3>2 DEF LockInv
    <3> QED
      BY <3>1, <3>2
  <2>2. CASE SetLock(r)
    <3>1. attempts' = attempts /\ lock' = IF attempts = 0 THEN "set" ELSE "outlives"
      BY <2>2 DEF SetLock
    <3> QED
      BY <3>1, ThresholdAssumption DEF LockInv
  <2>3. CASE Forgive(r)
    BY <2>3, <1>2 DEF Forgive
  <2>4. CASE LockCheck(r) \/ Issue(r) \/ Revoke(r) \/ MintLink(r) \/ UpdatePassword(r)
    <3>1. reqs[r].pc # "lock" /\ UNCHANGED lockVars
      BY <2>4 DEF LockCheck, Issue, Revoke, MintLink, UpdatePassword, At
    <3> QED
      BY <1>1, <1>4, <3>1
  <2>5. CASE ScanStart(r) \/ ScanEnd(r) \/ DeleteFound(r)
    <3>1. reqs[r].pc # "lock" /\ UNCHANGED lockVars
      BY <2>5 DEF ScanStart, ScanEnd, DeleteFound, At
    <3> QED
      BY <1>1, <1>4, <3>1
  <2> QED
    BY <1>4, <2>1, <2>2, <2>3, <2>4, <2>5 DEF Proceed
<1>5. ASSUME AttemptsExpire PROVE LockInv'
  BY <1>5, <1>2 DEF AttemptsExpire
<1>6. ASSUME \/ \E t \in TokenIds : KeyExpire(t)
             \/ LockExpire \/ AsksExpire \/ LinkExpire \/ UNCHANGED vars
      PROVE  LockInv'
  BY <1>6 DEF KeyExpire, LockExpire, AsksExpire, LinkExpire, vars, lockVars, LockInv, At
<1> QED
  BY <1>3, <1>4, <1>5, <1>6 DEF Next

\* For every threshold and any number of overlapping logins, no failed login
\* gets through once the counter has reached the threshold.
THEOREM LockoutHolds == Spec => []FullCounterIsLocked
<1>1. Init => LockInv
  BY ThresholdAssumption DEF Init, LockInv
<1>2. LockInv => FullCounterIsLocked
  BY DEF LockInv, FullCounterIsLocked
<1> QED
  BY <1>1, <1>2, TypeAlways, LockStep, PTL DEF Spec

-----------------------------------------------------------------------------
(* Resets.                                                                 *)

Scanning == {"scan", "scanned", "delete"}

LEMMA SessionStep == TypeInv /\ ResetEndsSessions /\ [Next]_vars => ResetEndsSessions'
<1> SUFFICES ASSUME TypeInv, ResetEndsSessions, [Next]_vars PROVE ResetEndsSessions'
  OBVIOUS
<1> USE DEF TypeInv, TypeOK
<1>1. ASSUME NEW r \in Requests, Arrive(r) \/ Proceed(r), reqs[r].pc \notin Scanning,
             NEW t, Doomed(t)
      PROVE  Doomed(t)'
  BY <1>1, OneSlot DEF Doomed, At, Scanning
<1>2. ASSUME NEW r \in Requests, Arrive(r) \/ Proceed(r), reqs[r].pc \notin Scanning,
             keys' \subseteq keys, UNCHANGED <<password, tokens>>
      PROVE  ResetEndsSessions'
  BY <1>1, <1>2 DEF ResetEndsSessions
<1>3. ASSUME NEW r \in Requests, Arrive(r) PROVE ResetEndsSessions'
  <2>1. reqs[r].pc \notin Scanning
    BY <1>3, ArrivesIdle DEF Scanning
  <2>2. keys' \subseteq keys /\ UNCHANGED <<password, tokens>>
    BY <1>3 DEF Arrive, LoginFind, Validate, Ask, UseLink, tokenVars
  <2> QED
    BY <1>2, <1>3, <2>1, <2>2
<1>4. ASSUME NEW r \in Requests, Proceed(r) PROVE ResetEndsSessions'
  <2>0. reqs[r].pc # "idle" => reqs[r] \in Request
    BY Busy
  <2>1. CASE LockCheck(r) \/ CountFailure(r) \/ SetLock(r) \/ Forgive(r)
             \/ Revoke(r) \/ MintLink(r)
    <3>1. reqs[r].pc \notin Scanning
      BY <2>1 DEF LockCheck, CountFailure, SetLock, Forgive, Revoke, MintLink, At, Scanning
    <3>2. keys' \subseteq keys /\ UNCHANGED <<password, tokens>>
      BY <2>1 DEF LockCheck, CountFailure, SetLock, Forgive, Revoke, MintLink, tokenVars
    <3> QED
      BY <1>2, <1>4, <3>1, <3>2
  <2>2. CASE Issue(r)
    <3> SUFFICES ASSUME NEW t \in keys', tokens'[t].timely, tokens'[t].pass # password'
                 PROVE  Doomed(t)'
      BY DEF ResetEndsSessions
    <3>1. password' = password /\ keys' = keys \cup {Len(tokens) + 1}
      BY <2>2 DEF Issue
    <3>2. PICK token : /\ tokens' = Append(tokens, token)
                       /\ token.timely => token.pass = password
      <4>1. CASE reqs[r].op = "refresh"
        <5>1. PICK token : token = [session |-> tokens[reqs[r].token].session,
                                    pass |-> tokens[reqs[r].token].pass,
                                    timely |-> tokens[reqs[r].token].pass = password]
          OBVIOUS
        <5>2. token.timely => token.pass = password
          BY <5>1
        <5>3. tokens' = Append(tokens, token)
          BY <2>2, <4>1, <5>1 DEF Issue
        <5> QED
          BY <5>2, <5>3
      <4>2. CASE reqs[r].op # "refresh"
        <5>1. PICK token : token = [session |-> Len(tokens) + 1, pass |-> reqs[r].pass,
                                    timely |-> reqs[r].pass = password]
          OBVIOUS
        <5>2. token.timely => token.pass = password
          BY <5>1
        <5>3. tokens' = Append(tokens, token)
          BY <2>2, <4>2, <5>1 DEF Issue
        <5> QED
          BY <5>2, <5>3
      <4> QED
        BY <4>1, <4>2
    <3>3. t # Len(tokens) + 1
      BY <3>1, <3>2
    <3>4. t \in keys /\ tokens'[t] = tokens[t]
      BY <3>1, <3>2, <3>3 DEF TokenIds
    <3>5. Doomed(t)
      BY <3>1, <3>4 DEF ResetEndsSessions
    <3>6. reqs[r].pc \notin Scanning
      BY <2>2 DEF Issue, At, Scanning
    <3> QED
      BY <1>1, <1>4, <3>5, <3>6
  <2>3. CASE UpdatePassword(r)
    <3>1. reqs'[r].pc = "scan"
      BY <2>0, <2>3 DEF UpdatePassword, Goto, At, Request
    <3> QED
      BY <3>1 DEF ResetEndsSessions, Doomed, At
  <2>4. CASE ScanStart(r)
    <3>1. reqs'[r].pc = "scanned" /\ reqs'[r].seen = keys
      BY <2>0, <2>4 DEF ScanStart, Become, At, Request
    <3>2. keys' = keys
      BY <2>4 DEF ScanStart, tokenVars
    <3> QED
      BY <3>1, <3>2 DEF ResetEndsSessions, Doomed, At
  <2>5. CASE ScanEnd(r)
    <3> SUFFICES ASSUME NEW t \in keys', tokens'[t].timely, tokens'[t].pass # password'
                 PROVE  Doomed(t)'
      BY DEF ResetEndsSessions
    <3>1. UNCHANGED <<password, tokens, keys>>
      BY <2>5 DEF ScanEnd, tokenVars
    <3>2. reqs'[r].pc = "delete" /\ reqs[r].seen \subseteq reqs'[r].seen
      BY <2>0, <2>5 DEF ScanEnd, Become, At, Request
    <3>3. PICK x \in Requests :
            \/ At(x, "scan")
            \/ reqs[x].pc \in {"scanned", "delete"} /\ t \in reqs[x].seen
      BY <3>1 DEF ResetEndsSessions, Doomed
    <3>4. CASE x = r
      BY <2>5, <3>2, <3>3, <3>4 DEF Doomed, ScanEnd, At
    <3>5. CASE x # r
      <4>1. reqs'[x] = reqs[x]
        BY <1>4, <3>5, OneSlot
      <4> QED
        BY <3>3, <4>1 DEF Doomed, At
    <3> QED
      BY <3>4, <3>5
  <2>6. CASE DeleteFound(r)
    <3> SUFFICES ASSUME NEW t \in keys', tokens'[t].timely, tokens'[t].pass # password'
                 PROVE  Doomed(t)'
      BY DEF ResetEndsSessions
    <3>1. UNCHANGED <<password, tokens>> /\ t \in keys /\ t \notin reqs[r].seen
      BY <2>6 DEF DeleteFound
    <3>2. PICK x \in Requests :
            \/ At(x, "scan")
            \/ reqs[x].pc \in {"scanned", "delete"} /\ t \in reqs[x].seen
      BY <3>1 DEF ResetEndsSessions, Doomed
    <3>3. x # r
      BY <2>6, <3>1, <3>2 DEF DeleteFound, At
    <3>4. reqs'[x] = reqs[x]
      BY <1>4, <3>3, OneSlot
    <3> QED
      BY <3>2, <3>4 DEF Doomed, At
  <2> QED
    BY <1>4, <2>1, <2>2, <2>3, <2>4, <2>5, <2>6 DEF Proceed
<1>5. ASSUME \/ \E t \in TokenIds : KeyExpire(t)
             \/ AttemptsExpire \/ LockExpire \/ AsksExpire \/ LinkExpire
             \/ UNCHANGED vars
      PROVE  ResetEndsSessions'
  <2>1. keys' \subseteq keys /\ UNCHANGED <<password, tokens, reqs>>
    BY <1>5 DEF KeyExpire, AttemptsExpire, LockExpire, AsksExpire, LinkExpire, vars, tokenVars
  <2> QED
    BY <2>1 DEF ResetEndsSessions, Doomed, At
<1> QED
  BY <1>3, <1>4, <1>5 DEF Next

\* However many logins, refreshes and resets overlap, a refresh token issued
\* under the account's present password does not survive the reset of it.
THEOREM ResetsEndSessions == Spec => []ResetEndsSessions
<1>1. Init => ResetEndsSessions
  BY DEF Init, ResetEndsSessions
<1> QED
  BY <1>1, TypeAlways, SessionStep, PTL DEF Spec

-----------------------------------------------------------------------------
\* The resets that have taken a link and not yet changed the password.
Updating == {r \in Requests : At(r, "update")}

LinkInv == password + Cardinality(Updating) <= used

LEMMA LinkStep == TypeInv /\ LinkInv /\ [Next]_vars => LinkInv'
<1> SUFFICES ASSUME TypeInv, LinkInv, [Next]_vars PROVE LinkInv'
  OBVIOUS
<1> USE DEF TypeInv, TypeOK
<1>0. IsFiniteSet(Updating) /\ Cardinality(Updating) \in Nat
  <2>1. Updating \subseteq Requests
    BY DEF Updating
  <2> QED
    BY <2>1, RequestsAssumption, FS_Subset, FS_CardinalityType
<1>1. ASSUME Updating' = Updating, UNCHANGED <<password, used>> PROVE LinkInv'
  BY <1>1 DEF LinkInv
<1>2. ASSUME NEW r \in Requests, Arrive(r) \/ Proceed(r),
             ~At(r, "update"), ~At(r, "update")'
      PROVE  Updating' = Updating
  BY <1>2, OneSlot DEF Updating, At
<1>3. ASSUME NEW r \in Requests, UseLink(r) PROVE LinkInv'
  <2>1. ~At(r, "update") /\ At(r, "update")'
    BY <1>3 DEF UseLink, Enabled, Idle, At, Become, Call
  <2>2. Updating' = Updating \cup {r}
    BY <1>3, <2>1, OneSlot DEF Updating, At, Arrive
  <2>3. Cardinality(Updating') = Cardinality(Updating) + 1
    BY <1>0, <2>1, <2>2, FS_AddElement DEF Updating
  <2>4. password' = password /\ used' = used + 1
    BY <1>3 DEF UseLink
  <2> QED
    BY <1>0, <2>3, <2>4 DEF LinkInv
<1>4. ASSUME NEW r \in Requests, UpdatePassword(r) PROVE LinkInv'
  <2>1. At(r, "update") /\ ~At(r, "update")'
    <3>1. reqs[r] \in Request
      BY <1>4, Busy DEF UpdatePassword, At
    <3> QED
      BY <1>4, <3>1 DEF UpdatePassword, At, Goto, Request
  <2>2. Updating' = Updating \ {r}
    BY <1>4, <2>1, OneSlot DEF Updating, At, Proceed
  <2>3. Cardinality(Updating') = Cardinality(Updating) - 1
    BY <1>0, <2>1, <2>2, FS_RemoveElement DEF Updating
  <2>4. password' = password + 1 /\ used' = used
    BY <1>4 DEF UpdatePassword, linkVars
  <2> QED
    BY <1>0, <2>3, <2>4 DEF LinkInv
<1>5. ASSUME NEW r \in Requests, Arrive(r), ~UseLink(r) PROVE LinkInv'
  <2>1. ~At(r, "update") /\ ~At(r, "update")'
    BY <1>5, ArrivesIdle DEF At
  <2>2. UNCHANGED <<password, used>>
    BY <1>5 DEF Arrive, LoginFind, Validate, Ask, linkVars
  <2> QED
    BY <1>1, <1>2, <1>5, <2>1, <2>2
<1>6. ASSUME NEW r \in Requests, Proceed(r), ~UpdatePassword(r) PROVE LinkInv'
  <2>1. CASE LockCheck(r) \/ CountFailure(r) \/ SetLock(r) \/ Forgive(r) \/ Issue(r)
    <3>1. ~At(r, "update") /\ UNCHANGED <<password, used>>
      BY <2>1 DEF LockCheck, CountFailure, SetLock, Forgive, Issue, At, linkVars
    <3>2. ~At(r, "update")'
      BY <2>1, Busy DEF LockCheck, CountFailure, SetLock, Forgive, Issue, At, Return,
                        Become, Goto, Idle, Request
    <3> QED
      BY <1>1, <1>2, <1>6, <3>1, <3>2
  <2>2. CASE Revoke(r) \/ MintLink(r) \/ ScanStart(r) \/ ScanEnd(r) \/ DeleteFound(r)
    <3>1. ~At(r, "update") /\ UNCHANGED <<password, used>>
      BY <2>2 DEF Revoke, MintLink, ScanStart, ScanEnd, DeleteFound, At, linkVars
    <3>2. ~At(r, "update")'
      <4>1. reqs[r] \in Request
        BY <2>2, Busy DEF Revoke, MintLink, ScanStart, ScanEnd, DeleteFound, At
      <4>2. CASE Revoke(r) \/ MintLink(r) \/ DeleteFound(r)
        BY <4>1, <4>2 DEF Revoke, MintLink, DeleteFound, At, Return, Become, Goto, Idle, Request
      <4>3. CASE ScanStart(r)
        BY <4>1, <4>3 DEF ScanStart, At, Become, Request
      <4>4. CASE ScanEnd(r)
        BY <4>1, <4>4 DEF ScanEnd, At, Become, Request
      <4> QED
        BY <2>2, <4>2, <4>3, <4>4
    <3> QED
      BY <1>1, <1>2, <1>6, <3>1, <3>2
  <2> QED
    BY <1>6, <2>1, <2>2 DEF Proceed
<1>7. ASSUME \/ \E t \in TokenIds : KeyExpire(t)
             \/ AttemptsExpire \/ LockExpire \/ AsksExpire \/ LinkExpire
             \/ UNCHANGED vars
      PROVE  LinkInv'
  <2>1. UNCHANGED <<password, used, reqs>>
    BY <1>7 DEF KeyExpire, AttemptsExpire, LockExpire, AsksExpire, LinkExpire, vars, linkVars
  <2>2. Updating' = Updating
    BY <2>1 DEF Updating, At
  <2> QED
    BY <1>1, <2>1, <2>2
<1> QED
  BY <1>3, <1>4, <1>5, <1>6, <1>7 DEF Next

\* However often and by however many requests it is presented, a reset link
\* changes the password once at most.
THEOREM LinksChangeOnce == Spec => []LinksUsedOnce
<1>1. Init => LinkInv
  <2> SUFFICES ASSUME Init PROVE LinkInv
    OBVIOUS
  <2>1. Updating = {}
    BY DEF Init, Updating, At, Idle
  <2>2. Cardinality(Updating) = 0
    BY <2>1, FS_EmptySet
  <2> QED
    BY <2>2 DEF Init, LinkInv
<1>2. TypeInv /\ LinkInv => LinksUsedOnce
  <2>1. Updating \subseteq Requests
    BY DEF Updating
  <2>2. Cardinality(Updating) \in Nat
    BY <2>1, RequestsAssumption, FS_Subset, FS_CardinalityType
  <2> QED
    BY <2>2 DEF TypeInv, TypeOK, LinkInv, LinksUsedOnce
<1> QED
  BY <1>1, <1>2, TypeAlways, LinkStep, PTL DEF Spec

-----------------------------------------------------------------------------
(* Rotation and logout.                                                    *)

Session(t) == tokens[t].session

\* A refresh past its check: it holds the session of the token it exchanges.
Rotating(r) == reqs[r].pc \in {"revoke", "issue"} /\ reqs[r].op = "refresh"

\* Sessions are numbered by the token that began them, and a refresh in flight
\* is rotating.
RotationInv ==
  /\ \A t \in TokenIds : Session(t) <= Len(tokens)
  /\ \A r \in Requests :
       reqs[r].pc # "idle" /\ reqs[r].op = "refresh" => Rotating(r)

\* What a step of the request in r does to tokens and rotating refreshes, when
\* it is none of the three commands on refresh keys.
Aside(r) ==
  /\ tokens' = tokens /\ keys' \subseteq keys
  /\ reqs[r].pc \notin {"revoke", "issue"}
  /\ reqs'[r].pc = "idle" \/ (reqs'[r].pc # "revoke" /\ reqs'[r].op # "refresh")
  /\ reqs'[r].pc \in {"forgive", "issue"} => LockCheck(r) \/ Forgive(r)

LEMMA Moves ==
  ASSUME TypeInv, RotationInv, NEW r \in Requests, Arrive(r) \/ Proceed(r)
  PROVE  \/ \E op \in {"refresh", "logout"}, t \in TokenIds : Validate(r, op, t)
         \/ Revoke(r) \/ Issue(r) \/ Aside(r)
<1> reqs \in [Requests -> {Idle} \cup Request]
  BY DEF TypeInv, TypeOK
<1>1. ASSUME NEW right \in BOOLEAN, LoginFind(r, right) PROVE Aside(r)
  <2>1. reqs[r].pc = "idle"
    BY <1>1 DEF LoginFind, Enabled, Idle
  <2>2. reqs'[r] = [Call("login", "lock?") EXCEPT !.right = right, !.pass = password]
    BY <1>1 DEF LoginFind, Become
  <2>3. reqs'[r].pc = "lock?" /\ reqs'[r].op = "login"
    BY <2>2 DEF Call
  <2> QED
    BY <1>1, <2>1, <2>3 DEF LoginFind, Aside, tokenVars
<1>2. CASE Ask(r) \/ UseLink(r)
  <2>1. reqs[r].pc = "idle"
    BY <1>2 DEF Ask, UseLink, Enabled, Idle
  <2>2. reqs'[r] = Call("forgot", "mint") \/ reqs'[r] = Call("reset", "update")
    BY <1>2 DEF Ask, UseLink, Become
  <2>3. reqs'[r].pc \in {"mint", "update"} /\ reqs'[r].op # "refresh"
    BY <2>2 DEF Call
  <2> QED
    BY <1>2, <2>1, <2>3 DEF Ask, UseLink, Aside, tokenVars
<1>3. ASSUME LockCheck(r) \/ CountFailure(r) \/ SetLock(r) \/ Forgive(r) PROVE Aside(r)
  <2>1. reqs[r] \in Request /\ reqs[r].pc \in {"lock?", "count", "lock", "forgive"}
    BY <1>3, Busy DEF LockCheck, CountFailure, SetLock, Forgive, At
  <2>2. reqs[r].op # "refresh"
    BY <2>1 DEF RotationInv, Rotating
  <2>3. tokens' = tokens /\ keys' = keys
    BY <1>3 DEF LockCheck, CountFailure, SetLock, Forgive, tokenVars
  <2>4. CASE Return(r)
    BY <2>1, <2>3, <2>4 DEF Return, Become, Idle, Aside
  <2>5. ASSUME NEW pc \in {"forgive", "count", "lock", "issue"}, Goto(r, pc)
        PROVE  reqs'[r].pc = pc /\ reqs'[r].op # "refresh"
    BY <2>1, <2>2, <2>5 DEF Goto, Request
  <2>6. CASE LockCheck(r)
    BY <2>1, <2>3, <2>4, <2>5, <2>6 DEF LockCheck, Aside
  <2>7. CASE CountFailure(r)
    BY <2>1, <2>3, <2>4, <2>5, <2>7 DEF CountFailure, Aside
  <2>8. CASE Forgive(r)
    BY <2>1, <2>3, <2>5, <2>8 DEF Forgive, Aside
  <2> QED
    BY <1>3, <2>4, <2>6, <2>7, <2>8 DEF SetLock
<1>4. ASSUME MintLink(r) \/ DeleteFound(r) PROVE Aside(r)
  BY <1>4 DEF MintLink, DeleteFound, At, Return, Become, Idle, Aside, tokenVars
<1>5. ASSUME UpdatePassword(r) \/ ScanStart(r) \/ ScanEnd(r) PROVE Aside(r)
  <2>1. reqs[r] \in Request /\ reqs[r].pc \in {"update", "scan", "scanned"}
    BY <1>5, Busy DEF UpdatePassword, ScanStart, ScanEnd, At
  <2>2. reqs[r].op # "refresh"
    BY <2>1 DEF RotationInv, Rotating
  <2>3. reqs'[r].pc \in {"scan", "scanned", "delete"} /\ reqs'[r].op = reqs[r].op
    <3>1. CASE UpdatePassword(r)
      BY <2>1, <3>1 DEF UpdatePassword, Goto, Request
    <3>2. CASE ScanStart(r)
      BY <2>1, <3>2 DEF ScanStart, Become, Request
    <3>3. CASE ScanEnd(r)
      BY <2>1, <3>3 DEF ScanEnd, Become, Request
    <3> QED
      BY <1>5, <3>1, <3>2, <3>3
  <2> QED
    BY <1>5, <2>1, <2>2, <2>3 DEF UpdatePassword, ScanStart, ScanEnd, Aside, tokenVars
<1> QED
  BY <1>1, <1>2, <1>3, <1>4, <1>5 DEF Arrive, Proceed

\* A token that passed the check goes on into the request.
LEMMA ValidateEffect ==
  ASSUME TypeInv, NEW r \in Requests, NEW op \in {"refresh", "logout"},
         NEW t \in TokenIds, Validate(r, op, t)
  PROVE  /\ tokens' = tokens /\ keys' = keys /\ t \in keys
         /\ reqs[r] = Idle
         /\ reqs'[r].pc = "revoke" /\ reqs'[r].op = op /\ reqs'[r].token = t
<1>1. reqs'[r] = [Call(op, "revoke") EXCEPT !.token = t]
  BY DEF Validate, Become, TypeInv, TypeOK
<1> QED
  BY <1>1 DEF Validate, Enabled, Call, tokenVars

LEMMA RevokeEffect ==
  ASSUME TypeInv, NEW r \in Requests, Revoke(r)
  PROVE  /\ tokens' = tokens /\ keys' = keys \ {reqs[r].token}
         /\ reqs[r].pc = "revoke" /\ reqs[r] # Idle
         /\ reqs[r].op # "refresh" => reqs'[r] = Idle
         /\ reqs[r].op = "refresh" =>
              reqs'[r].pc = "issue" /\ reqs'[r].op = "refresh" /\ reqs'[r].token = reqs[r].token
<1>1. reqs \in [Requests -> {Idle} \cup Request] /\ reqs[r] \in Request
  BY Busy DEF Revoke, At, TypeInv, TypeOK
<1> QED
  BY <1>1 DEF Revoke, At, Goto, Return, Become, Request, Idle

\* The successor of an exchanged token stays in its session; a login opens one.
LEMMA IssueEffect ==
  ASSUME TypeInv, NEW r \in Requests, Issue(r)
  PROVE  /\ reqs[r].pc = "issue" /\ reqs[r] # Idle /\ reqs'[r] = Idle
         /\ keys' = keys \cup {Len(tokens) + 1}
         /\ Len(tokens') = Len(tokens) + 1
         /\ TokenIds' = TokenIds \cup {Len(tokens) + 1}
         /\ Len(tokens) + 1 \notin TokenIds
         /\ \A t \in TokenIds : tokens'[t] = tokens[t]
         /\ tokens'[Len(tokens) + 1].session =
              IF reqs[r].op = "refresh" THEN SessionOf(r) ELSE Len(tokens) + 1
<1> tokens \in Seq(Token)
  BY DEF TypeInv, TypeOK
<1>1. reqs[r].pc = "issue" /\ reqs[r] # Idle /\ reqs'[r] = Idle
  BY DEF Issue, At, Return, Become, Idle, TypeInv, TypeOK
<1>2. PICK token : /\ tokens' = Append(tokens, token)
                   /\ token.session = IF reqs[r].op = "refresh" THEN SessionOf(r)
                                      ELSE Len(tokens) + 1
  <2>1. PICK token : token =
          [session |-> IF reqs[r].op = "refresh" THEN tokens[reqs[r].token].session
                       ELSE Len(tokens) + 1,
           pass |-> IF reqs[r].op = "refresh" THEN tokens[reqs[r].token].pass
                    ELSE reqs[r].pass,
           timely |-> (IF reqs[r].op = "refresh" THEN tokens[reqs[r].token].pass
                       ELSE reqs[r].pass) = password]
    OBVIOUS
  <2>2. tokens' = Append(tokens, token)
    BY <2>1 DEF Issue
  <2>3. token.session = IF reqs[r].op = "refresh" THEN SessionOf(r) ELSE Len(tokens) + 1
    BY <2>1 DEF SessionOf
  <2> QED
    BY <2>2, <2>3
<1>3. keys' = keys \cup {Len(tokens) + 1}
  BY DEF Issue
<1>4. tokens' \in Seq(Token \cup {token}) /\ Len(tokens') = Len(tokens) + 1
  BY <1>2
<1> QED
  BY <1>1, <1>2, <1>3, <1>4 DEF TokenIds

LEMMA RotationStep == TypeInv /\ RotationInv /\ [Next]_vars => RotationInv'
<1> SUFFICES ASSUME TypeInv, RotationInv, [Next]_vars PROVE RotationInv'
  OBVIOUS
<1> tokens \in Seq(Token) /\ Len(tokens) \in Nat
  BY DEF TypeInv, TypeOK
<1>1. ASSUME NEW r \in Requests, Arrive(r) \/ Proceed(r) PROVE RotationInv'
  <2>1. \A x \in Requests : x # r => reqs'[x] = reqs[x]
    BY <1>1, OneSlot
  <2>2. ASSUME NEW op \in {"refresh", "logout"}, NEW t \in TokenIds, Validate(r, op, t)
        PROVE  RotationInv'
    BY <2>1, <2>2, ValidateEffect DEF RotationInv, Rotating, Session, TokenIds
  <2>3. CASE Revoke(r)
    BY <2>1, <2>3, RevokeEffect DEF RotationInv, Rotating, Session, TokenIds, Idle
  <2>4. CASE Issue(r)
    <3>1. SessionOf(r) <= Len(tokens) \/ reqs[r].op # "refresh"
      BY <2>4, IssueEffect DEF RotationInv, Session, SessionOf, TypeInv, Known
    <3>2. \A t \in TokenIds : Session(t) \in Nat
      <4>1. \A t \in TokenIds : tokens[t] \in Token
        BY DEF TokenIds
      <4> QED
        BY <4>1 DEF Session, Token
    <3>3. SessionOf(r) \in Nat \/ reqs[r].op # "refresh"
      BY <2>4, <3>2, IssueEffect DEF Session, SessionOf, TypeInv, Known
    <3>4. \A t \in TokenIds' : Session(t)' <= Len(tokens')
      BY <2>4, <3>1, <3>2, <3>3, IssueEffect DEF RotationInv, Session
    <3> QED
      BY <2>1, <2>4, <3>4, IssueEffect DEF RotationInv, Rotating, Idle
  <2>5. CASE Aside(r)
    BY <2>1, <2>5 DEF Aside, RotationInv, Rotating, Session, TokenIds
  <2> QED
    BY <1>1, <2>2, <2>3, <2>4, <2>5, Moves
<1>2. ASSUME UNCHANGED <<tokens, reqs>> PROVE RotationInv'
  BY <1>2 DEF RotationInv, Rotating, Session, TokenIds
<1> QED
  BY <1>1, <1>2 DEF Next, KeyExpire, AttemptsExpire, LockExpire, AsksExpire, LinkExpire,
                    vars, tokenVars

LEMMA RotationAlways == MCSpec => [](TypeInv /\ RotationInv)
<1>1. MCInit => TypeInv /\ RotationInv
  <2>1. Init => RotationInv
    BY DEF Init, RotationInv, Idle, TokenIds
  <2> QED
    BY <2>1, TypeInit DEF MCInit
<1>2. TypeInv /\ RotationInv /\ [MCNext]_<<vars, alone, ended>> => TypeInv' /\ RotationInv'
  BY TypeStep, RotationStep DEF MCNext
<1> QED
  BY <1>1, <1>2, PTL DEF MCSpec

-----------------------------------------------------------------------------
(* The sessions logged out.                                                *)

\* Nothing is left of an ended session: no live token, and no refresh that
\* could issue one.
EndedInv ==
  /\ \A s \in ended : s \in Nat /\ s <= Len(tokens)
  /\ \A t \in keys : Session(t) \notin ended
  /\ \A r \in Requests : Rotating(r) => SessionOf(r) \notin ended

\* A logout that ends a session is a Revoke, of its last live token, and leaves
\* no refresh of it.
LEMMA LogoutEnds ==
  ASSUME TypeInv, RotationInv, [Next]_vars, NEW r \in Requests, LogsOut(r)
  PROVE  /\ Revoke(r) /\ reqs[r].op = "logout"
         /\ reqs[r].token \in TokenIds
         /\ \A t \in keys' : Session(t) # SessionOf(r)
         /\ \A q \in Requests : Rotating(q) => SessionOf(q) # SessionOf(r)
         /\ \A q \in Requests : Rotating(q)' => Rotating(q) /\ reqs'[q] = reqs[q]
<1>1. reqs[r].pc = "revoke" /\ reqs[r].op = "logout" /\ reqs'[r] # reqs[r]
  BY DEF LogsOut, At
<1>2. Arrive(r) \/ Proceed(r)
  <2>1. ASSUME NEW x \in Requests, Arrive(x) \/ Proceed(x) PROVE x = r
    BY <1>1, <2>1, OneSlot
  <2>2. reqs' # reqs
    BY <1>1
  <2> QED
    BY <2>1, <2>2 DEF Next, KeyExpire, AttemptsExpire, LockExpire, AsksExpire, LinkExpire, vars
<1>3. Revoke(r)
  <2>1. ASSUME NEW op \in {"refresh", "logout"}, NEW t \in TokenIds, Validate(r, op, t)
        PROVE  FALSE
    BY <1>1, <2>1, ValidateEffect DEF Idle
  <2>2. ~Issue(r) /\ ~Aside(r)
    BY <1>1, IssueEffect DEF Aside
  <2> QED
    BY <1>2, <2>1, <2>2, Moves
<1>4. /\ tokens' = tokens /\ keys' = keys \ {reqs[r].token} /\ reqs'[r] = Idle
      /\ \A x \in Requests : x # r => reqs'[x] = reqs[x]
  BY <1>1, <1>2, <1>3, RevokeEffect, OneSlot
<1>5. reqs[r].token \in TokenIds
  BY <1>1 DEF TypeInv, Known
<1>6. \A t \in keys' : Session(t) # SessionOf(r)
  BY <1>4 DEF LogsOut, Session
<1>7. ASSUME NEW q \in Requests, Rotating(q) PROVE SessionOf(q) # SessionOf(r)
  BY <1>1, <1>7 DEF LogsOut, Rotating, Idle
<1>8. ASSUME NEW q \in Requests, Rotating(q)' PROVE Rotating(q) /\ reqs'[q] = reqs[q]
  BY <1>4, <1>8 DEF Rotating, Idle
<1> QED
  BY <1>1, <1>3, <1>5, <1>6, <1>7, <1>8

LEMMA EndedStep ==
  TypeInv /\ RotationInv /\ EndedInv /\ [MCNext]_<<vars, alone, ended>> => EndedInv'
<1> SUFFICES ASSUME TypeInv, RotationInv, EndedInv, [MCNext]_<<vars, alone, ended>>
             PROVE  EndedInv'
  OBVIOUS
<1> [Next]_vars
  BY DEF MCNext
<1> /\ tokens \in Seq(Token) /\ Len(tokens) \in Nat /\ keys \subseteq TokenIds
    /\ TokenIds = 1 .. Len(tokens)
  BY DEF TypeInv, TypeOK, TokenIds
<1>1. CASE \E r \in Requests : LogsOut(r)
  <2>1. PICK r \in Requests : LogsOut(r)
    BY <1>1
  <2>2. /\ Revoke(r) /\ reqs[r].token \in TokenIds
        /\ \A t \in keys' : Session(t) # SessionOf(r)
        /\ \A q \in Requests : Rotating(q) => SessionOf(q) # SessionOf(r)
        /\ \A q \in Requests : Rotating(q)' => Rotating(q) /\ reqs'[q] = reqs[q]
    BY <2>1, LogoutEnds
  <2>3. tokens' = tokens /\ keys' \subseteq keys
    BY <2>2, RevokeEffect
  <2>4. ended' = ended \cup {SessionOf(r)}
    <3>1. ASSUME NEW q \in Requests, LogsOut(q) PROVE SessionOf(q) = SessionOf(r)
      <4>1. Revoke(q) /\ Revoke(r) /\ reqs[q].op = "logout"
        BY <2>2, <3>1, LogoutEnds
      <4>2. reqs'[q] # reqs[q] /\ reqs'[r] # reqs[r]
        BY <2>1, <3>1 DEF LogsOut
      <4>3. q = r
        BY <4>1, <4>2, OneSlot DEF Proceed
      <4> QED
        BY <4>3
    <3>2. reqs' # reqs
      BY <2>1 DEF LogsOut
    <3>3. ended' = ended \cup {SessionOf(q) : q \in {x \in Requests : LogsOut(x)}}
      BY <3>2 DEF MCNext, vars
    <3> QED
      BY <2>1, <3>1, <3>3
  <2>5. SessionOf(r) \in Nat /\ SessionOf(r) <= Len(tokens)
    <3>1. tokens[reqs[r].token] \in Token
      BY <2>2
    <3> QED
      BY <2>2, <3>1 DEF RotationInv, Session, SessionOf, Token
  <2>6. \A t \in keys' : Session(t)' \notin ended'
    BY <2>2, <2>3, <2>4 DEF EndedInv, Session
  <2>7. ASSUME NEW q \in Requests, Rotating(q)' PROVE SessionOf(q)' \notin ended'
    <3>1. Rotating(q) /\ SessionOf(q)' = SessionOf(q)
      BY <2>2, <2>3, <2>7 DEF SessionOf
    <3> QED
      BY <2>2, <2>4, <3>1 DEF EndedInv
  <2> QED
    BY <2>3, <2>4, <2>5, <2>6, <2>7 DEF EndedInv
<1>2. CASE \A r \in Requests : ~LogsOut(r)
  <2>0. ended' = ended
    BY <1>2 DEF MCNext
  <2>1. ASSUME NEW r \in Requests, Arrive(r) \/ Proceed(r) PROVE EndedInv'
    <3>1. \A x \in Requests : x # r => reqs'[x] = reqs[x]
      BY <2>1, OneSlot
    <3>2. ASSUME NEW op \in {"refresh", "logout"}, NEW t \in TokenIds, Validate(r, op, t)
          PROVE  EndedInv'
      <4>1. /\ tokens' = tokens /\ keys' = keys /\ t \in keys
            /\ reqs'[r].token = t
        BY <3>2, ValidateEffect
      <4>2. SessionOf(r)' \notin ended
        BY <4>1 DEF EndedInv, Session, SessionOf
      <4>3. ASSUME NEW x \in Requests, x # r, Rotating(x)' PROVE SessionOf(x)' \notin ended
        BY <3>1, <4>1, <4>3 DEF EndedInv, Rotating, SessionOf
      <4>4. \A t1 \in keys' : Session(t1)' \notin ended
        BY <4>1 DEF EndedInv, Session
      <4> QED
        BY <2>0, <4>1, <4>2, <4>3, <4>4 DEF EndedInv
    <3>3. CASE Revoke(r)
      <4>1. tokens' = tokens /\ keys' \subseteq keys
        BY <3>3, RevokeEffect
      <4>2. ASSUME NEW x \in Requests, Rotating(x)' PROVE SessionOf(x)' \notin ended
        <5>1. Rotating(x) /\ reqs'[x].token = reqs[x].token
          BY <3>1, <3>3, <4>2, RevokeEffect DEF Rotating, Idle
        <5> QED
          BY <4>1, <5>1 DEF EndedInv, SessionOf
      <4> QED
        BY <2>0, <4>1, <4>2 DEF EndedInv, Session
    <3>4. CASE Issue(r)
      <4>1. \A s \in ended : s \in Nat /\ s <= Len(tokens')
        BY <3>4, IssueEffect DEF EndedInv
      <4>2. tokens'[Len(tokens) + 1].session \notin ended
        BY <3>4, IssueEffect DEF EndedInv, Rotating
      <4>3. \A t \in keys' : Session(t)' \notin ended
        <5>1. \A t \in keys : tokens'[t].session \notin ended
          BY <3>4, IssueEffect DEF EndedInv, Session
        <5> QED
          BY <3>4, <4>2, <5>1, IssueEffect DEF Session
      <4>4. ASSUME NEW x \in Requests, Rotating(x)' PROVE SessionOf(x)' \notin ended
        <5>1. x # r /\ reqs'[x] = reqs[x] /\ Rotating(x)
          BY <3>1, <3>4, <4>4, IssueEffect DEF Rotating, Idle
        <5>2. reqs[x].token \in TokenIds
          BY <5>1 DEF Rotating, TypeInv, Known
        <5> QED
          BY <3>4, <5>1, <5>2, IssueEffect DEF EndedInv, SessionOf
      <4> QED
        BY <2>0, <4>1, <4>3, <4>4 DEF EndedInv
    <3>5. CASE Aside(r)
      BY <2>0, <3>1, <3>5 DEF Aside, EndedInv, Rotating, Session, SessionOf
    <3> QED
      BY <2>1, <3>2, <3>3, <3>4, <3>5, Moves
  <2>2. ASSUME UNCHANGED <<tokens, reqs>>, keys' \subseteq keys PROVE EndedInv'
    BY <2>0, <2>2 DEF EndedInv, Rotating, Session, SessionOf
  <2> QED
    BY <2>1, <2>2 DEF Next, KeyExpire, AttemptsExpire, LockExpire, AsksExpire, LinkExpire,
                      vars, tokenVars
<1> QED
  BY <1>1, <1>2

\* Whatever requests overlap, no token of a session is issued or live again once
\* a logout has deleted its last token with no refresh of it in flight.
THEOREM LogoutsEnd == MCSpec => []EndedStaysEnded
<1>1. MCInit => EndedInv
  BY DEF MCInit, Init, EndedInv, Rotating, Idle
<1>2. EndedInv => EndedStaysEnded
  BY DEF EndedInv, EndedStaysEnded, Session
<1> QED
  BY <1>1, <1>2, RotationAlways, EndedStep, PTL DEF MCSpec

-----------------------------------------------------------------------------
(* Requests that do not overlap.                                           *)

\* Alone, a request about to exchange a token holds the only live one of its
\* session, one about to issue the successor has left none, and a login that
\* found no lock still has none.
AloneInv ==
  alone =>
    /\ \A r, q \in Requests : reqs[r] # Idle /\ reqs[q] # Idle => r = q
    /\ \A s, t \in keys : Session(s) = Session(t) => s = t
    /\ \A r \in Requests :
         /\ reqs[r].pc = "revoke" =>
              \A t \in keys : Session(t) = SessionOf(r) => t = reqs[r].token
         /\ reqs[r].pc = "issue" /\ reqs[r].op = "refresh" =>
              \A t \in keys : Session(t) # SessionOf(r)
         /\ reqs[r].pc \in {"forgive", "issue"} /\ reqs[r].op = "login" => lock = "none"

\* Of requests that do not overlap only a step of the request in flight sets
\* the lock.
LEMMA LockAlone ==
  ASSUME TypeInv, RotationInv, AloneInv, alone, [Next]_vars,
         NEW r \in Requests, reqs'[r].pc \in {"forgive", "issue"}, reqs'[r].op = "login"
  PROVE  lock' = "none"
<1>1. ASSUME reqs'[r] = reqs[r] PROVE lock' = "none"
  <2>1. lock = "none" /\ reqs[r] # Idle /\ reqs[r].pc # "lock"
    BY <1>1 DEF AloneInv, Idle
  <2>2. ASSUME NEW x \in Requests, SetLock(x) PROVE FALSE
    <3>1. reqs[x].pc = "lock" /\ reqs[x] # Idle
      BY <2>2 DEF SetLock, At, Idle
    <3> QED
      BY <2>1, <3>1 DEF AloneInv
  <2>3. ASSUME NEW x \in Requests, Arrive(x) \/ Proceed(x) PROVE lock' = "none"
    <3>1. CASE Arrive(x)
      BY <2>1, <3>1 DEF Arrive, LoginFind, Validate, Ask, UseLink, lockVars
    <3>2. CASE Proceed(x)
      BY <2>1, <2>2, <3>2 DEF Proceed, LockCheck, CountFailure, Forgive, DropAttempts, Issue,
        Revoke, MintLink, UpdatePassword, ScanStart, ScanEnd, DeleteFound, lockVars
    <3> QED
      BY <2>3, <3>1, <3>2
  <2> QED
    BY <2>1, <2>3 DEF Next, KeyExpire, AttemptsExpire, DropAttempts, LockExpire, AsksExpire,
                      LinkExpire, vars, lockVars
<1>2. ASSUME reqs'[r] # reqs[r] PROVE lock' = "none"
  <2>1. Arrive(r) \/ Proceed(r)
    <3>1. ASSUME NEW x \in Requests, Arrive(x) \/ Proceed(x) PROVE x = r
      BY <1>2, <3>1, OneSlot
    <3>2. reqs' # reqs
      BY <1>2
    <3> QED
      BY <3>1, <3>2 DEF Next, KeyExpire, AttemptsExpire, LockExpire, AsksExpire, LinkExpire, vars
  <2>2. LockCheck(r) \/ Forgive(r)
    <3>1. ASSUME NEW op \in {"refresh", "logout"}, NEW t \in TokenIds, Validate(r, op, t)
          PROVE  FALSE
      BY <3>1, ValidateEffect
    <3>2. ~Revoke(r) /\ ~Issue(r)
      BY RevokeEffect, IssueEffect DEF Idle
    <3> QED
      BY <2>1, <3>1, <3>2, Moves DEF Aside
  <2>3. CASE LockCheck(r)
    BY <2>3 DEF LockCheck, Return, Become, Idle, lockVars, TypeInv, TypeOK
  <2>4. CASE Forgive(r)
    <3>1. reqs[r].pc = "forgive" /\ reqs[r].op = "login"
      BY <2>4 DEF Forgive, At, TypeInv, Known
    <3>2. lock = "none"
      BY <3>1 DEF AloneInv
    <3> QED
      BY <2>4, <3>2 DEF Forgive, DropAttempts
  <2> QED
    BY <2>2, <2>3, <2>4
<1> QED
  BY <1>1, <1>2

LEMMA AloneStep ==
  TypeInv /\ RotationInv /\ AloneInv /\ [MCNext]_<<vars, alone, ended>> => AloneInv'
<1> SUFFICES ASSUME TypeInv, RotationInv, AloneInv, [MCNext]_<<vars, alone, ended>>, alone'
             PROVE  AloneInv'
  BY DEF AloneInv
<1>0. /\ [Next]_vars /\ alone
      /\ \A r, q \in Requests : reqs'[r] # Idle /\ reqs'[q] # Idle => r = q
  BY DEF MCNext, vars, AloneInv
<1> /\ tokens \in Seq(Token) /\ Len(tokens) \in Nat /\ keys \subseteq TokenIds
    /\ TokenIds = 1 .. Len(tokens)
  BY DEF TypeInv, TypeOK, TokenIds
<1> DEFINE Unique == \A s, t \in keys : Session(s) = Session(t) => s = t
           Exchanges(r) ==
             /\ reqs[r].pc = "revoke" =>
                  \A t \in keys : Session(t) = SessionOf(r) => t = reqs[r].token
             /\ reqs[r].pc = "issue" /\ reqs[r].op = "refresh" =>
                  \A t \in keys : Session(t) # SessionOf(r)
<1>1. Unique /\ \A r \in Requests : Exchanges(r)
  BY <1>0 DEF AloneInv
<1>2. ASSUME NEW r \in Requests, Arrive(r) \/ Proceed(r)
      PROVE  Unique' /\ \A x \in Requests : Exchanges(x)'
  <2>1. \A x \in Requests : x # r => reqs'[x] = reqs[x]
    BY <1>2, OneSlot
  <2>2. ASSUME NEW op \in {"refresh", "logout"}, NEW t \in TokenIds, Validate(r, op, t)
        PROVE  Unique' /\ \A x \in Requests : Exchanges(x)'
    <3>1. /\ tokens' = tokens /\ keys' = keys /\ t \in keys
          /\ reqs'[r].pc = "revoke" /\ reqs'[r].token = t
      BY <2>2, ValidateEffect
    <3>2. \A x \in Requests : x # r => reqs'[x] = Idle
      BY <1>0, <3>1 DEF Idle
    <3>3. Unique'
      BY <1>1, <3>1 DEF Session
    <3>4. Exchanges(r)'
      BY <1>1, <3>1 DEF Session, SessionOf
    <3>5. ASSUME NEW x \in Requests, x # r PROVE Exchanges(x)'
      BY <3>2, <3>5 DEF Idle
    <3> QED
      BY <3>3, <3>4, <3>5
  <2>3. CASE Revoke(r)
    <3>1. /\ tokens' = tokens /\ keys' = keys \ {reqs[r].token}
          /\ reqs[r].pc = "revoke"
          /\ reqs'[r] = Idle \/ (reqs'[r].pc = "issue" /\ reqs'[r].token = reqs[r].token)
      BY <2>3, RevokeEffect
    <3>2. Unique'
      BY <1>1, <3>1 DEF Session
    <3>3. Exchanges(r)'
      BY <1>1, <3>1 DEF Session, SessionOf, Idle
    <3>4. ASSUME NEW x \in Requests, x # r PROVE Exchanges(x)'
      <4>1. reqs[x] = Idle
        BY <1>0, <3>1, <3>4 DEF AloneInv, Idle
      <4> QED
        BY <2>1, <3>4, <4>1 DEF Idle
    <3> QED
      BY <3>2, <3>3, <3>4
  <2>4. CASE Issue(r)
    <3>1. \A x \in Requests : reqs'[x] = Idle
      BY <1>0, <2>1, <2>4, IssueEffect DEF AloneInv
    <3>2. ASSUME NEW t \in keys
          PROVE  tokens'[t].session = Session(t) /\ Session(t) # tokens'[Len(tokens) + 1].session
      <4>1. tokens'[t].session = Session(t)
        BY <2>4, IssueEffect DEF Session
      <4>2. tokens[t] \in Token
        OBVIOUS
      <4>3. Session(t) \in Nat /\ Session(t) <= Len(tokens)
        BY <4>2 DEF RotationInv, Session, Token
      <4>4. reqs[r].op = "refresh" => Session(t) # SessionOf(r)
        BY <1>1, <2>4, IssueEffect
      <4> QED
        BY <2>4, <4>1, <4>3, <4>4, IssueEffect
    <3>3. Unique'
      <4>1. keys' = keys \cup {Len(tokens) + 1}
        BY <2>4, IssueEffect
      <4>2. \A s, t \in keys' : tokens'[s].session = tokens'[t].session => s = t
        <5> SUFFICES ASSUME NEW s \in keys', NEW t \in keys',
                            tokens'[s].session = tokens'[t].session
                     PROVE  s = t
          OBVIOUS
        <5>1. CASE s \in keys /\ t \in keys
          <6>1. Session(s) = Session(t)
            BY <3>2, <5>1
          <6> QED
            BY <1>1, <5>1, <6>1
        <5> QED
          BY <3>2, <4>1, <5>1
      <4> QED
        BY <4>2 DEF Session
    <3> QED
      BY <3>1, <3>3 DEF Idle
  <2>5. CASE Aside(r)
    <3>1. Unique'
      BY <1>1, <2>5 DEF Aside, Session
    <3>2. Exchanges(r)'
      BY <2>5 DEF Aside
    <3>3. ASSUME NEW x \in Requests, x # r PROVE Exchanges(x)'
      BY <1>1, <2>1, <2>5, <3>3 DEF Aside, Session, SessionOf
    <3> QED
      BY <3>1, <3>2, <3>3
  <2> QED
    BY <1>2, <2>2, <2>3, <2>4, <2>5, Moves
<1>3. ASSUME UNCHANGED <<tokens, reqs>>, keys' \subseteq keys
      PROVE  Unique' /\ \A x \in Requests : Exchanges(x)'
  BY <1>1, <1>3 DEF Session, SessionOf
<1>4. Unique' /\ \A x \in Requests : Exchanges(x)'
  BY <1>0, <1>2, <1>3 DEF Next, KeyExpire, AttemptsExpire, LockExpire, AsksExpire, LinkExpire,
                          vars, tokenVars
<1> QED
  BY <1>0, <1>4, LockAlone DEF AloneInv

LEMMA AloneAlways == MCSpec => []AloneInv
<1>1. MCInit => AloneInv
  BY DEF MCInit, Init, AloneInv, Idle
<1> QED
  BY <1>1, RotationAlways, AloneStep, PTL DEF MCSpec

\* As long as no two requests overlap, rotation leaves a session one live
\* refresh token at most, however many logins, exchanges and resets there are.
THEOREM RotationAlone == MCSpec => []OneTokenAlone
<1>1. AloneInv => OneTokenAlone
  BY DEF AloneInv, OneTokenAlone, OneTokenPerSession, Session
<1> QED
  BY <1>1, AloneAlways, PTL

\* As long as no two requests overlap, no login of a locked account begins a
\* session: the lock is set before its failed login is answered, and looked at
\* by every login after it.
THEOREM LockHoldsAlone == MCSpec => LockedOutAlone
<1>1. AloneInv /\ [MCNext]_<<vars, alone, ended>> =>
        [alone' /\ lock # "none" => \A r \in Requests : ~ Begins(r)]_<<vars, alone, ended>>
  <2> SUFFICES ASSUME AloneInv, [MCNext]_<<vars, alone, ended>>, alone', lock # "none",
                      NEW r \in Requests, Begins(r)
               PROVE  FALSE
    OBVIOUS
  <2>1. alone
    BY DEF MCNext, vars
  <2> QED
    BY <2>1 DEF AloneInv, Begins, At
<1> QED
  BY <1>1, AloneAlways, PTL DEF MCSpec, LockedOutAlone
=============================================================================
