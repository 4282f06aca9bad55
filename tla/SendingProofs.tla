--------------------------- MODULE SendingProofs ----------------------------
(***************************************************************************)
(* Theorems about Sending and the window of MessageLimit, for any number   *)
(* of checks in flight, any window, limit and lag.                         *)
(***************************************************************************)
EXTENDS Sending, FiniteSetTheorems, TLAPS

\* A check under way has a stamp that is at most Lag old.
InFlight ==
  \A r \in Requests : reqs[r] # Idle =>
    /\ reqs[r].id \in Attempts
    /\ attempts[reqs[r].id] <= clock
    /\ clock <= attempts[reqs[r].id] + Lag

Stamped == Lag <= clock /\ \A i \in Attempts : attempts[i] <= clock

Counted(r) == At(r, "count")

\* What was accepted, or recorded and is about to be counted, is in the set
\* as long as it may be in somebody's window.
Remembered(i) == i \in entries \/ attempts[i] + Window <= clock

Kept ==
  /\ \A i \in accepted : Remembered(i)
  /\ \A r \in Requests : Counted(r) => Remembered(reqs[r].id)

\* The key does not expire before the messages it has let through.
Lives == \A i \in accepted \cap entries :
           deadline = 0 \/ attempts[i] + Window <= deadline

\* Once a check has removed what is too old, only attempts in its window are
\* in the set.
Trimmed(r) == At(r, "add") \/ At(r, "count")

Fresh == \A r \in Requests : Trimmed(r) =>
           \A i \in entries : attempts[reqs[r].id] < attempts[i] + Window

WindowInv == WindowTypeOK /\ InFlight /\ Stamped /\ Kept /\ Lives /\ Fresh

-----------------------------------------------------------------------------
\* The first tick finds nothing recorded.
LEMMA WindowInvInit == WindowInit => WindowInv
  <1> SUFFICES ASSUME WindowInit PROVE WindowInv
      OBVIOUS
  <1> USE DEF WindowInit, Attempts
  <1>1. WindowTypeOK
      BY WindowAssumption DEF WindowTypeOK, Idle
  <1>2. InFlight /\ Stamped
      BY WindowAssumption DEF InFlight, Stamped, Idle
  <1>3. Kept /\ Lives /\ Fresh
      BY DEF Kept, Lives, Fresh, Counted, Trimmed, At, Idle
  <1> QED BY <1>1, <1>2, <1>3 DEF WindowInv

\* A new attempt has a stamp no later than the clock, and no effect yet.
LEMMA AttemptKeeps ==
  ASSUME WindowInv, NEW r \in Requests, Attempt(r)
  PROVE  WindowInv'
  <1> USE DEF WindowInv
  <1>1. PICK behind \in 0..Lag : attempts' = Append(attempts, clock - behind)
      BY DEF Attempt
  <1>2. clock - behind \in Nat /\ clock - behind <= clock
        /\ clock <= (clock - behind) + Lag
      BY WindowAssumption DEF Stamped, WindowTypeOK
  <1>3. /\ attempts' \in Seq(Nat)
        /\ Len(attempts') = Len(attempts) + 1
        /\ attempts'[Len(attempts) + 1] = clock - behind
        /\ \A i \in Attempts : i \in Attempts' /\ attempts'[i] = attempts[i]
        /\ Attempts' = Attempts \cup {Len(attempts) + 1}
        /\ Len(attempts) + 1 \notin Attempts
      BY <1>1, <1>2 DEF WindowTypeOK, Attempts
  <1>4. /\ reqs' = [reqs EXCEPT ![r] = [pc |-> "trim", id |-> Len(attempts) + 1]]
        /\ UNCHANGED <<clock, entries, deadline, accepted, refused>>
      BY DEF Attempt
  <1>5. reqs' \in [Requests -> {Idle} \cup Check]
      <2>1. [pc |-> "trim", id |-> Len(attempts) + 1] \in Check
          BY DEF Check, WindowTypeOK
      <2> QED BY <1>4, <2>1 DEF WindowTypeOK
  <1>6. WindowTypeOK'
      BY <1>3, <1>4, <1>5 DEF WindowTypeOK
  <1>7. InFlight' /\ Stamped'
      BY <1>2, <1>3, <1>4 DEF InFlight, Stamped, WindowTypeOK
  <1>8. \A q \in Requests :
          /\ q # r => reqs'[q] = reqs[q]
          /\ ~ Counted(r)' /\ ~ Trimmed(r)'
      BY <1>4 DEF WindowTypeOK, Counted, Trimmed, At
  <1>9. \A i \in Attempts : Remembered(i) => Remembered(i)'
      BY <1>3, <1>4 DEF Remembered
  <1>10. Kept'
      BY <1>4, <1>8, <1>9
      DEF Kept, Counted, At, InFlight, WindowTypeOK, Idle
  <1>11. Lives'
      BY <1>3, <1>4 DEF Lives, WindowTypeOK
  <1>12. Fresh'
      <2> SUFFICES ASSUME NEW q \in Requests, Trimmed(q)', NEW i \in entries'
                   PROVE  attempts'[reqs'[q].id] < attempts'[i] + Window
          BY DEF Fresh
      <2>1. q # r /\ Trimmed(q) /\ reqs'[q] = reqs[q] /\ i \in entries
          BY <1>4, <1>8 DEF Trimmed, At
      <2>2. reqs[q].id \in Attempts /\ i \in Attempts
          BY <2>1 DEF InFlight, Trimmed, At, Idle, WindowTypeOK
      <2> QED BY <1>3, <2>1, <2>2 DEF Fresh
  <1> QED BY <1>6, <1>7, <1>10, <1>11, <1>12

\* A check removes only what is behind its own stamp, hence behind the clock.
LEMMA TrimKeeps ==
  ASSUME WindowInv, NEW r \in Requests, Trim(r)
  PROVE  WindowInv'
  <1> USE DEF WindowInv
  <1> DEFINE now == attempts[reqs[r].id]
  <1>1. /\ reqs[r] # Idle /\ reqs[r].id \in Attempts /\ now <= clock
        /\ reqs[r] \in Check
      BY DEF Trim, At, InFlight, Idle, WindowTypeOK
  <1>2. /\ entries' = entries \ Outside(now)
        /\ deadline' \in {0, deadline}
        /\ reqs' = [reqs EXCEPT ![r].pc = "add"]
        /\ UNCHANGED <<clock, attempts, accepted, refused>>
      BY DEF Trim, Keep, Goto
  <1>3. \A i \in Attempts : attempts[i] \in Nat
      BY DEF WindowTypeOK, Attempts
  <1>4. WindowTypeOK'
      <2>1. reqs' \in [Requests -> {Idle} \cup Check]
          BY <1>1, <1>2 DEF WindowTypeOK, Check
      <2> QED BY <1>2, <2>1 DEF WindowTypeOK, Attempts
  <1>5. \A q \in Requests :
          /\ q # r => reqs'[q] = reqs[q]
          /\ reqs'[r] # Idle /\ reqs'[r].id = reqs[r].id /\ reqs'[r].pc = "add"
      BY <1>1, <1>2 DEF WindowTypeOK, Check, Idle
  <1>6. InFlight' /\ Stamped'
      BY <1>1, <1>2, <1>5 DEF InFlight, Stamped, Attempts
  <1>7. \A i \in Attempts : Remembered(i) => Remembered(i)'
      BY <1>1, <1>2, <1>3, WindowAssumption DEF Remembered, Outside, WindowTypeOK
  <1>8. Kept'
      BY <1>2, <1>5, <1>7 DEF Kept, Counted, At, InFlight, WindowTypeOK, Idle
  <1>9. Lives'
      BY <1>2 DEF Lives
  <1>10. Fresh'
      <2>1. \A i \in entries' : i \in entries /\ now < attempts[i] + Window
          BY <1>1, <1>2, <1>3, WindowAssumption DEF Outside, WindowTypeOK
      <2> QED BY <1>2, <1>5, <2>1 DEF Fresh, Trimmed, At
  <1> QED BY <1>4, <1>6, <1>8, <1>9, <1>10

\* ZADD: every attempt in the set is in the window of every check that has
\* trimmed it, since no stamp is older than Lag when it comes in.
LEMMA RecordKeeps ==
  ASSUME WindowInv, NEW r \in Requests, Record(r)
  PROVE  WindowInv'
  <1> USE DEF WindowInv
  <1> DEFINE id == reqs[r].id
  <1>1. /\ reqs[r] # Idle /\ id \in Attempts /\ reqs[r] \in Check
        /\ attempts[id] <= clock /\ clock <= attempts[id] + Lag
      BY DEF Record, At, InFlight, Idle, WindowTypeOK
  <1>2. /\ entries' = entries \cup {id}
        /\ reqs' = [reqs EXCEPT ![r].pc = "count"]
        /\ UNCHANGED <<clock, attempts, deadline, accepted, refused>>
      BY DEF Record, Goto
  <1>3. \A i \in Attempts : attempts[i] \in Nat
      BY DEF WindowTypeOK, Attempts
  <1>4. WindowTypeOK'
      <2>1. reqs' \in [Requests -> {Idle} \cup Check]
          BY <1>1, <1>2 DEF WindowTypeOK, Check
      <2> QED BY <1>1, <1>2, <2>1 DEF WindowTypeOK, Attempts
  <1>5. \A q \in Requests :
          /\ q # r => reqs'[q] = reqs[q]
          /\ reqs'[r] # Idle /\ reqs'[r].id = id /\ reqs'[r].pc = "count"
      BY <1>1, <1>2 DEF WindowTypeOK, Check, Idle
  <1>6. InFlight' /\ Stamped'
      BY <1>1, <1>2, <1>5 DEF InFlight, Stamped, Attempts
  <1>7. \A i \in Attempts : Remembered(i) => Remembered(i)'
      BY <1>2 DEF Remembered
  <1>8. Kept'
      <2>1. Remembered(id)'
          BY <1>2 DEF Remembered
      <2> QED BY <1>1, <1>2, <1>5, <1>7, <2>1
             DEF Kept, Counted, At, InFlight, WindowTypeOK, Idle
  <1>9. Lives'
      <2>1. id \in accepted => id \in entries \/ attempts[id] + Window <= clock
          BY DEF Kept, Remembered
      <2>2. ~ (attempts[id] + Window <= clock)
          BY <1>1, <1>3, WindowAssumption DEF WindowTypeOK
      <2> QED BY <1>2, <2>1, <2>2 DEF Lives
  <1>10. Fresh'
      <2> SUFFICES ASSUME NEW q \in Requests, Trimmed(q)', NEW i \in entries'
                   PROVE  attempts'[reqs'[q].id] < attempts'[i] + Window
          BY DEF Fresh
      <2>1. Trimmed(q) /\ reqs'[q].id = reqs[q].id
          BY <1>5 DEF Trimmed, At, Record
      <2>2. reqs[q].id \in Attempts /\ attempts[reqs[q].id] <= clock
          BY <2>1 DEF InFlight, Trimmed, At, Idle
      <2>3. CASE i \in entries
          BY <1>2, <2>1, <2>3 DEF Fresh
      <2>4. CASE i = id
          <3>1. attempts[id] \in Nat /\ attempts[reqs[q].id] \in Nat
              BY <1>1, <1>3, <2>2
          <3>2. clock \in Nat
              BY DEF WindowTypeOK
          <3>3. attempts[reqs[q].id] < attempts[id] + Window
              BY <1>1, <2>2, <3>1, <3>2, WindowAssumption
          <3> QED BY <1>2, <2>1, <2>4, <3>3
      <2> QED BY <1>2, <2>3, <2>4
  <1> QED BY <1>4, <1>6, <1>8, <1>9, <1>10

\* The answer: EXPIRE gives the key a life longer than every stamp's window.
LEMMA CountKeeps ==
  ASSUME WindowInv, NEW r \in Requests, Count(r)
  PROVE  WindowInv'
  <1> USE DEF WindowInv
  <1> DEFINE id == reqs[r].id
  <1>1. reqs[r] # Idle /\ id \in Attempts /\ Counted(r)
      BY DEF Count, At, InFlight, Idle, Counted
  <1>2. /\ deadline' = clock + Window
        /\ accepted' \in {accepted, accepted \cup {id}}
        /\ refused' \in {refused, refused \cup {id}}
        /\ reqs' = [reqs EXCEPT ![r] = Idle]
        /\ UNCHANGED <<clock, attempts, entries>>
      BY DEF Count, Life, Return
  <1>3. \A q \in Requests :
          /\ q # r => reqs'[q] = reqs[q]
          /\ reqs'[r] = Idle /\ ~ Counted(r)' /\ ~ Trimmed(r)'
      BY <1>2 DEF WindowTypeOK, Idle, Counted, Trimmed, At
  <1>4. WindowTypeOK'
      BY <1>1, <1>2, WindowAssumption DEF WindowTypeOK, Attempts
  <1>5. InFlight' /\ Stamped'
      BY <1>2, <1>3 DEF InFlight, Stamped, Attempts
  <1>6. Kept'
      BY <1>1, <1>2, <1>3 DEF Kept, Counted, At, Remembered
  <1>7. Lives'
      <2>1. \A i \in Attempts : attempts[i] \in Nat /\ attempts[i] <= clock
          BY DEF WindowTypeOK, Attempts, Stamped
      <2> QED BY <1>2, <2>1, WindowAssumption DEF Lives, WindowTypeOK
  <1>8. Fresh'
      BY <1>2, <1>3 DEF Fresh, Trimmed, At
  <1> QED BY <1>4, <1>5, <1>6, <1>7, <1>8

\* A check that breaks off leaves what its commands have done.
LEMMA BreakKeeps ==
  ASSUME WindowInv, NEW r \in Requests, Break(r)
  PROVE  WindowInv'
  <1> USE DEF WindowInv
  <1>1. /\ reqs' = [reqs EXCEPT ![r] = Idle]
        /\ UNCHANGED <<clock, attempts, entries, deadline, accepted, refused>>
      BY DEF Break, Return
  <1>2. \A q \in Requests :
          /\ q # r => reqs'[q] = reqs[q]
          /\ reqs'[r] = Idle /\ ~ Counted(r)' /\ ~ Trimmed(r)'
      BY <1>1 DEF WindowTypeOK, Idle, Counted, Trimmed, At
  <1>3. WindowTypeOK'
      BY <1>1 DEF WindowTypeOK, Attempts
  <1>4. InFlight' /\ Stamped'
      BY <1>1, <1>2 DEF InFlight, Stamped, Attempts
  <1>5. Kept' /\ Lives' /\ Fresh'
      BY <1>1, <1>2 DEF Kept, Lives, Fresh, Counted, Trimmed, At, Remembered
  <1> QED BY <1>3, <1>4, <1>5

\* Time passes: when the key expires, all that went into an accepted message's
\* window is old.
LEMMA TickKeeps ==
  ASSUME WindowInv, Tick
  PROVE  WindowInv'
  <1> USE DEF WindowInv
  <1>1. /\ clock' = clock + 1
        /\ entries' = IF Expired THEN {} ELSE entries
        /\ deadline' \in {0, deadline}
        /\ UNCHANGED <<attempts, accepted, refused, reqs>>
      BY DEF Tick, Keep
  <1>2. \A r \in Requests : reqs[r] # Idle =>
          reqs[r].pc = "trim" /\ clock < attempts[reqs[r].id] + Lag
      BY DEF Tick, At
  <1>3. \A r \in Requests : ~ Counted(r)' /\ ~ Trimmed(r)'
      BY <1>1, <1>2 DEF Counted, Trimmed, At, Idle
  <1>4. \A i \in Attempts : attempts[i] \in Nat
      BY DEF WindowTypeOK, Attempts
  <1>5. WindowTypeOK'
      BY <1>1 DEF WindowTypeOK, Attempts
  <1>6. InFlight'
      BY <1>1, <1>2, <1>4, WindowAssumption DEF InFlight, WindowTypeOK, Attempts
  <1>7. Stamped'
      BY <1>1, <1>4, WindowAssumption DEF Stamped, WindowTypeOK, Attempts
  <1>8. Kept'
      <2>1. ASSUME NEW i \in accepted PROVE Remembered(i)'
          BY <1>1, <1>4, WindowAssumption
          DEF Kept, Remembered, Lives, Expired, WindowTypeOK
      <2> QED BY <1>1, <1>3, <2>1 DEF Kept
  <1>9. Lives' /\ Fresh'
      BY <1>1, <1>3 DEF Lives, Fresh
  <1> QED BY <1>5, <1>6, <1>7, <1>8, <1>9

LEMMA WindowInvNext == WindowInv /\ [WindowNext]_windowVars => WindowInv'
  <1> SUFFICES ASSUME WindowInv, [WindowNext]_windowVars PROVE WindowInv'
      OBVIOUS
  <1>1. ASSUME NEW r \in Requests, Attempt(r) PROVE WindowInv'
      BY <1>1, AttemptKeeps
  <1>2. ASSUME NEW r \in Requests, Trim(r) PROVE WindowInv'
      BY <1>2, TrimKeeps
  <1>3. ASSUME NEW r \in Requests, Record(r) PROVE WindowInv'
      BY <1>3, RecordKeeps
  <1>4. ASSUME NEW r \in Requests, Count(r) PROVE WindowInv'
      BY <1>4, CountKeeps
  <1>5. ASSUME NEW r \in Requests, Break(r) PROVE WindowInv'
      BY <1>5, BreakKeeps
  <1>6. CASE Tick
      BY <1>6, TickKeeps
  <1>7. CASE UNCHANGED windowVars
      BY <1>7 DEF windowVars, WindowInv, WindowTypeOK, InFlight, Stamped, Kept,
                  Lives, Fresh, Counted, Trimmed, Remembered, At, Attempts
  <1> QED BY <1>1, <1>2, <1>3, <1>4, <1>5, <1>6, <1>7 DEF WindowNext

-----------------------------------------------------------------------------
(* What the window promises.                                               *)

LEMMA DomainFinite == ASSUME NEW s \in Seq(Nat) PROVE IsFiniteSet(DOMAIN s)
  <1>1. DOMAIN s = 1..Len(s) /\ Len(s) \in Nat
      OBVIOUS
  <1> QED BY <1>1, FS_Interval

\* When a message is accepted every accepted message of a window it is in is
\* still in the set, which ZCARD has found to hold Max attempts at most.
LEMMA AtMostMaxNext ==
  ASSUME WindowInv, AtMostMax, [WindowNext]_windowVars
  PROVE  AtMostMax'
  <1> USE DEF WindowInv
  <1>1. \A i \in Attempts : attempts[i] \in Nat
      BY DEF WindowTypeOK, Attempts
  <1>2. accepted' = accepted /\ (\A i \in accepted : attempts'[i] = attempts[i])
        => AtMostMax'
      <2> SUFFICES ASSUME accepted' = accepted,
                          \A i \in accepted : attempts'[i] = attempts[i],
                          NEW i \in accepted
                   PROVE  Cardinality(InWindowFrom(i)') <= Max
          BY DEF AtMostMax
      <2>1. InWindowFrom(i)' = InWindowFrom(i)
          BY DEF InWindowFrom
      <2> QED BY <2>1 DEF AtMostMax
  <1>3. ASSUME NEW r \in Requests, Attempt(r) PROVE AtMostMax'
      <2>1. PICK behind \in 0..Lag : attempts' = Append(attempts, clock - behind)
          BY <1>3 DEF Attempt
      <2>2. \A i \in Attempts : attempts'[i] = attempts[i]
          <3>1. clock - behind \in Nat
              BY WindowAssumption DEF Stamped, WindowTypeOK
          <3> QED BY <2>1, <3>1 DEF WindowTypeOK, Attempts
      <2> QED BY <1>2, <1>3, <2>2 DEF Attempt, WindowTypeOK
  <1>4. ASSUME NEW r \in Requests, Count(r) PROVE AtMostMax'
      <2> PICK id : id = reqs[r].id
          OBVIOUS
      <2>1. UNCHANGED <<clock, attempts, entries>>
          BY <1>4 DEF Count
      <2>2. /\ id \in Attempts /\ Remembered(id)
            /\ attempts[id] \in Nat /\ clock \in Nat
            /\ clock <= attempts[id] + Lag
          BY <1>1, <1>4 DEF Count, At, Counted, InFlight, Kept, Idle, WindowTypeOK
      <2>3. CASE accepted' = accepted
          BY <1>2, <2>1, <2>3
      <2>4. CASE accepted' = accepted \cup {id} /\ Cardinality(entries) <= Max
          <3> SUFFICES ASSUME NEW i \in accepted'
                       PROVE  Cardinality(InWindowFrom(i)') <= Max
              BY DEF AtMostMax
          <3>1. i \in Attempts /\ accepted' \subseteq Attempts
              BY <2>2, <2>4 DEF WindowTypeOK
          <3>2. CASE id \notin InWindowFrom(i)'
              <4>1. id \in InWindowFrom(id)'
                  BY <2>1, <2>2, <2>4, WindowAssumption DEF InWindowFrom
              <4>2. i \in accepted
                  BY <2>4, <3>2, <4>1
              <4>3. InWindowFrom(i)' = InWindowFrom(i)
                  BY <2>1, <2>4, <3>2 DEF InWindowFrom
              <4> QED BY <4>2, <4>3 DEF AtMostMax
          <3>3. CASE id \in InWindowFrom(i)'
              <4>1. attempts[id] + Lag < attempts[i] + Window
                  BY <2>1, <3>3 DEF InWindowFrom
              <4>2. ASSUME NEW j \in InWindowFrom(i)' PROVE j \in entries
                  <5>1. j \in accepted' /\ attempts[i] <= attempts[j]
                      BY <2>1 DEF InWindowFrom
                  <5>2. Remembered(j)
                      BY <2>2, <2>4, <5>1 DEF Kept
                  <5>3. attempts[i] \in Nat /\ attempts[j] \in Nat
                      BY <1>1, <3>1, <5>1
                  <5>4. ~ (attempts[j] + Window <= clock)
                      BY <2>2, <4>1, <5>1, <5>3, WindowAssumption
                  <5> QED BY <5>2, <5>4 DEF Remembered
              <4>3. IsFiniteSet(entries)
                  BY DomainFinite, FS_Subset DEF WindowTypeOK, Attempts
              <4>4. Cardinality(InWindowFrom(i)') <= Cardinality(entries)
                    /\ IsFiniteSet(InWindowFrom(i)')
                  BY <4>2, <4>3, FS_Subset
              <4>5. Cardinality(InWindowFrom(i)') \in Nat /\ Cardinality(entries) \in Nat
                  BY <4>3, <4>4, FS_CardinalityType
              <4> QED BY <2>4, <4>4, <4>5, MaxAssumption
          <3> QED BY <3>2, <3>3
      <2> QED BY <1>4, <2>3, <2>4 DEF Count
  <1>5. ASSUME NEW r \in Requests, Trim(r) \/ Record(r) \/ Break(r) PROVE AtMostMax'
      BY <1>2, <1>5 DEF Trim, Record, Break
  <1>6. CASE Tick \/ UNCHANGED windowVars
      BY <1>2, <1>6 DEF Tick, windowVars
  <1> QED BY <1>3, <1>4, <1>5, <1>6 DEF WindowNext

\* Whoever is refused has counted only attempts in his window.
LEMMA RefusalsNext ==
  ASSUME WindowInv, RefusalsJustified, [WindowNext]_windowVars
  PROVE  RefusalsJustified'
  <1> USE DEF WindowInv
  <1>1. \A i \in Attempts : attempts[i] \in Nat
      BY DEF WindowTypeOK, Attempts
  <1>2. ASSUME refused' = refused, IsFiniteSet(Attempts'),
               \A i \in Attempts : i \in Attempts' /\ attempts'[i] = attempts[i]
        PROVE  RefusalsJustified'
      <2> SUFFICES ASSUME NEW i \in refused
                   PROVE  Cardinality(Around(i)') > Max
          BY <1>2 DEF RefusalsJustified
      <2>1. i \in Attempts
          BY DEF WindowTypeOK
      <2>2. Around(i) \subseteq Around(i)' /\ Around(i)' \subseteq Attempts'
          BY <1>2, <2>1 DEF Around
      <2>3. IsFiniteSet(Around(i)') /\ IsFiniteSet(Around(i))
            /\ Cardinality(Around(i)) <= Cardinality(Around(i)')
          BY <1>2, <2>2, FS_Subset
      <2>4. Cardinality(Around(i)) \in Nat /\ Cardinality(Around(i)') \in Nat
          BY <2>3, FS_CardinalityType
      <2>5. Cardinality(Around(i)) > Max
          BY DEF RefusalsJustified
      <2> QED BY <2>3, <2>4, <2>5, MaxAssumption
  <1>3. IsFiniteSet(Attempts) /\ IsFiniteSet(Attempts')
      <2>1. attempts \in Seq(Nat) /\ attempts' \in Seq(Nat)
          BY WindowInvNext DEF WindowTypeOK
      <2> QED BY <2>1, DomainFinite DEF Attempts
  <1>4. ASSUME NEW r \in Requests, Attempt(r) PROVE RefusalsJustified'
      <2>1. PICK behind \in 0..Lag : attempts' = Append(attempts, clock - behind)
          BY <1>4 DEF Attempt
      <2>2. \A i \in Attempts : i \in Attempts' /\ attempts'[i] = attempts[i]
          <3>1. clock - behind \in Nat
              BY WindowAssumption DEF Stamped, WindowTypeOK
          <3> QED BY <2>1, <3>1 DEF WindowTypeOK, Attempts
      <2> QED BY <1>2, <1>3, <1>4, <2>2 DEF Attempt
  <1>5. ASSUME NEW r \in Requests, Count(r) PROVE RefusalsJustified'
      <2> DEFINE id == reqs[r].id
      <2>1. UNCHANGED <<attempts, entries>>
          BY <1>5 DEF Count
      <2>2. CASE refused' = refused
          BY <1>2, <1>3, <2>1, <2>2 DEF Attempts
      <2>3. CASE refused' = refused \cup {id} /\ ~ (Cardinality(entries) <= Max)
          <3>1. /\ id \in Attempts /\ attempts[id] \in Nat
                /\ clock \in Nat /\ clock <= attempts[id] + Lag /\ Trimmed(r)
              BY <1>1, <1>5 DEF Count, At, Trimmed, InFlight, Idle, WindowTypeOK
          <3>2. entries \subseteq Around(id)
              <4> SUFFICES ASSUME NEW j \in entries PROVE j \in Around(id)
                  OBVIOUS
              <4>1. j \in Attempts /\ attempts[j] \in Nat /\ attempts[j] <= clock
                  BY <1>1 DEF WindowTypeOK, Stamped
              <4>2. attempts[id] < attempts[j] + Window
                  BY <3>1 DEF Fresh
              <4>3. attempts[j] <= attempts[id] + Lag
                  BY <3>1, <4>1, WindowAssumption
              <4> QED BY <4>1, <4>2, <4>3 DEF Around
          <3>3. Around(id) \subseteq Attempts
              BY DEF Around
          <3>4. IsFiniteSet(Around(id)) /\ IsFiniteSet(entries)
                /\ Cardinality(entries) <= Cardinality(Around(id))
              BY <1>3, <3>2, <3>3, FS_Subset
          <3>5. Cardinality(entries) \in Nat /\ Cardinality(Around(id)) \in Nat
              BY <3>4, FS_CardinalityType
          <3>6. Cardinality(Around(id)) > Max
              BY <2>3, <3>4, <3>5, MaxAssumption
          <3>7. \A i \in refused' : Cardinality(Around(i)) > Max
              BY <2>3, <3>6 DEF RefusalsJustified
          <3>8. \A i \in refused' : Around(i)' = Around(i)
              BY <2>1 DEF Around, Attempts
          <3> QED BY <3>7, <3>8 DEF RefusalsJustified
      <2> QED BY <1>5, <2>2, <2>3 DEF Count
  <1>6. ASSUME NEW r \in Requests, Trim(r) \/ Record(r) \/ Break(r)
        PROVE  RefusalsJustified'
      <2>1. UNCHANGED <<attempts, refused>>
          BY <1>6 DEF Trim, Record, Break
      <2> QED BY <1>2, <1>3, <2>1 DEF Attempts
  <1>7. CASE Tick \/ UNCHANGED windowVars
      <2>1. UNCHANGED <<attempts, refused>>
          BY <1>7 DEF Tick, windowVars
      <2> QED BY <1>2, <1>3, <2>1 DEF Attempts
  <1> QED BY <1>4, <1>5, <1>6, <1>7 DEF WindowNext

-----------------------------------------------------------------------------
(* Sending keeps to the window, and its own invariant.                     *)

LEMMA LimiterInit == Init => WindowInit
  BY DEF Init

LEMMA LimiterNext == [Next]_vars => [WindowNext]_windowVars
  BY DEF Next, vars, Limiter, Answer, WindowNext, Store, StoreFails, Increment,
         IncrementFails, ReadPage, Reset, ResetFails

SendTypeOK ==
  /\ posting \subseteq accepted
  /\ stored \in Nat /\ seen \in Nat /\ reading \in Nat
  /\ counting \in Nat /\ counter \in Nat
  /\ settled \in BOOLEAN

\* The last page had no message that is not stored.
SendInv == SendTypeOK /\ seen <= stored /\ UnreadExact

LEMMA SendInvInit == Init => SendInv
  BY DEF Init, SendInv, SendTypeOK, UnreadExact

LEMMA SendInvNext ==
  ASSUME WindowInv, SendInv, [Next]_vars
  PROVE  SendInv'
  <1> USE DEF SendInv, SendTypeOK, UnreadExact
  <1>1. CASE Limiter
      <2>1. accepted \subseteq accepted'
          BY <1>1 DEF Limiter, Tick, Attempt, Trim, Record, Break
      <2> QED BY <1>1, <2>1 DEF Limiter, sendVars, readVars
  <1>2. ASSUME NEW r \in Requests, Answer(r) PROVE SendInv'
      <2>1. accepted \subseteq accepted'
          BY <1>2 DEF Answer, Count
      <2> QED BY <1>2, <2>1 DEF Answer, readVars
  <1>3. ASSUME NEW i \in Attempts, Store(i) PROVE SendInv'
      BY <1>3 DEF Store, windowVars, readVars
  <1>4. ASSUME NEW i \in Attempts, StoreFails(i) PROVE SendInv'
      BY <1>4 DEF StoreFails, windowVars, readVars
  <1>5. CASE Increment
      BY <1>5 DEF Increment, windowVars, readVars
  <1>6. CASE IncrementFails
      <2>1. settled' = FALSE
          BY <1>6 DEF IncrementFails
      <2>2. posting' = posting /\ accepted' = accepted
            /\ stored' \in Nat /\ seen' \in Nat /\ reading' \in Nat
            /\ counting' \in Nat /\ counter' \in Nat /\ seen' <= stored'
          BY <1>6 DEF IncrementFails, windowVars, readVars
      <2> QED BY <2>1, <2>2
  <1>7. CASE ReadPage
      <2>1. settled' = FALSE
          BY <1>7 DEF ReadPage
      <2>2. posting' = posting /\ accepted' = accepted
            /\ stored' \in Nat /\ seen' \in Nat /\ reading' \in Nat
            /\ counting' \in Nat /\ counter' \in Nat /\ seen' <= stored'
          BY <1>7 DEF ReadPage, windowVars
      <2> QED BY <2>1, <2>2
  <1>8. CASE Reset
      <2>1. settled' = (counting = 0 /\ stored = seen)
          BY <1>8 DEF Reset
      <2>2. posting' = posting /\ accepted' = accepted /\ stored' = stored
            /\ seen' = seen /\ counting' = counting /\ counter' = 0
            /\ reading' \in Nat
          BY <1>8 DEF Reset, windowVars
      <2>3. settled' \in BOOLEAN
          BY <2>1
      <2>4. counting = 0 /\ stored = seen
            => counter' + counting' = stored' - seen'
          BY <2>2
      <2>5. settled' => counter' + counting' = stored' - seen'
          BY <2>1, <2>4
      <2> QED BY <2>2, <2>3, <2>5
  <1>9. CASE ResetFails
      BY <1>9 DEF ResetFails, windowVars
  <1>10. CASE UNCHANGED vars
      BY <1>10 DEF vars, windowVars, sendVars, readVars
  <1> QED BY <1>1, <1>2, <1>3, <1>4, <1>5, <1>6, <1>7, <1>8, <1>9, <1>10 DEF Next

-----------------------------------------------------------------------------
\* TypeOK holds of every behaviour; what is posted was accepted.
THEOREM SendingTypes == Spec => []TypeOK
  <1>1. Init => WindowInv /\ SendInv
      BY LimiterInit, WindowInvInit, SendInvInit
  <1>2. WindowInv /\ SendInv /\ [Next]_vars => WindowInv' /\ SendInv'
      BY LimiterNext, WindowInvNext, SendInvNext
  <1>3. WindowInv /\ SendInv => TypeOK
      BY DEF WindowInv, SendInv, SendTypeOK, TypeOK
  <1> QED BY <1>1, <1>2, <1>3, PTL DEF Spec

\* Whatever the number of instances, the interleaving of their pipelines and
\* the checks that break off, Max is never exceeded in a window less the lag.
THEOREM LimitHolds == Spec => []AtMostMax
  <1>1. Init => WindowInv /\ AtMostMax
      BY LimiterInit, WindowInvInit DEF WindowInit, AtMostMax
  <1>2. WindowInv /\ AtMostMax /\ [Next]_vars => WindowInv' /\ AtMostMax'
      BY LimiterNext, WindowInvNext, AtMostMaxNext
  <1> QED BY <1>1, <1>2, PTL DEF Spec

\* Nobody is refused for what is no longer in his window.
THEOREM RefusalsHold == Spec => []RefusalsJustified
  <1>1. Init => WindowInv /\ RefusalsJustified
      BY LimiterInit, WindowInvInit DEF WindowInit, RefusalsJustified
  <1>2. WindowInv /\ RefusalsJustified /\ [Next]_vars
        => WindowInv' /\ RefusalsJustified'
      BY LimiterNext, WindowInvNext, RefusalsNext
  <1> QED BY <1>1, <1>2, PTL DEF Spec

\* After a reading that met no send, counter and increments under way are the
\* messages sent since.
THEOREM CountsAgree == Spec => []UnreadExact
  <1>1. Init => WindowInv /\ SendInv
      BY LimiterInit, WindowInvInit, SendInvInit
  <1>2. WindowInv /\ SendInv /\ [Next]_vars => WindowInv' /\ SendInv'
      BY LimiterNext, WindowInvNext, SendInvNext
  <1>3. SendInv => UnreadExact
      BY DEF SendInv
  <1> QED BY <1>1, <1>2, <1>3, PTL DEF Spec
=============================================================================
