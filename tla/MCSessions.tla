----------------------------- MODULE MCSessions -----------------------------
(* Finite instances of Sessions for TLC.                                   *)
EXTENDS Sessions, TLC

\* The request slots are interchangeable in every action and property.
Symmetry == Permutations(Requests)

VARIABLES
  alone,  \* history: no two requests have been in flight together
  ended   \* history: sessions logged out with nothing left of them in flight

MCInit == Init /\ alone = TRUE /\ ended = {}

SessionOf(r) == tokens[reqs[r].token].session

\* r deletes, for logout, the only live token of its session, which no other
\* request is about to exchange.
LogsOut(r) ==
  /\ At(r, "revoke") /\ reqs[r].op = "logout" /\ reqs'[r] # reqs[r]
  /\ \A t \in keys : tokens[t].session = SessionOf(r) => t = reqs[r].token
  /\ \A q \in Requests \ {r} :
       reqs[q] # Idle /\ reqs[q].op = "refresh" => SessionOf(q) # SessionOf(r)

MCNext ==
  /\ Next
  /\ alone' = (alone /\ \A r, q \in Requests :
                          reqs'[r] # Idle /\ reqs'[q] # Idle => r = q)
  /\ ended' = ended \cup {SessionOf(r) : r \in {q \in Requests : LogsOut(q)}}

MCSpec == MCInit /\ [][MCNext]_<<vars, alone, ended>>

\* As long as no two requests overlap, however many refreshes, logins and
\* resets follow each other, a session has one live refresh token at most.
OneTokenAlone == alone => OneTokenPerSession

\* As long as no two requests overlap, no login begins a session while the
\* account is locked, whichever of counter and lock expires first.
LockedOutAlone ==
  [][alone' /\ lock # "none" => \A r \in Requests : ~ Begins(r)]_<<vars, alone, ended>>

\* A session that ended so stays ended, whatever logins, refreshes of other
\* tokens, resets and further logouts are in flight.
EndedStaysEnded == \A t \in keys : tokens[t].session \notin ended
=============================================================================
