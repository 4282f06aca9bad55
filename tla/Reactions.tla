------------------------------ MODULE Reactions ------------------------------
(***************************************************************************)
(* What message:react promises, whatever the number of round trips: every  *)
(* toggle that succeeds flips the user's reaction, once and for nobody     *)
(* else, until the message is deleted.                                     *)
(***************************************************************************)
EXTENDS Naturals

CONSTANT Users

VARIABLES
  reactions,  \* the users whose reaction the message carries
  toggles,    \* how many toggles of each user have succeeded
  deleted

vars == <<reactions, toggles, deleted>>

Flip(S, u) == IF u \in S THEN S \ {u} ELSE S \cup {u}

Init ==
  /\ reactions = {}
  /\ toggles = [u \in Users |-> 0]
  /\ deleted = FALSE

Toggle(u) ==
  /\ ~ deleted
  /\ reactions' = Flip(reactions, u)
  /\ toggles' = [toggles EXCEPT ![u] = @ + 1]
  /\ UNCHANGED deleted

Delete ==
  /\ ~ deleted
  /\ deleted' = TRUE
  /\ UNCHANGED <<reactions, toggles>>

Next == Delete \/ \E u \in Users : Toggle(u)

Spec == Init /\ [][Next]_vars
=============================================================================
