----------------------------- MODULE MCAccounts -----------------------------
(***************************************************************************)
(* A finite instance of Accounts for TLC.  What two clients register with  *)
(* and what the counters and the worker do to one account do not meet, so  *)
(* the run takes the union of two scenes instead of their product.         *)
(***************************************************************************)
EXTENDS Accounts, TLC

VARIABLE scene  \* chosen once: "crowd" or "single"

\* Any registrations and verifications; nobody asks for a second mail and the
\* worker is stopped.
Crowd ==
  /\ \A r \in Requests : reqs[r] # Idle => reqs[r].op # "resend"
  /\ \A j \in jobs : j.pc = "waiting" /\ j.tried = 0

\* All accounts have one name and address; everything else happens.
Single == \A u \in UserIds : users[u] = CHOOSE a \in Account : TRUE

InScene ==
  /\ scene = "crowd" => Crowd
  /\ scene = "single" => Single

MCInit == Init /\ scene \in {"crowd", "single"}
MCNext == Next /\ scene' = scene /\ InScene'

MCSpec == MCInit /\ [][MCNext]_<<vars, scene>> /\ Fairness
=============================================================================
