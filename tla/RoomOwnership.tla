--------------------------- MODULE RoomOwnership ---------------------------
(***************************************************************************)
(* What the membership of a room promises, without documents, versions or  *)
(* requests: a room is founded by its only owner, lets users in one at a   *)
(* time, loses non-owners, hands the ownership to a member when the owner  *)
(* leaves, and may be closed, for good.                                    *)
(***************************************************************************)
CONSTANT Users

VARIABLES phase, owners, roster

vars == <<phase, owners, roster>>

Init == phase = "none" /\ owners = {} /\ roster = {}

Found(u) ==
  /\ phase = "none" /\ phase' = "open"
  /\ owners' = {u} /\ roster' = {u}

Admit(u) ==
  /\ phase = "open" /\ u \notin roster
  /\ roster' = roster \cup {u}
  /\ UNCHANGED <<phase, owners>>

Dismiss ==
  /\ phase = "open"
  /\ roster' \in SUBSET roster /\ owners \subseteq roster'
  /\ UNCHANGED <<phase, owners>>

\* The one owner leaves and one of the members who stay takes over.
HandOver(o, h) ==
  /\ phase = "open" /\ owners = {o}
  /\ roster' \in SUBSET (roster \ {o}) /\ h \in roster'
  /\ owners' = {h}
  /\ UNCHANGED phase

Close ==
  /\ phase = "open" /\ phase' = "closed"
  /\ owners' = {} /\ roster' = {}

Next ==
  \/ \E u \in Users : Found(u) \/ Admit(u)
  \/ \E o, h \in Users : HandOver(o, h)
  \/ Dismiss \/ Close

Spec == Init /\ [][Next]_vars
=============================================================================
