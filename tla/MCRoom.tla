------------------------------- MODULE MCRoom -------------------------------
(* Finite instances of RoomService for TLC.                                *)
EXTENDS RoomProperties, TLC

\* Users, and the request slots, are interchangeable in every action and
\* property; not used in the run that checks liveness.
Symmetry == Permutations(Users) \cup Permutations(Requests)
=============================================================================
