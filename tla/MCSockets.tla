------------------------------ MODULE MCSockets ------------------------------
(* Finite instances of Sockets for TLC.                                    *)
EXTENDS Sockets, TLC

\* Users, instances and tabs are interchangeable in every action and in
\* every safety property.
Symmetry == Permutations(Users) \cup Permutations(Instances) \cup Permutations(Tabs)
=============================================================================
