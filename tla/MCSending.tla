----------------------------- MODULE MCSending ------------------------------
(* Finite instances of Sending for TLC.                                    *)
EXTENDS Sending, TLC

\* The request slots are interchangeable in every action and property.
Symmetry == Permutations(Requests)
=============================================================================
