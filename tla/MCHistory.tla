----------------------------- MODULE MCHistory ------------------------------
(* Finite instances of History for TLC.                                    *)
EXTENDS History

\* A negative, an absent, a small and an excessive limit.
MCLimits == {-1, 0, 5}
=============================================================================
