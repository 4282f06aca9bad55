----------------------------- MODULE MCMessages -----------------------------
(* Finite instances of Messages for TLC.                                   *)
EXTENDS Messages, TLC

\* Slots and clients are interchangeable; users are not, one is the author.
Symmetry == Permutations(Requests) \cup Permutations(Clients)

VARIABLE alone  \* history: no two requests have been in flight together

MCInit == Init /\ alone = TRUE

MCNext ==
  /\ Next
  /\ alone' = (alone /\ \A r, q \in Requests :
                          reqs'[r] # Idle /\ reqs'[q] # Idle => r = q)

MCSpec == MCInit /\ [][MCNext]_<<vars, alone>>

\* As long as no two requests overlap, every client in the end shows what
\* MongoDB holds.
ConvergedAlone == alone => Converged
=============================================================================
