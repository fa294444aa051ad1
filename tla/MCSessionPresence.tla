------------------------- MODULE MCSessionPresence -------------------------
(* Finite instances of SessionPresence for TLC. *)
EXTENDS SessionPresence, TLC

CONSTANTS owner, guest, third, s1, s2, s3

\* One socket for the owner; two for the guest, one after the other or, with
\* "multiTab", at once; a third user who comes by REST or, in the runs with
\* three users, takes over s3.
MCUserOf == [s \in Sockets |-> CASE s = s1 -> owner
                                 [] s = s2 -> guest
                                 [] s = s3 -> IF third \in Users THEN third ELSE guest]

\* Handlers are interchangeable names.
TaskSymmetry == Permutations(Tasks)
=============================================================================
