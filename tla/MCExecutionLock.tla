-------------------------- MODULE MCExecutionLock --------------------------
(* Finite instances of ExecutionLock for TLC. *)
EXTENDS ExecutionLock

CONSTANTS owner, guest, r1, r2, r3

\* Two runs of the owner, which may fall into one millisecond, and one of a
\* guest whose role may change.
MCUserOf == [r \in Runs |-> IF r = r3 THEN guest ELSE owner]
=============================================================================
