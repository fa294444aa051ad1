-------------------------- MODULE MCSessionRoles --------------------------
(* A finite instance of SessionRoles for TLC. *)
EXTENDS SessionRoles, TLC

\* Requests are interchangeable names.
ReqSymmetry == Permutations(Reqs)
=============================================================================
