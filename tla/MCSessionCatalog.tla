------------------------- MODULE MCSessionCatalog -------------------------
(* A finite instance of SessionCatalog for TLC. *)
EXTENDS SessionCatalog, TLC

\* Ids, users, names, codes and requests are only compared with each other.
Symmetry == Permutations(Ids) \cup Permutations(Users) \cup Permutations(Names)
            \cup Permutations(Codes) \cup Permutations(Reqs)
=============================================================================
