--------------------------- MODULE MCPlayRequests ---------------------------
(* Instances of PlayRequests small enough for TLC. *)
EXTENDS PlayRequests, TLC

\* The browsers are alike.
Symmetry == Permutations(Client)
=============================================================================
