--------------------------- MODULE MCAgentPlayback ---------------------------
(* Instances of AgentPlayback small enough for TLC. *)
EXTENDS AgentPlayback, TLC

\* The tracks are alike.
Symmetry == Permutations(Track)
=============================================================================
