----------------------------- MODULE MCZoneQueue -----------------------------
(* Instances of ZoneQueue small enough for TLC. *)
EXTENDS ZoneQueue
CONSTANTS a, b, c

\* A track with another behind it; and the last one.
Pair == [track |-> a, queue |-> <<b>>]
Last == [track |-> b, queue |-> <<>>]
Single == {Pair, Last}
Turnabout == {[first |-> Pair, later |-> Last], [first |-> Last, later |-> Pair]}
\* A track with two behind it.
Album == {[track |-> a, queue |-> <<b, c>>]}
Alone == [first : Album, later : Album]
=============================================================================
