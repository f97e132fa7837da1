----------------------------- MODULE MCListening -----------------------------
(* Instances of Listening small enough for TLC. *)
EXTENDS Listening
CONSTANTS a, b

\* What another zone may listen to: a track it has begun, with another behind it; or one
\* it has not.
Others == {[Listen(1, a, <<b>>) EXCEPT !.timed = TRUE, !.position = 1, !.pending = "no"],
           [Listen(1, b, <<>>) EXCEPT !.timed = TRUE]}
=============================================================================
