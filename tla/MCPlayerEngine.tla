--------------------------- MODULE MCPlayerEngine ---------------------------
(* Instances of PlayerEngine small enough for TLC. *)
EXTENDS PlayerEngine, TLC

\* The threads are alike.
Symmetry == Permutations(Client)

\* The calls that claim what plays or edit what follows it; those that change what
\* sounds under it; and those that bear on whether an accepted play comes to an end.
Commands == {"Play", "Next", "Stop", "Pause", "Resume",
             "SetQueue", "SetStreamQueue", "Prefetch", "SetRepeatOne"}
Outlets  == {"Play", "Stop", "Pause", "Seek", "ApplyPlaybackConfig", "SelectDevice", "ReopenOutput"}
Settles  == {"Play", "Prefetch", "Stop", "Pause", "Resume"}
=============================================================================
