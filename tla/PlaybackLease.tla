---------------------------- MODULE PlaybackLease ----------------------------
(***************************************************************************)
(* What playback_epoch promises, with nothing of how the engine keeps it.   *)
(* Every call that decides what plays takes the next epoch, a lease on the  *)
(* engine.  A track is opened only under the lease of that moment; opening  *)
(* it may outlast the lease, but what is installed is what was opened.      *)
(***************************************************************************)
EXTENDS Naturals

VARIABLES
    epoch,      \* the newest lease
    opening,    \* the lease a track is being opened under, if one is
    playing     \* the lease what plays was opened under

vars == <<epoch, opening, playing>>

Init == epoch = 0 /\ opening = {} /\ playing = 0

Claim == epoch' = epoch + 1 /\ UNCHANGED <<opening, playing>>

Open == opening = {} /\ opening' = {epoch} /\ UNCHANGED <<epoch, playing>>

Install == opening = {playing'} /\ opening' = {} /\ UNCHANGED epoch

Fail == opening # {} /\ opening' = {} /\ UNCHANGED <<epoch, playing>>

Next == Claim \/ Open \/ Install \/ Fail

Spec == Init /\ [][Next]_vars

\* Why the promise is worth keeping: an older lease never takes over again.
NeverBack == [][playing' >= playing]_vars
=============================================================================
