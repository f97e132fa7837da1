---------------------------- MODULE PlayRequests ----------------------------
(***************************************************************************)
(* Play requests on their way to one local zone (src/playback): the         *)
(* sequencer that turns away a client's older requests, the guard a request *)
(* carries across its waits, the reservation of the player's epoch, and     *)
(* what is stored once the player has taken the play.                       *)
(*                                                                         *)
(* Every request is a task of its own on a pool of threads.  It waits for   *)
(* its source and the amplifier, and a stream's for the stream; in between  *)
(* each access to the sequencer, the player, the library and the listening  *)
(* tracker is one step.                                                     *)
(***************************************************************************)
EXTENDS Naturals, FiniteSets

CONSTANTS
    Client, Slots, MaxNumber,   \* those of PlaybackSequencer
    None,           \* no client, and no request
    Stops,          \* whether the zone is stopped too
    Failures,       \* whether a source, the amplifier, a stream or a write fails
    MaxRequests     \* bound: requests that reach the core in a behaviour

VARIABLES
    sequences, clock, heard, forgotten,     \* the sequencer's
    epoch,          \* the player's playback_epoch
    playing,        \* the play the player took last; None after a stop
    storedQueue,    \* whose queue the library keeps for the zone
    listening,      \* whose source the listening tracker has active
    pc, reserved,   \* each request's own
    stopPc,         \* the task that stops the zone
    \* history: the requests that woke to a newer one of their client, those the
    \* player took, and the claim that the player's newest command carries
    overtaken, played, lead

Sequencer == INSTANCE PlaybackSequencer WITH MaxAccepts <- MaxRequests

\* A request is named by its client and number; the core's own auto-advance has
\* neither.
Unnumbered == [client |-> None, number |-> 0]
Request == Sequencer!Numbered \cup {Unnumbered}

ASSUME RequestAssumption ==
    /\ Slots \in Nat \ {0} /\ MaxNumber \in Nat /\ MaxRequests \in Nat
    /\ Stops \in BOOLEAN /\ Failures \in BOOLEAN /\ None \notin Client /\ None \notin Request

table   == <<sequences, clock, heard, forgotten>>
player  == <<epoch, playing, played, lead>>
stores  == <<storedQueue, listening>>
own     == <<pc, reserved, overtaken>>
vars    == <<table, player, stores, own, stopPc>>

Init ==
    /\ Sequencer!Init /\ epoch = 0 /\ playing = None
    /\ storedQueue = None /\ listening = None
    /\ pc = [r \in Request |-> "absent"] /\ reserved = [r \in Request |-> 0]
    /\ stopPc = "absent" /\ overtaken = {} /\ played = {} /\ lead = 0
-----------------------------------------------------------------------------
(* The entry points. *)

Goto(r, at) == pc' = [pc EXCEPT ![r] = at]

Arrive(r) ==
    /\ pc[r] = "absent" /\ Cardinality({q \in Request : pc[q] # "absent"}) < MaxRequests

\* A request without a number is never refused, nor remembered.
IsCurrent(r) == r = Unnumbered \/ Sequencer!IsCurrent(r)

Accept(r) ==
    /\ Arrive(r) /\ Goto(r, "preparing")
    /\ \/ r = Unnumbered /\ UNCHANGED table
       \/ r # Unnumbered /\ Sequencer!Accept(r)
    /\ UNCHANGED <<player, stores, reserved, overtaken, stopPc>>

Reject(r) ==
    /\ Arrive(r) /\ Goto(r, "refused")
    /\ r # Unnumbered /\ Sequencer!Reject(r)
    /\ UNCHANGED <<player, stores, reserved, overtaken, stopPc>>
-----------------------------------------------------------------------------
(* The local sink. *)

Newer(r) == {q \in Sequencer!Numbered : heard[q] # 0 /\ q.client = r.client /\ q.number > r.number}

\* The wait is over: the source is resolved and the amplifier ready, or the stream
\* is open.
Wake(r) ==
    /\ \/ pc[r] = "preparing" /\ Goto(r, "prepared")
       \/ pc[r] = "opening" /\ Goto(r, "opened")
    /\ overtaken' = IF Newer(r) # {} THEN overtaken \cup {r} ELSE overtaken
    /\ UNCHANGED <<table, player, stores, reserved, stopPc>>

\* Or it ends the request: what was waited for failed, the track a client expected is
\* no longer the one playing, or the client hung up.
WakeFailed(r) ==
    /\ pc[r] \in {"preparing", "opening"} /\ Goto(r, "refused")
    /\ Failures
    /\ UNCHANGED <<table, player, stores, reserved, overtaken, stopPc>>

\* The guard, once before anything is opened and, for a stream, once after.  Seeded
\* fault: the second look is left out.
PassesOnce(r) == pc[r] = "opened" \/ IsCurrent(r)
Passes(r) == IsCurrent(r)

Check(r) ==
    /\ pc[r] \in {"prepared", "opened"}
    /\ \/ ~Passes(r) /\ Goto(r, "refused")
       \/ Passes(r) /\ Goto(r, "checked")      \* it plays a file, or its stream is open
       \/ Passes(r) /\ pc[r] = "prepared" /\ Goto(r, "opening")
    /\ UNCHANGED <<table, player, stores, reserved, overtaken, stopPc>>

Reserve(r) ==
    /\ pc[r] = "checked" /\ Goto(r, "reserved")
    /\ epoch' = epoch + 1 /\ reserved' = [reserved EXCEPT ![r] = epoch + 1]
    /\ UNCHANGED <<table, playing, played, lead, stores, overtaken, stopPc>>

\* play_if_epoch, play_stream_if_epoch.  Seeded fault: the epoch compared with is the
\* one before the reservation.
StillReservedBefore(r) == epoch = reserved[r] - 1
StillReserved(r) == epoch = reserved[r]
Spend(r) == reserved' = [reserved EXCEPT ![r] = 0]

Play(r) ==
    /\ pc[r] = "reserved" /\ StillReserved(r) /\ Goto(r, "storing")
    /\ epoch' = epoch + 1 /\ lead' = epoch + 1
    /\ playing' = r /\ played' = played \cup {r} /\ Spend(r)
    /\ UNCHANGED <<table, stores, overtaken, stopPc>>

Refuse(r) ==
    /\ pc[r] = "reserved" /\ ~StillReserved(r) /\ Goto(r, "refused") /\ Spend(r)
    /\ UNCHANGED <<table, player, stores, overtaken, stopPc>>

\* persist_queue only logs a write that failed.  Seeded fault: it is called for a play
\* whose player may still refuse it.
StoredEarly(r) ==
    \/ pc[r] = "storing" /\ Goto(r, "stored")
    \/ pc[r] = "reserved" /\ UNCHANGED pc
Stored(r) == pc[r] = "storing" /\ Goto(r, "stored")

Persist(r) ==
    /\ Stored(r)
    /\ \/ storedQueue' = r
       \/ Failures /\ UNCHANGED storedQueue
    /\ UNCHANGED <<table, player, listening, reserved, overtaken, stopPc>>

StartListening(r) ==
    /\ pc[r] = "stored" /\ Goto(r, "completed")
    /\ listening' = r
    /\ UNCHANGED <<table, player, storedQueue, reserved, overtaken, stopPc>>

\* PlaybackDispatcher::stop: the player first, then the listening tracker.
StopPlayer ==
    /\ Stops /\ stopPc = "absent" /\ stopPc' = "stopping"
    /\ epoch' = epoch + 1 /\ lead' = epoch + 1 /\ playing' = None
    /\ UNCHANGED <<table, played, stores, own>>

StopListening ==
    /\ stopPc = "stopping" /\ stopPc' = "completed"
    /\ listening' = None
    /\ UNCHANGED <<table, player, storedQueue, own>>

RequestStep(r) ==
    \/ Accept(r) \/ Reject(r) \/ Wake(r) \/ WakeFailed(r) \/ Check(r) \/ Reserve(r)
    \/ Play(r) \/ Refuse(r) \/ Persist(r) \/ StartListening(r)

Next == (\E r \in Request : RequestStep(r)) \/ StopPlayer \/ StopListening

Spec == Init /\ [][Next]_vars
-----------------------------------------------------------------------------
(* Properties. *)

RequestPCs == {"absent", "preparing", "prepared", "opening", "opened", "checked", "reserved",
               "storing", "stored", "completed", "refused"}

\* Every variable has its type.
TypeOK ==
    /\ Sequencer!TypeOK
    /\ epoch \in Nat /\ lead \in Nat /\ played \subseteq Request
    /\ playing \in Request \cup {None} /\ storedQueue \in Request \cup {None}
    /\ listening \in Request \cup {None}
    /\ pc \in [Request -> RequestPCs]
    /\ reserved \in [Request -> Nat] /\ overtaken \subseteq Request
    /\ stopPc \in {"absent", "stopping", "completed"}

\* A request whose wait ended after a newer one of its client had been accepted is
\* not played, unless the client was forgotten (sinks/local.rs:268 and 317).
OvertakenNeverPlays ==
    \A r \in overtaken \cap played : r.client \in forgotten

\* What is stored and listened to is a play the player took, and a request is
\* answered with success only if it was, with an error only if it was not.
AnswersHold ==
    /\ storedQueue \in played \cup {None} /\ listening \in played \cup {None}
    /\ \A r \in Request : /\ pc[r] = "completed" => r \in played
                          /\ pc[r] = "refused" => r \notin played

AtRest ==
    /\ \A r \in Request : pc[r] \in {"absent", "completed", "refused"}
    /\ stopPc # "stopping"

\* However many requests race, they do not all lose: at rest the newest claim on the
\* epoch is that of the player's newest command, which the worker will not find stale.
SomeoneWins == AtRest => lead = epoch

\* The table of this composition keeps the clients heard last and, of those it never
\* had to forget, the newest number: what PlaybackSequencer promises of its own.
MostRecentKept == Sequencer!MostRecentKept
NewestKnown == Sequencer!NewestKnown
=============================================================================
