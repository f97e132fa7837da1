------------------------------ MODULE ZoneQueue ------------------------------
(***************************************************************************)
(* The queue of a zone that a UPnP renderer plays, and who moves it on.      *)
(*                                                                         *)
(* The queue is kept twice, in the library and with what is listened to, and  *)
(* whoever changes it writes the one and then the other, under two locks.    *)
(* The monitor compares what the core believes of the renderer with what is  *)
(* listened to, has the renderer armed with the head of the queue, and, when *)
(* a track has ended, starts one task that waits for the renderer to go on   *)
(* by itself or plays the head for it, with retries.  The renderer goes on    *)
(* as it likes, and the listener plays, skips, stops and edits meanwhile.    *)
(*                                                                         *)
(* One step is what a task does from one await, or one write of a queue, to  *)
(* the next.  UpnpSession has the commands in detail: here a command holds    *)
(* the lock while the renderer is asked, Stop is always answered, and nothing *)
(* is paused or sought.  Listening has the observation in detail: here it is  *)
(* one step with the status it is of.  Left out: loops, radio, other          *)
(* protocols, and a skip of an empty queue.  The tracks are Qobuz's.          *)
(***************************************************************************)
EXTENDS Naturals, Sequences, FiniteSets

CONSTANTS
    Track, None,
    Calls,          \* what listeners do: a subset of CallNames
    Asked,          \* bound: what may be asked for: tracks, each with a queue behind it
    Evenings,       \* bound: what plays at first, and what a listener may play later
    MaxRetries,     \* the length of UPNP_AUTO_ADVANCE_RETRY_DELAYS
    MaxCalls,       \* bound: calls of listeners
    MaxFaults       \* bound: plays and skips that fail

CallNames == {"play", "next", "stop", "edit"}

ASSUME ZoneQueueAssumption ==
    /\ None \notin Track /\ Calls \subseteq CallNames
    /\ Asked \subseteq [track : Track, queue : Seq(Track)]
    /\ Evenings \subseteq [first : Asked, later : Asked]
    /\ {MaxRetries, MaxCalls, MaxFaults} \subseteq Nat

VARIABLES
    stored,         \* the library's zone_queue
    listen,         \* ListeningTracker.active
    pendingQueue,   \* ListeningTracker.pending_queues
    session,        \* UpnpSession: what the core believes
    generation,     \* command_generations
    renderer,
    tasks,          \* commands and prewarms under way
    monitor,        \* spawn_listening_monitor: the status it acts upon
    remembered,     \* remote_tail_observations
    prewarmed,      \* completed_upnp_prewarms
    advance,        \* the task in pending_qobuz_advances
    later,          \* bound: what a listener may play
    calls, faults,
    overtaken,      \* history: a listener's command came after the advance's last failure
    crossed         \* history: a writer of the queues began while another was between its writes

queues  == <<stored, listen, pendingQueue, crossed>>
control == <<session, generation>>
looks   == <<monitor, remembered, prewarmed>>
counts  == <<later, calls, faults>>
vars    == <<queues, control, renderer, tasks, looks, advance, counts, overtaken>>
-----------------------------------------------------------------------------
Holds(q, t) == \E i \in DOMAIN q : q[i] = t
Heads(q, t) == q # <<>> /\ Head(q) = t

Idle == [at |-> "idle"]
NoAdvance == [at |-> "none"]

\* A listen: pending until a report matches it, waiting for its queue to advance; both
\* become "late" after PENDING_MATCH_GRACE_SECONDS.
Listen(t, q, pending) ==
    [track |-> t, queue |-> q, ended |-> FALSE, pending |-> pending, waiting |-> "no"]
Listens == [track : Track, queue : Seq(Track), ended : BOOLEAN, pending : {"no", "yes", "late"},
            waiting : {"no", "yes", "late"}]

\* A track plays, with the rest of the queue behind it.
Init ==
    /\ \E evening \in Evenings : LET t == evening.first.track  q == evening.first.queue IN
           /\ stored = q /\ listen = Listen(t, q, "no") /\ later = evening.later
           /\ session = [current |-> t, armed |-> None, state |-> "Playing", ended |-> FALSE,
                         starting |-> FALSE]
           /\ renderer = [state |-> "Playing", current |-> t, next |-> None, ended |-> FALSE]
    /\ pendingQueue = <<>> /\ crossed = FALSE
    /\ generation = 1 /\ tasks = {} /\ monitor = Idle
    /\ remembered = None /\ prewarmed = <<>> /\ advance = NoAdvance
    /\ calls = 0 /\ faults = 0 /\ overtaken = FALSE

Locked == \E t \in tasks : t.at \in {"loading", "asked"}

New(op, t, q) ==
    [op |-> op, by |-> "listener", call |-> calls, at |-> "waiting", track |-> t, queue |-> q,
     generation |-> 0, before |-> None]
Begin(t) == tasks' = tasks \cup {t}
Turns(t, u) == tasks' = (tasks \ {t}) \cup {u}
Ends(t) == tasks' = tasks \ {t}

\* Who has written one of the copies of the queue and not yet the other.
Between ==
    \/ \E t \in tasks : t.at \in {"listening", "falling", "saving"}
    \/ advance.at = "saving" \/ monitor.at = "saving"
Writes == crossed' = Between

\* The library's queue.
Stores(q) == stored' = q /\ Writes /\ UNCHANGED <<listen, pendingQueue>>
Saves(q) == stored' = q /\ UNCHANGED <<listen, pendingQueue, crossed>>

\* ListeningTracker::set_queue.  Seeded fault: a listen is left with the queue it had.
KeepsQueue(q) == UNCHANGED <<stored, listen, crossed>> /\ pendingQueue' = q
ListensTo(q) ==
    /\ UNCHANGED <<stored, crossed>>
    /\ IF listen = None THEN pendingQueue' = q /\ UNCHANGED listen
       ELSE listen' = [listen EXCEPT !.queue = q] /\ UNCHANGED pendingQueue

\* ListeningTracker::next, but for the library's queue: it writes what is left.
Left == IF listen.queue = <<>> THEN <<>> ELSE Tail(listen.queue)
ListenNext ==
    /\ listen # None
    /\ listen' = IF listen.queue = <<>> THEN None ELSE Listen(Head(listen.queue), Left, "yes")
    /\ Writes /\ UNCHANGED <<stored, pendingQueue>>
-----------------------------------------------------------------------------
(* The advance: it waits for the renderer, or plays the head of the queue itself. *)

\* A play begins with its generation; its asset is prepared without the lock.
Prepares(t) == [t EXCEPT !.op = "play", !.at = "preparing", !.generation = generation + 1]
Preparing == Prepares([New("play", advance.next, advance.rest) EXCEPT !.by = "advance", !.call = 0])

Attempts ==
    /\ Begin(Preparing) /\ generation' = generation + 1
    /\ advance' = [advance EXCEPT !.at = "playing"]
    /\ UNCHANGED <<queues, session>>

AdvanceStep == UNCHANGED <<renderer, looks, counts, overtaken>>
Rests == advance' = [at |-> "rests"]

Arms == session.armed = advance.next
AdvanceBegins ==
    /\ advance.at = "begins" /\ AdvanceStep
    /\ \/ Arms /\ advance' = [advance EXCEPT !.at = "waits"] /\ UNCHANGED <<queues, control, tasks>>
       \/ ~Arms /\ Attempts

\* wait_for_observed_upnp_renderer_next: what it polls is in Poll.
Observed == session.state = "Playing" /\ session.current = advance.next
AdvanceWaits ==
    /\ advance.at = "waits" /\ AdvanceStep
    /\ \/ /\ Observed /\ ListenNext
          /\ advance' = [advance EXCEPT !.at = "saving", !.rest = Left]
          /\ UNCHANGED <<control, tasks>>
       \/ Observed /\ listen = None /\ Rests /\ UNCHANGED <<queues, control, tasks>>
       \/ ~Observed /\ Attempts

AdvanceSaves ==
    /\ advance.at = "saving" /\ AdvanceStep
    /\ Saves(advance.rest) /\ Rests
    /\ UNCHANGED <<control, tasks>>

\* ensure_upnp_auto_advance_target_is_current.  Seeded fault: a newer command does not
\* matter.
AnyTarget == listen # None /\ listen.track = advance.active /\ Heads(stored, advance.next)
Current ==
    /\ generation = advance.generation
    /\ listen # None /\ listen.track = advance.active
    /\ Heads(stored, advance.next)

AdvanceRetries ==
    /\ advance.at = "retries" /\ AdvanceStep
    /\ \/ Current /\ Attempts
       \/ ~Current /\ Rests /\ UNCHANGED <<queues, control, tasks>>

\* It leaves the zone to the next one once the status has settled, or has cooled down.
AdvanceEnds ==
    /\ advance.at = "rests" /\ AdvanceStep
    /\ advance' = NoAdvance
    /\ UNCHANGED <<queues, control, tasks>>

\* What it makes of its play.  Seeded fault: it is not told that the playback changed.
TakesResult(t, outcome) ==
    IF t.by # "advance" \/ outcome = "changed" THEN UNCHANGED <<advance, overtaken>>
    ELSE IF outcome = "played" \/ advance.tries = MaxRetries
    THEN Rests /\ UNCHANGED overtaken
    ELSE /\ advance' = [advance EXCEPT !.at = "retries", !.tries = @ + 1, !.generation = generation]
         /\ overtaken' = FALSE
Takes(t, outcome) ==
    IF t.by # "advance" THEN UNCHANGED <<advance, overtaken>>
    ELSE IF outcome \in {"changed", "played"} \/ advance.tries = MaxRetries
    THEN Rests /\ UNCHANGED overtaken
    ELSE /\ advance' = [advance EXCEPT !.at = "retries", !.tries = @ + 1,
                                       !.generation = generation]
         /\ overtaken' = FALSE
-----------------------------------------------------------------------------
(* A play: play_upnp_source_for_zone.                                        *)

PlayStep(t) == t.op = "play" /\ UNCHANGED <<generation, looks, later, calls>>

\* A listener's play has its client's number: the client may have asked for another
\* play since, in this zone or another.
Numbered(t) == t.by = "listener"

PlayStale(t) ==
    /\ PlayStep(t) /\ t.at = "preparing" /\ (t.generation # generation \/ Numbered(t))
    /\ Ends(t) /\ Takes(t, "changed")
    /\ UNCHANGED <<queues, session, renderer, faults>>

Fault == faults < MaxFaults /\ faults' = faults + 1

PrepareFails(t) ==
    /\ PlayStep(t) /\ t.at = "preparing" /\ Fault
    /\ Ends(t) /\ Takes(t, "failed")
    /\ UNCHANGED <<queues, session, renderer>>

\* The lock is taken, the session primed, and the renderer told to stop.
PlayLocks(t) ==
    /\ PlayStep(t) /\ t.at = "preparing" /\ t.generation = generation /\ ~Locked
    /\ Turns(t, [t EXCEPT !.at = "loading", !.before = session])
    /\ session' = [current |-> t.track, armed |-> None, state |-> "Transitioning",
                   ended |-> FALSE, starting |-> TRUE]
    /\ renderer' = [renderer EXCEPT !.state = "Stopped", !.next = None]
    /\ UNCHANGED <<queues, advance, faults, overtaken>>

Loaded(t, state) == [state |-> state, current |-> t.track, next |-> None, ended |-> FALSE]
PlayLoads(t) ==
    /\ PlayStep(t) /\ t.at = "loading"
    /\ renderer' = Loaded(t, "Transitioning")
    /\ \/ Turns(t, [t EXCEPT !.at = "listening"]) /\ Stores(t.queue)
          /\ UNCHANGED <<advance, overtaken>>
       \/ Numbered(t) /\ Ends(t) /\ Takes(t, "changed") /\ UNCHANGED queues
    /\ UNCHANGED <<session, faults>>

\* start_with_radio.
PlayListens(t) ==
    /\ PlayStep(t) /\ t.at = "listening"
    /\ Ends(t) /\ Takes(t, "played")
    /\ listen' = Listen(t.track, t.queue, "yes") /\ pendingQueue' = <<>>
    /\ UNCHANGED <<stored, crossed, session, renderer, faults>>

PlayFails(t) ==
    /\ PlayStep(t) /\ t.at = "loading" /\ Fault
    /\ Ends(t) /\ Takes(t, "failed")
    /\ renderer' \in {renderer, Loaded(t, "Stopped")}
    /\ session' = [t.before EXCEPT !.armed = None, !.state = "Stopped", !.starting = FALSE]
    /\ UNCHANGED queues
-----------------------------------------------------------------------------
(* Calls of listeners.                                                         *)

Call(name) ==
    /\ name \in Calls /\ calls < MaxCalls /\ calls' = calls + 1
    /\ UNCHANGED <<looks, advance, later, faults>>
Commands == generation' = generation + 1 /\ overtaken' = TRUE

Play(request) ==
    /\ Call("play")
    /\ Begin(Prepares(New("play", request.track, request.queue))) /\ Commands
    /\ UNCHANGED <<queues, session, renderer>>

\* apply_zone_queue_sources: what is listened to is not queued.
Edit(q) ==
    /\ Call("edit") /\ (listen # None => ~Holds(q, listen.track))
    /\ Stores(q) /\ Begin([New("edit", None, q) EXCEPT !.at = "listening"])
    /\ UNCHANGED <<control, renderer, overtaken>>

Stop ==
    /\ Call("stop") /\ ~Locked
    /\ Begin([New("stop", None, <<>>) EXCEPT !.at = "asked"]) /\ Commands
    /\ renderer' = [renderer EXCEPT !.state = "Stopped", !.next = None]
    /\ UNCHANGED <<queues, session>>

\* UpnpSink::next reads the queue before it waits for the lock.
Skip ==
    /\ Call("next") /\ stored # <<>>
    /\ Begin([New("next", Head(stored), Tail(stored)) EXCEPT !.by = "skip"])
    /\ UNCHANGED <<queues, control, renderer, overtaken>>

CommandStep == UNCHANGED <<looks, advance, later, calls>>

EditListens(t) ==
    /\ CommandStep /\ t.op = "edit" /\ t.at = "listening" /\ Ends(t)
    /\ ListensTo(t.queue)
    /\ UNCHANGED <<control, renderer, faults, overtaken>>

StopAnswered(t) ==
    /\ CommandStep /\ t.op = "stop" /\ t.at = "asked" /\ Ends(t)
    /\ session' = [current |-> None, armed |-> None, state |-> "Stopped", ended |-> FALSE,
                   starting |-> FALSE]
    /\ listen' = None
    /\ UNCHANGED <<stored, pendingQueue, crossed, generation, renderer, faults, overtaken>>

\* The renderer skips to the track it has armed, or the core plays it.
Skipped ==
    IF renderer.next = None THEN renderer
    ELSE [state |-> "Transitioning", current |-> renderer.next, next |-> None, ended |-> FALSE]
NextFalls(t) == Turns(t, [t EXCEPT !.at = "falling"]) /\ Stores(t.queue)
NextLocks(t) ==
    /\ CommandStep /\ t.op = "next" /\ t.at = "waiting" /\ ~Locked
    /\ \/ /\ session.armed = t.track /\ Commands
          /\ Turns(t, [t EXCEPT !.at = "asked"]) /\ UNCHANGED queues
       \/ /\ session.armed # t.track /\ NextFalls(t)
          /\ UNCHANGED <<generation, overtaken>>
    /\ UNCHANGED <<session, renderer, faults>>

NextAnswered(t) ==
    /\ CommandStep /\ t.op = "next" /\ t.at = "asked"
    /\ renderer' = Skipped
    /\ session' = [session EXCEPT !.current = t.track, !.armed = None,
                                  !.state = "Transitioning", !.ended = FALSE,
                                  !.starting = FALSE]
    /\ \/ ListenNext /\ Turns(t, [t EXCEPT !.at = "saving", !.queue = Left])
       \/ listen = None /\ Ends(t) /\ UNCHANGED queues
    /\ UNCHANGED <<generation, faults, overtaken>>

\* One that is not answered may have been carried out; the core plays the track.
NextFails(t) ==
    /\ CommandStep /\ t.op = "next" /\ t.at = "asked" /\ Fault
    /\ renderer' \in {renderer, Skipped}
    /\ NextFalls(t)
    /\ UNCHANGED <<control, overtaken>>

NextSaves(t) ==
    /\ CommandStep /\ t.op = "next" /\ t.at = "saving" /\ Ends(t)
    /\ Saves(t.queue)
    /\ UNCHANGED <<control, renderer, faults, overtaken>>

NextPlays(t) ==
    /\ CommandStep /\ t.op = "next" /\ t.at = "falling"
    /\ ListensTo(t.queue) /\ Turns(t, Prepares(t)) /\ Commands
    /\ UNCHANGED <<session, renderer, faults>>
-----------------------------------------------------------------------------
(* The monitor's prewarm: prewarm_upnp_source_for_zone.                        *)

ArmStep(t) ==
    /\ t.op = "arm"
    /\ UNCHANGED <<queues, generation, monitor, remembered, advance, counts, overtaken>>
Candidate(t) == <<t.before, t.track>>

\* A renderer that refuses is not asked again for as long as the candidate is the same.
ArmLocks(t) ==
    /\ ArmStep(t) /\ t.at = "waiting" /\ ~Locked
    /\ LET good == /\ Heads(stored, t.track)
                   /\ listen # None /\ listen.track = t.before /\ session.current = t.before
       IN  \/ ~good /\ Ends(t) /\ UNCHANGED <<renderer, prewarmed>>
           \/ good /\ Ends(t) /\ prewarmed' = Candidate(t) /\ UNCHANGED renderer
           \/ good /\ Turns(t, [t EXCEPT !.at = "asked"]) /\ UNCHANGED prewarmed
              /\ renderer' = [renderer EXCEPT !.next = t.track]
    /\ UNCHANGED session

ArmAnswered(t) ==
    /\ ArmStep(t) /\ t.at = "asked" /\ Ends(t)
    /\ session' = [session EXCEPT !.armed = t.track] /\ prewarmed' = Candidate(t)
    /\ UNCHANGED renderer
-----------------------------------------------------------------------------
(* The renderer.                                                               *)

RendererStep == UNCHANGED <<queues, generation, tasks, looks, advance, counts, overtaken>>

\* One that has loaded its next track reports that it has stopped, and may begin late.
Begins ==
    /\ RendererStep /\ renderer.state \in {"Transitioning", "Loaded"}
    /\ renderer' = [renderer EXCEPT !.state = "Playing"]
    /\ UNCHANGED session

\* A track is longer than a look takes to come by, and the core reckons with the time
\* that has passed.
NearsEnd ==
    /\ RendererStep /\ renderer.state = "Playing" /\ ~renderer.ended /\ ~session.starting
    /\ renderer' = [renderer EXCEPT !.ended = TRUE]
    /\ session' = [session EXCEPT !.ended = @ \/ session.state = "Playing"]

GoesOn(state) == [state |-> state, current |-> renderer.next, next |-> None, ended |-> FALSE]
EndsTrack ==
    /\ RendererStep /\ renderer.state = "Playing" /\ renderer.ended
    /\ \/ renderer' = [renderer EXCEPT !.state = "Stopped"]
       \/ renderer.next # None /\ renderer' \in {GoesOn("Playing"), GoesOn("Loaded")}
    /\ UNCHANGED session

\* refresh_playback_snapshot, of the monitor, of the advance, or of a page that shows
\* the zone.  A play that starts is believed until the renderer plays it; a next track
\* that was loaded is not current before it plays.
Reported == IF renderer.state = "Loaded" THEN "Stopped" ELSE renderer.state
Elsewhere == session.current # None /\ renderer.current # session.current
Reconciled ==
    IF ~Elsewhere \/ Reported = "Transitioning"
    THEN [session EXCEPT !.state = Reported, !.starting = FALSE,
                         !.ended = IF Reported = "Playing" THEN renderer.ended ELSE @]
    ELSE IF renderer.current # session.armed
    THEN [session EXCEPT !.current = None, !.state = Reported, !.ended = FALSE]
    ELSE IF Reported = "Playing"
    THEN [session EXCEPT !.current = session.armed, !.armed = None, !.state = "Playing",
                         !.ended = renderer.ended]
    ELSE [session EXCEPT !.state = Reported]
Poll ==
    /\ ~Locked
    /\ session' = IF session.starting /\ (Elsewhere \/ Reported # "Playing") THEN session
                  ELSE Reconciled
    /\ UNCHANGED <<queues, generation, renderer, tasks, looks, advance, counts, overtaken>>
-----------------------------------------------------------------------------
(* The monitor observes what the core believes, and then acts upon what it saw. *)

Status == [at |-> "seen", state |-> session.state, source |-> session.current,
           ended |-> session.ended]

\* What is observed takes the queue with it, what closes leaves it in the library.
Keeps(l) == listen' = l /\ UNCHANGED <<stored, pendingQueue, crossed>>
Merged == [listen EXCEPT !.ended = @ \/ session.ended]
MayAdvance == Merged.ended /\ listen.queue # <<>> /\ listen.waiting # "late"
ObserveStopped ==
    /\ session.state = "Stopped"
    /\ Keeps(IF listen.pending = "yes" THEN Merged
             ELSE IF MayAdvance THEN [Merged EXCEPT !.waiting = "yes"]
             ELSE None)

Behind(q, t) ==
    LET first == CHOOSE i \in DOMAIN q : q[i] = t IN SubSeq(q, first + 1, Len(q))
Seen(q) == [Listen(session.current, q, "no") EXCEPT !.ended = session.ended]

\* What plays with no listen is found again in the queue that was kept for one, or not
\* at all; the library's queue stays as it is.
Recovers ==
    IF session.state = "Playing" /\ Holds(pendingQueue, session.current)
    THEN /\ listen' = Seen(Behind(pendingQueue, session.current)) /\ pendingQueue' = <<>>
         /\ crossed' = TRUE /\ UNCHANGED stored
    ELSE Keeps(None)

\* The library's queue is written before the lock of the listens is given back.
ObserveOther ==
    /\ session.state # "Stopped" /\ session.current # listen.track
    /\ \/ listen.pending = "yes" /\ UNCHANGED queues
       \/ /\ listen.pending # "yes" /\ Holds(listen.queue, session.current)
          /\ stored' = Behind(listen.queue, session.current)
          /\ listen' = Seen(stored') /\ Writes /\ UNCHANGED pendingQueue
       \/ listen.pending # "yes" /\ ~Holds(listen.queue, session.current) /\ Recovers

ObserveMatch ==
    /\ session.state # "Stopped" /\ session.current = listen.track
    /\ Keeps([listen EXCEPT !.pending = "no", !.waiting = "no", !.ended = session.ended])

Look ==
    /\ monitor = Idle /\ monitor' = Status
    /\ \/ listen = None /\ Recovers
       \/ listen # None /\ (ObserveStopped \/ ObserveOther \/ ObserveMatch)
    /\ UNCHANGED <<control, renderer, tasks, remembered, prewarmed, advance, counts, overtaken>>

\* maybe_spawn_upnp_next_prewarm.
Matches == monitor.source \in {None, listen.track}
IsCandidate ==
    /\ monitor.state = "Playing" /\ listen # None /\ Matches
    /\ stored # <<>> /\ Head(stored) # listen.track
Prewarm ==
    LET arm == [New("arm", Head(stored), <<>>) EXCEPT !.call = 0, !.before = listen.track]
        known == prewarmed = Candidate(arm)
        begun == \E t \in tasks : t.op = "arm" /\ Candidate(t) = Candidate(arm)
    IN  \/ ~IsCandidate /\ prewarmed' = <<>> /\ UNCHANGED tasks
        \/ /\ IsCandidate
           /\ \/ session.armed = Head(stored) /\ prewarmed' = Candidate(arm) /\ UNCHANGED tasks
              \/ /\ session.armed # Head(stored)
                 /\ prewarmed' = IF known THEN prewarmed ELSE <<>>
                 /\ IF known \/ begun THEN UNCHANGED tasks ELSE Begin(arm)

\* promote_observed_upnp_renderer_next.
Promotes ==
    /\ listen # None /\ monitor.state = "Playing"
    /\ monitor.source # listen.track /\ Heads(stored, monitor.source)

\* The completions: the track ended, now or as it was last seen playing; its armed next,
\* or the head of the queue, stopped.
StoppedOnNext == monitor.state = "Stopped" /\ Heads(stored, monitor.source)
Acts == listen # None /\ ~Promotes /\ (Matches \/ StoppedOnNext)
Remembers == IF Matches /\ monitor.source # None /\ monitor.ended THEN listen.track ELSE remembered
Completed ==
    /\ monitor.state = "Stopped"
    /\ \/ StoppedOnNext
       \/ Matches /\ (monitor.ended \/ remembered' = listen.track
                        \/ (session.armed # None /\ Heads(stored, session.armed)))
\* Seeded fault: an advance that is under way does not keep another from beginning.
FreeAlways == TRUE
Free == advance = NoAdvance
Advances ==
    [at |-> "begins", next |-> Head(stored), rest |-> Tail(stored), active |-> listen.track,
     generation |-> 0, tries |-> 0]

\* maybe_spawn_qobuz_auto_advance.
AutoAdvance ==
    \/ /\ listen = None
       /\ remembered' = None /\ monitor' = Idle /\ UNCHANGED <<queues, advance>>
    \/ /\ Promotes /\ ListenNext /\ monitor' = [at |-> "saving", queue |-> Left]
       /\ remembered' = None /\ UNCHANGED advance
    \/ /\ listen # None /\ ~Promotes /\ ~Acts
       /\ monitor' = Idle /\ UNCHANGED <<queues, remembered, advance>>
    \/ /\ Acts /\ remembered' = Remembers
       /\ advance' = IF Completed /\ stored # <<>> /\ Free THEN Advances ELSE advance
       /\ monitor' = Idle /\ UNCHANGED queues

Act ==
    /\ monitor.at = "seen"
    /\ Prewarm /\ AutoAdvance
    /\ UNCHANGED <<control, renderer, counts, overtaken>>

MonitorSaves ==
    /\ monitor.at = "saving" /\ monitor' = Idle
    /\ Saves(monitor.queue)
    /\ UNCHANGED <<control, renderer, tasks, remembered, prewarmed, advance, counts, overtaken>>

Late(x) == IF x = "yes" THEN "late" ELSE x
GraceElapses ==
    /\ listen # None /\ "yes" \in {listen.pending, listen.waiting}
    /\ listen' = [listen EXCEPT !.pending = Late(@), !.waiting = Late(@)]
    /\ UNCHANGED <<stored, pendingQueue, crossed, control, renderer, tasks, looks, advance, counts,
                   overtaken>>
-----------------------------------------------------------------------------
Listener ==
    \/ \E request \in Asked : Edit(request.queue)
    \/ Play(later) \/ Stop \/ Skip
CommandGoesOn == \E t \in tasks :
    \/ PlayStale(t) \/ PlayLocks(t) \/ PlayLoads(t) \/ PlayListens(t)
    \/ EditListens(t) \/ StopAnswered(t)
    \/ NextLocks(t) \/ NextAnswered(t) \/ NextSaves(t) \/ NextPlays(t)
ArmGoesOn == \E t \in tasks : ArmLocks(t) \/ ArmAnswered(t)
TaskFails == \E t \in tasks : PrepareFails(t) \/ PlayFails(t) \/ NextFails(t)
AdvanceGoesOn == AdvanceBegins \/ AdvanceWaits \/ AdvanceSaves \/ AdvanceRetries \/ AdvanceEnds
RendererGoesOn == NearsEnd \/ EndsTrack \/ (renderer.state = "Transitioning" /\ Begins)

Next ==
    \/ Listener \/ CommandGoesOn \/ ArmGoesOn \/ TaskFails \/ AdvanceGoesOn
    \/ Begins \/ NearsEnd \/ EndsTrack
    \/ Poll \/ Look \/ Act \/ MonitorSaves \/ GraceElapses

Spec == Init /\ [][Next]_vars

(* Tasks go on, the monitor comes by and polls, the renderer begins what it was told *)
(* to play and plays it to its end, and the grace runs out.  One that has loaded its *)
(* next track may leave it at that.                                                  *)
FairSpec ==
    /\ Spec /\ WF_vars(CommandGoesOn) /\ WF_vars(ArmGoesOn) /\ WF_vars(AdvanceGoesOn)
    /\ WF_vars(RendererGoesOn) /\ SF_vars(Poll)
    /\ WF_vars(Look) /\ WF_vars(Act) /\ WF_vars(MonitorSaves) /\ SF_vars(GraceElapses)
-----------------------------------------------------------------------------
(* The zone is well formed: the advance has its play for as long as it says so, and   *)
(* the zone one advance with one play at most (pending_qobuz_advances, monitor.rs).   *)
TypeOK ==
    /\ {stored, pendingQueue} \subseteq Seq(Track) /\ listen \in Listens \cup {None} /\ generation \in Nat
    /\ (advance.at = "playing") <=> (\E t \in tasks : t.by = "advance")
    /\ \A t, u \in tasks : t.by = "advance" /\ u.by = "advance" => t = u

(* When nobody is between its two writes, the library's queue is the queue of what is *)
(* listened to: the monitor, which takes the next track from the one and recognises it *)
(* in the other, has one queue to move on, whoever edited, skipped or played.  Two     *)
(* exceptions: no lock is held over both writes, so writers that crossed may have left  *)
(* each its own copy behind, and the copies stay apart until somebody writes alone; and *)
(* a listen that was found again leaves the library's queue as it was (queue.rs:506-512, *)
(* playback/upnp.rs:73-82, sinks/upnp.rs:103-109, listening.rs:492-493, 310-321).        *)
QueuesAgree == (listen # None /\ ~Between /\ ~crossed) => listen.queue = stored

(* A retry begins only if no listener's command was begun since the attempt before it  *)
(* failed: two to five seconds later it must not undo what was asked for meanwhile     *)
(* (retry_upnp_queue_auto_advance).                                                    *)
RetryYields ==
    [][(advance.at = "retries" /\ advance'.at = "playing") => ~overtaken]_vars

(* However the renderer goes on or does not, whatever fails or is asked for meanwhile, *)
(* the advance comes to its end and leaves the zone to the next one: while it is        *)
(* counted as under way, the zone's queue moves on by nothing else                      *)
(* (maybe_spawn_qobuz_auto_advance).                                                    *)
AdvanceReleases == []<>(advance = NoAdvance)

(* A play of the advance that fails leaves its track at the head of the queue, for the   *)
(* next attempt to play: the monitor is to "issue a fresh Play fallback without          *)
(* consuming the queue" (upnp/session.rs).                                               *)
FallbackKeepsQueue ==
    [][\A t \in tasks : t.by = "advance" /\ PlayFails(t) => Heads(stored, t.track)]_vars
=============================================================================
