---------------------------- MODULE UpnpSession ----------------------------
(***************************************************************************)
(* One zone of a UPnP renderer (src/audio/sinks/upnp): the commands that    *)
(* take turns at an asynchronous lock while each waits for the renderer,    *)
(* the generation that makes the older ones stale, seeking, which reserves  *)
(* its turn before it waits and lets go of the lock before it is done, the  *)
(* next track that the monitor arms, and what the core believes is playing. *)
(*                                                                         *)
(* One step is what a task does from one answer of the renderer up to the   *)
(* next.  A call the renderer does not answer may have been carried out all *)
(* the same.  The renderer is what the code expects of one: Stop and        *)
(* SetAVTransportURI drop its next track, and it reports the track it is at.*)
(*                                                                         *)
(* Left out: DoP and progressive renders with their own policies, volume,   *)
(* renderers that cannot arm a track, reconfiguration, and the time in a    *)
(* track, of which only the seek that set it last is kept.                  *)
(***************************************************************************)
EXTENDS Naturals, FiniteSets

CONSTANTS
    Source, None,   \* what is played: a track of the library or of a service
    Verified,       \* target_requires_verified_playing: the renderer is a KEF
    MaxAttempts,    \* UPNP_NEXT_URI_ATTEMPTS
    MaxLooks,       \* bound: how often a seek looks for its effect
    MaxCommands,    \* bound: commands of listeners
    MaxArms         \* bound: tracks the monitor arms

\* A source prepared for the renderer, by a command or by a prewarm.  Each time it is
\* prepared it gets a URL of its own, by which the renderer knows it; a prewarm and a skip
\* ask only whether two are of one source.
Asset == [source : Source, by : {"command", "prewarm"}, number : Nat]
IsOf(a, b) == a # None /\ a.source = b.source

ASSUME UpnpAssumption ==
    /\ None \notin Asset /\ Verified \in BOOLEAN /\ MaxAttempts \in Nat \ {0}
    /\ MaxLooks \in Nat /\ MaxCommands \in Nat /\ MaxArms \in Nat

VARIABLES
    session,        \* UpnpSession
    generation,     \* command_generations
    reservation,    \* seek_reservations: the generation of the seek, or 0
    settling,       \* seek_settling_until is still to come
    asked,          \* the trace: the renderer has asked for media since the seek
    tasks,          \* commands and prewarms, with where they are
    poll,           \* refresh_playback_snapshot: the state it was told
    renderer,
    commands, arms,
    \* history: whether the core may not know what the renderer has armed; whether a
    \* seek was carried out that the core gave up; the seeks that gave way;
    \* the generation when the listener last asked to stop, or when a seek that was late
    \* took over the reservation of a newer one; that of the play loaded last
    doubt, unreported, superseded, withdrawn, loaded

seeking == <<reservation, settling, asked>>
counts  == <<commands, arms>>
history == <<doubt, unreported, superseded, withdrawn, loaded>>
vars    == <<session, generation, seeking, tasks, poll, renderer, counts, history>>
-----------------------------------------------------------------------------
(* A track plays that the core has seen begin. *)
NotLooking == [at |-> "idle"]

Init ==
    /\ \E a \in [source : Source, by : {"command"}, number : {0}] :
           /\ session = [play |-> 1, current |-> a, armed |-> None, state |-> "Playing",
                         pending |-> "no", target |-> 0, startup |-> "confirmed"]
           /\ renderer = [state |-> "Playing", current |-> a, next |-> None, position |-> 0,
                          reopening |-> FALSE]
    /\ generation = 1 /\ reservation = 0 /\ settling = FALSE /\ asked = FALSE
    /\ tasks = {} /\ poll = NotLooking /\ commands = 0 /\ arms = 0
    /\ doubt = FALSE /\ unreported = FALSE /\ superseded = {} /\ withdrawn = 0 /\ loaded = 0

\* The lock of the zone's commands is held wherever a task waits with it.
Locked(t) ==
    \/ t.op = "seek" /\ t.at \in {"clearing", "asking", "sleeping", "sought"}
    \/ t.op # "seek" /\ t.at \notin {"preparing", "waiting"}
\* Seeded fault: the monitor looks without taking the lock.
NoCommand == \A t \in tasks : ~Locked(t)
Unlocked == poll = NotLooking /\ \A t \in tasks : ~Locked(t)

New(op, a) ==
    [id |-> commands + 1, op |-> op, at |-> "waiting", generation |-> 0, asset |-> a,
     expected |-> None, play |-> 0, playing |-> FALSE, ok |-> TRUE, tries |-> 1]
Prepared(source, by, n) == [source |-> source, by |-> by, number |-> n]
Begin(t) == tasks' = tasks \cup {t}
Turns(t, u) == tasks' = (tasks \ {t}) \cup {u}
Goto(t, at) == Turns(t, [t EXCEPT !.at = at])
Ends(t) == tasks' = tasks \ {t}

\* soap_action: t goes on as u with the answer.
Soap(t, u, effect) ==
    \/ renderer' = effect /\ Turns(t, [u EXCEPT !.ok = TRUE])
    \/ renderer' \in {renderer, effect} /\ Turns(t, [u EXCEPT !.ok = FALSE])

\* What the renderer does when it is told to.
Stopped == [renderer EXCEPT !.state = "Stopped", !.next = None, !.reopening = FALSE]
Loaded(a) == [Stopped EXCEPT !.current = a, !.position = 0]
Started == [renderer EXCEPT !.state = IF @ = "Playing" THEN @ ELSE "Transitioning"]
Halted == [renderer EXCEPT !.state = IF @ = "Stopped" THEN @ ELSE "Paused"]
Armed(a) == [renderer EXCEPT !.next = a]
Skipped ==
    IF renderer.next = None THEN renderer
    ELSE [Loaded(renderer.next) EXCEPT !.state = "Transitioning"]
Sought(g) == [renderer EXCEPT !.position = g, !.reopening = @ \/ renderer.state = "Playing"]

Command == commands < MaxCommands /\ commands' = commands + 1 /\ UNCHANGED arms
-----------------------------------------------------------------------------
(* Playing.  The generation is taken before the asset is prepared.           *)

Preparing(t) == [t EXCEPT !.op = "play", !.at = "preparing", !.generation = generation + 1]
BeginPlay(source) ==
    /\ Command /\ generation' = generation + 1
    /\ Begin(Preparing(New("play", Prepared(source, "command", commands + 1))))
    /\ UNCHANGED <<session, seeking, poll, renderer, history>>

\* Seeded fault: a newer command does not matter.
AnyPlay(t) == TRUE
NewestPlay(t) == generation = t.generation

PrepareEnds(t) ==
    /\ t.op = "play" /\ t.at = "preparing"
    /\ \/ NewestPlay(t) /\ Goto(t, "waiting")
       \/ Ends(t)
    /\ UNCHANGED <<session, generation, seeking, poll, renderer, counts, history>>

\* prime_session_for_play.
Primed(a) ==
    [session EXCEPT !.play = @ + 1, !.current = a, !.armed = None, !.state = "Transitioning",
                    !.pending = "loading", !.target = 0, !.startup = "starting"]

PlayLocks(t) ==
    /\ t.op = "play" /\ t.at = "waiting" /\ Unlocked
    /\ \/ /\ ~NewestPlay(t) /\ Ends(t)
          /\ UNCHANGED <<session, seeking, renderer, unreported>>
       \/ /\ NewestPlay(t)
          /\ session' = Primed(t.asset)
          /\ reservation' = 0 /\ settling' = FALSE /\ asked' = FALSE
          /\ Soap(t, [t EXCEPT !.at = "stopped", !.play = session.play + 1,
                               !.expected = session.current], Stopped)
          /\ unreported' = (unreported \/ renderer'.reopening)
    /\ UNCHANGED <<generation, poll, counts, doubt, superseded, withdrawn, loaded>>

PlayStep(t) ==
    /\ t.op = "play"
    /\ UNCHANGED <<generation, seeking, poll, counts, unreported, superseded, withdrawn>>
    /\ loaded' = IF t.at = "stopped" THEN t.generation ELSE loaded

PlaySetsUri(t) ==
    /\ PlayStep(t) /\ t.at = "stopped"
    /\ Soap(t, [t EXCEPT !.at = "set"], Loaded(t.asset))
    /\ UNCHANGED <<session, doubt>>

PlaySends(t) ==
    /\ PlayStep(t) /\ t.at = "set" /\ t.ok
    /\ Soap(t, [t EXCEPT !.at = "sent"], Started)
    /\ UNCHANGED <<session, doubt>>

PlayRetries(t) ==
    /\ PlayStep(t) /\ t.at \in {"set", "sent"} /\ ~t.ok /\ t.tries = 1
    /\ Turns(t, [t EXCEPT !.at = "stopped", !.tries = 2])
    /\ UNCHANGED <<session, renderer, doubt>>

Confirmed == [session EXCEPT !.state = "Playing", !.pending = "no", !.target = 0,
                            !.startup = "confirmed"]
Heard(t) == renderer.current = t.asset /\ renderer.state = "Playing"

\* Play was answered, or failed and the renderer plays all the same.
PlayAnswered(t) ==
    /\ PlayStep(t) /\ t.at = "sent"
    /\ \/ t.ok /\ UNCHANGED session
       \/ ~t.ok /\ Heard(t) /\ session' = Confirmed
    /\ Goto(t, "accepting")
    /\ UNCHANGED <<renderer, doubt>>

\* wait_for_startup_acceptance: the renderer asked for the track, wherever it is by now.
PlayAccepted(t) ==
    /\ PlayStep(t) /\ t.at = "accepting"
    /\ IF Verified THEN Goto(t, "confirming") ELSE Ends(t)
    /\ UNCHANGED <<session, renderer, doubt>>

PlayConfirmed(t) ==
    /\ PlayStep(t) /\ t.at = "confirming" /\ Heard(t)
    /\ session' = Confirmed /\ Ends(t)
    /\ UNCHANGED <<renderer, doubt>>

\* restore_session_after_failed_play.
Restored(t) ==
    [session EXCEPT !.play = @ + 1, !.current = t.expected, !.armed = None, !.state = "Stopped",
                    !.pending = "no", !.target = 0, !.startup = "none"]
PlayFails(t) ==
    /\ PlayStep(t)
    /\ \/ t.at \in {"set", "sent"} /\ ~t.ok /\ t.tries = 2
       \/ t.at \in {"accepting", "confirming"}
    /\ session' = Restored(t) /\ Ends(t)
    /\ doubt' = TRUE /\ UNCHANGED renderer
-----------------------------------------------------------------------------
(* The other commands that hold the lock until they are answered.            *)

Begins(op, a) ==
    /\ Command /\ Begin(New(op, a))
    /\ UNCHANGED <<session, generation, poll, renderer>>

BeginNext(source) ==
    Begins("next", Prepared(source, "command", commands + 1)) /\ UNCHANGED <<seeking, history>>
BeginPause == Begins("pause", None) /\ UNCHANGED <<seeking, history>>
BeginResume == Begins("resume", None) /\ UNCHANGED <<seeking, history>>
BeginStop ==
    /\ Begins("stop", None)
    /\ reservation' = 0 /\ settling' = FALSE /\ UNCHANGED asked
    /\ withdrawn' = generation /\ unreported' = (unreported \/ renderer.reopening)
    /\ UNCHANGED <<doubt, superseded, loaded>>

Waits(t, op) ==
    /\ t.op = op /\ t.at = "waiting" /\ Unlocked
    /\ generation' = generation + 1
    /\ UNCHANGED <<session, seeking, poll, counts, history>>
Asks(t, effect) == Soap(t, [t EXCEPT !.at = "answered"], effect)

\* Without an armed track, or if the renderer refuses, the core plays it itself.
NextLocks(t) ==
    /\ Waits(t, "next")
    /\ \/ IsOf(session.armed, t.asset) /\ Asks(t, Skipped)
       \/ ~IsOf(session.armed, t.asset) /\ Turns(t, Preparing(t)) /\ UNCHANGED renderer
PauseLocks(t)  == Waits(t, "pause") /\ Asks(t, Halted)
ResumeLocks(t) == Waits(t, "resume") /\ Asks(t, Started)
StopLocks(t)   == Waits(t, "stop") /\ Asks(t, Stopped)

\* What the session is once op was answered.
After(op) ==
    CASE op = "next" ->
           [session EXCEPT !.current = session.armed, !.armed = None, !.state = "Transitioning",
                           !.pending = "loading", !.target = 0, !.startup = "none"]
      [] op = "pause" ->
           [session EXCEPT !.state = "Paused", !.pending = "no", !.target = 0, !.startup = "none"]
      [] op = "resume" ->
           [session EXCEPT !.state = "Transitioning", !.pending = "loading", !.target = 0,
                           !.startup = "none"]
      [] op = "stop" ->
           [session EXCEPT !.current = None, !.armed = None, !.state = "Stopped",
                           !.pending = "no", !.target = 0, !.startup = "none"]

Answered(t) ==
    /\ t.op \in {"next", "pause", "resume", "stop"} /\ t.at = "answered"
    /\ \/ t.ok /\ session' = After(t.op) /\ Ends(t) /\ UNCHANGED generation
       \/ ~t.ok /\ t.op # "next" /\ Ends(t) /\ UNCHANGED <<session, generation>>
       \/ /\ ~t.ok /\ t.op = "next" /\ Turns(t, Preparing(t)) /\ generation' = generation + 1
          /\ UNCHANGED session
    /\ UNCHANGED <<seeking, poll, renderer, counts, history>>
-----------------------------------------------------------------------------
(* arm_next_transport_uri, from the monitor's prewarm.                       *)

\* Seeded fault: a seek that waits does not keep the next track from being armed.
BlockedWhileSettling == settling
BlockedBySeek == reservation # 0 \/ settling

BeginArm(source) ==
    /\ arms < MaxArms /\ arms' = arms + 1 /\ UNCHANGED commands
    /\ session.current # None /\ session.state = "Playing" /\ ~BlockedBySeek
    /\ Begin([New("arm", Prepared(source, "prewarm", arms + 1))
                  EXCEPT !.id = arms + 1, !.expected = session.current])
    /\ UNCHANGED <<session, generation, seeking, poll, renderer, history>>

ArmStep(t) ==
    /\ t.op = "arm"
    /\ UNCHANGED <<generation, seeking, poll, counts, unreported, superseded, withdrawn, loaded>>

ArmStale(t) == ~IsOf(session.current, t.expected) \/ IsOf(session.armed, t.asset)
ArmLocks(t) ==
    /\ ArmStep(t) /\ t.at = "waiting" /\ Unlocked
    /\ \/ (BlockedBySeek \/ ArmStale(t)) /\ Ends(t) /\ UNCHANGED renderer
       \/ /\ ~BlockedBySeek /\ ~ArmStale(t)
          /\ Soap(t, [t EXCEPT !.at = "arming", !.play = session.play], Armed(t.asset))
    /\ UNCHANGED <<session, doubt>>

ArmPauses(t) ==
    /\ ArmStep(t) /\ t.at = "arming" /\ ~t.ok /\ t.tries < MaxAttempts /\ reservation = 0
    /\ Goto(t, "pausing") /\ doubt' = TRUE
    /\ UNCHANGED <<session, renderer>>

\* A seek that has reserved its turn in the pause does not keep it from asking again.
ArmRetries(t) ==
    /\ ArmStep(t) /\ t.at = "pausing"
    /\ Soap(t, [t EXCEPT !.at = "arming", !.tries = @ + 1], Armed(t.asset))
    /\ UNCHANGED <<session, doubt>>

ArmGivesUp(t) ==
    /\ ArmStep(t) /\ t.at = "arming" /\ ~t.ok /\ (t.tries = MaxAttempts \/ reservation # 0)
    /\ Ends(t) /\ doubt' = TRUE
    /\ UNCHANGED <<session, renderer>>

\* Kept even if a seek waits by now, which has to know.  Seeded fault: it is not.
KeptUnlessSeeking(t) == session.play = t.play /\ reservation = 0
Kept(t) == session.play = t.play
ArmEnds(t) ==
    /\ ArmStep(t) /\ t.at = "arming" /\ t.ok /\ Ends(t)
    /\ session' = IF Kept(t) THEN [session EXCEPT !.armed = t.asset] ELSE session
    /\ UNCHANGED <<renderer, doubt>>
-----------------------------------------------------------------------------
(* Seeking.                                                                  *)

\* begin_seek_reservation: the generation and the reservation have each a lock of its own.
BeginSeek ==
    /\ Command /\ generation' = generation + 1
    /\ Begin([New("seek", None) EXCEPT !.at = "reserving", !.generation = generation + 1])
    /\ UNCHANGED <<session, seeking, poll, renderer, history>>

SeekStep(t) ==
    /\ t.op = "seek"
    /\ UNCHANGED <<generation, poll, counts, doubt, withdrawn, loaded>>
Reserved(t) == reservation = t.generation

SeekReserves(t) ==
    /\ t.op = "seek" /\ t.at = "reserving" /\ Goto(t, "waiting")
    /\ reservation' = t.generation
    /\ withdrawn' = IF t.generation < reservation THEN generation ELSE withdrawn
    /\ UNCHANGED <<session, generation, settling, asked, poll, renderer, counts, doubt, unreported,
                   superseded, loaded>>

\* superseded_seek_outcome: a newer command is to have taken its place.
GivesWay(t) ==
    /\ Ends(t) /\ superseded' = superseded \cup {t.generation}
    /\ UNCHANGED <<session, seeking, renderer, unreported>>

\* GetCurrentTransportActions, whose answer nothing depends on.
AsksActions(t) == Goto(t, "asking") /\ UNCHANGED <<seeking, renderer, unreported, superseded>>

\* clear_next_av_transport_uri.
Clears(t) == Verified /\ session.armed # None
SeekLocks(t) ==
    /\ SeekStep(t) /\ t.at = "waiting" /\ Unlocked
    /\ \/ ~Reserved(t) /\ GivesWay(t)
       \/ /\ Reserved(t) /\ Clears(t)
          /\ Soap(t, [t EXCEPT !.at = "clearing"], Armed(None))
          /\ UNCHANGED <<session, seeking, unreported, superseded>>
       \/ Reserved(t) /\ ~Clears(t) /\ AsksActions(t) /\ UNCHANGED session

\* Dropping the reservation guard.  Seeded fault: there is none.
NotReleased(t) == reservation
Released(t) == IF Reserved(t) THEN 0 ELSE reservation

SeekCleared(t) ==
    /\ SeekStep(t) /\ t.at = "clearing"
    /\ \/ /\ t.ok /\ session' = [session EXCEPT !.armed = None]
          /\ \/ Reserved(t) /\ AsksActions(t)
             \/ /\ ~Reserved(t) /\ Ends(t) /\ superseded' = superseded \cup {t.generation}
                /\ UNCHANGED <<seeking, renderer, unreported>>
       \/ /\ ~t.ok /\ t.tries < MaxAttempts
          /\ Soap(t, [t EXCEPT !.tries = @ + 1], Armed(None))
          /\ UNCHANGED <<session, seeking, unreported, superseded>>
       \/ /\ ~t.ok /\ t.tries = MaxAttempts /\ Ends(t)
          /\ reservation' = Released(t)
          /\ UNCHANGED <<session, settling, asked, renderer, unreported, superseded>>

\* session_is_effectively_playing.
EffectivelyPlaying ==
    \/ session.state = "Playing"
    \/ session.state = "Transitioning" /\ session.startup = "confirmed"

SendSeek(t) ==
    /\ session' =
           IF EffectivelyPlaying
           THEN [session EXCEPT !.state = "Transitioning", !.pending = "seeking",
                                !.target = t.generation]
           ELSE [session EXCEPT !.state = "Paused", !.pending = "no", !.target = 0]
    /\ asked' = (asked /\ ~EffectivelyPlaying)
    /\ Soap(t, [t EXCEPT !.at = "sought", !.playing = EffectivelyPlaying, !.play = session.play,
                         !.tries = 1], Sought(t.generation))
    /\ UNCHANGED <<reservation, settling, unreported, superseded>>

\* A KEF is given time to settle after the seek before, with the lock held.
SeekAsked(t) ==
    /\ SeekStep(t) /\ t.at = "asking"
    /\ \/ ~Reserved(t) /\ GivesWay(t)
       \/ /\ Reserved(t) /\ Verified /\ settling /\ Goto(t, "sleeping")
          /\ UNCHANGED <<session, seeking, renderer, unreported, superseded>>
       \/ Reserved(t) /\ ~(Verified /\ settling) /\ SendSeek(t)

SeekSlept(t) ==
    /\ SeekStep(t) /\ t.at = "sleeping" /\ ~settling
    /\ \/ ~Reserved(t) /\ GivesWay(t)
       \/ Reserved(t) /\ SendSeek(t)

\* session_seek_pending, clear_seek_pending.
SeekPending(t) == session.play = t.play /\ session.pending = "seeking"
NotPending(state) == [session EXCEPT !.pending = "no", !.target = 0, !.state = state]
ClearPending(t, state) == session' = IF SeekPending(t) THEN NotPending(state) ELSE session

\* The seek ends without an answer to rely on.
SeekBreaksOff(t) ==
    /\ Ends(t) /\ reservation' = Released(t) /\ unreported' = TRUE
    /\ UNCHANGED <<asked, renderer, superseded>>

\* finish_seek_reservation, or the release of one that is not confirmed: the renderer is
\* left alone for a while.  Seeded fault: it is not.
FinishAtOnce(t) == Ends(t) /\ reservation' = Released(t) /\ UNCHANGED <<settling, asked>>
Finish(t) ==
    /\ Ends(t) /\ reservation' = Released(t) /\ settling' = (settling \/ Reserved(t))
    /\ UNCHANGED asked

\* The lock is given back.
SeekAnswered(t) ==
    /\ SeekStep(t) /\ t.at = "sought"
    /\ \/ /\ ~t.ok /\ SeekBreaksOff(t) /\ settling' = FALSE
          /\ ClearPending(t, IF t.playing THEN "Playing" ELSE session.state)
       \/ /\ t.ok /\ t.playing
          /\ Goto(t, IF generation = t.generation THEN "posting" ELSE "verifying")
          /\ UNCHANGED <<session, seeking, renderer, unreported, superseded>>
       \/ t.ok /\ ~t.playing /\ Finish(t) /\ UNCHANGED <<session, renderer, unreported, superseded>>

\* seek_post_play_required: unless the renderer is seen to play, it is told to.
SeekPosts(t) ==
    /\ SeekStep(t) /\ t.at = "posting"
    /\ \/ renderer.state \in {"Playing", "Transitioning"} /\ Goto(t, "verifying") /\ UNCHANGED renderer
       \/ Soap(t, [t EXCEPT !.at = "posted"], Started)
    /\ UNCHANGED <<session, seeking, unreported, superseded>>

SeekPosted(t) ==
    /\ SeekStep(t) /\ t.at = "posted"
    /\ \/ /\ t.ok /\ Goto(t, "verifying")
          /\ UNCHANGED <<session, seeking, renderer, unreported, superseded>>
       \/ ~t.ok /\ SeekBreaksOff(t) /\ ClearPending(t, "Playing") /\ UNCHANGED settling

\* verify_seek_started, after each of its sleeps.
SeekVerifies(t) ==
    /\ SeekStep(t) /\ t.at = "verifying"
    /\ LET over == generation # t.generation \/ ~SeekPending(t) IN
       \/ over /\ Finish(t) /\ UNCHANGED session
       \/ ~over /\ asked /\ Finish(t) /\ ClearPending(t, "Playing")
       \/ ~over /\ ~asked /\ Goto(t, "looking") /\ UNCHANGED <<session, seeking>>
    /\ UNCHANGED <<renderer, unreported, superseded>>

SeekLooks(t) ==
    /\ SeekStep(t) /\ t.at = "looking"
    /\ \/ /\ renderer.position = t.generation
          /\ Finish(t) /\ ClearPending(t, "Playing") /\ UNCHANGED renderer
       \/ /\ t.tries < MaxLooks /\ Turns(t, [t EXCEPT !.at = "verifying", !.tries = @ + 1])
          /\ UNCHANGED <<session, seeking, renderer>>
       \/ /\ ClearPending(t, "Playing")
          /\ Soap(t, [t EXCEPT !.at = "nudged"], Started) /\ UNCHANGED seeking
    /\ UNCHANGED <<unreported, superseded>>

SeekNudged(t) ==
    /\ SeekStep(t) /\ t.at = "nudged" /\ Finish(t)
    /\ UNCHANGED <<session, renderer, unreported, superseded>>

\* The client hangs up, and the command's future is dropped where it waits.
Cancel(t) ==
    /\ t.op # "arm" /\ t.at # "reserving" /\ Ends(t)
    /\ reservation' = IF t.op = "seek" THEN Released(t) ELSE reservation
    /\ doubt' = (doubt \/ (t.op = "play" /\ Locked(t)))
    /\ unreported' = (unreported \/ (t.op = "seek" /\ renderer.reopening))
    /\ UNCHANGED <<session, generation, settling, asked, poll, renderer, counts, superseded,
                   withdrawn, loaded>>
-----------------------------------------------------------------------------
(* The stream server: the renderer asks for media after a seek, and gets it. *)

Fetch ==
    /\ session.pending = "seeking" /\ ~asked /\ asked' = TRUE
    /\ renderer.current = session.current /\ renderer.state \in {"Playing", "Transitioning"}
    /\ UNCHANGED <<session, generation, reservation, settling, tasks, poll, renderer, counts, history>>

\* mark_seek_media_range_ready, finish_active_seek_reservation.
RangeReady ==
    /\ session.pending = "seeking" /\ asked
    /\ session' = NotPending(IF session.state = "Transitioning" THEN "Playing" ELSE session.state)
    /\ reservation' = 0 /\ settling' = (settling \/ reservation # 0)
    /\ UNCHANGED <<generation, asked, tasks, poll, renderer, counts, history>>

(* The monitor looks when no command holds the lock.                         *)

\* transport_snapshot asks twice: for the state, and then for the track and where it is.
PollLooks ==
    /\ Unlocked /\ poll' = [at |-> "looking", state |-> renderer.state]
    /\ UNCHANGED <<session, generation, seeking, tasks, renderer, counts, history>>

\* The second question may go unanswered.
Sights == {[track |-> renderer.current, position |-> renderer.position],
           [track |-> None, position |-> 0]}

\* startup_transport_snapshot_is_inconclusive.
Elsewhere(track) == track # None /\ session.current \notin {None, track}
Inconclusive(sight) ==
    session.startup = "starting" /\ (poll.state # "Playing" \/ Elsewhere(sight.track))

\* reconcile_session_with_transport: the armed track has begun, or another one has.
Promoted(track) ==
    CASE Elsewhere(track) /\ track = session.armed /\ poll.state = "Playing" ->
           [session EXCEPT !.current = session.armed, !.armed = None, !.pending = "no", !.target = 0]
      [] Elsewhere(track) /\ track # session.armed /\ poll.state # "Transitioning" ->
           [session EXCEPT !.current = None]
      [] OTHER -> session

StillPending(s, sight) ==
    \/ poll.state = "Transitioning"
    \/ poll.state = "Playing" /\ s.pending = "seeking" /\ sight.position # s.target
Reconciled(sight) ==
    LET s == Promoted(sight.track)
        pending == IF StillPending(s, sight) THEN s.pending ELSE "no"
    IN  [s EXCEPT !.state = poll.state, !.pending = pending,
                  !.target = IF pending = "no" THEN 0 ELSE @,
                  !.startup = IF poll.state = "Playing" /\ @ # "none" THEN "confirmed" ELSE @]

PollEnds ==
    /\ poll # NotLooking /\ poll' = NotLooking
    /\ \E sight \in Sights :
           session' = IF Inconclusive(sight) THEN [session EXCEPT !.state = "Transitioning"]
                      ELSE Reconciled(sight)
    /\ UNCHANGED <<generation, seeking, tasks, renderer, counts, history>>
-----------------------------------------------------------------------------
(* Time, and the renderer by itself.                                         *)

\* UPNP_SEEK_NEXT_HANDOFF_SETTLE.
SettleElapses ==
    /\ settling /\ settling' = FALSE
    /\ renderer' = [renderer EXCEPT !.reopening = FALSE]
    /\ UNCHANGED <<session, generation, reservation, asked, tasks, poll, counts, history>>

\* UPNP_STARTUP_PLAYING_TIMEOUT.
StartupElapses ==
    /\ session.startup = "starting" /\ session' = [session EXCEPT !.startup = "over"]
    /\ UNCHANGED <<generation, seeking, tasks, poll, renderer, counts, history>>

RendererStep(r) ==
    /\ renderer' = r
    /\ UNCHANGED <<session, generation, seeking, tasks, poll, counts, history>>
RendererBegins ==
    /\ renderer.state = "Transitioning"
    /\ \E state \in {"Playing", "Stopped"} : RendererStep([renderer EXCEPT !.state = state])
\* Some load the next track and stay stopped.
RendererEnds ==
    /\ renderer.state = "Playing"
    /\ IF renderer.next = None THEN RendererStep(Stopped)
       ELSE \E state \in {"Playing", "Stopped"} :
                RendererStep([Loaded(renderer.next) EXCEPT !.state = state])
-----------------------------------------------------------------------------
Listener ==
    \/ \E source \in Source : BeginPlay(source) \/ BeginNext(source)
    \/ BeginPause \/ BeginResume \/ BeginStop \/ BeginSeek
TaskStep == \E t \in tasks :
    \/ PrepareEnds(t) \/ PlayLocks(t) \/ PlaySetsUri(t) \/ PlaySends(t) \/ PlayRetries(t)
    \/ PlayAnswered(t) \/ PlayAccepted(t) \/ PlayConfirmed(t) \/ PlayFails(t)
    \/ NextLocks(t) \/ PauseLocks(t) \/ ResumeLocks(t) \/ StopLocks(t) \/ Answered(t)
    \/ ArmLocks(t) \/ ArmPauses(t) \/ ArmRetries(t) \/ ArmGivesUp(t) \/ ArmEnds(t)
    \/ SeekReserves(t) \/ SeekLocks(t) \/ SeekCleared(t) \/ SeekAsked(t) \/ SeekSlept(t)
    \/ SeekAnswered(t) \/ SeekPosts(t) \/ SeekPosted(t) \/ SeekVerifies(t) \/ SeekLooks(t)
    \/ SeekNudged(t)
Monitor == (\E source \in Source : BeginArm(source)) \/ Fetch \/ RangeReady
Poll == PollLooks \/ PollEnds
Elapse == SettleElapses \/ StartupElapses

Next ==
    \/ Listener \/ TaskStep \/ (\E t \in tasks : Cancel(t)) \/ Monitor \/ Poll \/ Elapse
    \/ RendererBegins \/ RendererEnds

Spec == Init /\ [][Next]_vars

-----------------------------------------------------------------------------

TransportState == {"Playing", "Transitioning", "Paused", "Stopped"}
Session ==
    [play : Nat, current : Asset \cup {None}, armed : Asset \cup {None}, state : TransportState,
     pending : {"no", "loading", "seeking"}, target : Nat,
     startup : {"none", "starting", "confirmed", "over"}]
Renderer ==
    [state : TransportState, current : Asset, next : Asset \cup {None}, position : Nat,
     reopening : BOOLEAN]
Task ==
    [id : Nat, op : {"play", "next", "pause", "resume", "stop", "arm", "seek"},
     at : {"preparing", "waiting", "stopped", "set", "sent", "accepting", "confirming", "answered",
           "arming", "pausing", "reserving", "clearing", "asking", "sleeping", "sought", "posting",
           "posted", "verifying", "looking", "nudged"},
     generation : Nat, asset : Asset \cup {None}, expected : Asset \cup {None}, play : Nat,
     playing : BOOLEAN, ok : BOOLEAN, tries : Nat]
Looking == [at : {"looking"}, state : TransportState]

(* The state is well formed, a seek that is pending has its target, and the lock of   *)
(* the zone's commands has one holder (audio/sinks/upnp/mod.rs, session.rs:542-548).  *)
TypeOK ==
    /\ session \in Session /\ (session.pending = "seeking" <=> session.target # 0)
    /\ renderer \in Renderer /\ poll \in Looking \cup {NotLooking}
    /\ generation \in Nat /\ reservation \in Nat /\ loaded \in Nat /\ withdrawn \in Nat
    /\ settling \in BOOLEAN /\ asked \in BOOLEAN /\ doubt \in BOOLEAN /\ unreported \in BOOLEAN
    /\ commands \in Nat /\ arms \in Nat /\ superseded \subseteq Nat
    /\ tasks \subseteq Task
    /\ \A t \in tasks : /\ t.op \in {"play", "next", "arm"} => t.asset \in Asset
                        /\ t.op = "seek" => t.generation # 0
                        /\ Locked(t) => poll = NotLooking
                        /\ \A u \in tasks : Locked(t) /\ Locked(u) => t = u

(* A reservation is that of a seek still on its way, however others end: prewarming   *)
(* is not held up for ever (transport.rs:592-594).                                     *)
ReservationHeld ==
    reservation # 0 => \E t \in tasks : t.op = "seek" /\ t.generation = reservation

(* The renderer is never taken back to the track of an older play, whatever the order *)
(* in which the assets are ready and the lock is had (transport.rs:45-64).             *)
PlaysInOrder == [][\A t \in tasks : PlaySetsUri(t) => t.generation >= loaded]_vars

(* A KEF is not told to seek while it has a next track armed: the core cleared it     *)
(* first, even one whose arming crossed the seek, unless a call went unanswered       *)
(* that would have told what the renderer has (transport.rs:466-468, 142-145).        *)
SeekUnarmed ==
    [][\A t \in tasks : SeekStep(t) /\ renderer'.position = t.generation
           /\ renderer.position # t.generation /\ Verified /\ ~doubt => renderer.next = None]_vars

(* Nor is it given a next track while it settles from a seek, unless the core gave up *)
(* a seek, this one or one before, that the renderer may have carried out: from then  *)
(* on the core may not know that it settles (transport.rs:583-585, 4-6).               *)
SettleRespected ==
    [][renderer'.next # renderer.next /\ renderer'.next # None
           => ~renderer.reopening \/ unreported]_vars

(* A seek gives way only to a newer command: of those asked for in a row the last one *)
(* is sent (transport.rs:481-484), a stop aside, and an older seek that had its       *)
(* generation first and its reservation last.                                          *)
NewestSeekSent ==
    \A g \in superseded : g < generation \/ g <= withdrawn
=============================================================================
