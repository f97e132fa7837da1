---------------------------- MODULE AgentPlayback ----------------------------
(***************************************************************************)
(* A remote agent (src/agent) with its own player: the control loop that    *)
(* takes the core's commands and ticks every 250 ms, the tasks it spawns to *)
(* open streams, the status task that looks every 100 ms whether the engine *)
(* went on by itself, and the runtime state under one mutex that they share.*)
(*                                                                         *)
(* One step is one critical section, or one access to the player outside of *)
(* one.  The engine is what its handle shows of PlayerEngine: streams only, *)
(* and a start that either opens or does not.  Pause, resume, seek and the  *)
(* playback configuration change nothing here and are left out; two tracks  *)
(* have two display names.                                                  *)
(***************************************************************************)
EXTENDS Naturals, Sequences, FiniteSets

CONSTANTS
    Track, None,
    MaxQueue,           \* bound: tracks behind the one a command plays, or queued
    MaxCommands,        \* bound: commands of the core
    MaxPrefetched,      \* AGENT_MAX_PREFETCHED_STREAMS
    MaxGeneration,      \* bound: generations after which nothing is repeated
    Failures            \* whether a stream may not open, or a session not start

ASSUME AgentAssumption ==
    /\ MaxQueue \in Nat /\ MaxCommands \in Nat /\ MaxPrefetched \in Nat \ {0} /\ MaxGeneration \in Nat
    /\ Failures \in BOOLEAN /\ None \notin Track

VARIABLES
    \* AgentRuntimeState
    rt,
    \* the tasks
    loop,               \* the control loop: where it is, and what it holds there
    status,             \* the status task: the file name of its snapshot
    plays, prefetches,  \* the tasks that run play_source and prefetch_source
    \* the player
    epoch, channel,     \* its playback_epoch and the worker's commands
    engine,             \* what the worker shows: state, file name, stream queue
    \* history: how many commands of the core there were, and whether Stop was the
    \* last of those that play, skip, queue or stop something
    received, stopped

player == <<epoch, channel, engine>>
tasks  == <<loop, status, plays, prefetches>>
history == <<received, stopped>>
vars   == <<rt, tasks, player, history>>
-----------------------------------------------------------------------------
(* A stream that is armed is the one the agent put into the engine's queue. *)
NotArmed == [track |-> None, observed |-> FALSE]
Idle == [at |-> "idle"]
NotLooking == [at |-> "idle", file |-> None]

Init ==
    /\ rt = [queue |-> <<>>, current |-> None, generation |-> 0, loading |-> 0,
             armed |-> NotArmed, late |-> FALSE, wasActive |-> FALSE, skip |-> FALSE, repeatOne |-> FALSE,
             prefetched |-> {}, prefetching |-> None]
    /\ loop = Idle /\ status = NotLooking /\ plays = {} /\ prefetches = {}
    /\ epoch = 0 /\ channel = <<>>
    /\ engine = [active |-> FALSE, session |-> 0, file |-> None, queue |-> None,
                 pending |-> None, pendingEpoch |-> 0]
    /\ received = 0 /\ stopped = FALSE

ToSet(q) == {q[i] : i \in DOMAIN q}
Relevant(s) == {s.current} \cup ToSet(s.queue)

\* retain_relevant_prefetches: what is left of s.prefetched; over the limit any but
\* the preferred one goes.
Retained(s, preferred) ==
    LET kept == s.prefetched \cap Relevant(s)
        room == IF Cardinality(kept) > MaxPrefetched THEN MaxPrefetched ELSE Cardinality(kept)
    IN  {p \in SUBSET kept : Cardinality(p) = room /\ (preferred \in kept => preferred \in p)}

\* The critical section ends with s, trimmed.
Leave(s, preferred) == \E p \in Retained(s, preferred) : rt' = [s EXCEPT !.prefetched = p]

Claim == epoch' = epoch + 1
Send(cmd) == channel' = Append(channel, cmd)
Cmd(op, e, t, shown) == [op |-> op, epoch |-> e, track |-> t, shown |-> shown]

\* set_stream_queue_if_epoch under the current epoch and for the current source.
SendQueue(t) == Send(Cmd("SetStreamQueue", epoch, t, rt.current))

\* arm_handle_for_gapless and arm_buffered_front_for_gapless, on s.
Arm(s, t) == [s EXCEPT !.armed = [track |-> t, observed |-> FALSE]]
CanArmFront(s) ==
    /\ ~s.repeatOne /\ s.armed.track = None
    /\ s.queue # <<>> /\ Head(s.queue) \in s.prefetched
ArmFront(s) == [Arm(s, Head(s.queue)) EXCEPT !.prefetched = @ \ {Head(s.queue)}]

PlayTask(g, t, e) == [generation |-> g, track |-> t, epoch |-> e, at |-> "taking"]
-----------------------------------------------------------------------------
(* The control loop: a command of the core. *)

Receive ==
    /\ loop = Idle /\ received < MaxCommands
    /\ received' = received + 1

\* PlaySource: the epoch is reserved before the lock is taken.
PlaySource(t, q) ==
    /\ Receive /\ stopped' = FALSE
    /\ Claim
    /\ loop' = [at |-> "play", track |-> t, queue |-> q, epoch |-> epoch + 1]
    /\ UNCHANGED <<rt, status, plays, prefetches, channel, engine>>

\* What the runtime becomes when it turns to t.
TurnTo(s, t, q) ==
    [s EXCEPT !.generation = @ + 1, !.queue = q, !.current = t, !.loading = s.generation + 1,
              !.armed = NotArmed, !.late = FALSE, !.wasActive = FALSE, !.skip = FALSE]

Spawn(t, e) == plays' = plays \cup {PlayTask(rt.generation + 1, t, e)}

PlaySourceLocked ==
    /\ loop.at = "play" /\ loop' = Idle
    /\ Leave(TurnTo(rt, loop.track, loop.queue), loop.track)
    /\ Spawn(loop.track, loop.epoch)
    /\ UNCHANGED <<status, prefetches, player, history>>

PreFetch(t) ==
    /\ Receive /\ UNCHANGED stopped
    /\ prefetches' = prefetches \cup {[id |-> received', track |-> t, at |-> "asked"]}
    /\ UNCHANGED <<rt, loop, status, plays, player>>

Stop ==
    /\ Receive /\ stopped' = TRUE
    /\ Claim /\ Send(Cmd("Stop", epoch + 1, None, None))
    /\ engine' = [engine EXCEPT !.active = FALSE]
    /\ loop' = [at |-> "stop"]
    /\ UNCHANGED <<rt, status, plays, prefetches>>

\* The generation goes on, repeat-one stays.  Seeded fault: it begins anew.
StoppedAfresh(s) ==
    [s EXCEPT !.generation = 0, !.queue = <<>>, !.current = None, !.loading = 0,
              !.armed = NotArmed, !.wasActive = FALSE, !.skip = FALSE, !.prefetched = {},
              !.prefetching = None]
Stopped(s) ==
    [s EXCEPT !.generation = @ + 1, !.queue = <<>>, !.current = None, !.loading = 0,
              !.armed = NotArmed, !.wasActive = FALSE, !.skip = FALSE, !.prefetched = {},
              !.prefetching = None]

StopLocked ==
    /\ loop.at = "stop" /\ loop' = Idle
    /\ rt' = Stopped(rt)
    /\ UNCHANGED <<status, plays, prefetches, player, history>>

NextLocked ==
    /\ Receive /\ stopped' = FALSE
    /\ rt' = [rt EXCEPT !.skip = TRUE]
    /\ loop' = [at |-> "next"]
    /\ UNCHANGED <<status, plays, prefetches, player>>

NextSent ==
    /\ loop.at = "next" /\ loop' = Idle
    /\ Claim /\ Send(Cmd("Next", epoch + 1, None, None))
    /\ UNCHANGED <<rt, status, plays, prefetches, engine, history>>

\* The engine keeps its queue when the new one begins with the same track; if not it
\* is emptied, and may be filled again with a stream that is already open.
KeepsArmed(q) == rt.armed.track # None /\ q # <<>> /\ Head(q) = rt.armed.track

SetQueue(q) ==
    /\ Receive /\ stopped' = FALSE
    /\ \E p \in Retained([rt EXCEPT !.queue = q], None) :
           LET s == [rt EXCEPT !.queue = q, !.prefetched = p]
               cleared == [s EXCEPT !.armed = NotArmed]
               clear == Cmd("SetStreamQueue", epoch, None, rt.current)
           IN  \/ KeepsArmed(q) /\ rt' = s /\ UNCHANGED channel
               \/ /\ ~KeepsArmed(q) /\ CanArmFront(cleared)
                  /\ rt' = ArmFront(cleared)
                  /\ channel' = channel \o
                        <<clear, Cmd("SetStreamQueue", epoch, Head(q), rt.current)>>
               \/ ~KeepsArmed(q) /\ ~CanArmFront(cleared) /\ rt' = cleared /\ Send(clear)
    /\ UNCHANGED <<tasks, epoch, engine>>

\* The engine itself repeats files only.
SetLoopMode(on) ==
    /\ Receive /\ UNCHANGED stopped
    /\ LET s == [rt EXCEPT !.repeatOne = on]
       IN  \/ on /\ s.armed.track # None /\ rt' = [s EXCEPT !.armed = NotArmed] /\ SendQueue(None)
           \/ ~on /\ CanArmFront(s) /\ rt' = ArmFront(s) /\ SendQueue(Head(s.queue))
           \/ /\ IF on THEN s.armed.track = None ELSE ~CanArmFront(s)
              /\ rt' = s /\ UNCHANGED channel
    /\ UNCHANGED <<tasks, epoch, engine>>
-----------------------------------------------------------------------------
(* The control loop: the tick. *)

Tick ==
    /\ loop = Idle
    /\ loop' = [at |-> "tick", active |-> engine.active, file |-> engine.file]
    /\ UNCHANGED <<rt, status, plays, prefetches, player, history>>

TickDone(s) == loop' = Idle /\ rt' = s
Shown(t) == t # None /\ t = loop.file

\* maybe_advance_gapless under the lock.
TickBusy == rt.loading # 0

TickWaits ==
    /\ loop.at = "tick"
    /\ \/ TickBusy /\ TickDone(rt)
       \/ /\ ~TickBusy /\ loop.active /\ ~rt.skip
          /\ TickDone([rt EXCEPT !.wasActive = @ \/ Shown(rt.current)])
       \/ ~TickBusy /\ (~loop.active \/ rt.skip) /\ rt.current = None
          /\ TickDone([rt EXCEPT !.skip = FALSE])
       \/ /\ ~TickBusy /\ ~loop.active /\ ~rt.skip /\ rt.current # None
          /\ ~rt.wasActive /\ ~rt.late /\ TickDone(rt)      \* within the grace of a start
    /\ UNCHANGED <<status, plays, prefetches, player, history>>

\* AGENT_PENDING_START_GRACE after current_started_at; a tick takes no such time.
GraceElapses ==
    /\ rt.current # None /\ ~rt.late /\ loop.at # "tick"
    /\ rt' = [rt EXCEPT !.late = TRUE]
    /\ UNCHANGED <<tasks, player, history>>

\* What was skipped, has ended, or is not seen to begin.
TickSelects ==
    /\ loop.at = "tick" /\ ~TickBusy
    /\ rt.current # None
    /\ rt.skip \/ (~loop.active /\ (rt.wasActive \/ rt.late))
    /\ LET again == rt.repeatOne /\ ~rt.skip
           source == IF again THEN rt.current ELSE Head(rt.queue)
           rest == IF again THEN rt.queue ELSE Tail(rt.queue)
       IN  \/ /\ IF again THEN rt.generation < MaxGeneration ELSE rt.queue # <<>>
              /\ Leave(TurnTo(rt, source, rest), None)
              /\ loop' = [at |-> "reserve", track |-> source, generation |-> rt.generation + 1]
           \/ /\ ~again /\ rt.queue = <<>>
              /\ Leave([rt EXCEPT !.current = None, !.loading = 0, !.wasActive = FALSE,
                                  !.skip = FALSE], None)
              /\ loop' = Idle
    /\ UNCHANGED <<status, plays, prefetches, player, history>>

TickReserves ==
    /\ loop.at = "reserve" /\ loop' = Idle
    /\ Claim
    /\ plays' = plays \cup {PlayTask(loop.generation, loop.track, epoch + 1)}
    /\ UNCHANGED <<rt, status, prefetches, channel, engine, history>>
-----------------------------------------------------------------------------
(* play_source. *)

Becomes(p, at) == plays' = (plays \ {p}) \cup {[p EXCEPT !.at = at]}
Ends(p) == plays' = plays \ {p}

TakePrefetched(p) ==
    /\ p.at = "taking"
    /\ \E kept \in Retained(rt, p.track) :
           /\ rt' = [rt EXCEPT !.prefetched = kept \ {p.track}]
           /\ Becomes(p, IF p.track \in kept THEN "opened" ELSE "opening")
    /\ UNCHANGED <<loop, status, prefetches, player, history>>

OpenStream(p) ==
    /\ p.at = "opening"
    /\ \/ Becomes(p, "opened")
       \/ Failures /\ Becomes(p, "failed")
    /\ UNCHANGED <<rt, loop, status, prefetches, player, history>>

StillCurrent(p) == rt.generation = p.generation /\ rt.current = p.track

CheckCurrent(p) ==
    /\ p.at = "opened"
    /\ \/ StillCurrent(p) /\ Becomes(p, "checked")
       \/ ~StillCurrent(p) /\ Ends(p)
    /\ UNCHANGED <<rt, loop, status, prefetches, player, history>>

\* play_stream_if_epoch.  Seeded fault: the player takes it whatever the epoch.
HoldsAny(p) == TRUE
Holds(p) == epoch = p.epoch

PlayStream(p) ==
    /\ p.at = "checked"
    /\ \/ /\ Holds(p) /\ Becomes(p, "played")
          /\ Claim /\ Send(Cmd("PlayStream", epoch + 1, p.track, None))
       \/ ~Holds(p) /\ Becomes(p, "refused") /\ UNCHANGED <<epoch, channel>>
    /\ UNCHANGED <<rt, loop, status, prefetches, engine, history>>

\* The end of every way but a play that is no longer current.  Seeded fault: an open
\* that failed leaves loading_generation set.
LoadingEndsIfPlayed(p) ==
    IF rt.generation # p.generation \/ p.at = "failed" THEN rt ELSE [rt EXCEPT !.loading = 0]
LoadingEnds(p) ==
    IF rt.generation # p.generation THEN rt
    ELSE [rt EXCEPT !.loading = 0, !.wasActive = @ /\ p.at # "played",
                    !.late = @ /\ p.at # "played"]

PlayEnds(p) ==
    /\ p.at \in {"failed", "refused", "played"} /\ Ends(p)
    /\ rt' = LoadingEnds(p)
    /\ UNCHANGED <<loop, status, prefetches, player, history>>
-----------------------------------------------------------------------------
(* prefetch_source. *)

Needless(s, t) ==
    \/ t \notin Relevant(s) \/ t \in s.prefetched
    \/ t = s.armed.track \/ t = s.prefetching

PrefetchBegins(f) ==
    /\ f.at = "asked"
    /\ \E kept \in Retained(rt, None) :
           LET s == [rt EXCEPT !.prefetched = kept]
           IN  IF Needless(s, f.track)
               THEN rt' = s /\ prefetches' = prefetches \ {f}
               ELSE /\ rt' = [s EXCEPT !.prefetching = f.track]
                    /\ prefetches' = (prefetches \ {f}) \cup {[f EXCEPT !.at = "opening"]}
    /\ UNCHANGED <<loop, status, plays, player, history>>

NotPrefetching(t) == [rt EXCEPT !.prefetching = IF @ = t THEN None ELSE @]

\* Only the front of the queue goes into the engine.
Armable(t) == ~rt.repeatOne /\ rt.queue # <<>> /\ Head(rt.queue) = t /\ rt.current # None

PrefetchEnds(f) ==
    /\ f.at = "opening" /\ prefetches' = prefetches \ {f}
    /\ LET s == NotPrefetching(f.track) IN
       \/ Failures /\ rt' = s /\ UNCHANGED channel
       \/ /\ Armable(f.track)
          /\ Leave(Arm(s, f.track), None) /\ SendQueue(f.track)
       \/ /\ ~Armable(f.track) /\ f.track \in Relevant(s)
          /\ Leave([s EXCEPT !.prefetched = @ \cup {f.track}], f.track) /\ UNCHANGED channel
       \/ ~Armable(f.track) /\ f.track \notin Relevant(s) /\ Leave(s, None) /\ UNCHANGED channel
    /\ UNCHANGED <<loop, status, plays, epoch, engine, history>>
-----------------------------------------------------------------------------
(* The status task. *)

Look ==
    /\ status.at = "idle" /\ status' = [at |-> "seen", file |-> engine.file]
    /\ UNCHANGED <<rt, loop, plays, prefetches, player, history>>

\* synchronize_gapless_engine_advance: the armed stream is the one shown.
Observed == rt.armed.observed \/ (rt.armed.track # None /\ engine.queue # None)
EngineAdvanced ==
    /\ rt.armed.track # None /\ rt.armed.track = status.file
    /\ \/ rt.current # status.file
       \/ Observed /\ engine.queue = None

\* The queue from behind the first t on, or as it is.  Seeded fault: from t on.
AfterFrom(q, t) ==
    IF t \notin ToSet(q) THEN q
    ELSE LET first == CHOOSE i \in DOMAIN q : q[i] = t /\ \A j \in 1..(i - 1) : q[j] # t
         IN  SubSeq(q, first, Len(q))
After(q, t) ==
    IF t \notin ToSet(q) THEN q
    ELSE LET first == CHOOSE i \in DOMAIN q : q[i] = t /\ \A j \in 1..(i - 1) : q[j] # t
         IN  SubSeq(q, first + 1, Len(q))

Synchronize ==
    /\ status.at = "seen" /\ status' = NotLooking
    /\ \/ EngineAdvanced
          /\ Leave([rt EXCEPT !.queue = After(@, rt.armed.track), !.current = rt.armed.track,
                              !.armed = NotArmed, !.generation = @ + 1, !.loading = 0,
                              !.late = FALSE, !.wasActive = TRUE, !.skip = FALSE], None)
       \/ ~EngineAdvanced /\ rt' = [rt EXCEPT !.armed.observed = Observed]
    /\ UNCHANGED <<loop, plays, prefetches, player, history>>
-----------------------------------------------------------------------------
(* The engine. *)

Handle(op) == channel # <<>> /\ Head(channel).op = op /\ channel' = Tail(channel)
Fresh == Head(channel).epoch = epoch

HandlePlayStream ==
    /\ Handle("PlayStream")
    /\ engine' = IF ~Fresh THEN engine
                 ELSE [engine EXCEPT !.queue = None, !.pending = Head(channel).track,
                                     !.pendingEpoch = Head(channel).epoch]
    /\ UNCHANGED <<rt, tasks, epoch, history>>

HandleStop ==
    /\ Handle("Stop")
    /\ engine' = IF ~Fresh THEN engine
                 ELSE [engine EXCEPT !.active = FALSE, !.session = 0, !.file = None,
                                     !.queue = None, !.pending = None, !.pendingEpoch = 0]
    /\ UNCHANGED <<rt, tasks, epoch, history>>

HandleNext ==
    /\ Handle("Next")
    /\ \/ ~Fresh /\ UNCHANGED engine
       \/ /\ Fresh /\ engine.queue # None
          /\ engine' = [engine EXCEPT !.pending = engine.queue, !.queue = None,
                                      !.pendingEpoch = epoch]
       \/ /\ Fresh /\ engine.queue = None
          /\ engine' = [engine EXCEPT !.active = FALSE, !.session = 0, !.file = None]
    /\ UNCHANGED <<rt, tasks, epoch, history>>

HandleSetStreamQueue ==
    /\ Handle("SetStreamQueue")
    /\ LET cmd == Head(channel)
       IN  engine' = IF Fresh /\ cmd.shown \in {None, engine.file}
                     THEN [engine EXCEPT !.queue = cmd.track] ELSE engine
    /\ UNCHANGED <<rt, tasks, epoch, history>>

\* The start that waits is opened; one whose epoch is no longer the newest is dropped.
\* A session that could not start gives way to the next in the queue.
InstallStart ==
    /\ engine.pending # None
    /\ LET e == engine.pendingEpoch
           free == [engine EXCEPT !.pending = None, !.pendingEpoch = 0]
       IN  \/ e # epoch /\ engine' = free
           \/ e = epoch /\ engine' = [free EXCEPT !.file = engine.pending, !.active = TRUE,
                                                  !.session = e]
           \/ /\ e = epoch /\ Failures
              /\ engine' = [free EXCEPT !.file = None, !.session = 0, !.queue = None,
                                        !.pending = engine.queue,
                                        !.pendingEpoch = IF engine.queue = None THEN 0 ELSE e,
                                        !.active = engine.queue # None]
    /\ UNCHANGED <<rt, tasks, epoch, channel, history>>

\* The end of a track: what is queued follows, unless a change has been claimed.
EndOfTrack ==
    /\ engine.active /\ engine.session # 0 /\ engine.pending = None
    /\ \/ /\ engine.session = epoch /\ engine.queue # None
          /\ engine' = [engine EXCEPT !.session = 0, !.pending = engine.queue, !.queue = None,
                                      !.pendingEpoch = engine.session]
       \/ /\ engine.session # epoch \/ engine.queue = None
          /\ engine' = [engine EXCEPT !.active = FALSE, !.session = 0, !.file = None,
                                      !.queue = None]
    /\ UNCHANGED <<rt, tasks, epoch, channel, history>>

\* A playback step that finds no session.
StepWithoutSession ==
    /\ engine.active /\ engine.session = 0 /\ engine.pending = None
    /\ engine' = [engine EXCEPT !.active = FALSE]
    /\ UNCHANGED <<rt, tasks, epoch, channel, history>>
-----------------------------------------------------------------------------
ReceiveCommand ==
    \/ \E t \in Track, q \in UNION {[1..n -> Track] : n \in 0..MaxQueue} : PlaySource(t, q)
    \/ \E q \in UNION {[1..n -> Track] : n \in 0..MaxQueue} : SetQueue(q)
    \/ \E t \in Track : PreFetch(t)
    \/ \E on \in BOOLEAN : SetLoopMode(on)
    \/ Stop \/ NextLocked

HandleCommand == PlaySourceLocked \/ StopLocked \/ NextSent
TickAdvances == GraceElapses \/ TickSelects \/ TickReserves

PlayStep == \E p \in plays :
    TakePrefetched(p) \/ OpenStream(p) \/ CheckCurrent(p) \/ PlayStream(p) \/ PlayEnds(p)
PrefetchStep == \E f \in prefetches : PrefetchBegins(f) \/ PrefetchEnds(f)
StatusStep == Look \/ Synchronize

EngineCommand == HandlePlayStream \/ HandleStop \/ HandleNext \/ HandleSetStreamQueue
EngineStep == EngineCommand \/ InstallStart \/ EndOfTrack \/ StepWithoutSession

Next ==
    \/ ReceiveCommand \/ HandleCommand \/ Tick \/ TickWaits \/ TickAdvances
    \/ PlayStep \/ PrefetchStep \/ StatusStep \/ EngineStep

Spec == Init /\ [][Next]_vars

(* The loop and the tasks go on, a stream opens or fails, the worker takes its   *)
(* commands, a track ends, and time passes.                                       *)
FairSpec ==
    /\ Spec
    /\ WF_vars(HandleCommand) /\ WF_vars(Tick) /\ WF_vars(TickWaits)
    /\ SF_vars(GraceElapses) /\ WF_vars(TickSelects) /\ WF_vars(TickReserves)
    /\ WF_vars(PlayStep) /\ WF_vars(PrefetchStep) /\ WF_vars(StatusStep)
    /\ WF_vars(EngineCommand) /\ WF_vars(InstallStart)
    /\ WF_vars(EndOfTrack) /\ WF_vars(StepWithoutSession)
-----------------------------------------------------------------------------
(* The runtime state is well formed, and of the open streams at most            *)
(* MaxPrefetched are kept (agent/runtime.rs, agent/prefetch.rs).                 *)
TypeOK ==
    /\ rt.queue \in Seq(Track) /\ rt.current \in Track \cup {None}
    /\ rt.generation \in Nat /\ rt.loading \in 0..rt.generation
    /\ rt.armed \in [track: Track \cup {None}, observed: BOOLEAN]
    /\ {rt.late, rt.wasActive, rt.skip, rt.repeatOne} \subseteq BOOLEAN
    /\ rt.prefetched \subseteq Track /\ Cardinality(rt.prefetched) <= MaxPrefetched
    /\ rt.prefetching \in Track \cup {None}
    /\ loop.at \in {"idle", "play", "stop", "next", "tick", "reserve"}
    /\ status \in [at: {"idle", "seen"}, file: Track \cup {None}]
    /\ \A p \in plays : p.generation \in 1..rt.generation /\ p.epoch \in 1..epoch
    /\ engine.file \in Track \cup {None} /\ engine.queue \in Track \cup {None}

(* While loading_generation is set the tick does nothing, so something that will *)
(* clear it must be on its way: the task of that generation, or the tick that     *)
(* has still to spawn it.                                                         *)
LoadingHasTask ==
    rt.loading # 0 =>
        /\ rt.loading = rt.generation
        /\ \/ \E p \in plays : p.generation = rt.loading
           \/ loop.at = "reserve" /\ loop.generation = rt.loading

(* After a Stop nothing plays until the core sends something to play, whatever    *)
(* was being opened, prefetched or selected when it came.                         *)
StopHolds == stopped /\ channel = <<>> => ~engine.active

(* Without a command the agent turns to nothing but the head of its queue, and    *)
(* takes just that: no track is passed over and none is kept, whichever of the    *)
(* tick and the status task sees the advance.                                     *)
TakenInOrder ==
    [][rt'.current \notin {None, rt.current} /\ loop.at # "play"
         => rt.queue # <<>> /\ rt'.current = Head(rt.queue) /\ rt'.queue = Tail(rt.queue)]_vars

(* Whatever fails, unless it repeats one track the agent plays out its queue.     *)
QueuePlaysOut == <>[](rt.repeatOne \/ rt.current = None)
=============================================================================
