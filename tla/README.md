# Fozmo in TLA+

Fozmo is a music server written in Rust: it plays local files and Qobuz streams through the
machine's own audio output, and sends them to remote agents, UPnP renderers and Sonos zones. This
directory holds TLA+ models of the parts of it that are concurrent and stateful, the TLC runs that
check them on small instances, and TLAPS proofs of the properties that matter most for every
instance. Paths below are relative to the repository's `src/`; `engine/` is `audio/engine/`,
`upnp/` is `audio/sinks/upnp/`.

## Running

    tlc -workers 2 -config Engine.cfg MCPlayerEngine     # or any other pair in the table of runs
    tlapm PlayerEngineProofs.tla                         # or any other module of proofs

## The system

```
  browsers, app      HTTP API (api/)              monitor (playback/monitor.rs)
        \                 |                             |  auto-advance, prefetch, listening
         +--> request.rs, queue.rs --> PlaybackSequencer|
                          |                             |
                   PlaybackDispatcher --> SinkResolver --> sinks: local, agent, Sonos, UPnP
                          |                  |              |            |
                  library (stored      Player handle   ZoneManager,   UpnpController --SOAP--> renderer
                  queue), listening          |         agent bridge --ws--> agent
                                  unbounded command channel             (its own Player)
                                             |
                                        audio worker  --ring buffer-->  output callback / thread
                                             |
                              atomics and mutexes everybody reads
```

| Component | State it keeps | Operations | What is hard | What makes it correct |
|---|---|---|---|---|
| Player handle, worker, channel (`engine/player.rs`, `command_dispatch.rs`, `worker_state.rs`) | playback epoch, player state, queues, session, pending start | play, play stream, next, stop, pause, resume, seek, queue and configuration commands | every call is several accesses to shared atomics; commands are handled later than they are claimed | an older call never takes over; a handled stop is final |
| Worker queues (`engine/queue_state.rs`) | file queue, stream queue, two atomics | replace, pop, clear, choose what follows | two queues of which one must be empty; the atomics are read by the monitor | one queue at a time; the flag is up only for a stream on its way, and comes down |
| Session start and restart (`engine/session_start.rs`, `session_restart.rs`) | pending start, session, shown track | open, install, fail over to the next, rebuild, seek | the open is slow and may fail; the old session stays meanwhile | what is shown is what plays; a start settles |
| Output stage, decode pump (`engine/output_stage.rs`, `playback_step.rs`) | stream, reset notice, retry time, ring | open, lose, drop, promote, pump, drain | the callback runs on its own thread; a flush must be consumed before samples flow | nothing of an interrupted track is heard; STARTING ends |
| Sequencer (`playback/sequencer.rs`) | newest request number of each client | accept, is_current | reordered requests; a bounded table that forgets | newest number known; the least recently heard client is the one forgotten |
| Dispatcher, sinks (`playback/dispatcher.rs`, `playback/sinks/`) | none of their own; they write the player, the library, the listening tracker | every playback intent, for every kind of zone | waits between the check of a request and its effect; two stores after one accepted play | an overtaken request does not play; answers are true; racing requests do not all lose |
| Remote agent (`agent/`) | runtime state: queue, current source, generation, armed and prefetched streams; its own player | play, prefetch, queue, loop mode, next, stop; tick; status | four tasks infer from one another's traces whether a track ended, began or went on | the queue is taken head by head; no load blocks the tick for good; a stop holds |
| Zones and agent bridge (`zones/`, `playback/zone_service.rs`) | entries of zones, enabled, online, active, preferred; a row of each in the library | refresh, select, enable, disable, register, unregister | one refresh is many locks; a dead socket is cleaned up after its successor came | zones follow their newest socket; the active zone exists, is shared and recovers; registry and library agree |
| Listening (`listening.rs`) | active listen, pending queue, what was transferred | start, next, stop, set queue, transfer, observe | reports are older than the calls they meet; a listen is inferred from a name | a started listen is not closed by an older report; in the end what plays is what is listened to |
| UPnP sink (`upnp/`) | session, generation, seek reservation, settling time, armed next track | play, next, pause, resume, stop, seek, arm; the monitor's look; the renderer's fetch | every call is a wait that may fail, time out or be dropped; seeks let go of the lock before they are done | plays in order; a reservation ends with its seek; no next track where the renderer cannot take one |
| Sonos sink (`audio/sinks/sonos.rs`) | a session for each group | as UPnP, without reservations | as UPnP | as UPnP |
| Monitor and auto-advance (`playback/auto_advance.rs`, `monitor.rs`) | last seen status and tail, prewarms made, zones with an advance under way, radio guard | completion, prewarm, prefetch, wait for the renderer, fallback play, retry | what was seen is acted upon later; the monitor, the advance and the listener all move the queue on | a retry never undoes a newer command; every advance ends; a play that fails costs no track |
| Queue endpoints (`playback/queue.rs`) | stored queue of a zone | edit, reorder, clear, take over | the library, the listen and the player each have the queue | the copies agree |
| Qobuz stream cache, settings store, capture, pairing | downloads, debounced writes, tokens | | shared work in flight, limits | nothing lost or served twice |
| DSP, transcoding, devices, library, Hegel, launcher, user interface | numeric or I/O | | no state machine of interest | not modelled |

`PROJECT.json` lists every component with its sources and status, and under "hazards" the places in
the code that are hard to test, each with the properties that cover it or the reason none does.

## The modules

| Module | Models | Kind |
|---|---|---|
| `WorkerQueues` | `engine/queue_state.rs` | operators on one record |
| `PlayerEngine` | `engine/player.rs`, `command_dispatch.rs`, `session_start.rs`, `session_restart.rs`, `output_stage.rs`, `playback_step.rs`, `worker_loop.rs` | state machine; uses `WorkerQueues` as `Queue` |
| `PlaybackLease` | what `playback_epoch` promises | abstract specification; `PlayerEngine` implements it |
| `PlaybackSequencer` | `playback/sequencer.rs` | state machine |
| `PlayRequests` | `playback/request.rs`, `playback/sinks/local.rs`, `qobuz.rs`, the dispatcher's stop | state machine; runs `PlaybackSequencer` as `Sequencer` |
| `AgentPlayback` | `agent/control_loop.rs`, `prefetch.rs`, `runtime.rs`, the status task, over a player | state machine |
| `ZoneRegistry` | `zones/registry.rs`, `manager.rs`, `active_zone_policy.rs`, `agent_bridge.rs`, `playback/zone_service.rs`, the socket of an agent | state machine |
| `Listening` | `listening.rs`, with the calls of `playback/dispatcher.rs` and the reports of `playback/monitor.rs` | state machine |
| `UpnpSession` | `upnp/transport.rs`, `session.rs`, `mod.rs` and the part of the stream server that marks a seek ready | state machine |
| `ZoneQueue` | `playback/auto_advance.rs`, `monitor.rs`, `upnp.rs`, `sinks/upnp.rs`, `queue.rs`, `listening.rs` for a zone that a UPnP renderer plays | state machine |
| `PlayerEngineProofs`, `PlayerEngineStopProofs`, `PlayRequestsProofs`, `AgentPlaybackProofs`, `ZoneRegistryProofs`, `ListeningProofs`, `UpnpSessionProofs`, `ZoneQueueProofs` | theorems | proofs |
| `MCPlayerEngine`, `MCPlayRequests`, `MCAgentPlayback`, `MCZoneRegistry`, `MCListening`, `MCUpnpSession`, `MCZoneQueue` | instances | symmetry, sets of calls, tables |

The modules meet in the code as follows. `PlayRequests` is what happens before a command reaches
`PlayerEngine`: the player is reduced there to its epoch and what it took last. `AgentPlayback` has
a second player, reduced to what its handle shows: streams only, an epoch, a channel, one queued
stream. `Listening` has a player reduced to what the monitor reports. `ZoneQueue`
composes what lies around one renderer: the session of `UpnpSession` without seeks and pauses, the
listen of `Listening` without its history of time, and the tasks that move the queue on; the renderer
is a process of its own. `ZoneRegistry` decides which
of the sinks a request reaches at all. Each of the reductions leaves the player more freedom than
`PlayerEngine` has (a start may fail or be delayed at any point), so what holds over it does not
rely on details that the engine's own module would have to show.

Operators marked "seeded fault" in a comment are not part of a specification: each is the form a
definition would have after a plausible mistake, and a property is worth keeping when replacing the
definition by it makes TLC find a violation. `PROJECT.json` names the pairs under "mutants".

### PlayerEngine

Variables keep the source's names: `state` is `AtomicPlayerState.state`, `epoch` is
`playback_epoch`, `queues` the two `VecDeque`s with `stream_queue_len` and
`stream_auto_advance_pending`, `pendingStart`, `session`, `sessionEpoch`, `currentFilePath`,
`fileName`, `flushBuffer`, `repeatOne`. `wpc` says where in its loop the worker thread is:

| `wpc` | where the worker is |
|---|---|
| `top` | start of the loop: the stream's reset notice |
| `drain` | the command channel, one command a step; then the pending start |
| `storing` | between the load of the state and the store that follows from it |
| `restarting` | rebuilding a file's session |
| `opening` | a start is being opened (decoder, stream) |
| `output` | `ensure_output_stream` |
| `promote` | STARTING to PLAYING, if the preroll is there |
| `step` | `run_playback_step` |
| `pumping` | decoding a packet, or finding the end |
| `draining` | waiting for the output to play what is left |

A client's `cpc` says how far its call is: `reserved` (an epoch reserved, source not found yet),
`stopping` and `pausing` (between the claim or load and the store), `clearing`, `filling`,
`prefetching`, `delivering` (queue edits and the monitor's fetch of the next stream), `sending`.
`outbox` is the command it will send. Commands travel through the sequence `commands`, which is
unbounded as the channel is.

A track is identified by the epoch of the call that chose it and its place in that call's list, so
that a property can say from which play a track comes. The ring buffer is the set of the epochs
whose samples it may hold: a track that follows another without a gap goes on under its session's
epoch, so that an epoch is a play, which is what may be interrupted. `claims` is
history: what each epoch was claimed for.

Simplifications, each of which only removes detail no property speaks of:

- the output mode is PCM; tags, covers, metrics, time, volume and samples are left out;
- a new player's `session_epoch` is 0;
- a queue edit (`EditQueue`) checks the shown track and reads the epoch in one step, and so does
  the monitor's prefetch (`PrefetchBegin`); both windows are listed as hazards without a property;
- what the output does not hear of a track that ends before its preroll was full is not counted;
- the worker's shutdown, `UpdateConfig` (no caller outside tests), `UpdateEq`, the DSD settings and
  the AirPlay volume are not modelled: in PCM mode they change no start, session or queue.

### PlayRequests and PlaybackSequencer

Every request is its own process with a `pc`: `absent`, `preparing` (its source is resolved, the
amplifier woken), `prepared`, `opening` and `opened` (a Qobuz stream is opened), `checked` (the
guard let it through), `reserved` (`reserve_playback_change`), `storing` and `stored` (the player
took it; queue, then listening), `completed` or `refused`. A request of the core itself carries no
number; it is `Unnumbered`. Requests of the monitor's prefetch use a client name that is never
accepted, so their guard never refuses; they are part of `PlayerEngine` instead.

The player is reduced to what the requests see of it: `epoch`, the play it took last and, as
history, the epoch of the newest command sent (`lead`). `PlaybackSequencer` takes one step a call,
since a mutex is held for all of it; instants are distinct.

### AgentPlayback

`rt` is `AgentRuntimeState`, one record under one mutex: `queue`, `current` (`current_source`),
`generation`, `loading` (`loading_generation`, 0 for None), `armed` (the stream in the engine's
queue, with `observed`), `wasActive`, `skip`, `repeatOne`, `prefetched`, `prefetching`, and `late`,
which is whether `current_started_at` is older than the grace. One step is one critical section of
that mutex, or one access to the player outside of one. The tasks:

- `loop` is the control loop. A command with two accesses takes two steps: `PlaySource` reserves
  the epoch and `PlaySourceLocked` takes the lock; `Stop` sends to the player and `StopLocked`
  resets the runtime; `NextLocked` and `NextSent` the other way round. `Tick` snapshots the player,
  `TickWaits` or `TickSelects` decides under the lock on that snapshot, `TickReserves` spawns.
- `plays` and `prefetches` are the spawned tasks, with where they are: an open takes as long as it
  takes and may fail.
- `status` is the status task between its look at the file name and the lock.
- `channel` and `engine` are the player, whose worker handles one command a step.

Left out: pause, resume, seek and configuration, which change none of this; the socket and its
reconnection; two tracks have two display names, which is what the status task compares.

### ZoneRegistry

`registry` is the `ZoneRegistry` behind its mutex: `known` (entries of the core's zones), `agents`
(for each output of an agent the connection it was registered by, 0 for none), `enabled`, `online`,
`active`, `preferred`. One step is one lock, or one statement of the library (`saved`). `refresh`
is where `refresh_playback_zones` is: `devices`, `receivers` (one lock for each network), the two
writes and the read of zone definitions, `apply`. Several refreshes at once are not modelled
(they are one task and the list request; their locks would interleave as the modelled ones do with
everything else). A socket of an agent is a task of its own: registered, reads the rows, applies
them, may select a zone, stays open, closes; closing may come at any time after, and so after the
same agent's next registration. `saves` are the library writes of an enabling, after the lock was
given back, in any order. `busy` are the zones whose player runs or owns its output, which a refresh
takes care of, and `found` what the world shows.

Left out: names, capabilities, the device a player is set to, the rejected AirPlay receivers, the
Hegel standby zone and the settings' copy of the preferred zone; sending commands to an agent.

### Listening

`active` is the zone's `ActiveListen` or None, `pendingQueue` and `transferred` the tracker's other
two maps for that zone. A play is an instance of a track being played; `credited` is the time the
history has of each. A call is a task: the player is told first, the tracker later (`Start`,
`SkipListen`, `StopListen`, `KeepQueue`, `FillQueue`, `MoveHere`, `MoveAway`, `Leave`), so that
calls and reports cross as they do between the dispatcher and the monitor. The monitor holds a report
from `Look` to `Observe`, and a recovered listen from `ObserveNone` to `InsertRecovered`. `pending` and
`waiting` become `late` when `PENDING_MATCH_GRACE_SECONDS` are over. Time is counted in the
monitor's rounds.

What plays without a listen is looked for in the queue that was kept, and then by its name among the
files of the library; `Indexed` are the tracks the library finds. For the others
`recover_active_listen` returns None, and a player may play on with no listen for good, as the test at
`listening.rs:1427` has it. `Settles` says so: in the end what plays is listened to, or was left playing
by a transfer, or nothing is known of it and nothing else is listened to either. The same recovery
closes a listen for a track that is neither its own nor in its queue, with or without another in its
place (`ObserveOther`). `MoveHere` puts whatever the other zone listens to by then (`Elsewhere`), or
nothing, in the place of the listen that was started here.

`StartSurvives` is about every step: a listen that was started and not yet matched goes only by a call
that takes it away (`TakesAway`), by its grace running out, or by `InsertRecovered`. That last one is a
report that does close a started listen: a track found again from a report older than the call is
inserted under a second lock, which does not look whether a listen was started since
(`listening.rs:310-321`). The next report puts the track right, which is why `Settles` holds all the
same; the queue the lost listen was started with is not had back.

Left out: streams (a track is a file; a stream is recovered from a queue only, as a file the library
does not know), profiles, radio, recent albums, names other than the track's, seeking and repeat-one.

### UpnpSession

`session` is `UpnpSession` as far as control goes, `generation` the zone's entry in
`command_generations`, `reservation` that in `seek_reservations` (0 for none), `settling` whether
`seek_settling_until` is to come, `asked` the trace of the renderer's request for media. A command
is a task; `at` says at which wait it is, and one step is what it does from one answer of the
renderer up to its next wait. `Locked` says at which of them it holds the command lock. `Soap` is
one call of the renderer: it is carried out and answered, or it is not answered and may have been
carried out all the same. `Cancel` drops the future of a command at any wait, which in the code
happens when the client hangs up; a seek's reservation guard is dropped with it.

What a command or a prewarm names is a `Source`; what it sends the renderer is an `Asset`, a source
with the URL and token made for it when it was prepared (`Prepared`). The renderer and `session`
hold assets, so a source that is prepared twice is two next tracks, which the code tells apart by
their URLs.

A seek takes its generation under one lock and its reservation under another (`BeginSeek`,
`SeekReserves`), so an older seek may take over the reservation of a newer one. A prewarm that is refused
looks at the reservation, sleeps, and is sent again without looking (`ArmPauses`, `ArmRetries`).
A look of the monitor asks two questions: the state, and then the position with the track
(`PollLooks`, `PollEnds`); the renderer may go on between them, and the second may stay unanswered,
which leaves the track unknown (`Sights`).

`SettleRespected` excepts a seek that the core gave up without an answer, and whatever follows it:
from then on the core may not know that the renderer settles, and `unreported` is not taken back when a
later seek is answered, which is wider than the code's own doubt.

The renderer is what the code expects of one: Stop and SetAVTransportURI drop its next track, it
reports the track it is at, it may go on to the next by itself or stay stopped there. Left out: DoP
and progressive renders, volume, renderers that cannot arm, reconfiguration, the promotion by time,
watchdogs (the monitor's look repairs what they do) and the transport's error state.

### ZoneQueue

`stored` is the library's `zone_queue`, `listen` the zone's `ActiveListen` or None. `session` is what
the core believes of the renderer: the current track, the armed next one, the state, whether the
position is in the tail of the track (`ended`) and whether a play is still starting. `renderer` is
what it really does: it goes on by itself, goes on and stays stopped there ("Loaded", as some KEF
firmware does), or ends. `monitor` is the status between `Look` (the status is built and observed)
and `Act` (prewarm and advance are decided upon it); `remembered` is `remote_tail_observations`,
`prewarmed` `completed_upnp_prewarms`. `advance` is the task that holds the zone in
`pending_qobuz_advances`, by where it is: `begins`, `waits`, `playing`, `retries`, `rests`. Its play,
like those of listeners, and stops, skips and prewarms are `tasks`. One step is what a task does from
one await, or from one write of a copy of the queue, to the next. `overtaken` is history.

The two copies are written under two locks, one after the other, and everything else may happen in
between: an edit and a skip that falls back to a play store first and tell the listen then
(`Edit`, `EditListens`; `NextFalls`, `NextPlays`), so does a play that succeeded (`PlayLoads`,
`PlayListens`), and `ListeningTracker::next`, which the advance, a skip and the monitor call, moves the
listen first and stores then (`ListenNext`; `AdvanceSaves`, `NextSaves`, `MonitorSaves`). Only the
observation writes both under the listens' lock (`ObserveOther`, `listening.rs:370-400`). `Between` is
somebody being between his two writes. `crossed` is history: a writer began while another was between
his, or a listen was found again, and none has written alone since. Of two edits that cross each may leave its own copy behind, and
the copies differ until somebody writes alone; `QueuesAgree` is therefore about writers that do not
cross, and the hazard in `PROJECT.json` says what is left.

A play of a listener has its client's number, which is looked at again after the renderer was told to
play: one that was overtaken writes neither copy (`Numbered`). A skip that the renderer does not answer
(`NextFails`) may have been carried out, and is followed by a play. What plays without a listen is found
again in the queue kept for one, or not at all; the library's queue stays as it is (`Recovers`).

Left out: loops and radio, other protocols, pause and seek (`UpnpSession` has them), a skip of an empty
queue, titles that differ, the hand-over that is inferred from the position alone, a startup that times
out without a failure, a Stop that is not answered, and a library that fails to write.

## The runs

| Run | Shows | Instance | Distinct states |
|---|---|---|---|
| `engine` | epochs ordered, the lease implemented, one queue at a time, the auto-advance flag only for a stream on its way, a handled stop final | 2 threads, 3 calls of the nine that claim what plays or edit what follows; 1 queued track, 1 fault | 1 244 000 |
| `outlets` | what is shown plays, no interrupted sample heard | 2 threads, 3 calls of play, stop, pause, seek, configuration, device selection, reopening; plain and buffering (AirPlay) outputs; 1 fault | 1 521 000 |
| `settles` | an accepted play starts, fails or is superseded; STARTING is left; the auto-advance flag comes down | fair; 3 calls of play, prefetch, stop, pause, resume; 1 fault | 287 000 |
| `requests` | overtaken requests do not play; true answers; one of the racing requests wins; the table forgets the right client | 2 clients, 1 slot, 3 requests, a stop, failures | 335 000 |
| `agent` | the queue is taken head by head; every load has a task that ends it; a stop holds; the queue is played out | fair; 2 tracks, 2 commands, 1 queued, streams fail | 486 000 |
| `zones` | zones follow their sockets; the active zone is known and shared, recovers and rests; registry and library agree | fair; a sound card, an AirPlay speaker, an agent, a browser; 3 events | 419 000 |
| `listening` | a started listen outlives all but a call that takes it away and a track found again; in the end what is listened to is what plays, or nothing is known of it | fair; 2 tracks, one of them in the library; 2 calls, 1 queued | 1 498 000 |
| `upnp` | a reservation ends with its seek; plays in order; a KEF neither sought armed nor armed settling | 2 commands and a prewarm of one source, a KEF, 2 attempts | 2 103 000 |
| `zone_queue` | both copies of the queue agree after writers that do not cross; a retry yields to newer commands; every advance ends | fair; 2 tracks, 1 call of play, skip, stop or edit, 1 retry, 1 failure | 655 000 |
| `zones_finding`, `upnp_finding`, `zone_queue_finding` | violations, see Findings | | |

Why the bounds suffice. In the engine two threads are what it takes to place one call inside
another, and the worker and the callback are two more. Three calls are a play, the call that races
it, and one after both. An AirPlay output has every event an ASIO one has, and one of its own. One queued track distinguishes a queue that was popped, replaced or left.
One fault reaches every error path, since each ends in the same few states. `requests` has three
requests, so that of two one may be overtaken by the third, and one slot, so that with two clients
one is really forgotten. `agent` has two commands because the races are between one command and the
agent's own four tasks, and a second one makes the first stale; the tracks of a queue are a head and
a rest. `zones` needs three events for an agent to register, register again and have a zone
selected or disabled in between; the socket that dies is not counted. `listening` has two calls: one
that starts a listen and one that crosses it. `upnp` has two commands: one to hold the lock, one to
wait; a third would wait as the second does. Two attempts distinguish a retry from a last attempt. It
has one source, since each play and each prewarm of it is an asset of its own; what a second one adds is
a prewarm that is stale by its source, and it has been checked with two as well (3.7 million states up to
symmetry), too many for a run of a few minutes.
`zone_queue` has one call of a listener, because the races are between it and five parties that act by
themselves (the monitor, the advance, its play, the prewarm, the renderer); the code's three retries are
one after another and each checks the same, so one stands for them; one failure brings the retry about.
A zone begins with a track and one behind it, or with its last track, and what a listener plays is the
other of the two (`Turnabout`). A queue of one distinguishes its head from its being empty;
`zone_queue_finding` has two queued tracks to show what is left.
Symmetry is used in safety runs only.

The safety properties were also tried by random simulation at bounds no run could exhaust (four to
eight calls or events, three tracks, three retries, two faults), some ten to two hundred million states
for each module, and none failed. What larger instances do bring is a state of the engine that two of
its properties therefore say nothing about, and both are hazards with a note: STARTING without a
session. It comes about when a start that was to end it is dropped because a play reserved the epoch,
and then found nothing to play (`session_start.rs:60`), which `StartingSettles` excepts; and when a
configuration is applied to a PLAYING that Resume stored without a session (`command_dispatch.rs:390`),
a call that is not among those of `settles`. Only a new play, skip or stop ends it.

`CHECK_DEADLOCK FALSE` stands where a bounded supply of calls runs out and everything has been
answered: `Requests`, `Agent`, `Zones`, `ZonesFinding`, `Listening`, `Upnp`,
`UpnpFinding`, `ZoneQueue` and `ZoneQueueFinding`. The engine's worker never stops, and its runs check for deadlock.

### Fairness

`PlayerEngine.FairSpec` (run `settles`): weak fairness of the worker's step, one thread in a loop
that blocks on no other thread; of the callback's flush and of the passing of the two-second retry
time; of `Finish(c)`, since a call that has begun makes its few remaining accesses (the opening of a
stream for a prefetch is *not* in it: a fetch may hang). Strong fairness of `Promote`: a track is
long enough to fill the preroll, and the worker comes by again and again. This is an assumption
about input; the hazard list names what happens without it.

`AgentPlayback.FairSpec`: weak fairness of every step of the loop, of the tasks and of the worker:
they are tasks of a runtime and a thread, whose waits are for a mutex that is never kept over a wait,
or for an open that ends. A stream ends (`EndOfTrack`), which is an assumption about input. Strong
fairness of `GraceElapses`: time passes, although never inside a tick.

`ZoneRegistry.FairSpec`: weak fairness of the refresh, which a timer repeats every 30 seconds, of
the saves and of a socket's own steps. Nothing is asked of listeners, sockets that close, or the
world.

`Listening.FairSpec`: weak fairness of the calls under way and of the monitor; strong fairness of
`GraceElapses`. Nothing is asked of the player, which may play on, pause or stay stopped.

`ZoneQueue.FairSpec`: weak fairness of the commands, of the prewarms, of the advance, of the monitor's
halves and its write of the queue, and of the renderer, which begins what it was told to play and plays it to its end; strong fairness of `Poll`,
which finds the lock free again and again, and of `GraceElapses`, since time passes although a listen may
match in between. A renderer that loaded its next track may stay stopped, nothing need fail, and nothing is
asked of listeners.

`UpnpSession` has none: a renderer may never answer, and its properties are safety.

## Findings

Each is a run in which TLC exhibits the behaviour.

1. `zones_finding`: a refresh marks the zones of UPnP renderers offline together with the local
   devices (`zones/manager.rs:107`), although the same code spares AirPlay and Sonos, and
   `zone_service.rs:408-411` warns of just that. An idle active UPnP zone falls back to another zone
   and returns, at every refresh: the active zone never rests.
2. `upnp_finding`: the media a renderer fetches for one seek ends whatever reservation there is
   (`upnp/session.rs:635`). The second of two seeks loses its turn to nobody and is never sent,
   although `transport.rs:481-484` promises to send the latest target.
3. `zone_queue_finding`: when a renderer has not gone on by itself the advance plays the next track for
   it. While that play is under way the session shows the track as Transitioning, and the monitor's
   observation (`listening.rs:367`) takes it from the queue. If the play fails, the retry finds that
   something else is listened to and gives up: the track is neither played nor queued.
   `upnp/session.rs:988-991` and the test `auto_advance.rs:1734` say that a next track that does not
   play must not be consumed.

Some more behaviours were met that no text of the repository clearly forbids, or that repair
themselves: a Next before the worker has taken a Play, a queue edit that arrives after an
auto-advance, repeat-one with a prefetched stream, a stop after a recovered listen that credits
its time again, a renderer that plays the track it was armed with after it was taken off the queue, an
advance that calls `next` for a track the monitor has already seen playing, so that the one behind it is
skipped, and a first attempt of the advance that, unlike its retries, asks nothing and supersedes a play
the listener began while it waited. Most are hazards without a property in `PROJECT.json`, each with its note.

## What is proved

`PlayerEngineProofs`, for any set of threads, calls and outputs and any bounds, from
`MaxAssumption` (the bounds are naturals) and `NoneAssumption` (an Option that is None is not a
track or a start):

- `TypeCorrect`: `TypeOK` is inductive as it stands because it contains `Located`, which says what
  the worker holds where it is: an opening worker has a start in flight and no other pending, a
  pumping or draining one has a session. Without `Located` the typing of `session` after
  `InstallSession` does not follow.
- `EpochsOrdered`: `EpochOrder`, inductive relative to `TypeOK`. The lemma `WorkerEpochs` says where
  the epoch of a start can come from, and the order follows from that alone.
- `NeverGoesBack`: the epoch of what plays never decreases. An action property, from the same
  invariant.
- `ImplementsLease`: each step of the engine is a step of `PlaybackLease` or leaves it alone.
  `opening` maps to the epoch of the start in flight while the worker opens it, `playing` to
  `sessionEpoch`. The step that matters is `OpenStart`, which is enabled only under the current
  epoch; a claim may come at any time after it.
- `QueuesAgree` and `AdvancingHasStream`: `OneQueue` and `AdvancingStream` are not inductive. The
  strengthening `QueuesSound` adds that the stream queue holds only streams, that the worker holds a
  start in flight only while opening or draining, and that the flag then speaks of that start and
  otherwise of the pending one. `AdvancingStream` alone does not survive `Drain`, which could
  overwrite a pending stream by a file.

`PlayerEngineStopProofs` extends it, from the same assumptions:

- `ShowsWhatPlays` (`NowPlaying`): the strengthening `Shown` says that the path and the session are the
  shown track's even while no session is installed, and that a rebuild has a path; without it
  `RestartOk`, which installs whatever the path names, does not preserve the property.
- `StopsAreFinal` (`StopIsFinal`): `Final` says that after a claim for a stop its command is prepared,
  or sent, or everything is `Quiet`. That the worker takes nothing fresh that would end the quiet is
  `ClaimsKept`: each epoch was claimed once, and a play or a skip is sent under an epoch claimed for
  it, so under the epoch of a stop there is none. That no rebuild ends it needs `Shown`.
- `NothingBleeds` (`NoBleed`): the strengthening `Unheard` speaks of the ring everywhere and not only at
  the promotion. Samples of another play than the session's have a flush coming (`RingClean`); the
  worker fills the ring only where there is a stream (`Consumed`); a start opened without a gap has the
  session's epoch, and any other one finds the ring empty or has asked for the flush (`BoundaryHeld`); and
  a start can be gapless only under the session's epoch (`SameEpoch`), because only `PumpEof` makes such
  a start, and every start that may take its place is not gapless.
- `PlaysAreTaken` (`PlayTaken`) and `PlaysAreKept` (`PlayKept`): the call that claims the epoch for a play
  puts its command on the way, and from there no step of any thread loses it: it is under way until it
  is installed, shown to have failed, or a newer call claims the epoch. Together they are the safety half
  of `PlaySettles`; that it also gets there is left to the run `settles`. The places where a play could be
  lost are the commands that clear the queues and the tracks that end. A stop cannot take it, by
  `ClaimsKept`; and the end of the track before it cannot overwrite it, because a start that is pending
  past the point where the worker takes it is the successor of one that failed (`FailedFirst`). The two
  properties are in no run of their own; TLC has found no violation of them with nine kinds of calls and
  two faults.

`PlayRequestsProofs`, for any number of clients, slots, numbers and requests, from
`RequestAssumption`. One inductive invariant carries everything: the type invariant, the sequencer's
`NewestKnown`, `Recent` (the instants of the table are those at which its clients were last heard, and a
client it had no room for was heard before all those it has), `Taken` (what a request's place says about
whether it was played), `Claimed` (the newest claim belongs either to the newest command or to a request
still reserved) and `Guarded` (a request overtaken in a wait is caught by the check that follows). From
it follow `TypeCorrect`, `NewestIsKnown`, `MostRecent` (`MostRecentKept`), `NoneOvertakes`,
`AnswersAreTrue` and `OneWins`. `MostRecent` is the one about data: the client evicted by `accept` is
the one with the least `seen`, and that this is the one heard longest ago is `Recent`.

`ListeningProofs`, for any tracks, queues, durations and numbers of calls and plays, from
`ListeningAssumption`: `TypeCorrect` and `StartsSurvive` (`StartSurvives`). The inductive invariant says
that no report and no call under way speaks of a play that has not been, so that what the tracker makes
of them is a listen; it has a part for each of the listen, the tasks, the monitor and the player.
`StartsSurvive` then follows action by action of `Next`, and for a report branch by branch of `Observe`:
none of them closes a listen that waits for its first match within the grace, and what they make of it
is a listen of the same play; a report that found no listen changes none. What it does not speak of is
the insertion of a track found again, which does replace a started listen.

`UpnpSessionProofs`, for any number of sources, commands, prewarms, looks and attempts, for a KEF or
another renderer, from `UpnpAssumption`: `TypeCorrect`, `ReservationsEnd` (`ReservationHeld`) and
`PlaysNeverGoBack` (`PlaysInOrder`). The inductive invariant is `StateOK` (every variable in its
set), `CountsOK` (the counters and flags in theirs), `TasksOK` (one holder of the lock, and none
while the monitor looks), `ReservationHeld` and `Ordered`: no task is newer than the newest
generation, and a play that has passed the lock is no older than the play loaded last. `TasksOK` is
what makes `Ordered` inductive: a play passes the lock only as the newest, and nothing is loaded
while it holds it. Two action properties rest on a second layer:

- `SettlingLeftAlone` (`SettleRespected`), by `Settled`: the core knows of a renderer that settles, by
  `settling` or by the seek's reservation; a prewarm on the wire found that it does not settle; and a seek
  on its way to a KEF has cleared what was armed. The lock is not enough for this, since a seek gives it
  back before the renderer has settled.
- `NothingArmedAtSeek` (`SeekUnarmed`), by `NextOK`: unless a call was left in doubt, what the renderer
  has armed is what the core knows it to have, or a task that holds the lock is about to tell the core or
  to replace it (`NextKnown`). That needs `NextDistinct`, that it is never at the track it has armed, for
  otherwise a look could take the armed track for one that began; and that in turn needs `Fresh`: what a
  prewarm arms has a URL that nobody else was given.

`AgentPlaybackProofs`, for any tracks, lengths of queues, numbers of commands and of streams kept
open, from `AgentAssumption`. Everything rests on `TypeInv`, the types of all variables with two
facts that `TypeOK` does not have and the rest needs: the armed track is the head
of the queue (`ArmedFront`; so an advance seen by the status task takes the head), and a loading
generation is the newest. `TypeCorrect` and the action property `QueueTakenInOrder` (`TakenInOrder`)
follow from it alone. `LoadsHaveTasks` (`LoadingHasTask`) needs `OnTrack` besides: a task of the
newest generation is for the current track, so its check does not end it while the load it should
end is still marked. `StopIsHeard` (`StopHolds`) needs `Silenced`, which says what is left after a
Stop: no task holds the newest epoch, nothing sent under it starts anything, nothing is selected,
and its own command is either on its way or has been heard.

`ZoneRegistryProofs`, for any sound cards, receivers, networks, agents and outputs and any number of
events, from `ZoneAssumption`. The inductive invariant is `Settled` (the registry is well formed and
its active zone has an entry), the types of rows, world and sockets, and `Followed`, which is
`ZonesFollowSockets` with the newest socket of each output named: that there is a newest one has to
be carried along, since it is not a fact about a set of sockets as such. `TypeCorrect`,
`OutputsFollowSockets` and `ActiveStaysShared` are read off it.

`ZoneQueueProofs`, for any tracks, requests, retries and numbers of calls and failures, from
`ZoneQueueAssumption`: `TypeCorrect`, `QueuesStayOne` (`QueuesAgree`) and the action property
`RetriesYield` (`RetryYields`). The inductive invariant has six parts: the types of queues, beliefs and
tasks, `CopiesOK`, `OnePlay` and `RetryOK`. `QueuesAgree` alone does not survive the first of two writes.
`CopiesOK` says what holds in between: unless writers have crossed there is one at most, and it finds the
copy it has written as it left it, so that its second write makes the two one. `OnePlay`, that the advance has its one play exactly while it says so, is
needed because the end of that play is what moves the advance: without it a second play could bring a
retry about. `RetryOK` is what makes the retry yield: the generation it remembers is never ahead, and a
listener's command leaves it behind for good, so the check for the same generation has to fail.

Every safety property that a passing run checks is so a theorem. Only model-checked are the liveness
properties, since they rest on fairness and with it on ENABLED, which this prover does not have:
`PlaySettles`, `StartingSettles` and `AdvancingSettles` of the engine, `QueuePlaysOut` of the agent,
`EnabledAgree`, `ActiveRecovers` and `ActiveRests` of the zones, `Settles` of the listening tracker and
`AdvanceReleases` of the zone's queue. What is proved of the first is `PlaysAreKept`.
Nothing in a module with theorems is recursive.

## Not modelled

DSP, transcoding, device enumeration and the user interface are numeric or input and output. The
library is a store of transactions. The helper process of AirPlay, Hegel's protocol and the
discovery services are request and response. The DSD output path is a second output stage with its
own fallback memory. Sonos has a session like UPnP's without reservations. The other parts marked
not modelled or partly modelled in `PROJECT.json` are the plan. By lines most of the repository is
of these kinds (filters, modulators, routes, catalogue, tests), which is why the map covers a small
share of it.

## Plan

In this order, most important first:

1. The core's copy of an agent's queue (`zones/agent_bridge.rs`) over a socket that may be lost,
   composed with `AgentPlayback`.
2. The Sonos session, as `UpnpSession` was done.
3. `StreamCache`: the shared Qobuz download, its waiters and cancellation; `SettingsStore`
   (debounced writes, shutdown flush).
4. The DSD path as an extension of `PlayerEngine`; the player's shutdown.

Theorems to add: safety halves, as `PlaysAreKept` is of `PlaySettles`, of other liveness properties,
first that an advance of `ZoneQueue` always has somebody who will end it; and the properties of the
modules above as they are written.
