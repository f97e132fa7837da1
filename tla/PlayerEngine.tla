---------------------------- MODULE PlayerEngine ----------------------------
(***************************************************************************)
(* The local playback engine (src/audio/engine): the Player handle that any *)
(* number of threads call, the atomics it shares with the audio worker, the *)
(* unbounded command channel, and the worker thread's loop.                 *)
(*                                                                         *)
(* An API call is as many steps as it makes separate accesses to shared     *)
(* state.  A worker step that waits for a decoder, a file, a stream or a    *)
(* device is split where it waits; everything else the worker does between  *)
(* two looks at shared state is one step.                                   *)
(*                                                                         *)
(* Time, samples, tags, covers, metrics and the DSD output path are not     *)
(* modelled: output mode is PCM.                                            *)
(***************************************************************************)
EXTENDS Naturals, Sequences

CONSTANTS
    Client,     \* threads that hold the Player handle
    None,       \* no track, no start, no file name
    Calls,      \* the Player calls the clients make
    Outputs,    \* kinds of output stream the device opens: "cpal", "asio", "airplay"
    MaxCalls,   \* bound: API calls in a behaviour
    MaxQueue,   \* bound: tracks a call queues behind the one it starts
    MaxFaults   \* bound: output and decoder failures in a behaviour

ASSUME MaxAssumption == MaxCalls \in Nat /\ MaxQueue \in Nat /\ MaxFaults \in Nat

VARIABLES
    \* shared with every thread
    state,              \* AtomicPlayerState.state
    epoch,              \* playback_epoch
    fileName,           \* file_name, what is shown as now playing
    queues,             \* WorkerQueues, its two atomics included
    flushBuffer,        \* AtomicPlayerState.flush_buffer
    commands,           \* the worker's command channel
    \* the worker's own
    wpc,                \* where in its loop the worker is
    session, sessionEpoch, seekRequest, currentFilePath, repeatOne,
    pendingStart, reopenForStart, startGapless,
    activeStream, resetNotice, retryLater,
    ring,               \* the epochs whose samples the output ring buffer may hold
    \* locals of the handler it is in, while it waits there
    inFlight,           \* the start being opened, or to follow the drain
    gaplessPlan,        \* requested_gapless_start
    restart,            \* why a file session is rebuilt, and the state before
    about,              \* the state it stores after a load, and where it goes on
    \* the clients' own
    cpc, outbox,
    \* history: what each epoch was claimed for, and the budgets used
    claims, calls, faults

Queue == INSTANCE WorkerQueues

player   == <<session, sessionEpoch, seekRequest, currentFilePath, repeatOne>>
starts   == <<pendingStart, reopenForStart, startGapless>>
stream   == <<activeStream, resetNotice, retryLater>>
output   == <<stream, flushBuffer, ring>>
locals   == <<inFlight, gaplessPlan, restart, about>>
worker   == <<wpc, queues, fileName, player, starts, output, locals>>
clients  == <<cpc, outbox, calls>>
lease    == <<epoch, claims>>
vars     == <<state, lease, commands, worker, clients, faults>>
-----------------------------------------------------------------------------
(* A track is told apart by the epoch of the call that chose it and its     *)
(* place in that call's list; the track the call starts is at place 0.      *)
Track == [kind: {"file", "stream"}, by: Nat, place: Nat]
Start == [track: Track, epoch: Nat]
States == {"Stopped", "Starting", "Playing", "Paused"}
Active(s) == s \in {"Starting", "Playing"}

\* An Option that is None is not a track or a start.
ASSUME NoneAssumption == None \notin Track /\ None \notin Start

\* What now-playing shows for a start that failed: "Error: ...".
StartError == [kind |-> "error", by |-> 0, place |-> 0]

TheTrack(k, e, p) == [kind |-> k, by |-> e, place |-> p]
TracksAfter(k, e, p, n) == [i \in 1..n |-> TheTrack(k, e, p + i)]

EpochCommands == {"Play", "PlayStream", "Next", "Stop", "SetQueue", "SetStreamQueue"}
CommandNames == EpochCommands \cup
    {"Pause", "Resume", "Seek", "SetRepeatOne", "ApplyPlaybackConfig",
     "SelectDevice", "ReopenOutput"}

\* A queue command carries its list as "len tracks behind the track after", and
\* a stream queue the track that must be shown for it to count.
QueueCommands == {"SetQueue", "SetStreamQueue"}
Command ==
    {cmd \in [op: CommandNames, epoch: Nat, len: Nat, on: BOOLEAN, after: Track \cup {None},
              current: Track \cup {None, StartError}] :
        cmd.op \in QueueCommands => cmd.after \in Track}
Cmd(op, e) == [op |-> op, epoch |-> e, len |-> 0, on |-> FALSE,
               after |-> None, current |-> None]
NoCommand == Cmd("Pause", 0)

NoRestart == [why |-> "none", previous |-> "Stopped"]
Nothing == [to |-> "Stopped", next |-> "top"]

Init ==
    /\ state = "Stopped" /\ epoch = 0 /\ fileName = None
    /\ queues = Queue!EmptyQueues /\ flushBuffer = FALSE /\ commands = <<>>
    /\ wpc = "top"
    /\ session = None /\ sessionEpoch = 0 /\ seekRequest = FALSE
    /\ currentFilePath = None /\ repeatOne = FALSE
    /\ pendingStart = None /\ reopenForStart = FALSE
    /\ startGapless = FALSE
    /\ activeStream = "none" /\ resetNotice = FALSE /\ retryLater = FALSE /\ ring = {}
    /\ inFlight = None /\ gaplessPlan = FALSE
    /\ restart = NoRestart /\ about = Nothing
    /\ cpc = [c \in Client |-> "idle"] /\ outbox = [c \in Client |-> NoCommand]
    /\ claims = <<>> /\ calls = 0 /\ faults = 0
-----------------------------------------------------------------------------
(* The Player handle. *)

Begin(c, call) ==
    /\ cpc[c] = "idle" /\ call \in Calls /\ calls < MaxCalls
    /\ calls' = calls + 1

Goto(c, pc) == cpc' = [cpc EXCEPT ![c] = pc]
Prepare(c, cmd) == outbox' = [outbox EXCEPT ![c] = cmd]
Return(c) == Goto(c, "idle") /\ Prepare(c, NoCommand)

\* mark_playback_change.  Seeded fault: the next epoch is handed out but not stored.
ClaimUnstored(what) == UNCHANGED epoch /\ claims' = Append(claims, what)
Claim(what) == epoch' = epoch + 1 /\ claims' = Append(claims, what)

\* reserve_playback_change: the caller still has to find what it will play.
Reserve(c) ==
    /\ Begin(c, "Play")
    /\ Claim("reserve")
    /\ \/ \E n \in 0..MaxQueue :
              Prepare(c, [Cmd("Play", epoch + 1) EXCEPT !.len = n])
       \/ Prepare(c, Cmd("PlayStream", epoch + 1))
    /\ Goto(c, "reserved")
    /\ UNCHANGED <<state, commands, worker, faults>>

\* play_if_epoch and play_stream_if_epoch: claim the epoch after the reserved one.
PlayIfEpoch(c) ==
    /\ cpc[c] = "reserved" /\ epoch = outbox[c].epoch
    /\ Claim("play")
    /\ outbox' = [outbox EXCEPT ![c].epoch = epoch + 1]
    /\ Goto(c, "sending")
    /\ UNCHANGED <<state, commands, worker, calls, faults>>

PlayRefused(c) ==
    /\ cpc[c] = "reserved" /\ epoch # outbox[c].epoch
    /\ Return(c)
    /\ UNCHANGED <<state, lease, commands, worker, calls, faults>>

\* The agent's stream does not open, or its play is no longer the current one.
AbandonReservation(c) ==
    /\ cpc[c] = "reserved" /\ outbox[c].op = "PlayStream"
    /\ Return(c)
    /\ UNCHANGED <<state, lease, commands, worker, calls, faults>>

SendNext(c) ==
    /\ Begin(c, "Next")
    /\ Claim("next") /\ Prepare(c, Cmd("Next", epoch + 1)) /\ Goto(c, "sending")
    /\ UNCHANGED <<state, commands, worker, faults>>

StopClaim(c) ==
    /\ Begin(c, "Stop")
    /\ Claim("stop") /\ Prepare(c, Cmd("Stop", epoch + 1)) /\ Goto(c, "stopping")
    /\ UNCHANGED <<state, commands, worker, faults>>

StopStore(c) ==
    /\ cpc[c] = "stopping"
    /\ state' = "Stopped" /\ Goto(c, "sending")
    /\ UNCHANGED <<lease, commands, worker, outbox, calls, faults>>

PauseLoad(c) ==
    /\ Begin(c, "Pause")
    /\ Prepare(c, Cmd("Pause", 0))
    /\ Goto(c, IF state = "Playing" THEN "pausing" ELSE "sending")
    /\ UNCHANGED <<state, lease, commands, worker, faults>>

PauseStore(c) ==
    /\ cpc[c] = "pausing"
    /\ state' = "Paused" /\ Goto(c, "sending")
    /\ UNCHANGED <<lease, commands, worker, outbox, calls, faults>>

\* The calls that only send: resume, seek, set_repeat_one, apply_playback_config,
\* select_device, reopen_output.
SendPlain(c) ==
    /\ \E op \in CommandNames \ (EpochCommands \cup {"Pause"}), on \in BOOLEAN :
           /\ on => op = "SetRepeatOne"
           /\ Begin(c, op) /\ Prepare(c, [Cmd(op, 0) EXCEPT !.on = on])
    /\ Goto(c, "sending")
    /\ UNCHANGED <<state, lease, commands, worker, faults>>

Send(c) ==
    /\ cpc[c] \in {"sending", "delivering"}
    /\ commands' = Append(commands, outbox[c]) /\ Return(c)
    /\ UNCHANGED <<state, lease, worker, calls, faults>>

\* A queue edit checks which track is shown, reads the epoch, stores the new list
\* and only then hands the upcoming tracks to the player.
EditQueue(c) ==
    /\ Begin(c, "SetQueue") /\ fileName \in Track
    /\ \E n \in 0..MaxQueue :
           Prepare(c, [Cmd("SetQueue", epoch) EXCEPT !.len = n, !.after = fileName])
    /\ Goto(c, "sending")
    /\ UNCHANGED <<state, lease, commands, worker, faults>>

\* While a stream plays and a stream comes next, the edit empties the player's
\* queue and spawns the fetch of that stream.
EditStreamQueue(c) ==
    /\ Begin(c, "SetStreamQueue") /\ fileName \in Track /\ fileName.kind = "stream"
    /\ Prepare(c, [Cmd("SetStreamQueue", epoch) EXCEPT !.after = fileName,
                                                       !.current = fileName])
    /\ Goto(c, "clearing")
    /\ UNCHANGED <<state, lease, commands, worker, faults>>

SendClear(c) ==
    /\ cpc[c] = "clearing"
    /\ commands' = Append(commands, outbox[c])
    /\ outbox' = [outbox EXCEPT ![c].len = 1] /\ Goto(c, "filling")
    /\ UNCHANGED <<state, lease, worker, calls, faults>>

\* The monitor's fetch of the next stream, one at a time and begun while no
\* stream is queued or on its way to the output.
PrefetchBegin(c) ==
    /\ Begin(c, "Prefetch")
    /\ state \in {"Playing", "Paused"} /\ fileName \in Track /\ fileName.kind = "stream"
    /\ queues.len = 0 /\ ~queues.advancing /\ \A d \in Client : cpc[d] \notin {"prefetching", "delivering"}
    /\ Prepare(c, [Cmd("SetStreamQueue", epoch) EXCEPT !.len = 1, !.after = fileName])
    /\ Goto(c, "prefetching")
    /\ UNCHANGED <<state, lease, commands, worker, faults>>

\* The stream is open: check the epoch again, and name the track shown by now.
PrefetchReady(c) ==
    /\ cpc[c] \in {"prefetching", "filling"} /\ epoch = outbox[c].epoch
    /\ outbox' = [outbox EXCEPT ![c].current = IF fileName = None THEN outbox[c].after
                                                     ELSE fileName]
    /\ Goto(c, IF cpc[c] = "filling" THEN "sending" ELSE "delivering")
    /\ UNCHANGED <<state, lease, commands, worker, calls, faults>>

PrefetchAbandon(c) ==
    /\ cpc[c] \in {"prefetching", "filling"} /\ Return(c)
    /\ UNCHANGED <<state, lease, commands, worker, calls, faults>>

\* What a call that has begun does next; a stream may take for ever to open.
Finish(c) ==
    \/ PlayIfEpoch(c) \/ PlayRefused(c) \/ AbandonReservation(c)
    \/ StopStore(c) \/ PauseStore(c) \/ Send(c) \/ SendClear(c)

ClientStep(c) ==
    \/ Reserve(c) \/ SendNext(c) \/ StopClaim(c) \/ PauseLoad(c) \/ SendPlain(c)
    \/ EditQueue(c) \/ EditStreamQueue(c) \/ PrefetchBegin(c) \/ PrefetchReady(c)
    \/ PrefetchAbandon(c) \/ Finish(c)
-----------------------------------------------------------------------------
(* The worker's loop: "top", "drain" the channel, "opening" a pending start, *)
(* open the "output", "promote" a start that is ready, one playback "step".  *)

\* A handler that loads the state and then stores another one; a client's store
\* may fall between the two.
ThenStore(s, next) == about' = [to |-> s, next |-> next] /\ wpc' = "storing"

StoreState ==
    /\ wpc = "storing"
    /\ state' = about.to /\ wpc' = about.next /\ about' = Nothing
    /\ UNCHANGED <<lease, commands, queues, fileName, player, starts, output,
                   inFlight, gaplessPlan, restart, clients, faults>>

\* The ring's consumer goes with the stream, and what it held is never heard.
DropStream == activeStream' = "none" /\ resetNotice' = FALSE /\ ring' = {}
DropOutput == DropStream /\ flushBuffer' = TRUE

\* reset_output_pipeline_for_reopen, and the retry time every caller resets.
ResetPipeline == DropOutput /\ retryLater' = FALSE

HandleResetNotice ==
    /\ wpc = "top" /\ wpc' = "drain"
    /\ \/ activeStream # "none" /\ resetNotice /\ ResetPipeline
       \/ ~resetNotice /\ UNCHANGED output
    /\ UNCHANGED <<state, lease, commands, queues, fileName, player, starts, locals,
                   clients, faults>>

\* A command that names an epoch is dropped when the epoch has moved on, and a
\* stream queue also when another track is shown.  Seeded fault: any epoch will do.
FreshAnyEpoch(cmd) == cmd.op = "SetStreamQueue" => cmd.current = fileName
Fresh(cmd) ==
    /\ cmd.op \in EpochCommands => cmd.epoch = epoch
    /\ cmd.op = "SetStreamQueue" => cmd.current = fileName

FirstCommand == IF commands = <<>> THEN {} ELSE {Head(commands)}

Take(op, cmd) ==
    /\ wpc = "drain" /\ cmd.op = op /\ Fresh(cmd)
    /\ commands' = Tail(commands)

DropStale ==
    /\ wpc = "drain" /\ commands # <<>> /\ ~Fresh(Head(commands))
    /\ commands' = Tail(commands)
    /\ UNCHANGED <<state, lease, worker, clients, faults>>

StartNext(track, e) ==
    /\ pendingStart' = [track |-> track, epoch |-> e]
    /\ reopenForStart' = TRUE /\ startGapless' = FALSE

NoSession == session' = None /\ seekRequest' = FALSE

ClearNowPlaying == NoSession /\ currentFilePath' = None /\ fileName' = None

HandlePlay ==
    \E cmd \in FirstCommand :
        /\ Take("Play", cmd)
        /\ queues' = Queue!ReplaceForFileStart(queues,
                                               TracksAfter("file", cmd.epoch, 0, cmd.len))
        /\ StartNext(TheTrack("file", cmd.epoch, 0), cmd.epoch)
        /\ UNCHANGED <<state, lease, wpc, fileName, player, output, locals, clients, faults>>

HandlePlayStream ==
    \E cmd \in FirstCommand :
        /\ Take("PlayStream", cmd)
        /\ queues' = Queue!ReplaceForStreamStart(queues, <<>>)
        /\ StartNext(TheTrack("stream", cmd.epoch, 0), cmd.epoch)
        /\ UNCHANGED <<state, lease, wpc, fileName, player, output, locals, clients, faults>>

HandleNext ==
    \E cmd \in FirstCommand :
        /\ Take("Next", cmd)
        /\ queues' = Queue!PopQueues(queues)
        /\ \/ /\ Queue!PopTrack(queues) # None
              /\ StartNext(Queue!PopTrack(queues), cmd.epoch)
              /\ UNCHANGED <<state, fileName, player>>
           \/ /\ Queue!PopTrack(queues) = None
              /\ ClearNowPlaying /\ startGapless' = FALSE /\ state' = "Stopped"
              /\ UNCHANGED <<pendingStart, reopenForStart, sessionEpoch, repeatOne>>
        /\ UNCHANGED <<lease, wpc, output, locals, clients, faults>>

HandleStop ==
    \E cmd \in FirstCommand :
        /\ Take("Stop", cmd)
        /\ queues' = Queue!ClearAll(queues)
        /\ ClearNowPlaying /\ state' = "Stopped"
        /\ pendingStart' = None /\ startGapless' = FALSE
        /\ UNCHANGED <<lease, wpc, sessionEpoch, repeatOne, reopenForStart, output, locals,
                       clients, faults>>

UpcomingAfter(k, cmd) == TracksAfter(k, cmd.after.by, cmd.after.place, cmd.len)

HandleSetQueue ==
    \E cmd \in FirstCommand :
        /\ Take("SetQueue", cmd)
        /\ queues' = Queue!ReplaceFileQueue(queues, UpcomingAfter("file", cmd))
        /\ UNCHANGED <<state, lease, wpc, fileName, player, starts, output, locals, clients, faults>>

HandleSetStreamQueue ==
    \E cmd \in FirstCommand :
        /\ Take("SetStreamQueue", cmd)
        /\ queues' = Queue!ReplaceStreamQueue(queues, UpcomingAfter("stream", cmd))
        /\ UNCHANGED <<state, lease, wpc, fileName, player, starts, output, locals, clients, faults>>

HandleSetRepeatOne ==
    \E cmd \in FirstCommand :
        /\ Take("SetRepeatOne", cmd)
        /\ repeatOne' = cmd.on
        /\ UNCHANGED <<state, lease, wpc, queues, fileName, session, sessionEpoch, seekRequest,
                       currentFilePath, starts, output, locals, clients, faults>>

\* Pause stops what is active; resume wakes what is paused, through STARTING when
\* a session has to be primed again.
HandlePause ==
    \E cmd \in FirstCommand :
        /\ Take("Pause", cmd)
        /\ \/ Active(state) /\ ThenStore("Paused", "drain")
           \/ ~Active(state) /\ UNCHANGED <<wpc, about>>
        /\ UNCHANGED <<state, lease, queues, fileName, player, starts, output,
                       inFlight, gaplessPlan, restart, clients, faults>>

HandleResume ==
    \E cmd \in FirstCommand :
        /\ Take("Resume", cmd)
        /\ \/ /\ state = "Paused"
              /\ ThenStore(IF session # None THEN "Starting" ELSE "Playing", "drain")
           \/ state # "Paused" /\ UNCHANGED <<wpc, about>>
        /\ UNCHANGED <<state, lease, queues, fileName, player, starts, output,
                       inFlight, gaplessPlan, restart, clients, faults>>

\* apply_seek_to_session: a source that cannot seek leaves all as it was.
ApplySeek(next) ==
    \/ UNCHANGED <<flushBuffer, about>> /\ wpc' = next
    \/ /\ flushBuffer' = TRUE
       /\ \/ state = "Playing" /\ ThenStore("Starting", next)
          \/ state # "Playing" /\ wpc' = next /\ UNCHANGED about

HandleSeek ==
    \E cmd \in FirstCommand :
        /\ Take("Seek", cmd)
        /\ \/ /\ session # None /\ state = "Paused"
              /\ ApplySeek("drain") /\ UNCHANGED seekRequest
           \/ /\ session # None /\ state # "Paused"
              /\ seekRequest' = TRUE /\ UNCHANGED <<wpc, flushBuffer, about>>
           \/ session = None /\ UNCHANGED <<wpc, seekRequest, flushBuffer, about>>
        /\ UNCHANGED <<state, lease, queues, fileName, session, sessionEpoch, currentFilePath,
                       repeatOne, starts, stream,
                       inFlight, gaplessPlan, restart, clients, faults, ring>>

\* The output is dropped and, when a file plays, its session rebuilt from the file;
\* what is active counts as STOPPED meanwhile, but for a rate fallback.
BeginRestart(why) ==
    /\ restart' = [why |-> why, previous |-> state] /\ wpc' = "restarting"
    /\ state' = IF Active(state) /\ why # "rate" THEN "Stopped" ELSE state

HandleApplyPlaybackConfig ==
    \E cmd \in FirstCommand :
        /\ Take("ApplyPlaybackConfig", cmd)
        /\ \/ UNCHANGED <<state, output, wpc, restart, about>>      \* nothing to reopen for
           \/ /\ currentFilePath # None /\ ResetPipeline /\ BeginRestart("config")
              /\ UNCHANGED about
           \/ /\ currentFilePath = None /\ ResetPipeline
              /\ \/ Active(state) /\ ThenStore("Starting", "drain")
                 \/ state = "Paused" /\ ThenStore("Paused", "drain")
                 \/ ~Active(state) /\ UNCHANGED <<wpc, about>>
              /\ UNCHANGED <<state, restart>>
        /\ UNCHANGED <<lease, queues, fileName, player, starts, inFlight, gaplessPlan,
                       clients, faults>>

\* Only a device whose rate decides the DSP rate makes the session be rebuilt.
HandleSelectDevice ==
    \E cmd \in FirstCommand :
        /\ Take("SelectDevice", cmd)
        /\ \/ UNCHANGED <<state, output, wpc, restart>>      \* the device it has
           \/ ResetPipeline /\ UNCHANGED <<state, wpc, restart>>
           \/ /\ state = "Playing" /\ currentFilePath # None
              /\ ResetPipeline /\ BeginRestart("device")
        /\ UNCHANGED <<lease, queues, fileName, player, starts, inFlight, gaplessPlan, about,
                       clients, faults>>

HandleReopenOutput ==
    \E cmd \in FirstCommand :
        /\ Take("ReopenOutput", cmd)
        /\ ResetPipeline
        /\ UNCHANGED <<state, lease, wpc, queues, fileName, player, starts, locals, clients, faults>>

AfterRestart == IF restart.why = "rate" THEN "promote" ELSE "drain"

\* The rebuilt session takes the place of whatever session there was, and keeps
\* its epoch.  A resume position is sought to, which flushes again.
StateAfterRestart(sought) ==
    CASE restart.why # "rate" /\ Active(restart.previous) -> "Starting"
      [] restart.why = "config" /\ restart.previous = "Paused" -> "Paused"
      [] restart.why = "rate" /\ sought /\ state = "Playing" -> "Starting"
      [] OTHER -> state

RestartOk ==
    /\ wpc = "restarting" /\ wpc' = AfterRestart /\ restart' = NoRestart
    /\ session' = currentFilePath /\ seekRequest' = FALSE
    /\ \E sought \in BOOLEAN : /\ flushBuffer' = (sought \/ flushBuffer)
                               /\ state' = StateAfterRestart(sought)
    /\ UNCHANGED <<lease, commands, queues, fileName, sessionEpoch, currentFilePath, repeatOne,
                   starts, stream, inFlight, gaplessPlan, about,
                   clients, faults, ring>>

RestartErr ==
    /\ wpc = "restarting" /\ wpc' = AfterRestart /\ restart' = NoRestart
    /\ faults < MaxFaults /\ faults' = faults + 1
    /\ state' = IF restart.why = "device" THEN state ELSE "Stopped"
    /\ UNCHANGED <<lease, commands, queues, fileName, player, starts, output,
                   inFlight, gaplessPlan, about, clients>>

\* prepare_pending_start_boundary: the old track's samples are to be dropped, and
\* with them an AirPlay stream whose device has buffered more of it.  Seeded fault: no
\* flush is asked for.
BoundaryUnflushed(reopen) ==
    /\ state' = "Starting" /\ UNCHANGED flushBuffer
    /\ \/ /\ reopen /\ activeStream = "airplay"
          /\ DropStream /\ retryLater' = FALSE
       \/ /\ ~(reopen /\ activeStream = "airplay")
          /\ UNCHANGED <<stream, ring>>
Boundary(reopen) ==
    /\ state' = "Starting" /\ flushBuffer' = TRUE
    /\ \/ /\ reopen /\ activeStream = "airplay"
          /\ DropStream /\ retryLater' = FALSE
       \/ /\ ~(reopen /\ activeStream = "airplay")
          /\ UNCHANGED <<stream, ring>>

Drained == wpc = "drain" /\ commands = <<>>

NoPendingStart ==
    /\ Drained /\ pendingStart = None /\ wpc' = "output"
    /\ UNCHANGED <<state, lease, commands, queues, fileName, player, starts, output, locals,
                   clients, faults>>

\* Seeded faults: a start is never stale; the comparison is the wrong way round.
StartAlwaysCurrent == TRUE
StartBehindEpoch == pendingStart.epoch < epoch
StartIsCurrent == pendingStart.epoch = epoch

DropStaleStart ==
    /\ Drained /\ pendingStart # None /\ ~StartIsCurrent
    /\ pendingStart' = None /\ startGapless' = FALSE
    /\ queues' = Queue!ClearAdvancing(queues)
    /\ wpc' = "top"
    /\ UNCHANGED <<state, lease, commands, fileName, player, reopenForStart, output, locals,
                   clients, faults>>

OpenStart ==
    /\ Drained /\ pendingStart # None /\ StartIsCurrent
    /\ inFlight' = pendingStart /\ pendingStart' = None
    /\ reopenForStart' = FALSE /\ startGapless' = FALSE
    /\ gaplessPlan' = (startGapless /\ activeStream # "none" /\ ~resetNotice)
    /\ \/ gaplessPlan' /\ UNCHANGED <<state, output>>
       \/ ~gaplessPlan' /\ Boundary(reopenForStart)
    /\ wpc' = "opening"
    /\ UNCHANGED <<lease, commands, queues, fileName, player, restart, about, clients, faults>>

FilePath(track) == IF track.kind = "file" THEN track ELSE None

\* What now-playing shows, and the path a session is rebuilt from.  Seeded fault: a
\* stream leaves the path of the file before it.
ShowOnly(track) == fileName' = track /\ UNCHANGED currentFilePath
NowShow(track) == fileName' = track /\ currentFilePath' = FilePath(track)

\* The session is open.  It goes on without a gap only when its DSP path fits the
\* old one; a new target rate drops the output.
InstallSession ==
    /\ wpc = "opening" /\ wpc' = "output"
    /\ session' = inFlight.track /\ sessionEpoch' = inFlight.epoch /\ seekRequest' = FALSE
    /\ NowShow(inFlight.track)
    /\ queues' = Queue!ClearAdvancing(queues)
    /\ inFlight' = None /\ gaplessPlan' = FALSE
    /\ \/ gaplessPlan /\ state' = "Playing" /\ UNCHANGED output
       \/ /\ state' = "Starting"
          /\ \/ DropOutput /\ UNCHANGED retryLater
             \/ /\ flushBuffer' = (gaplessPlan \/ flushBuffer)
                /\ UNCHANGED <<stream, ring>>
    /\ UNCHANGED <<lease, commands, repeatOne, starts, restart, about, clients, faults>>

\* The track does not open: the next queued one is tried under the same epoch.
\* The session of the track before stays where it is.
FailStart ==
    /\ wpc = "opening" /\ wpc' = "output"
    /\ faults < MaxFaults /\ faults' = faults + 1
    /\ currentFilePath' = FilePath(inFlight.track) /\ fileName' = StartError
    /\ startGapless' = FALSE /\ inFlight' = None /\ gaplessPlan' = FALSE
    /\ flushBuffer' = (gaplessPlan \/ flushBuffer)
    /\ \/ /\ inFlight.epoch = epoch /\ Queue!PopTrack(queues) # None
          /\ queues' = Queue!PopQueues(queues)
          /\ pendingStart' = [track |-> Queue!PopTrack(queues), epoch |-> epoch]
          /\ state' = IF gaplessPlan THEN "Starting" ELSE state
       \/ /\ inFlight.epoch = epoch /\ Queue!PopTrack(queues) = None
          /\ queues' = Queue!PopQueues(queues) /\ state' = "Stopped"
          /\ UNCHANGED pendingStart
       \/ /\ inFlight.epoch # epoch
          /\ queues' = Queue!ClearAdvancing(queues) /\ state' = "Stopped"
          /\ UNCHANGED pendingStart
    /\ UNCHANGED <<lease, commands, session, sessionEpoch, seekRequest, repeatOne,
                   reopenForStart, activeStream, resetNotice, retryLater, restart, about,
                   clients, ring>>

\* A stream is opened for a session that is not stopped, two seconds after an open
\* that failed at the earliest.  Seeded fault: only one that plays has it opened.
OutputWantedPlaying ==
    activeStream = "none" /\ session # None /\ state = "Playing" /\ ~retryLater
OutputWanted ==
    activeStream = "none" /\ session # None /\ state # "Stopped" /\ ~retryLater

NoOutputWanted ==
    /\ wpc = "output" /\ ~OutputWanted /\ wpc' = "promote"
    /\ UNCHANGED <<state, lease, commands, queues, fileName, player, starts, output, locals,
                   clients, faults>>

\* With no callback to do it, a flush asked for by a start is done here.
PendingFlush == flushBuffer /\ state # "Starting"

\* The device may run at another rate than asked: the session is then rebuilt or,
\* when it plays a stream, reconfigured.
OpenOutput ==
    /\ wpc = "output" /\ OutputWanted
    /\ activeStream' \in Outputs /\ resetNotice' = FALSE /\ retryLater' = FALSE
    /\ \/ flushBuffer' = PendingFlush /\ wpc' = "promote" /\ UNCHANGED <<state, restart>>
       \/ flushBuffer' = TRUE /\ currentFilePath # None /\ BeginRestart("rate")
       \/ /\ flushBuffer' = TRUE /\ currentFilePath = None
          /\ wpc' = "promote" /\ UNCHANGED <<state, restart>>
    /\ UNCHANGED <<lease, commands, queues, fileName, player, starts, inFlight, gaplessPlan,
                   about, clients, faults, ring>>

\* The open fails: for now, or for good.
OutputRefused ==
    /\ wpc = "output" /\ OutputWanted /\ wpc' = "top"
    /\ faults < MaxFaults /\ faults' = faults + 1
    /\ \/ flushBuffer' = PendingFlush /\ retryLater' = TRUE /\ UNCHANGED state
       \/ flushBuffer' = PendingFlush /\ state' = "Stopped" /\ UNCHANGED retryLater
       \/ state' = "Stopped" /\ UNCHANGED <<flushBuffer, retryLater>>
    /\ UNCHANGED <<lease, commands, queues, fileName, player, starts, activeStream, resetNotice,
                   locals, clients, ring>>

\* The ring holds the preroll: a compare_exchange from STARTING.
Promote ==
    /\ wpc = "promote" /\ wpc' = "step"
    /\ activeStream # "none" /\ state = "Starting" /\ ~flushBuffer
    /\ state' = "Playing"
    /\ UNCHANGED <<lease, commands, queues, fileName, player, starts, output, locals, clients,
                   faults>>

NotYet ==
    /\ wpc = "promote" /\ wpc' = "step"
    /\ UNCHANGED <<state, lease, commands, queues, fileName, player, starts, output, locals,
                   clients, faults>>

\* run_playback_step.  Nothing is rendered unless a stream consumes it and the last
\* flush is done; a full preroll only waits for the output to warm up.
Rendering == Active(state) /\ activeStream # "none" /\ ~flushBuffer

StepIdle ==
    /\ wpc = "step" /\ (~Rendering \/ state = "Starting") /\ wpc' = "top"
    /\ UNCHANGED <<state, lease, commands, queues, fileName, player, starts, output, locals,
                   clients, faults>>

StepWithoutSession ==
    /\ wpc = "step" /\ Rendering /\ session = None
    /\ ThenStore("Stopped", "top")
    /\ UNCHANGED <<state, lease, commands, queues, fileName, player, starts, output,
                   inFlight, gaplessPlan, restart, clients, faults>>

StepSession ==
    /\ wpc = "step" /\ Rendering /\ session # None
    /\ seekRequest' = FALSE
    /\ \/ seekRequest /\ ApplySeek("pumping")
       \/ ~seekRequest /\ wpc' = "pumping" /\ UNCHANGED <<flushBuffer, about>>
    /\ UNCHANGED <<state, lease, commands, queues, fileName, session, sessionEpoch,
                   currentFilePath, repeatOne, starts, stream,
                   inFlight, gaplessPlan, restart, clients, faults, ring>>

\* A packet is decoded and rendered, or there was no room, or no wish, for one.
Pump ==
    /\ wpc = "pumping" /\ wpc' = "top"
    /\ ring' = ring \cup {sessionEpoch}
    /\ UNCHANGED <<state, lease, commands, queues, fileName, player, starts, stream, flushBuffer,
                   locals, clients, faults>>

PumpFatal ==
    /\ wpc = "pumping" /\ wpc' = "top"
    /\ faults < MaxFaults /\ faults' = faults + 1
    /\ state' = "Stopped"
    /\ UNCHANGED <<lease, commands, queues, fileName, player, starts, output, locals, clients>>

\* The end of the track.  What follows starts under the session's epoch: without a
\* gap when the output can go on, else once what is left of the track has sounded.
CanAdvance == sessionEpoch = epoch
EofTrack == Queue!EofTrack(queues, CanAdvance, repeatOne, currentFilePath)

\* Seeded fault: a start is made of the queue's answer, whatever it was.
EofStartUnchecked == [track |-> EofTrack, epoch |-> sessionEpoch]
EofStart == IF EofTrack = None THEN None ELSE [track |-> EofTrack, epoch |-> sessionEpoch]

PumpEof ==
    /\ wpc = "pumping"
    /\ queues' = Queue!EofQueues(queues, CanAdvance, repeatOne, currentFilePath)
    /\ \/ /\ EofTrack # None /\ activeStream # "none" /\ ~repeatOne
          /\ NoSession
          /\ startGapless' = TRUE /\ pendingStart' = EofStart /\ wpc' = "top"
          /\ UNCHANGED inFlight
       \/ /\ EofTrack = None \/ activeStream = "none" \/ repeatOne
          /\ startGapless' = FALSE /\ inFlight' = EofStart /\ wpc' = "draining"
          /\ UNCHANGED <<session, seekRequest, pendingStart>>
    /\ UNCHANGED <<state, lease, commands, fileName, sessionEpoch, currentFilePath, repeatOne,
                   reopenForStart, output, gaplessPlan, restart, about, clients, faults>>

\* The output has drained, or the wait was called off, or it timed out: only while
\* PLAYING under the session's epoch is it waited for at all.
Drain ==
    /\ wpc = "draining" /\ wpc' = "top" /\ inFlight' = None
    /\ \/ ring' = ring \cup {sessionEpoch} /\ UNCHANGED <<stream, flushBuffer, faults>>
       \/ /\ state = "Playing" /\ CanAdvance /\ activeStream # "none" /\ ~resetNotice
          /\ faults < MaxFaults /\ faults' = faults + 1
          /\ ResetPipeline
    /\ \/ /\ inFlight # None
          /\ NoSession /\ pendingStart' = inFlight
          /\ UNCHANGED <<state, queues, fileName, currentFilePath, startGapless>>
       \/ /\ inFlight = None
          /\ ClearNowPlaying /\ state' = "Stopped" /\ startGapless' = FALSE
          /\ queues' = Queue!ClearAdvancing(queues)
          /\ UNCHANGED pendingStart
    /\ UNCHANGED <<lease, commands, sessionEpoch, repeatOne, reopenForStart, gaplessPlan,
                   restart, about, clients>>
-----------------------------------------------------------------------------
(* The output device and the clock. *)

\* The callback finds the flush request and empties the ring.
ConsumeFlush ==
    /\ activeStream # "none" /\ flushBuffer /\ flushBuffer' = FALSE /\ ring' = {}
    /\ UNCHANGED <<state, lease, commands, wpc, queues, fileName, player, starts, stream, locals,
                   clients, faults>>

\* An ASIO driver, or an AirPlay receiver, asks for the output to be opened again.
LoseOutput ==
    /\ activeStream \in {"asio", "airplay"} /\ ~resetNotice /\ resetNotice' = TRUE
    /\ faults < MaxFaults /\ faults' = faults + 1
    /\ UNCHANGED <<state, lease, commands, wpc, queues, fileName, player, starts, activeStream,
                   flushBuffer, retryLater, locals, clients, ring>>

RetryElapsed ==
    /\ retryLater /\ retryLater' = FALSE
    /\ UNCHANGED <<state, lease, commands, wpc, queues, fileName, player, starts, activeStream,
                   flushBuffer, resetNotice, locals, clients, faults, ring>>

-----------------------------------------------------------------------------
HandleCommand ==
    \/ HandlePlay \/ HandlePlayStream \/ HandleNext \/ HandleStop \/ HandleSetQueue
    \/ HandleSetStreamQueue \/ HandleSetRepeatOne \/ HandlePause \/ HandleResume \/ HandleSeek
    \/ HandleApplyPlaybackConfig \/ HandleSelectDevice \/ HandleReopenOutput \/ DropStale

InstallPendingStart ==
    \/ NoPendingStart \/ DropStaleStart \/ OpenStart \/ InstallSession \/ FailStart

OutputStage == NoOutputWanted \/ OpenOutput \/ OutputRefused \/ Promote \/ NotYet

PlaybackStep ==
    \/ StepIdle \/ StepWithoutSession \/ StepSession
    \/ Pump \/ PumpFatal \/ PumpEof \/ Drain

WorkerStep ==
    \/ HandleResetNotice \/ HandleCommand \/ RestartOk \/ RestartErr \/ StoreState
    \/ InstallPendingStart \/ OutputStage \/ PlaybackStep

Environment == ConsumeFlush \/ LoseOutput \/ RetryElapsed

Next == (\E c \in Client : ClientStep(c)) \/ WorkerStep \/ Environment

Spec == Init /\ [][Next]_vars

(* The worker is one thread that never waits on another; a call that has begun  *)
(* goes on; the callback runs as long as there is a stream; and a track is long  *)
(* enough to fill the preroll.                                                   *)
Fairness ==
    /\ WF_vars(WorkerStep) /\ WF_vars(ConsumeFlush) /\ WF_vars(RetryElapsed)
    /\ SF_vars(Promote)
    /\ \A c \in Client : WF_vars(Finish(c))

FairSpec == Spec /\ Fairness
-----------------------------------------------------------------------------
(* Properties. *)

WorkerPCs == {"top", "drain", "storing", "restarting", "opening", "output", "promote", "step",
              "pumping", "draining"}
ClientPCs == {"idle", "reserved", "sending", "stopping", "pausing", "clearing", "filling",
              "prefetching", "delivering"}
ClaimNames == {"reserve", "play", "next", "stop"}

TypeShared ==
    /\ state \in States /\ epoch \in Nat /\ fileName \in Track \cup {None, StartError}
    /\ queues \in [file: Seq(Track), stream: Seq(Track), len: Nat, advancing: BOOLEAN]
    /\ commands \in Seq(Command)

TypeFlags ==
    /\ flushBuffer \in BOOLEAN /\ seekRequest \in BOOLEAN /\ repeatOne \in BOOLEAN
    /\ reopenForStart \in BOOLEAN /\ startGapless \in BOOLEAN /\ gaplessPlan \in BOOLEAN
    /\ resetNotice \in BOOLEAN /\ retryLater \in BOOLEAN

TypeWorker ==
    /\ wpc \in WorkerPCs
    /\ session \in Track \cup {None} /\ sessionEpoch \in Nat
    /\ currentFilePath \in Track \cup {None}
    /\ pendingStart \in Start \cup {None} /\ inFlight \in Start \cup {None}
    /\ activeStream \in Outputs \cup {"none"} /\ ring \subseteq Nat
    /\ restart \in [why: {"none", "config", "device", "rate"}, previous: States]
    /\ about \in [to: States, next: {"top", "drain", "pumping"}]

TypeClients ==
    /\ cpc \in [Client -> ClientPCs] /\ outbox \in [Client -> Command]
    /\ claims \in Seq(ClaimNames) /\ calls \in Nat /\ faults \in Nat

\* What the worker relies on where it is: a start to open and no other pending, a
\* session to decode from, and one to go back to after a store.
Located ==
    /\ wpc = "opening" => inFlight # None /\ pendingStart = None
    /\ wpc \in {"pumping", "draining"} => session # None
    /\ wpc = "storing" /\ about.next = "pumping" => session # None

\* Every variable has its type, and the worker never dereferences what is not there.
TypeOK == TypeShared /\ TypeFlags /\ TypeWorker /\ TypeClients /\ Located

\* The epoch on a start or a session is one that was handed out, and none is older
\* than what it is about to replace: pending_start, the start being opened and the
\* one that follows a drain all come after the session's epoch.
EpochOrder ==
    /\ sessionEpoch <= epoch
    /\ pendingStart # None => /\ sessionEpoch <= pendingStart.epoch
                              /\ pendingStart.epoch <= epoch
    /\ inFlight # None => /\ sessionEpoch <= inFlight.epoch
                          /\ inFlight.epoch <= epoch
    /\ \A i \in DOMAIN commands : commands[i].epoch <= epoch
    /\ \A c \in Client : outbox[c].epoch <= epoch

\* The engine keeps the promise of the playback epoch: a start is let through only
\* while its epoch is current, and what is then installed is that start.
Lease == INSTANCE PlaybackLease WITH
             opening <- IF wpc = "opening" THEN {inFlight.epoch} ELSE {},
             playing <- sessionEpoch
KeepsLease == Lease!Spec

\* So what plays never goes back to an older call, however long a start took.
NeverBack == [][sessionEpoch' >= sessionEpoch]_vars

\* The epoch was last claimed for this.
LastClaim(what) == claims # <<>> /\ claims[Len(claims)] = what

\* A play that was let through is on its way to the worker, waits to be opened there
\* or is being opened, under the newest epoch.
IsPlay(cmd) == cmd.op \in {"Play", "PlayStream"} /\ cmd.epoch = epoch
PlayUnderWay ==
    \/ \E c \in Client : cpc[c] = "sending" /\ IsPlay(outbox[c])
    \/ \E i \in DOMAIN commands : IsPlay(commands[i])
    \/ pendingStart # None /\ pendingStart.epoch = epoch
    \/ wpc = "opening" /\ inFlight.epoch = epoch

\* No such play is lost: it stays under way until it is installed, shown to have
\* failed, or a newer call takes its place.
PlayKept ==
    [][LastClaim("play") /\ PlayUnderWay
          => PlayUnderWay' \/ epoch' # epoch \/ sessionEpoch' = epoch \/ fileName' = StartError]_vars
PlayTaken == [][LastClaim("play")' /\ epoch' # epoch => PlayUnderWay']_vars

\* Once the Stop of the newest claim has been handled nothing is left that could
\* play: no session, no start pending or being opened, no path to rebuild a session
\* from, and nothing shown.
StopHandled ==
    /\ LastClaim("stop")
    /\ \A i \in DOMAIN commands : ~(commands[i].op = "Stop" /\ commands[i].epoch = epoch)
    /\ \A c \in Client : cpc[c] # "idle" => outbox[c].epoch # epoch

StopIsFinal ==
    StopHandled => /\ session = None /\ pendingStart = None /\ inFlight = None
                   /\ currentFilePath = None /\ fileName = None

\* The track shown is the one whose session is installed, and the path a config
\* change rebuilds a session from is that track's, unless its start failed.
NowPlaying ==
    session # None /\ fileName \in Track =>
        /\ fileName = session
        /\ currentFilePath = FilePath(session)

\* When a start goes from STARTING to PLAYING, the ring holds nothing of a play it
\* interrupted: those samples were flushed, or went with the output.
NoBleed ==
    [][wpc = "promote" /\ state' = "Playing" /\ state # "Playing"
          => ring \subseteq {sessionEpoch}]_vars

\* stream_auto_advance_pending is raised only while a stream popped off the queue
\* is on its way: otherwise the monitor would wait for it for ever.
AdvancingStream ==
    queues.advancing =>
        \/ pendingStart # None /\ pendingStart.track.kind = "stream"
        \/ inFlight # None /\ inFlight.track.kind = "stream"

\* Files and streams are never queued together, and stream_queue_len is the length
\* the worker's stream queue has.
OneQueue ==
    /\ queues.file = <<>> \/ queues.stream = <<>>
    /\ queues.len = Len(queues.stream)

\* stream_auto_advance_pending does not stay up: the popped stream starts, or is
\* dropped with its epoch (the fear in the comment at session_start.rs:60-64).
AdvancingSettles == queues.advancing ~> ~queues.advancing

\* A play that was let through is heard of again: its track starts, or its start
\* fails, or a newer call takes its place.
PlaySettles ==
    LastClaim("play")
        ~> ~LastClaim("play") \/ sessionEpoch = epoch \/ fileName = StartError

\* STARTING is not for ever, even if a start fails, unless a play reserves the epoch
\* and then finds nothing to play: the output opens and takes the preroll, or gives up,
\* and a start that fails gives way to the next track or to STOPPED.
StartingSettles == state = "Starting" ~> state # "Starting" \/ LastClaim("reserve")
=============================================================================
