----------------------- MODULE PlayerEngineStopProofs -----------------------
(***************************************************************************)
(* More theorems about PlayerEngine: what is shown is what plays, a Stop    *)
(* that was handled is final, nothing of an interrupted play is heard, and  *)
(* no play that was let through is lost.                                    *)
(***************************************************************************)
EXTENDS PlayerEngineProofs

-----------------------------------------------------------------------------
(* What is shown. *)

\* NowPlaying made inductive: the track shown is the session's even while there is
\* no session, so that a session is rebuilt from the path of the track shown.
Shown ==
    /\ fileName \in Track => /\ session \in {None, fileName}
                             /\ currentFilePath = FilePath(fileName)
    /\ wpc = "restarting" => currentFilePath # None

\* Nothing is shown when the player is created.
LEMMA InitShown == Init => Shown
BY NoneAssumption DEF Init, Shown

\* The label of a start that failed is not a track.
LEMMA ErrorIsNoTrack == StartError \notin Track
BY DEF StartError, Track

\* A command keeps or clears what is shown, and a rebuild begins with a path
\* (command_dispatch.rs:100-420).
LEMMA CommandShown ==
    ASSUME TypeOK, Shown, HandleCommand
    PROVE  Shown'
<1> USE NoneAssumption DEF Shown, player, worker, Take
<1>1. CASE HandlePlay \/ HandlePlayStream \/ HandleSetQueue \/ HandleSetStreamQueue
    BY <1>1 DEF HandlePlay, HandlePlayStream, HandleSetQueue, HandleSetStreamQueue
<1>2. CASE HandleNext \/ HandleStop
    BY <1>2 DEF HandleNext, HandleStop, ClearNowPlaying, NoSession
<1>3. CASE HandleSetRepeatOne \/ HandlePause \/ HandleResume \/ HandleSeek
    BY <1>3 DEF HandleSetRepeatOne, HandlePause, HandleResume, HandleSeek, ApplySeek, ThenStore
<1>4. CASE HandleApplyPlaybackConfig \/ HandleSelectDevice \/ HandleReopenOutput \/ DropStale
    BY <1>4 DEF HandleApplyPlaybackConfig, HandleSelectDevice, HandleReopenOutput, DropStale,
                BeginRestart, ThenStore
<1> QED BY <1>1, <1>2, <1>3, <1>4 DEF HandleCommand

\* A start shows what it installs; one that fails shows an error; a rebuilt session
\* is that of the path (session_start.rs:101-103).
LEMMA WorkerShown ==
    ASSUME TypeOK, Shown, WorkerStep \/ Environment
    PROVE  Shown'
<1> USE NoneAssumption DEF Shown, player, starts, worker
<1>1. CASE HandleCommand
    BY <1>1, CommandShown
<1>2. CASE InstallSession
    BY <1>2 DEF InstallSession, NowShow
<1>3. CASE FailStart
    BY <1>3, ErrorIsNoTrack DEF FailStart
<1>4. CASE RestartOk
    BY <1>4 DEF RestartOk, AfterRestart, FilePath
<1>5. CASE OpenOutput
    BY <1>5 DEF OpenOutput, BeginRestart
<1>6. CASE PumpEof \/ Drain
    BY <1>6 DEF PumpEof, Drain, NoSession, ClearNowPlaying
<1>7. CASE StoreState
    BY <1>7 DEF StoreState, TypeOK, TypeWorker
<1>8. CASE StepSession \/ HandleResetNotice \/ RestartErr
    BY <1>8 DEF StepSession, ApplySeek, ThenStore, HandleResetNotice, RestartErr, AfterRestart
<1>9. CASE \/ NoPendingStart \/ DropStaleStart \/ OpenStart \/ NoOutputWanted \/ OutputRefused
           \/ Promote \/ NotYet \/ StepIdle \/ StepWithoutSession \/ Pump \/ PumpFatal
           \/ Environment
    BY <1>9 DEF NoPendingStart, DropStaleStart, OpenStart, NoOutputWanted, OutputRefused, Promote,
                NotYet, StepIdle, StepWithoutSession, ThenStore, Pump, PumpFatal, Environment,
                ConsumeFlush, LoseOutput, RetryElapsed
<1> QED BY <1>1, <1>2, <1>3, <1>4, <1>5, <1>6, <1>7, <1>8, <1>9
        DEF WorkerStep, InstallPendingStart, OutputStage, PlaybackStep

\* No call touches what is shown.
LEMMA ShownAlways == Spec => []Shown
<1>1. TypeOK /\ Shown /\ [Next]_vars => Shown'
    <2>1. ASSUME Shown, NEW c \in Client, ClientStep(c) PROVE Shown'
        BY <2>1, ClientFrame DEF Shown, worker, player
    <2>2. ASSUME Shown, UNCHANGED vars PROVE Shown'
        BY <2>2 DEF Shown, vars, worker, player
    <2> QED BY <2>1, <2>2, WorkerShown DEF Next
<1> QED BY InitShown, TypeCorrect, <1>1, PTL DEF Spec

\* While a session is installed the track shown is its track, and the path a config
\* change rebuilds it from is that track's, whatever calls and faults come.
THEOREM ShowsWhatPlays == Spec => []NowPlaying
<1>1. Shown => NowPlaying
    BY NoneAssumption DEF Shown, NowPlaying
<1> QED BY ShownAlways, <1>1, PTL

-----------------------------------------------------------------------------
(* What each epoch was claimed for. *)

Plays == {"Play", "PlayStream"}

ClaimedFor(e, what, by) == e \in 1..Len(by) /\ by[e] = what

\* A command carries the epoch its call claimed for it.
Claimed(cmd, by) ==
    /\ cmd.op \in Plays => ClaimedFor(cmd.epoch, "play", by)
    /\ cmd.op = "Next" => ClaimedFor(cmd.epoch, "next", by)
    /\ cmd.op = "Stop" => ClaimedFor(cmd.epoch, "stop", by)

\* A call that has only reserved has not claimed the epoch of its play.
OutboxClaimed(pc, cmd, by) ==
    IF pc = "reserved" THEN cmd.op \in Plays ELSE Claimed(cmd, by)

\* Every epoch was claimed once, and a play, a skip or a stop is sent under the epoch
\* claimed for it.
ClaimsKept ==
    /\ Len(claims) = epoch
    /\ \A i \in 1..Len(commands) : Claimed(commands[i], claims)
    /\ \A c \in Client : OutboxClaimed(cpc[c], outbox[c], claims)

\* No epoch is claimed and nothing sent when the player is created.
LEMMA InitClaims == Init => ClaimsKept
BY EmptySeq DEF Init, ClaimsKept, OutboxClaimed, Claimed, NoCommand, Cmd, Plays

\* A call claims an epoch and counts it, or does neither.
LEMMA ClaimsCounted ==
    ASSUME NEW c \in Client, ClientStep(c)
    PROVE  \/ epoch' = epoch /\ claims' = claims
           \/ epoch' = epoch + 1 /\ \E what \in ClaimNames : claims' = Append(claims, what)
BY DEF ClientStep, Finish, Reserve, PlayIfEpoch, PlayRefused, AbandonReservation, SendNext,
       StopClaim, StopStore, PauseLoad, PauseStore, SendPlain, Send, EditQueue, EditStreamQueue,
       SendClear, PrefetchBegin, PrefetchReady, PrefetchAbandon, lease, Claim, ClaimNames

\* What a command's epoch was claimed for stays that when more are claimed.
LEMMA ClaimedStays ==
    ASSUME TypeOK, NEW cmd, Claimed(cmd, claims), NEW c \in Client, ClientStep(c)
    PROVE  Claimed(cmd, claims')
<1>1. claims \in Seq(ClaimNames)
    BY DEF TypeOK, TypeClients
<1>2. \A what \in ClaimNames : /\ Len(Append(claims, what)) = Len(claims) + 1
                              /\ \A i \in 1..Len(claims) : Append(claims, what)[i] = claims[i]
    BY <1>1, AppendProperties
<1>3. Len(claims) \in Nat
    BY <1>1, LenProperties
<1>4. \A e, what : ClaimedFor(e, what, claims) => ClaimedFor(e, what, claims')
    BY <1>2, <1>3, ClaimsCounted DEF ClaimedFor
<1> QED BY <1>4 DEF Claimed

\* The claim a call appends is the last one, and that of its epoch.
LEMMA NewClaim ==
    ASSUME TypeOK, Len(claims) = epoch, NEW what \in ClaimNames, claims' = Append(claims, what)
    PROVE  /\ ClaimedFor(epoch + 1, what, claims')
           /\ Len(claims') = epoch + 1
           /\ \A w : LastClaim(w)' => w = what
<1>1. claims \in Seq(ClaimNames) /\ epoch \in Nat
    BY DEF TypeOK, TypeClients, TypeShared
<1>2. Len(claims') = epoch + 1 /\ claims'[epoch + 1] = what
    BY <1>1, AppendProperties
<1>3. \A w : LastClaim(w)' => w = what
    BY <1>2 DEF LastClaim
<1> QED BY <1>1, <1>2, <1>3 DEF ClaimedFor

\* What a call leaves in its outbox keeps the claims: a play is given its epoch when
\* it leaves its reservation, a skip when it is made, and nothing else needs one
\* (player.rs:1012-1100).
LEMMA OwnOutboxClaims ==
    ASSUME TypeOK, ClaimsKept, NEW c \in Client, ClientStep(c)
    PROVE  OutboxClaimed(cpc'[c], outbox'[c], claims')
<1>1. /\ outbox \in [Client -> Command] /\ cpc \in [Client -> ClientPCs]
      /\ epoch \in Nat /\ outbox[c] \in Command
    BY DEF TypeOK, TypeShared, TypeClients
<1>2. OutboxClaimed(cpc[c], outbox[c], claims)
    BY DEF ClaimsKept
<1> USE DEF OutboxClaimed, Plays, Goto, Prepare
<1>3. CASE Reserve(c)
    BY <1>1, <1>3 DEF Reserve, Cmd
<1>4. CASE PlayIfEpoch(c)
    <2>1. ClaimedFor(epoch + 1, "play", claims')
        BY <1>4, NewClaim DEF PlayIfEpoch, Claim, ClaimsKept, ClaimNames
    <2>2. /\ outbox'[c] = [outbox[c] EXCEPT !.epoch = epoch + 1] /\ cpc'[c] = "sending"
          /\ outbox[c].op \in Plays
        BY <1>1, <1>2, <1>4 DEF PlayIfEpoch
    <2> QED BY <1>1, <2>1, <2>2 DEF Claimed, Command
<1>5. CASE SendNext(c)
    <2>1. ClaimedFor(epoch + 1, "next", claims')
        BY <1>5, NewClaim DEF SendNext, Claim, ClaimsKept, ClaimNames
    <2>2. outbox'[c] = Cmd("Next", epoch + 1) /\ cpc'[c] = "sending"
        BY <1>1, <1>5 DEF SendNext
    <2> QED BY <2>1, <2>2 DEF Claimed, Cmd
<1>6. CASE PauseLoad(c) \/ SendPlain(c) \/ EditQueue(c) \/ EditStreamQueue(c)
           \/ PrefetchBegin(c)
    <2>1. CASE SendPlain(c)
        <3>1. PICK op \in CommandNames \ (EpochCommands \cup {"Pause"}), on \in BOOLEAN :
                  Prepare(c, [Cmd(op, 0) EXCEPT !.on = on])
            BY <2>1 DEF SendPlain
        <3>2. op \notin {"Play", "PlayStream", "Next", "Stop"}
            BY DEF EpochCommands
        <3>3. [Cmd(op, 0) EXCEPT !.on = on].op = op
            BY DEF Cmd
        <3>4. outbox'[c].op = op /\ cpc'[c] = "sending"
            BY <1>1, <2>1, <3>1, <3>3 DEF SendPlain
        <3> QED BY <3>2, <3>4 DEF Claimed
    <2>2. CASE EditQueue(c)
        <3>1. outbox'[c].op = "SetQueue" /\ cpc'[c] = "sending"
            BY <1>1, <2>2 DEF EditQueue, Cmd
        <3> QED BY <3>1 DEF Claimed
    <2>3. CASE EditStreamQueue(c) \/ PrefetchBegin(c)
        <3>1. outbox'[c].op = "SetStreamQueue" /\ cpc'[c] \in {"clearing", "prefetching"}
            BY <1>1, <2>3 DEF EditStreamQueue, PrefetchBegin, Cmd
        <3> QED BY <3>1 DEF Claimed
    <2>4. CASE PauseLoad(c)
        <3>1. outbox'[c].op = "Pause" /\ cpc'[c] \in {"pausing", "sending"}
            BY <1>1, <2>4 DEF PauseLoad, Cmd
        <3> QED BY <3>1 DEF Claimed
    <2> QED BY <1>6, <2>1, <2>2, <2>3, <2>4
<1>7. CASE PlayRefused(c) \/ AbandonReservation(c) \/ PrefetchAbandon(c) \/ Send(c)
    <2>1. outbox'[c] = NoCommand /\ cpc'[c] = "idle"
        BY <1>1, <1>7 DEF PlayRefused, AbandonReservation, PrefetchAbandon, Send, Return
    <2> QED BY <2>1 DEF Claimed, NoCommand, Cmd
<1>8. CASE StopStore(c) \/ PauseStore(c) \/ SendClear(c) \/ PrefetchReady(c)
    <2>1. /\ outbox'[c].op = outbox[c].op /\ outbox'[c].epoch = outbox[c].epoch
          /\ cpc[c] # "reserved" /\ cpc'[c] # "reserved"
        BY <1>1, <1>8 DEF StopStore, PauseStore, SendClear, PrefetchReady, Command
    <2>2. Claimed(outbox[c], claims')
        BY <1>2, <2>1, ClaimedStays
    <2> QED BY <2>1, <2>2 DEF Claimed
<1>9. CASE StopClaim(c)
    <2>1. ClaimedFor(epoch + 1, "stop", claims')
        BY <1>9, NewClaim DEF StopClaim, Claim, ClaimsKept, ClaimNames
    <2>2. outbox'[c] = Cmd("Stop", epoch + 1) /\ cpc'[c] = "stopping"
        BY <1>1, <1>9 DEF StopClaim
    <2> QED BY <2>1, <2>2 DEF Claimed, Cmd
<1> QED BY <1>3, <1>4, <1>5, <1>6, <1>7, <1>8, <1>9 DEF ClientStep, Finish

\* No call touches the outbox of another.
LEMMA OthersOutbox ==
    ASSUME TypeOK, NEW c \in Client, ClientStep(c), NEW d \in Client \ {c}
    PROVE  cpc'[d] = cpc[d] /\ outbox'[d] = outbox[d]
<1>1. outbox \in [Client -> Command] /\ cpc \in [Client -> ClientPCs]
    BY DEF TypeOK, TypeClients
<1> QED BY <1>1 DEF ClientStep, Finish, Reserve, PlayIfEpoch, PlayRefused, AbandonReservation,
       SendNext, StopClaim, StopStore, PauseLoad, PauseStore, SendPlain, Send, EditQueue,
       EditStreamQueue, SendClear, PrefetchBegin, PrefetchReady, PrefetchAbandon, Goto, Prepare,
       Return

\* A call that sends has claimed what it sends, so ClaimsKept stays.
LEMMA ClientClaims ==
    ASSUME TypeOK, ClaimsKept, NEW c \in Client, ClientStep(c)
    PROVE  ClaimsKept'
<1>1. Len(claims') = epoch'
    BY ClaimsCounted, NewClaim DEF ClaimsKept
<1>2. ASSUME NEW d \in Client PROVE OutboxClaimed(cpc'[d], outbox'[d], claims')
    <2>1. CASE d = c
        BY <2>1, OwnOutboxClaims
    <2>2. CASE d # c
        BY <2>2, OthersOutbox, ClaimedStays DEF ClaimsKept, OutboxClaimed
    <2> QED BY <2>1, <2>2
<1>3. \A i \in 1..Len(commands') : Claimed(commands'[i], claims')
    <2>1. commands \in Seq(Command) /\ outbox[c] \in Command
        BY DEF TypeOK, TypeShared, TypeClients
    <2>2. \A i \in 1..Len(commands) : Claimed(commands[i], claims')
        BY ClaimedStays DEF ClaimsKept
    <2>3. CASE commands' = commands
        BY <2>2, <2>3
    <2>4. CASE commands' = Append(commands, outbox[c]) /\ (Send(c) \/ SendClear(c))
        <3>1. Claimed(outbox[c], claims')
            BY <2>4, ClaimedStays DEF ClaimsKept, OutboxClaimed, Send, SendClear
        <3> QED BY <2>1, <2>2, <2>4, <3>1, AppendProperties, LenProperties
    <2>5. commands' = commands \/ Send(c) \/ SendClear(c)
        BY DEF ClientStep, Finish, Reserve, PlayIfEpoch, PlayRefused, AbandonReservation, SendNext,
               StopClaim, StopStore, PauseLoad, PauseStore, SendPlain, EditQueue, EditStreamQueue,
               PrefetchBegin, PrefetchReady, PrefetchAbandon
    <2>6. Send(c) \/ SendClear(c) => commands' = Append(commands, outbox[c])
        BY DEF Send, SendClear
    <2> QED BY <2>3, <2>4, <2>5, <2>6
<1> QED BY <1>1, <1>2, <1>3 DEF ClaimsKept

\* The worker only takes commands: ClaimsKept stays.
LEMMA WorkerClaims ==
    ASSUME TypeOK, ClaimsKept, WorkerStep \/ Environment
    PROVE  ClaimsKept'
<1>1. UNCHANGED <<epoch, claims, cpc, outbox>>
    BY WorkerFrame DEF lease, clients
<1>2. \A i \in 1..Len(commands') : Claimed(commands'[i], claims)
    <2>1. commands \in Seq(Command)
        BY DEF TypeOK, TypeShared
    <2>2. CASE commands' = commands
        BY <2>2 DEF ClaimsKept
    <2>3. CASE commands # <<>> /\ commands' = Tail(commands)
        BY <2>1, <2>3, HeadTailProperties, LenProperties DEF ClaimsKept
    <2> QED BY <2>2, <2>3, WorkerCommands
<1> QED BY <1>1, <1>2 DEF ClaimsKept

LEMMA ClaimsAlwaysKept == Spec => []ClaimsKept
<1>1. TypeOK /\ ClaimsKept /\ [Next]_vars => ClaimsKept'
    <2>1. ASSUME ClaimsKept, UNCHANGED vars PROVE ClaimsKept'
        BY <2>1 DEF ClaimsKept, vars, lease, clients
    <2> QED BY <2>1, ClientClaims, WorkerClaims DEF Next
<1> QED BY InitClaims, TypeCorrect, <1>1, PTL DEF Spec

-----------------------------------------------------------------------------
(* A Stop is final. *)

\* Nothing is left that could play.
Quiet ==
    /\ session = None /\ pendingStart = None /\ inFlight = None
    /\ currentFilePath = None /\ fileName = None

\* The Stop of the newest claim is still to be handled: its call has not sent it, or
\* the worker has not taken it.
IsNewestStop(cmd) == cmd.op = "Stop" /\ cmd.epoch = epoch
StopPrepared == \E c \in Client : cpc[c] \in {"stopping", "sending"} /\ IsNewestStop(outbox[c])
StopSent == \E i \in 1..Len(commands) : IsNewestStop(commands[i])

\* StopIsFinal made inductive.
Final == LastClaim("stop") => StopPrepared \/ StopSent \/ Quiet

\* Nothing has been claimed when the player is created.
LEMMA InitFinal == Init => Final
BY DEF Init, Final, LastClaim

\* A new claim is of another kind or prepares its Stop; a call on its way passes the
\* Stop on to the channel (player.rs:1088-1098).
LEMMA ClientFinal ==
    ASSUME TypeOK, ClaimsKept, Final, NEW c \in Client, ClientStep(c)
    PROVE  Final'
<1>1. UNCHANGED <<session, pendingStart, inFlight, currentFilePath, fileName>>
    BY ClientFrame DEF worker, player, starts, locals
<1>2. /\ outbox \in [Client -> Command] /\ cpc \in [Client -> ClientPCs]
      /\ commands \in Seq(Command) /\ epoch \in Nat /\ outbox[c] \in Command
    BY DEF TypeOK, TypeShared, TypeClients
<1>3. CASE StopClaim(c)
    <2>1. cpc'[c] = "stopping" /\ outbox'[c] = Cmd("Stop", epoch + 1) /\ epoch' = epoch + 1
        BY <1>2, <1>3 DEF StopClaim, Claim, Goto, Prepare
    <2> QED BY <2>1 DEF Final, StopPrepared, IsNewestStop, Cmd
<1>4. CASE Reserve(c) \/ PlayIfEpoch(c) \/ SendNext(c)
    <2>1. PICK what \in ClaimNames \ {"stop"} : claims' = Append(claims, what)
        BY <1>4 DEF Reserve, PlayIfEpoch, SendNext, Claim, ClaimNames
    <2>2. ~LastClaim("stop")'
        BY <2>1, NewClaim DEF ClaimsKept
    <2> QED BY <2>2 DEF Final
<1>5. CASE UNCHANGED <<epoch, claims>>
    <2>1. LastClaim("stop")' => LastClaim("stop")
        BY <1>5 DEF LastClaim
    <2>2. CASE Quiet
        BY <1>1, <2>2 DEF Quiet, Final
    <2>3. CASE StopSent
        <3>1. PICK i \in 1..Len(commands) : IsNewestStop(commands[i])
            BY <2>3 DEF StopSent
        <3>2. i \in 1..Len(commands') /\ commands'[i] = commands[i]
            BY <1>2, <3>1, ClientEffects, AppendProperties, LenProperties
        <3> QED BY <1>5, <3>1, <3>2 DEF StopSent, IsNewestStop, Final
    <2>4. CASE StopPrepared
        <3>1. PICK d \in Client : cpc[d] \in {"stopping", "sending"} /\ IsNewestStop(outbox[d])
            BY <2>4 DEF StopPrepared
        <3>2. CASE d # c
            <4>1. cpc'[d] = cpc[d] /\ outbox'[d] = outbox[d]
                BY <3>2, OthersOutbox
            <4> QED BY <1>5, <3>1, <4>1 DEF StopPrepared, IsNewestStop, Final
        <3>3. CASE d = c
            <4>1. StopStore(c) \/ Send(c)
                BY <1>5, <3>1, <3>3, <1>2
                DEF ClientStep, Finish, Reserve, PlayIfEpoch, PlayRefused, AbandonReservation,
                    SendNext, StopClaim, PauseLoad, PauseStore, SendPlain, EditQueue,
                    EditStreamQueue, SendClear, PrefetchBegin, PrefetchReady, PrefetchAbandon, Begin
            <4>2. CASE StopStore(c)
                <5>1. cpc'[c] = "sending" /\ outbox'[c] = outbox[c]
                    BY <1>2, <4>2 DEF StopStore, Goto
                <5> QED BY <1>5, <3>1, <3>3, <5>1 DEF StopPrepared, IsNewestStop, Final
            <4>3. CASE Send(c)
                <5>1. commands' = Append(commands, outbox[c])
                    BY <4>3 DEF Send
                <5>2. /\ Len(commands) + 1 \in 1..Len(commands')
                      /\ commands'[Len(commands) + 1] = outbox[c]
                    BY <1>2, <5>1, AppendProperties, LenProperties
                <5> QED BY <1>5, <3>1, <3>3, <5>2 DEF StopSent, IsNewestStop, Final
            <4> QED BY <4>1, <4>2, <4>3
        <3> QED BY <3>2, <3>3
    <2> QED BY <2>1, <2>2, <2>3, <2>4 DEF Final
<1>6. \/ StopClaim(c) \/ Reserve(c) \/ PlayIfEpoch(c) \/ SendNext(c) \/ UNCHANGED <<epoch, claims>>
    BY DEF ClientStep, Finish, PlayRefused, AbandonReservation, StopStore, PauseLoad, PauseStore,
           SendPlain, Send, EditQueue, EditStreamQueue, SendClear, PrefetchBegin, PrefetchReady,
           PrefetchAbandon, lease
<1> QED BY <1>3, <1>4, <1>5, <1>6

\* While the newest claim is a stop, nothing the worker takes is a fresh play or skip:
\* their epochs were claimed for something else.
LEMMA NoFreshPlay ==
    ASSUME TypeOK, ClaimsKept, LastClaim("stop")
    PROVE  ~HandlePlay /\ ~HandlePlayStream /\ ~HandleNext
<1>1. ASSUME NEW cmd \in FirstCommand, cmd.op \in Plays \cup {"Next"} PROVE ~Fresh(cmd)
    <2>1. commands \in Seq(Command) /\ commands # <<>> /\ cmd = commands[1]
        BY <1>1, HeadTailProperties DEF TypeOK, TypeShared, FirstCommand
    <2>2. 1 \in 1..Len(commands)
        BY <2>1, LenProperties, EmptySeq
    <2>3. Claimed(cmd, claims)
        BY <2>1, <2>2 DEF ClaimsKept
    <2> QED BY <1>1, <2>3 DEF Claimed, ClaimedFor, Plays, Fresh, EpochCommands, LastClaim, ClaimsKept
<1> QED BY <1>1 DEF HandlePlay, HandlePlayStream, HandleNext, Take, Plays

\* The newest Stop leaves the channel only to be handled: it is not stale.
LEMMA StopStaysSent ==
    ASSUME TypeOK, StopSent, WorkerStep \/ Environment, ~HandleStop
    PROVE  StopSent'
<1>1. commands \in Seq(Command) /\ epoch' = epoch
    BY WorkerFrame DEF TypeOK, TypeShared, lease
<1>2. PICK i \in 1..Len(commands) : IsNewestStop(commands[i])
    BY DEF StopSent
<1>3. CASE commands' = commands
    BY <1>1, <1>2, <1>3 DEF StopSent, IsNewestStop
<1>4. CASE HandleCommand /\ commands # <<>> /\ commands' = Tail(commands)
    <2>1. Head(commands) = commands[1]
        BY <1>1, <1>4, HeadTailProperties
    <2>2. ~IsNewestStop(Head(commands))
        BY <1>4 DEF HandleCommand, HandlePlay, HandlePlayStream, HandleNext, HandleSetQueue,
               HandleSetStreamQueue, HandleSetRepeatOne, HandlePause, HandleResume, HandleSeek,
               HandleApplyPlaybackConfig, HandleSelectDevice, HandleReopenOutput, DropStale,
               FirstCommand, Take, Fresh, IsNewestStop
    <2>3. i - 1 \in 1..Len(Tail(commands)) /\ Tail(commands)[i - 1] = commands[i]
        BY <1>1, <1>2, <1>4, <2>1, <2>2, HeadTailProperties, LenProperties
    <2> QED BY <1>1, <1>2, <1>4, <2>3 DEF StopSent, IsNewestStop
<1>5. ~HandleCommand => commands' = commands
    BY DEF WorkerStep, Environment, HandleResetNotice, RestartOk, RestartErr, StoreState,
           InstallPendingStart, OutputStage, PlaybackStep, ConsumeFlush, LoseOutput,
           RetryElapsed, NoPendingStart, DropStaleStart, OpenStart, InstallSession,
           FailStart, NoOutputWanted, OpenOutput, OutputRefused, Promote, NotYet, StepIdle,
           StepWithoutSession, StepSession, Pump, PumpFatal, PumpEof, Drain
<1> QED BY <1>3, <1>4, <1>5, WorkerCommands

\* Without a session, a start or a path there is nothing the worker could install,
\* rebuild, decode or follow up.
LEMMA QuietStays ==
    ASSUME TypeOK, Shown, Quiet, WorkerStep \/ Environment,
           ~HandlePlay, ~HandlePlayStream, ~HandleNext
    PROVE  Quiet'
<1>0. Located
    BY DEF TypeOK
<1> USE <1>0 DEF Quiet, Located, player, starts, locals, worker
<1>1. CASE HandleStop
    BY <1>1 DEF HandleStop, ClearNowPlaying, NoSession
<1>2. CASE \/ HandleSetQueue \/ HandleSetStreamQueue \/ HandleSetRepeatOne \/ HandlePause
           \/ HandleResume \/ HandleSeek \/ HandleApplyPlaybackConfig \/ HandleSelectDevice
           \/ HandleReopenOutput \/ DropStale
    BY <1>2 DEF HandleSetQueue, HandleSetStreamQueue, HandleSetRepeatOne, HandlePause, HandleResume,
                HandleSeek, HandleApplyPlaybackConfig, HandleSelectDevice, HandleReopenOutput,
                DropStale
<1>3. ~RestartOk /\ ~OpenStart /\ ~InstallSession /\ ~FailStart /\ ~DropStaleStart
    BY DEF Shown, RestartOk, OpenStart, InstallSession, FailStart, DropStaleStart
<1>4. ~Pump /\ ~PumpFatal /\ ~PumpEof /\ ~Drain /\ ~StepSession /\ ~OpenOutput
    BY DEF Pump, PumpFatal, PumpEof, Drain, StepSession, OpenOutput, OutputWanted
<1>5. CASE \/ HandleResetNotice \/ RestartErr \/ StoreState \/ NoPendingStart \/ NoOutputWanted
           \/ OutputRefused \/ Promote \/ NotYet \/ StepIdle \/ StepWithoutSession \/ Environment
    BY <1>5 DEF HandleResetNotice, RestartErr, StoreState, NoPendingStart, NoOutputWanted,
                OutputRefused, Promote, NotYet, StepIdle, StepWithoutSession, Environment,
                ConsumeFlush, LoseOutput, RetryElapsed
<1> QED BY <1>1, <1>2, <1>3, <1>4, <1>5
        DEF WorkerStep, HandleCommand, InstallPendingStart, OutputStage, PlaybackStep

\* The worker handles the newest Stop, which leaves it quiet, or does something else,
\* which neither loses that Stop nor ends the quiet.
LEMMA WorkerFinal ==
    ASSUME TypeOK, QueuesSound, Shown, ClaimsKept, Final, WorkerStep \/ Environment
    PROVE  Final'
<1>1. UNCHANGED <<epoch, claims, cpc, outbox>>
    BY WorkerFrame DEF lease, clients
<1> SUFFICES ASSUME LastClaim("stop") PROVE (StopPrepared \/ StopSent \/ Quiet)'
    BY <1>1 DEF Final, LastClaim
<1>2. CASE HandleStop
    <2>1. Quiet'
        BY <1>2 DEF HandleStop, Take, ClearNowPlaying, NoSession, Quiet, QueuesSound, locals
    <2> QED BY <2>1
<1>3. CASE StopPrepared
    BY <1>1, <1>3 DEF StopPrepared, IsNewestStop
<1>4. CASE StopSent /\ ~HandleStop
    BY <1>4, StopStaysSent
<1>5. CASE Quiet
    BY <1>5, NoFreshPlay, QuietStays
<1> QED BY <1>2, <1>3, <1>4, <1>5 DEF Final

\* Once the Stop of the newest claim has been handled nothing is left that could play,
\* however many calls, starts, streams and rebuilds were on their way.
THEOREM StopsAreFinal == Spec => []StopIsFinal
<1>1. /\ TypeOK /\ QueuesSound /\ Shown /\ ClaimsKept /\ Final /\ [Next]_vars
      => Final'
    <2>1. ASSUME Final, UNCHANGED vars PROVE Final'
        BY <2>1 DEF Final, LastClaim, StopPrepared, StopSent, Quiet, IsNewestStop, vars, lease,
                    clients, worker, player, starts, locals
    <2> QED BY <2>1, ClientFinal, WorkerFinal DEF Next
<1>2. TypeOK /\ Final => StopIsFinal
    <2> SUFFICES ASSUME TypeOK, Final, StopHandled PROVE Quiet
        BY DEF StopIsFinal, Quiet
    <2>1. ~StopPrepared
        BY DEF StopPrepared, IsNewestStop, StopHandled
    <2>2. ~StopSent
        BY LenProperties DEF StopSent, IsNewestStop, StopHandled, TypeOK, TypeShared
    <2> QED BY <2>1, <2>2 DEF Final, StopHandled
<1> QED
    BY InitFinal, TypeCorrect, QueuesAlwaysSound, ShownAlways, ClaimsAlwaysKept, <1>1, <1>2, PTL
    DEF Spec

-----------------------------------------------------------------------------
(* What is heard. *)

\* NoBleed made inductive.  What the ring may hold of another play than the session's
\* has a flush coming; a ring that nobody consumes is empty, and filled only where
\* there is a stream; a start that is opened without a gap goes on under the session's
\* epoch, and any other has asked for the flush before.
RingClean ==
    /\ ~flushBuffer => ring \subseteq {sessionEpoch}
    /\ activeStream = "none" => ring = {}
Consumed ==
    wpc \in {"pumping", "draining"} \/ (wpc = "storing" /\ about.next = "pumping")
        => activeStream # "none"
BoundaryHeld ==
    wpc = "opening" =>
        IF gaplessPlan THEN inFlight.epoch = sessionEpoch ELSE flushBuffer \/ ring = {}
SameEpoch ==
    /\ startGapless /\ pendingStart # None => pendingStart.epoch = sessionEpoch
    /\ wpc = "draining" /\ inFlight # None => inFlight.epoch = sessionEpoch
Unheard == RingClean /\ Consumed /\ BoundaryHeld /\ SameEpoch

\* The ring is empty when the player is created.
LEMMA InitUnheard == Init => Unheard
BY DEF Init, Unheard, RingClean, Consumed, BoundaryHeld, SameEpoch

\* No command touches the ring but to drop it with its stream (command_dispatch.rs:
\* 340-420), and a start it makes is one that does not go on without a gap.
LEMMA CommandUnheard ==
    ASSUME TypeOK, Unheard, HandleCommand
    PROVE  Unheard'
<1> USE DEF Unheard, RingClean, Consumed, BoundaryHeld, SameEpoch, player, starts, stream, output,
            locals, worker, Take
<1>1. CASE HandlePlay \/ HandlePlayStream \/ HandleNext \/ HandleStop
    BY <1>1 DEF HandlePlay, HandlePlayStream, HandleNext, HandleStop, StartNext, ClearNowPlaying,
                NoSession
<1>2. CASE HandleSetQueue \/ HandleSetStreamQueue \/ HandleSetRepeatOne
    BY <1>2 DEF HandleSetQueue, HandleSetStreamQueue, HandleSetRepeatOne
<1>3. CASE HandlePause \/ HandleResume \/ HandleSeek
    BY <1>3 DEF HandlePause, HandleResume, HandleSeek, ApplySeek, ThenStore
<1>4. CASE HandleApplyPlaybackConfig \/ HandleSelectDevice \/ HandleReopenOutput \/ DropStale
    BY <1>4 DEF HandleApplyPlaybackConfig, HandleSelectDevice, HandleReopenOutput, DropStale,
                BeginRestart, ThenStore, ResetPipeline, DropOutput, DropStream
<1> QED BY <1>1, <1>2, <1>3, <1>4 DEF HandleCommand

\* A start asks for the flush before it opens (session_start.rs:372), or goes on under
\* the session's epoch; one that was installed has the flush or an empty ring behind it.
LEMMA StartUnheard ==
    ASSUME TypeOK, Unheard, InstallPendingStart
    PROVE  Unheard'
<1> USE DEF Unheard, RingClean, Consumed, BoundaryHeld, SameEpoch, player, starts, stream, output,
            locals, worker, Drained
<1>1. CASE NoPendingStart \/ DropStaleStart
    BY <1>1 DEF NoPendingStart, DropStaleStart
<1>2. CASE OpenStart
    <2>1. CASE gaplessPlan'
        <3>1. startGapless /\ pendingStart # None /\ UNCHANGED output
            BY <1>2, <2>1 DEF OpenStart
        <3>2. pendingStart.epoch = sessionEpoch
            BY <3>1
        <3>3. /\ inFlight' = pendingStart /\ sessionEpoch' = sessionEpoch
              /\ startGapless' = FALSE /\ wpc' = "opening"
            BY <1>2 DEF OpenStart
        <3> QED BY <2>1, <3>1, <3>2, <3>3
    <2>2. CASE ~gaplessPlan'
        BY <1>2, <2>2 DEF OpenStart, Boundary, DropStream
    <2> QED BY <2>1, <2>2
<1>3. CASE InstallSession
    <2>1. /\ sessionEpoch' = inFlight.epoch /\ wpc' = "output" /\ pendingStart' = None
          /\ pendingStart = None /\ BoundaryHeld /\ wpc = "opening"
        BY <1>3 DEF InstallSession, TypeOK, Located
    <2>2. CASE gaplessPlan /\ UNCHANGED output
        BY <2>1, <2>2
    <2>3. CASE DropOutput
        BY <2>1, <2>3 DEF DropOutput, DropStream
    <2>4. CASE flushBuffer' = (gaplessPlan \/ flushBuffer) /\ UNCHANGED <<stream, ring>>
        <3>1. CASE gaplessPlan
            BY <2>1, <2>4, <3>1
        <3>2. CASE ~gaplessPlan /\ flushBuffer
            BY <2>1, <2>4, <3>2
        <3>3. CASE ~gaplessPlan /\ ring = {}
            BY <2>1, <2>4, <3>3
        <3> QED BY <2>1, <3>1, <3>2, <3>3
    <2> QED BY <1>3, <2>2, <2>3, <2>4 DEF InstallSession
<1>4. CASE FailStart
    BY <1>4 DEF FailStart
<1> QED BY <1>1, <1>2, <1>3, <1>4 DEF InstallPendingStart

\* What is rendered is the session's, into a ring that is consumed (decode.rs:28-148,
\* playback_step.rs:64); the end of a track starts the next under its epoch.
LEMMA StepUnheard ==
    ASSUME TypeOK, Unheard, PlaybackStep
    PROVE  Unheard'
<1> USE DEF Unheard, RingClean, Consumed, BoundaryHeld, SameEpoch, player, starts, stream, output,
            locals, worker
<1>1. CASE StepIdle \/ StepWithoutSession \/ StepSession
    BY <1>1 DEF StepIdle, StepWithoutSession, StepSession, Rendering, ApplySeek, ThenStore
<1>2. CASE Pump \/ PumpFatal
    BY <1>2 DEF Pump, PumpFatal
<1>3. CASE PumpEof
    BY <1>3 DEF PumpEof, EofStart
<1>4. CASE Drain
    BY <1>4 DEF Drain, NoSession, ClearNowPlaying, ResetPipeline, DropOutput, DropStream
<1> QED BY <1>1, <1>2, <1>3, <1>4 DEF PlaybackStep

\* A flush is done by the callback, or left undone where no stream holds anything.
LEMMA OutputUnheard ==
    ASSUME TypeOK, Unheard,
           \/ HandleResetNotice \/ RestartOk \/ RestartErr \/ StoreState \/ OutputStage
           \/ Environment
    PROVE  Unheard'
<1> USE DEF Unheard, RingClean, Consumed, BoundaryHeld, SameEpoch, player, starts, stream, output,
            locals, worker
<1>1. CASE HandleResetNotice \/ RestartErr
    BY <1>1 DEF HandleResetNotice, ResetPipeline, DropOutput, DropStream, RestartErr, AfterRestart
<1>2. CASE RestartOk
    <2>1. PICK sought \in BOOLEAN : flushBuffer' = (sought \/ flushBuffer)
        BY <1>2 DEF RestartOk
    <2>2. flushBuffer => flushBuffer'
        BY <2>1
    <2> QED BY <1>2, <2>2 DEF RestartOk, AfterRestart
<1>3. CASE StoreState
    BY <1>3 DEF StoreState, TypeOK, TypeWorker
<1>4. CASE OpenOutput \/ OutputRefused
    BY <1>4 DEF OpenOutput, OutputRefused, OutputWanted, PendingFlush, BeginRestart
<1>5. CASE NoOutputWanted \/ Promote \/ NotYet
    BY <1>5 DEF NoOutputWanted, Promote, NotYet
<1>6. CASE Environment
    BY <1>6 DEF Environment, ConsumeFlush, LoseOutput, RetryElapsed
<1> QED BY <1>1, <1>2, <1>3, <1>4, <1>5, <1>6 DEF OutputStage

\* No call touches the ring, the stream or a start.
LEMMA UnheardAlways == Spec => []Unheard
<1>1. TypeOK /\ Unheard /\ [Next]_vars => Unheard'
    <2> USE DEF Unheard, RingClean, Consumed, BoundaryHeld, SameEpoch, worker, player, starts,
                stream, output, locals
    <2>1. ASSUME Unheard, NEW c \in Client, ClientStep(c) PROVE Unheard'
        BY <2>1, ClientFrame
    <2>2. ASSUME Unheard, UNCHANGED vars PROVE Unheard'
        BY <2>2 DEF vars
    <2> QED
        BY <2>1, <2>2, CommandUnheard, StartUnheard, StepUnheard, OutputUnheard
        DEF Next, WorkerStep
<1> QED BY InitUnheard, TypeCorrect, <1>1, PTL DEF Spec

\* A start that goes from STARTING to PLAYING finds in the ring nothing of a play it
\* interrupted, whichever thread did the flush and whatever output it was asked of.
THEOREM NothingBleeds == Spec => NoBleed
<1>1. Unheard /\ [Next]_vars
      => [wpc = "promote" /\ state' = "Playing" /\ state # "Playing"
              => ring \subseteq {sessionEpoch}]_vars
    <2> SUFFICES ASSUME Unheard, Next, wpc = "promote", state' = "Playing", state # "Playing"
                 PROVE  ring \subseteq {sessionEpoch}
        OBVIOUS
    <2>1. ~(\E c \in Client : ClientStep(c))
        BY DEF ClientStep, Finish, Reserve, PlayIfEpoch, PlayRefused, AbandonReservation, SendNext,
               StopClaim, StopStore, PauseLoad, PauseStore, SendPlain, Send, EditQueue,
               EditStreamQueue, SendClear, PrefetchBegin, PrefetchReady, PrefetchAbandon
    <2>2. Promote
        BY <2>1 DEF Next, WorkerStep, Environment, HandleResetNotice, HandleCommand, RestartOk,
               RestartErr, StoreState, InstallPendingStart, OutputStage, PlaybackStep, ConsumeFlush,
               LoseOutput, RetryElapsed, HandlePlay, HandlePlayStream, HandleNext, HandleStop,
               HandleSetQueue, HandleSetStreamQueue, HandleSetRepeatOne, HandlePause, HandleResume,
               HandleSeek, HandleApplyPlaybackConfig, HandleSelectDevice, HandleReopenOutput,
               DropStale, Take, NoPendingStart, DropStaleStart, OpenStart, Drained, InstallSession,
               FailStart, NoOutputWanted, OpenOutput, OutputRefused, NotYet, StepIdle,
               StepWithoutSession, StepSession, Pump, PumpFatal, PumpEof, Drain
    <2> QED BY <2>2 DEF Promote, Unheard, RingClean
<1> QED BY UnheardAlways, <1>1, PTL DEF Spec, NoBleed

-----------------------------------------------------------------------------
(* No play is lost. *)

\* A start that is pending where the worker does not take it any more is the one that
\* follows a start that failed (session_start.rs:110-160).
FailedFirst ==
    /\ pendingStart # None
    /\ \/ wpc \in {"output", "promote", "step", "pumping", "draining"}
       \/ wpc = "storing" /\ about.next = "pumping"
       \/ wpc = "restarting" /\ restart.why = "rate"
    => fileName = StartError

LEMMA InitFailedFirst == Init => FailedFirst
BY DEF Init, FailedFirst

\* The worker looks at the pending start before it goes on to the output, and shows
\* nothing else until it has come round again.
LEMMA WorkerFailedFirst ==
    ASSUME TypeOK, FailedFirst, WorkerStep \/ Environment
    PROVE  FailedFirst'
<1> USE DEF FailedFirst, player, starts, locals, worker
<1>1. CASE HandleCommand
    BY <1>1 DEF HandleCommand, HandlePlay, HandlePlayStream, HandleNext, HandleStop,
                HandleSetQueue, HandleSetStreamQueue, HandleSetRepeatOne, HandlePause,
                HandleResume, HandleSeek, HandleApplyPlaybackConfig, HandleSelectDevice,
                HandleReopenOutput, DropStale, Take, ThenStore, ApplySeek, BeginRestart
<1>2. CASE StoreState
    BY <1>2 DEF StoreState, TypeOK, TypeWorker
<1>3. CASE HandleResetNotice \/ RestartOk \/ RestartErr
    BY <1>3 DEF HandleResetNotice, RestartOk, RestartErr, AfterRestart, NoRestart
<1>4. CASE InstallPendingStart
    BY <1>4 DEF InstallPendingStart, NoPendingStart, DropStaleStart, OpenStart, InstallSession,
                FailStart, Drained, TypeOK, Located
<1>5. CASE OutputStage
    BY <1>5 DEF OutputStage, NoOutputWanted, OpenOutput, OutputRefused, Promote, NotYet,
                BeginRestart
<1>6. CASE PlaybackStep
    BY <1>6 DEF PlaybackStep, StepIdle, StepWithoutSession, StepSession, Pump, PumpFatal, PumpEof,
                Drain, ThenStore, ApplySeek
<1>7. CASE Environment
    BY <1>7 DEF Environment, ConsumeFlush, LoseOutput, RetryElapsed
<1> QED BY <1>1, <1>2, <1>3, <1>4, <1>5, <1>6, <1>7 DEF WorkerStep

LEMMA FailedFirstAlways == Spec => []FailedFirst
<1>1. TypeOK /\ FailedFirst /\ [Next]_vars => FailedFirst'
    <2>1. ASSUME FailedFirst, NEW c \in Client, ClientStep(c) PROVE FailedFirst'
        BY <2>1, ClientFrame DEF FailedFirst, worker, starts, locals
    <2>2. ASSUME FailedFirst, UNCHANGED vars PROVE FailedFirst'
        BY <2>2 DEF FailedFirst, vars, worker, starts, locals
    <2> QED BY <2>1, <2>2, WorkerFailedFirst DEF Next
<1> QED BY InitFailedFirst, TypeCorrect, <1>1, PTL DEF Spec

\* A call that is about to send a play sends it, and loses none that was sent.
LEMMA ClientKeepsPlay ==
    ASSUME TypeOK, PlayUnderWay, NEW c \in Client, ClientStep(c), epoch' = epoch
    PROVE  PlayUnderWay'
<1>1. UNCHANGED <<pendingStart, wpc, inFlight>>
    BY ClientFrame DEF worker, starts, locals
<1>2. /\ commands \in Seq(Command) /\ outbox[c] \in Command
      /\ outbox \in [Client -> Command] /\ cpc \in [Client -> ClientPCs]
    BY DEF TypeOK, TypeShared, TypeClients
<1>3. commands' = commands \/ commands' = Append(commands, outbox[c])
    BY DEF ClientStep, Finish, Reserve, PlayIfEpoch, PlayRefused, AbandonReservation, SendNext,
           StopClaim, StopStore, PauseLoad, PauseStore, SendPlain, Send, EditQueue,
           EditStreamQueue, SendClear, PrefetchBegin, PrefetchReady, PrefetchAbandon
<1>4. CASE \E i \in DOMAIN commands : IsPlay(commands[i])
    <2>1. PICK i \in DOMAIN commands : IsPlay(commands[i])
        BY <1>4
    <2>2. i \in DOMAIN commands' /\ commands'[i] = commands[i]
        BY <1>2, <1>3, <2>1, AppendProperties, LenProperties
    <2> QED BY <2>1, <2>2 DEF PlayUnderWay, IsPlay
<1>5. ASSUME NEW d \in Client, cpc[d] = "sending", IsPlay(outbox[d])
      PROVE  PlayUnderWay'
    <2>1. CASE d # c
        BY <1>5, <2>1, OthersOutbox DEF PlayUnderWay, IsPlay
    <2>2. CASE d = c
        <3>1. Send(c)
            BY <1>5, <2>2 DEF ClientStep, Finish, Begin, Reserve, PlayIfEpoch, PlayRefused,
               AbandonReservation, SendNext, StopClaim, StopStore, PauseLoad, PauseStore, SendPlain,
               EditQueue, EditStreamQueue, SendClear, PrefetchBegin, PrefetchReady, PrefetchAbandon
        <3>2. commands' = Append(commands, outbox[c])
            BY <3>1 DEF Send
        <3>3. /\ Len(commands) + 1 \in DOMAIN commands'
              /\ commands'[Len(commands) + 1] = outbox[c]
            BY <1>2, <3>2, AppendProperties, LenProperties
        <3> QED BY <1>5, <2>2, <3>3 DEF PlayUnderWay, IsPlay
    <2> QED BY <2>1, <2>2
<1> QED BY <1>1, <1>4, <1>5 DEF PlayUnderWay

\* Under the claim of a play no other command that ends one is fresh.
LEMMA NoFreshStop ==
    ASSUME TypeOK, ClaimsKept, LastClaim("play")
    PROVE  ~HandleStop
<1> SUFFICES ASSUME HandleStop PROVE FALSE
    OBVIOUS
<1>1. PICK cmd \in FirstCommand : Take("Stop", cmd)
    BY DEF HandleStop
<1>2. commands # <<>> /\ cmd = commands[1] /\ cmd.op = "Stop" /\ cmd.epoch = epoch
    BY <1>1, HeadTailProperties DEF FirstCommand, Take, Fresh, EpochCommands, TypeOK, TypeShared
<1>3. 1 \in 1..Len(commands)
    BY <1>2, EmptySeq, LenProperties DEF TypeOK, TypeShared
<1>4. ClaimedFor(epoch, "stop", claims)
    BY <1>2, <1>3 DEF ClaimsKept, Claimed
<1> QED BY <1>4 DEF ClaimsKept, ClaimedFor, LastClaim

\* The worker takes a play that is sent under the newest epoch, and keeps those behind
\* the command it takes.
LEMMA WorkerTakesPlay ==
    ASSUME TypeOK, WorkerStep \/ Environment, NEW i \in DOMAIN commands, IsPlay(commands[i])
    PROVE  PlayUnderWay'
<1>1. commands \in Seq(Command) /\ UNCHANGED epoch
    BY WorkerFrame DEF TypeOK, TypeShared, lease
<1>2. CASE commands' = commands
    BY <1>1, <1>2 DEF PlayUnderWay, IsPlay
<1>3. CASE commands # <<>> /\ commands' = Tail(commands) /\ i # 1
    <2>1. i - 1 \in DOMAIN commands' /\ commands'[i - 1] = commands[i]
        BY <1>1, <1>3, HeadTailProperties, LenProperties
    <2> QED BY <1>1, <2>1 DEF PlayUnderWay, IsPlay
<1>4. CASE commands # <<>> /\ commands' = Tail(commands) /\ commands' # commands /\ i = 1
    <2>1. Head(commands) = commands[i] /\ FirstCommand = {commands[i]}
        BY <1>1, <1>4, HeadTailProperties DEF FirstCommand
    <2>2. HandleCommand
        BY <1>4 DEF WorkerStep, Environment, HandleResetNotice, RestartOk, RestartErr, StoreState,
               InstallPendingStart, OutputStage, PlaybackStep, ConsumeFlush, LoseOutput,
               RetryElapsed, NoPendingStart, DropStaleStart, OpenStart, InstallSession, FailStart,
               NoOutputWanted, OpenOutput, OutputRefused, Promote, NotYet, StepIdle,
               StepWithoutSession, StepSession, Pump, PumpFatal, PumpEof, Drain
    <2>3. HandlePlay \/ HandlePlayStream
        BY <2>1, <2>2 DEF HandleCommand, HandleNext, HandleStop, HandleSetQueue,
               HandleSetStreamQueue, HandleSetRepeatOne, HandlePause, HandleResume, HandleSeek,
               HandleApplyPlaybackConfig, HandleSelectDevice, HandleReopenOutput, DropStale, Take,
               Fresh, IsPlay
    <2>4. PICK t \in Track : pendingStart' = [track |-> t, epoch |-> epoch]
        <3>1. commands[i].epoch = epoch /\ epoch \in Nat
            BY DEF IsPlay, TypeOK, TypeShared
        <3>2. TheTrack("file", epoch, 0) \in Track /\ TheTrack("stream", epoch, 0) \in Track
            BY <3>1 DEF TheTrack, Track
        <3> QED BY <2>1, <2>3, <3>1, <3>2 DEF HandlePlay, HandlePlayStream, StartNext
    <2>5. pendingStart' \in Start /\ pendingStart'.epoch = epoch
        BY <2>4 DEF Start, TypeOK, TypeShared
    <2> QED BY <1>1, <2>5, NoneAssumption DEF PlayUnderWay
<1> QED BY <1>2, <1>3, <1>4, WorkerCommands

\* A start that waits to be opened goes on waiting, is opened, or is overwritten by one
\* that follows it or a track of its own call.
LEMMA PendingKept ==
    ASSUME TypeOK, ClaimsKept, Unheard, FailedFirst, WorkerStep \/ Environment, LastClaim("play"),
           pendingStart # None, pendingStart.epoch = epoch
    PROVE  \/ PlayUnderWay'
           \/ fileName' = StartError
<1>1. UNCHANGED epoch /\ epoch \in Nat
    BY WorkerFrame DEF lease, TypeOK, TypeShared
<1>2. CASE pendingStart' = pendingStart
    BY <1>1, <1>2 DEF PlayUnderWay
<1>3. CASE HandleCommand
    <2>1. CASE HandlePlay \/ HandlePlayStream \/ HandleNext
        <3>1. PICK cmd \in FirstCommand :
                  HandlePlay!(cmd) \/ HandlePlayStream!(cmd) \/ HandleNext!(cmd)
            BY <2>1 DEF HandlePlay, HandlePlayStream, HandleNext
        <3>2. cmd.epoch = epoch
            BY <3>1 DEF Take, Fresh, EpochCommands
        <3>3. /\ TheTrack("file", epoch, 0) \in Track /\ TheTrack("stream", epoch, 0) \in Track
              /\ Queue!PopTrack(queues) \in Track \cup {None}
            BY <1>1, PopType DEF TheTrack, Track, TypeOK, TypeShared, Queues
        <3>4. \/ pendingStart' = pendingStart
              \/ \E t \in Track : pendingStart' = [track |-> t, epoch |-> epoch]
            BY <3>1, <3>2, <3>3 DEF StartNext
        <3>5. ASSUME NEW t \in Track, pendingStart' = [track |-> t, epoch |-> epoch]
              PROVE  PlayUnderWay'
            <4>1. pendingStart' \in Start /\ pendingStart'.epoch = epoch
                BY <1>1, <3>5 DEF Start
            <4> QED BY <1>1, <4>1, NoneAssumption DEF PlayUnderWay
        <3> QED BY <1>2, <3>4, <3>5
    <2>2. CASE ~(HandlePlay \/ HandlePlayStream \/ HandleNext)
        BY <1>2, <1>3, <2>2, NoFreshStop
        DEF HandleCommand, HandleSetQueue, HandleSetStreamQueue, HandleSetRepeatOne, HandlePause,
            HandleResume, HandleSeek, HandleApplyPlaybackConfig, HandleSelectDevice,
            HandleReopenOutput, DropStale, worker, starts
    <2> QED BY <2>1, <2>2
<1>4. CASE InstallPendingStart
    BY <1>1, <1>2, <1>4 DEF InstallPendingStart, NoPendingStart, DropStaleStart, OpenStart,
       StartIsCurrent, InstallSession, FailStart, TypeOK, Located, PlayUnderWay, lease
<1>5. CASE PumpEof \/ Drain
    <2>1. fileName = StartError
        BY <1>5 DEF FailedFirst, PumpEof, Drain
    <2> QED BY <1>2, <1>5, <2>1 DEF PumpEof, Drain
<1>6. CASE ~(HandleCommand \/ InstallPendingStart \/ PumpEof \/ Drain)
    BY <1>2, <1>6 DEF WorkerStep, Environment, HandleResetNotice, RestartOk, RestartErr, StoreState,
       OutputStage, PlaybackStep, ConsumeFlush, LoseOutput, RetryElapsed, NoOutputWanted,
       OpenOutput, OutputRefused, Promote, NotYet, StepIdle, StepWithoutSession, StepSession, Pump,
       PumpFatal, worker, starts
<1> QED BY <1>3, <1>4, <1>5, <1>6

\* A start that is opened is installed, or fails.
LEMMA OpeningKept ==
    ASSUME TypeOK, WorkerStep \/ Environment, wpc = "opening", inFlight.epoch = epoch
    PROVE  PlayUnderWay' \/ sessionEpoch' = epoch \/ fileName' = StartError
<1>1. UNCHANGED epoch
    BY WorkerFrame DEF lease
<1>2. CASE InstallSession
    BY <1>2 DEF InstallSession
<1>3. CASE FailStart
    BY <1>3 DEF FailStart
<1>4. CASE OpenStart
    BY <1>4 DEF OpenStart, Drained
<1>5. CASE ~InstallSession /\ ~FailStart /\ ~OpenStart
    BY <1>1, <1>5, LeaseFrame DEF PlayUnderWay
<1> QED BY <1>2, <1>3, <1>4, <1>5

\* A play that was let through and is the newest claim is not lost, whatever the other
\* threads, the track before it and the output do: the safety half of PlaySettles.
THEOREM PlaysAreKept == Spec => PlayKept
<1>1. TypeOK /\ ClaimsKept /\ Unheard /\ FailedFirst /\ [Next]_vars
      => [LastClaim("play") /\ PlayUnderWay
             => \/ PlayUnderWay' \/ epoch' # epoch \/ sessionEpoch' = epoch
                \/ fileName' = StartError]_vars
    <2> SUFFICES ASSUME TypeOK, ClaimsKept, Unheard, FailedFirst, Next, LastClaim("play"),
                        PlayUnderWay, epoch' = epoch
                 PROVE  PlayUnderWay' \/ sessionEpoch' = epoch \/ fileName' = StartError
        OBVIOUS
    <2>1. ASSUME NEW c \in Client, ClientStep(c) PROVE PlayUnderWay'
        BY <2>1, ClientKeepsPlay
    <2>2. CASE WorkerStep \/ Environment
        <3>1. CASE \E c \in Client : cpc[c] = "sending" /\ IsPlay(outbox[c])
            BY <2>2, <3>1, WorkerFrame DEF PlayUnderWay, IsPlay, clients
        <3>2. CASE \E i \in DOMAIN commands : IsPlay(commands[i])
            BY <2>2, <3>2, WorkerTakesPlay
        <3>3. CASE pendingStart # None /\ pendingStart.epoch = epoch
            BY <2>2, <3>3, PendingKept
        <3>4. CASE wpc = "opening" /\ inFlight.epoch = epoch
            BY <2>2, <3>4, OpeningKept
        <3> QED BY <3>1, <3>2, <3>3, <3>4 DEF PlayUnderWay
    <2> QED BY <2>1, <2>2 DEF Next
<1> QED
    BY TypeCorrect, ClaimsAlwaysKept, UnheardAlways, FailedFirstAlways, <1>1, PTL
    DEF Spec, PlayKept

\* A call that claims the epoch for a play has that play under way (player.rs:1012-1060).
THEOREM PlaysAreTaken == Spec => PlayTaken
<1>1. TypeOK /\ ClaimsKept /\ [Next]_vars
      => [LastClaim("play")' /\ epoch' # epoch => PlayUnderWay']_vars
    <2> SUFFICES ASSUME TypeOK, ClaimsKept, Next, LastClaim("play")', epoch' # epoch
                 PROVE  PlayUnderWay'
        OBVIOUS
    <2>1. ~(WorkerStep \/ Environment)
        BY WorkerFrame DEF lease
    <2>2. PICK c \in Client : ClientStep(c)
        BY <2>1 DEF Next
    <2>3. /\ outbox \in [Client -> Command] /\ cpc \in [Client -> ClientPCs]
          /\ outbox[c] \in Command /\ epoch \in Nat
        BY DEF TypeOK, TypeShared, TypeClients
    <2>4. CASE PlayIfEpoch(c)
        <3>1. outbox[c].op \in Plays /\ epoch' = epoch + 1
            BY <2>4 DEF PlayIfEpoch, Claim, ClaimsKept, OutboxClaimed
        <3>2. outbox'[c] = [outbox[c] EXCEPT !.epoch = epoch + 1] /\ cpc'[c] = "sending"
            BY <2>3, <2>4 DEF PlayIfEpoch, Goto
        <3>3. outbox'[c].op = outbox[c].op /\ outbox'[c].epoch = epoch'
            BY <2>3, <3>1, <3>2 DEF Command
        <3> QED BY <3>1, <3>2, <3>3 DEF PlayUnderWay, IsPlay, Plays
    <2>5. CASE Reserve(c) \/ SendNext(c) \/ StopClaim(c)
        <3>1. PICK what \in {"reserve", "next", "stop"} : claims' = Append(claims, what)
            BY <2>5 DEF Reserve, SendNext, StopClaim, Claim
        <3>2. what = "play"
            BY <3>1, NewClaim DEF ClaimsKept, ClaimNames
        <3> QED BY <3>2
    <2>6. PlayIfEpoch(c) \/ Reserve(c) \/ SendNext(c) \/ StopClaim(c)
        BY <2>2 DEF ClientStep, Finish, PlayRefused, AbandonReservation, StopStore, PauseLoad,
           PauseStore, SendPlain, Send, EditQueue, EditStreamQueue, SendClear, PrefetchBegin,
           PrefetchReady, PrefetchAbandon, lease
    <2> QED BY <2>4, <2>5, <2>6
<1> QED BY TypeCorrect, ClaimsAlwaysKept, <1>1, PTL DEF Spec, PlayTaken
=============================================================================
