------------------------- MODULE PlayerEngineProofs -------------------------
(* Theorems about PlayerEngine, for every value of its constants. *)
EXTENDS PlayerEngine, SequenceTheorems, TLAPS

-----------------------------------------------------------------------------
(* The helpers: what the queue operators and the commands are made of. *)

Queues == [file: Seq(Track), stream: Seq(Track), len: Nat, advancing: BOOLEAN]

\* The tracks a play or a queue edit lists are tracks (commands.rs:49, 78).
LEMMA TracksAfterType ==
    ASSUME NEW k \in {"file", "stream"}, NEW e \in Nat, NEW p \in Nat, NEW n \in Nat
    PROVE  TracksAfter(k, e, p, n) \in Seq(Track)
<1>1. \A i \in 1..n : TheTrack(k, e, p + i) \in Track
    BY DEF TheTrack, Track
<1> QED BY <1>1, SeqDef DEF TracksAfter

\* Replacing a queue keeps the queues' type (queue_state.rs:68-78).
LEMMA ReplaceType ==
    ASSUME NEW q \in Queues, NEW new \in Seq(Track)
    PROVE  /\ Queue!ReplaceStreamQueue(q, new) \in Queues
           /\ Queue!ReplaceFileQueue(q, new) \in Queues
           /\ Queue!ReplaceForFileStart(q, new) \in Queues
           /\ Queue!ReplaceForStreamStart(q, new) \in Queues
BY EmptySeq, LenProperties
   DEF Queues, Queue!ReplaceStreamQueue, Queue!ReplaceFileQueue, Queue!ReplaceForFileStart,
       Queue!ReplaceForStreamStart, Queue!EmptyQueues, Queue!ClearAdvancing

\* Clearing the queues, or only the flag, keeps their type (queue_state.rs:136-145).
LEMMA ClearType ==
    ASSUME NEW q \in Queues
    PROVE  Queue!ClearAdvancing(q) \in Queues /\ Queue!ClearAll(q) \in Queues
BY EmptySeq DEF Queues, Queue!ClearAdvancing, Queue!ClearAll, Queue!EmptyQueues

\* The two pops agree: a track comes out of a queue that had one.
LEMMA PopType ==
    ASSUME NEW q \in Queues
    PROVE  Queue!PopTrack(q) \in Track \cup {None} /\ Queue!PopQueues(q) \in Queues
<1>1. CASE q.stream # <<>>
    <2>1. Head(q.stream) \in Track /\ Tail(q.stream) \in Seq(Track)
        BY <1>1, HeadTailProperties DEF Queues
    <2> QED BY <1>1, <2>1, LenProperties DEF Queues, Queue!PopTrack, Queue!PopQueues
<1>2. CASE q.stream = <<>> /\ q.file # <<>>
    <2>1. Head(q.file) \in Track /\ Tail(q.file) \in Seq(Track)
        BY <1>2, HeadTailProperties DEF Queues
    <2> QED BY <1>2, <2>1 DEF Queues, Queue!PopTrack, Queue!PopQueues
<1>3. CASE q.stream = <<>> /\ q.file = <<>>
    BY <1>3, ClearType DEF Queue!PopTrack, Queue!PopQueues
<1> QED BY <1>1, <1>2, <1>3

\* What the end of a track makes of the queues has their type, and what it
\* chooses is a track or nothing (queue_state.rs:113-134).
LEMMA EofType ==
    ASSUME NEW q \in Queues, NEW can \in BOOLEAN, NEW rep \in BOOLEAN,
           NEW path \in Track \cup {None}
    PROVE  /\ Queue!EofTrack(q, can, rep, path) \in Track \cup {None}
           /\ Queue!EofQueues(q, can, rep, path) \in Queues
BY PopType, ClearType DEF Queue!EofTrack, Queue!EofQueues, Queue!Repeats

\* A bare command is a command (commands.rs:42-124).
LEMMA CmdType ==
    ASSUME NEW op \in CommandNames \ QueueCommands, NEW e \in Nat
    PROVE  Cmd(op, e) \in Command /\ Cmd(op, e).epoch = e
BY DEF Cmd, Command

\* A command stays one when a call fills in its fields.
LEMMA CmdUpdate ==
    ASSUME NEW cmd \in Command, NEW e \in Nat, NEW n \in Nat,
           NEW t \in Track \cup {None, StartError}
    PROVE  /\ [cmd EXCEPT !.epoch = e] \in Command
           /\ [cmd EXCEPT !.epoch = e].epoch = e
           /\ [cmd EXCEPT !.len = n] \in Command
           /\ [cmd EXCEPT !.len = n].epoch = cmd.epoch
           /\ [cmd EXCEPT !.current = t] \in Command
           /\ [cmd EXCEPT !.current = t].epoch = cmd.epoch
BY DEF Command

-----------------------------------------------------------------------------
(* Type correctness. *)

\* The engine is well typed when the player is created (worker_state.rs:61-104).
LEMMA InitTypeOK == Init => TypeOK
<1> SUFFICES ASSUME Init PROVE TypeOK OBVIOUS
<1> USE DEF Init
<1>1. NoCommand \in Command
    BY CmdType DEF NoCommand, CommandNames, QueueCommands
<1>2. TypeFlags
    BY DEF TypeFlags
<1>3. /\ state \in States /\ epoch \in Nat /\ fileName \in Track \cup {None, StartError}
      /\ commands \in Seq(Command)
    BY EmptySeq DEF States
<1>4. queues \in [file: Seq(Track), stream: Seq(Track), len: Nat, advancing: BOOLEAN]
    BY EmptySeq DEF Queue!EmptyQueues
<1>5. /\ wpc \in WorkerPCs /\ session \in Track \cup {None} /\ sessionEpoch \in Nat
      /\ currentFilePath \in Track \cup {None} /\ pendingStart \in Start \cup {None}
      /\ activeStream \in Outputs \cup {"none"} /\ ring \subseteq Nat
      /\ inFlight \in Start \cup {None}
    BY DEF WorkerPCs
<1>6. /\ restart \in [why: {"none", "config", "device", "rate"}, previous: States]
      /\ about \in [to: States, next: {"top", "drain", "pumping"}]
    BY DEF NoRestart, Nothing, States
<1>7. /\ cpc \in [Client -> ClientPCs] /\ outbox \in [Client -> Command]
      /\ claims \in Seq(ClaimNames) /\ calls \in Nat /\ faults \in Nat
    BY <1>1, EmptySeq DEF ClientPCs
<1>8. Located
    BY DEF Located
<1> QED
    BY <1>2, <1>3, <1>4, <1>5, <1>6, <1>7, <1>8 DEF TypeOK, TypeShared, TypeWorker, TypeClients

\* No call touches what is the worker's.
LEMMA ClientFrame ==
    ASSUME NEW c \in Client, ClientStep(c)
    PROVE  UNCHANGED worker /\ UNCHANGED faults
BY DEF ClientStep, Finish, Reserve, PlayIfEpoch, PlayRefused, AbandonReservation, SendNext,
       StopClaim, StopStore, PauseLoad, PauseStore, SendPlain, Send, EditQueue, EditStreamQueue,
       SendClear, PrefetchBegin, PrefetchReady, PrefetchAbandon

\* What a call leaves in its outbox names the epoch it claimed, one it read, or none.
Prepared(c) ==
    \E cmd \in Command : /\ cmd.epoch \in {outbox[c].epoch, epoch, epoch', 0}
                         /\ outbox' = [outbox EXCEPT ![c] = cmd]

\* What a call prepares to send is a command, whatever the call.
LEMMA OutboxType ==
    ASSUME TypeOK, NEW c \in Client, ClientStep(c)
    PROVE  UNCHANGED outbox \/ Prepared(c)
<1>1. /\ outbox \in [Client -> Command] /\ outbox[c] \in Command
      /\ epoch \in Nat /\ epoch + 1 \in Nat /\ fileName \in Track \cup {None, StartError}
    BY DEF TypeOK, TypeShared, TypeClients
<1>0. /\ {"Play", "PlayStream", "Next", "Stop", "Pause"} \subseteq CommandNames \ QueueCommands
      /\ {"SetQueue", "SetStreamQueue"} = QueueCommands
      /\ CommandNames \ (EpochCommands \cup {"Pause"}) \subseteq CommandNames \ QueueCommands
    BY DEF CommandNames, EpochCommands, QueueCommands
<1>2. /\ NoCommand \in Command /\ NoCommand.epoch = 0
      /\ outbox[c].after \in Track \cup {None}
    BY <1>0, <1>1, CmdType DEF NoCommand, Command
<1> USE DEF Prepared, Prepare
<1>3. CASE Reserve(c)
    <2>1. epoch' = epoch + 1
        BY <1>3 DEF Reserve, Claim
    <2>2. CASE \E n \in 0..MaxQueue : Prepare(c, [Cmd("Play", epoch + 1) EXCEPT !.len = n])
        <3>1. PICK n \in 0..MaxQueue : Prepare(c, [Cmd("Play", epoch + 1) EXCEPT !.len = n])
            BY <2>2
        <3>2. n \in Nat
            BY MaxAssumption
        <3>3. /\ [Cmd("Play", epoch + 1) EXCEPT !.len = n] \in Command
              /\ [Cmd("Play", epoch + 1) EXCEPT !.len = n].epoch = epoch'
            BY <1>1, <2>1, <3>2 DEF Cmd, Command, CommandNames, EpochCommands, QueueCommands
        <3> QED BY <3>1, <3>3
    <2>3. CASE Prepare(c, Cmd("PlayStream", epoch + 1))
        <3>1. /\ Cmd("PlayStream", epoch + 1) \in Command
              /\ Cmd("PlayStream", epoch + 1).epoch = epoch'
            BY <1>0, <1>1, <2>1, CmdType
        <3> QED BY <2>3, <3>1
    <2> QED BY <1>3, <2>2, <2>3 DEF Reserve
<1>4. CASE PlayIfEpoch(c)
    <2>1. /\ [outbox[c] EXCEPT !.epoch = epoch + 1] \in Command
          /\ [outbox[c] EXCEPT !.epoch = epoch + 1].epoch = epoch + 1
        BY <1>1, CmdUpdate
    <2>2. outbox' = [outbox EXCEPT ![c] = [outbox[c] EXCEPT !.epoch = epoch + 1]]
        BY <1>1, <1>4 DEF PlayIfEpoch
    <2> QED BY <1>4, <2>1, <2>2 DEF PlayIfEpoch, Claim
<1>5. CASE PlayRefused(c) \/ AbandonReservation(c) \/ PrefetchAbandon(c) \/ Send(c)
    BY <1>2, <1>5 DEF PlayRefused, AbandonReservation, PrefetchAbandon, Send, Return
<1>6. CASE SendNext(c) \/ StopClaim(c) \/ PauseLoad(c)
    <2>1. /\ Cmd("Next", epoch + 1) \in Command /\ Cmd("Next", epoch + 1).epoch = epoch + 1
          /\ Cmd("Stop", epoch + 1) \in Command /\ Cmd("Stop", epoch + 1).epoch = epoch + 1
          /\ Cmd("Pause", 0) \in Command /\ Cmd("Pause", 0).epoch = 0
        BY <1>0, <1>1, CmdType
    <2> QED BY <1>6, <2>1 DEF SendNext, StopClaim, PauseLoad, Claim
<1>7. CASE StopStore(c) \/ PauseStore(c)
    BY <1>7 DEF StopStore, PauseStore
<1>8. CASE SendPlain(c)
    <2>1. PICK op \in CommandNames \ (EpochCommands \cup {"Pause"}), on \in BOOLEAN :
              Prepare(c, [Cmd(op, 0) EXCEPT !.on = on])
        BY <1>8 DEF SendPlain
    <2>2. [Cmd(op, 0) EXCEPT !.on = on] \in Command /\ [Cmd(op, 0) EXCEPT !.on = on].epoch = 0
        BY DEF Cmd, Command, CommandNames, EpochCommands, QueueCommands
    <2> QED BY <2>1, <2>2
<1>9. CASE SendClear(c)
    <2>1. /\ [outbox[c] EXCEPT !.len = 1] \in Command
          /\ [outbox[c] EXCEPT !.len = 1].epoch = outbox[c].epoch
        BY <1>1, CmdUpdate
    <2>2. outbox' = [outbox EXCEPT ![c] = [outbox[c] EXCEPT !.len = 1]]
        BY <1>1, <1>9 DEF SendClear
    <2> QED BY <2>1, <2>2
<1>10. CASE EditQueue(c)
    <2>1. PICK n \in 0..MaxQueue :
              Prepare(c, [Cmd("SetQueue", epoch) EXCEPT !.len = n, !.after = fileName])
        BY <1>10 DEF EditQueue
    <2>2. n \in Nat /\ fileName \in Track
        BY <1>10, MaxAssumption DEF EditQueue
    <2>3. /\ [Cmd("SetQueue", epoch) EXCEPT !.len = n, !.after = fileName] \in Command
          /\ [Cmd("SetQueue", epoch) EXCEPT !.len = n, !.after = fileName].epoch = epoch
        BY <1>1, <2>2 DEF Cmd, Command, CommandNames, EpochCommands, QueueCommands
    <2> QED BY <2>1, <2>3
<1>11. CASE EditStreamQueue(c) \/ PrefetchBegin(c)
    <2>1. fileName \in Track
        BY <1>11 DEF EditStreamQueue, PrefetchBegin
    <2> DEFINE fetch == [Cmd("SetStreamQueue", epoch) EXCEPT !.len = 1, !.after = fileName]
               empty == [Cmd("SetStreamQueue", epoch) EXCEPT !.after = fileName,
                                                             !.current = fileName]
    <2>2. fetch \in Command /\ fetch.epoch = epoch /\ empty \in Command /\ empty.epoch = epoch
        BY <1>1, <2>1 DEF Cmd, Command, CommandNames, EpochCommands, QueueCommands
    <2>3. Prepare(c, fetch) \/ Prepare(c, empty)
        BY <1>11 DEF EditStreamQueue, PrefetchBegin
    <2> HIDE DEF fetch, empty
    <2> QED BY <2>2, <2>3
<1>12. CASE PrefetchReady(c)
    <2> DEFINE shown == IF fileName = None THEN outbox[c].after ELSE fileName
    <2>0. shown \in Track \cup {None, StartError}
        BY <1>1, <1>2
    <2>1. /\ [outbox[c] EXCEPT !.current = shown] \in Command
          /\ [outbox[c] EXCEPT !.current = shown].epoch = outbox[c].epoch
        <3>1. outbox[c] \in Command
            BY <1>1
        <3> HIDE DEF shown
        <3> QED BY <2>0, <3>1 DEF Command
    <2>2. outbox' = [outbox EXCEPT ![c] = [outbox[c] EXCEPT !.current = shown]]
        BY <1>1, <1>12 DEF PrefetchReady
    <2> QED BY <2>1, <2>2
<1> QED
    BY <1>3, <1>4, <1>5, <1>6, <1>7, <1>8, <1>9, <1>10, <1>11, <1>12
    DEF ClientStep, Finish

\* What else a call does: it may claim the next epoch, store a state and send what
\* is in its outbox.
LEMMA ClientEffects ==
    ASSUME NEW c \in Client, ClientStep(c)
    PROVE  /\ epoch' \in {epoch, epoch + 1}
           /\ claims' = claims \/ \E what \in ClaimNames : claims' = Append(claims, what)
           /\ state' \in {state, "Stopped", "Paused"}
           /\ calls' \in {calls, calls + 1}
           /\ commands' = commands \/ commands' = Append(commands, outbox[c])
<1> USE DEF lease, Begin, Claim
<1>1. epoch' \in {epoch, epoch + 1}
    BY DEF ClientStep, Finish, Reserve, PlayIfEpoch, PlayRefused, AbandonReservation, SendNext,
           StopClaim, StopStore, PauseLoad, PauseStore, SendPlain, Send, EditQueue,
           EditStreamQueue, SendClear, PrefetchBegin, PrefetchReady, PrefetchAbandon
<1>2. claims' = claims \/ \E what \in ClaimNames : claims' = Append(claims, what)
    BY DEF ClientStep, Finish, Reserve, PlayIfEpoch, PlayRefused, AbandonReservation, SendNext,
           StopClaim, StopStore, PauseLoad, PauseStore, SendPlain, Send, EditQueue,
           EditStreamQueue, SendClear, PrefetchBegin, PrefetchReady, PrefetchAbandon,
           ClaimNames
<1>3. state' \in {state, "Stopped", "Paused"}
    BY DEF ClientStep, Finish, Reserve, PlayIfEpoch, PlayRefused, AbandonReservation, SendNext,
           StopClaim, StopStore, PauseLoad, PauseStore, SendPlain, Send, EditQueue,
           EditStreamQueue, SendClear, PrefetchBegin, PrefetchReady, PrefetchAbandon
<1>4. calls' \in {calls, calls + 1}
    BY DEF ClientStep, Finish, Reserve, PlayIfEpoch, PlayRefused, AbandonReservation, SendNext,
           StopClaim, StopStore, PauseLoad, PauseStore, SendPlain, Send, EditQueue,
           EditStreamQueue, SendClear, PrefetchBegin, PrefetchReady, PrefetchAbandon
<1>5. commands' = commands \/ commands' = Append(commands, outbox[c])
    BY DEF ClientStep, Finish, Reserve, PlayIfEpoch, PlayRefused, AbandonReservation, SendNext,
           StopClaim, StopStore, PauseLoad, PauseStore, SendPlain, Send, EditQueue,
           EditStreamQueue, SendClear, PrefetchBegin, PrefetchReady, PrefetchAbandon
<1> QED BY <1>1, <1>2, <1>3, <1>4, <1>5

\* A call leaves what clients own, and what they share with the worker, well typed.
LEMMA ClientTypes ==
    ASSUME TypeOK, NEW c \in Client, ClientStep(c)
    PROVE  /\ epoch' \in Nat /\ state' \in States /\ commands' \in Seq(Command)
           /\ cpc' \in [Client -> ClientPCs] /\ claims' \in Seq(ClaimNames)
           /\ calls' \in Nat
<1>1. /\ epoch \in Nat /\ state \in States /\ calls \in Nat /\ claims \in Seq(ClaimNames)
      /\ commands \in Seq(Command) /\ outbox[c] \in Command /\ cpc \in [Client -> ClientPCs]
    BY DEF TypeOK, TypeShared, TypeClients
<1>2. epoch' \in Nat /\ state' \in States /\ calls' \in Nat
    BY <1>1, ClientEffects DEF States
<1>3. \E pc \in ClientPCs : cpc' = [cpc EXCEPT ![c] = pc]
    <2> USE DEF Goto, Return
    <2>1. CASE PauseLoad(c) \/ PrefetchReady(c)
        BY <2>1 DEF PauseLoad, PrefetchReady, ClientPCs
    <2>2. CASE \/ Reserve(c) \/ PlayIfEpoch(c) \/ SendNext(c) \/ StopClaim(c) \/ StopStore(c)
               \/ PauseStore(c) \/ SendPlain(c) \/ EditQueue(c)
        BY <2>2 DEF Reserve, PlayIfEpoch, SendNext, StopClaim, StopStore, PauseStore, SendPlain,
                    EditQueue, ClientPCs
    <2>3. CASE \/ PlayRefused(c) \/ AbandonReservation(c) \/ Send(c) \/ PrefetchAbandon(c)
               \/ EditStreamQueue(c) \/ SendClear(c) \/ PrefetchBegin(c)
        BY <2>3 DEF PlayRefused, AbandonReservation, Send, PrefetchAbandon, EditStreamQueue,
                    SendClear, PrefetchBegin, ClientPCs
    <2> QED BY <2>1, <2>2, <2>3 DEF ClientStep, Finish
<1>4. commands' \in Seq(Command) /\ claims' \in Seq(ClaimNames)
    <2>1. Append(commands, outbox[c]) \in Seq(Command)
        BY <1>1, AppendProperties
    <2>2. \A what \in ClaimNames : Append(claims, what) \in Seq(ClaimNames)
        BY <1>1, AppendProperties
    <2> QED BY <1>1, ClientEffects, <2>1, <2>2
<1>5. cpc' \in [Client -> ClientPCs]
    BY <1>1, <1>3
<1> QED BY <1>2, <1>4, <1>5

\* No call of the Player breaks TypeOK.
LEMMA ClientTypeOK ==
    ASSUME TypeOK, NEW c \in Client, ClientStep(c)
    PROVE  TypeOK'
<1>1. UNCHANGED worker /\ UNCHANGED faults
    BY ClientFrame
<1> USE DEF TypeOK, worker, player, starts, stream, output, locals
<1>2. TypeShared'
    BY <1>1, ClientTypes DEF TypeShared
<1>3. TypeFlags'
    BY <1>1 DEF TypeFlags
<1>4. TypeWorker'
    BY <1>1 DEF TypeWorker
<1>5. Located'
    BY <1>1 DEF Located
<1>6. outbox' \in [Client -> Command]
    BY OutboxType DEF TypeClients, Prepared
<1>7. TypeClients'
    BY <1>1, <1>6, ClientTypes DEF TypeClients
<1> QED BY <1>2, <1>3, <1>4, <1>5, <1>7

-----------------------------------------------------------------------------
(* The worker's steps, conjunct by conjunct. *)

\* The worker claims nothing and leaves the clients alone.
LEMMA WorkerFrame ==
    ASSUME WorkerStep \/ Environment
    PROVE  UNCHANGED lease /\ UNCHANGED clients
BY DEF WorkerStep, Environment, HandleResetNotice, HandleCommand, RestartOk, RestartErr,
       StoreState, InstallPendingStart, OutputStage, PlaybackStep, ConsumeFlush, LoseOutput,
       RetryElapsed, HandlePlay, HandlePlayStream, HandleNext, HandleStop, HandleSetQueue,
       HandleSetStreamQueue, HandleSetRepeatOne, HandlePause, HandleResume, HandleSeek,
       HandleApplyPlaybackConfig, HandleSelectDevice, HandleReopenOutput, DropStale,
       NoPendingStart, DropStaleStart, OpenStart, InstallSession, FailStart, NoOutputWanted,
       OpenOutput, OutputRefused, Promote, NotYet, StepIdle, StepWithoutSession, StepSession,
       Pump, PumpFatal, PumpEof, Drain

\* The count of faults stays a number whatever the worker does.
LEMMA FaultsType ==
    ASSUME WorkerStep \/ Environment, faults \in Nat
    PROVE  faults' \in Nat
BY DEF WorkerStep, Environment, HandleResetNotice, HandleCommand, RestartOk, RestartErr,
       StoreState, InstallPendingStart, OutputStage, PlaybackStep, ConsumeFlush, LoseOutput,
       RetryElapsed, HandlePlay, HandlePlayStream, HandleNext, HandleStop, HandleSetQueue,
       HandleSetStreamQueue, HandleSetRepeatOne, HandlePause, HandleResume, HandleSeek,
       HandleApplyPlaybackConfig, HandleSelectDevice, HandleReopenOutput, DropStale,
       NoPendingStart, DropStaleStart, OpenStart, InstallSession, FailStart, NoOutputWanted,
       OpenOutput, OutputRefused, Promote, NotYet, StepIdle, StepWithoutSession, StepSession,
       Pump, PumpFatal, PumpEof, Drain

\* The command a handler takes is one that was sent.
LEMMA FirstCommandType ==
    ASSUME TypeOK, NEW cmd \in FirstCommand
    PROVE  cmd \in Command /\ Tail(commands) \in Seq(Command)
BY HeadTailProperties DEF TypeOK, TypeShared, FirstCommand

\* What the flags of the worker and the output are set to.
LEMMA FlagsType ==
    ASSUME TypeOK, WorkerStep \/ Environment
    PROVE  TypeFlags'
<1>0. TypeFlags
    BY DEF TypeOK
<1> USE <1>0 DEF TypeFlags, worker, player, starts, stream, output, locals
<1>1. CASE HandleResetNotice
    BY <1>1 DEF HandleResetNotice, ResetPipeline, DropOutput, DropStream
<1>2. CASE HandlePlay
    BY <1>2 DEF HandlePlay, StartNext
<1>3. CASE HandlePlayStream
    BY <1>3 DEF HandlePlayStream, StartNext
<1>4. CASE HandleNext
    BY <1>4 DEF HandleNext, StartNext, ClearNowPlaying, NoSession
<1>5. CASE HandleStop
    BY <1>5 DEF HandleStop, ClearNowPlaying, NoSession
<1>6. CASE HandleSetQueue
    BY <1>6 DEF HandleSetQueue
<1>7. CASE HandleSetStreamQueue
    BY <1>7 DEF HandleSetStreamQueue
<1>8. CASE HandlePause
    BY <1>8 DEF HandlePause
<1>9. CASE HandleResume
    BY <1>9 DEF HandleResume
<1>10. CASE HandleSeek
    BY <1>10 DEF HandleSeek, ApplySeek
<1>11. CASE HandleApplyPlaybackConfig
    BY <1>11 DEF HandleApplyPlaybackConfig, ResetPipeline, DropOutput, DropStream
<1>12. CASE HandleSelectDevice
    BY <1>12 DEF HandleSelectDevice, ResetPipeline, DropOutput, DropStream
<1>13. CASE HandleReopenOutput
    BY <1>13 DEF HandleReopenOutput, ResetPipeline, DropOutput, DropStream
<1>14. CASE DropStale
    BY <1>14 DEF DropStale
<1>15. CASE RestartOk
    BY <1>15 DEF RestartOk
<1>16. CASE RestartErr
    BY <1>16 DEF RestartErr
<1>17. CASE StoreState
    BY <1>17 DEF StoreState
<1>18. CASE NoPendingStart
    BY <1>18 DEF NoPendingStart
<1>19. CASE DropStaleStart
    BY <1>19 DEF DropStaleStart
<1>20. CASE OpenStart
    BY <1>20 DEF OpenStart, Boundary, DropStream
<1>21. CASE InstallSession
    BY <1>21 DEF InstallSession, DropOutput, DropStream, NowShow
<1>22. CASE FailStart
    BY <1>22 DEF FailStart
<1>23. CASE NoOutputWanted
    BY <1>23 DEF NoOutputWanted
<1>24. CASE OpenOutput
    BY <1>24 DEF OpenOutput, PendingFlush
<1>25. CASE OutputRefused
    BY <1>25 DEF OutputRefused, PendingFlush
<1>26. CASE Promote
    BY <1>26 DEF Promote
<1>27. CASE NotYet
    BY <1>27 DEF NotYet
<1>28. CASE StepIdle
    BY <1>28 DEF StepIdle
<1>29. CASE StepWithoutSession
    BY <1>29 DEF StepWithoutSession
<1>30. CASE StepSession
    BY <1>30 DEF StepSession, ApplySeek
<1>31. CASE Pump
    BY <1>31 DEF Pump
<1>32. CASE PumpFatal
    BY <1>32 DEF PumpFatal
<1>33. CASE PumpEof
    BY <1>33 DEF PumpEof, NoSession
<1>34. CASE Drain
    BY <1>34 DEF Drain, ResetPipeline, DropOutput, DropStream, NoSession, ClearNowPlaying
<1>35. CASE ConsumeFlush
    BY <1>35 DEF ConsumeFlush
<1>36. CASE LoseOutput
    BY <1>36 DEF LoseOutput
<1>37. CASE RetryElapsed
    BY <1>37 DEF RetryElapsed
<1>38. CASE HandleSetRepeatOne
    <2>1. PICK cmd \in FirstCommand : HandleSetRepeatOne!(cmd)
        BY <1>38 DEF HandleSetRepeatOne
    <2>2. repeatOne' \in BOOLEAN
        BY <2>1, FirstCommandType DEF Command
    <2> QED BY <2>1, <2>2
<1> QED BY <1>1, <1>2, <1>3, <1>4, <1>5, <1>6, <1>7, <1>8, <1>9, <1>10, <1>11, <1>12, <1>13,
           <1>14, <1>15, <1>16, <1>17, <1>18, <1>19, <1>20, <1>21, <1>22, <1>23, <1>24, <1>25,
           <1>26, <1>27, <1>28, <1>29, <1>30, <1>31, <1>32, <1>33, <1>34, <1>35, <1>36, <1>37,
           <1>38
       DEF WorkerStep, HandleCommand, InstallPendingStart, OutputStage, PlaybackStep, Environment

\* The list a command carries: tracks behind the one the command is about.
LEMMA UpcomingType ==
    ASSUME NEW cmd \in Command
    PROVE  /\ TracksAfter("file", cmd.epoch, 0, cmd.len) \in Seq(Track)
           /\ cmd.op \in QueueCommands =>
                 \A k \in {"file", "stream"} : UpcomingAfter(k, cmd) \in Seq(Track)
<1>1. cmd.epoch \in Nat /\ cmd.len \in Nat
    BY DEF Command
<1>2. ASSUME cmd.op \in QueueCommands PROVE cmd.after.by \in Nat /\ cmd.after.place \in Nat
    BY <1>2 DEF Command, Track
<1> QED BY <1>1, <1>2, TracksAfterType DEF UpcomingAfter

\* Where the worker goes it finds what it needs.
LEMMA LocatedType ==
    ASSUME TypeOK, WorkerStep \/ Environment
    PROVE  Located'
<1>0. Located /\ about.next \in {"top", "drain", "pumping"}
    BY DEF TypeOK, TypeWorker
<1> USE <1>0 DEF Located, worker, player, starts, stream, output, locals, Take, ThenStore,
                 ApplySeek
<1>1. CASE HandlePlay \/ HandlePlayStream \/ HandleNext \/ HandleStop \/ HandleSetRepeatOne
    BY <1>1 DEF HandlePlay, HandlePlayStream, HandleNext, HandleStop, HandleSetRepeatOne
<1>2. CASE \/ HandleSetQueue \/ HandleSetStreamQueue \/ HandlePause \/ HandleResume
           \/ HandleSeek \/ DropStale
    BY <1>2 DEF HandleSetQueue, HandleSetStreamQueue, HandlePause, HandleResume, HandleSeek,
                DropStale
<1>3. CASE HandleApplyPlaybackConfig \/ HandleSelectDevice \/ HandleReopenOutput
    BY <1>3 DEF HandleApplyPlaybackConfig, HandleSelectDevice, HandleReopenOutput, BeginRestart
<1>4. CASE HandleResetNotice \/ RestartOk \/ RestartErr \/ StoreState
    BY <1>4 DEF HandleResetNotice, RestartOk, RestartErr, StoreState, AfterRestart, Nothing
<1>5. CASE NoPendingStart \/ DropStaleStart \/ OpenStart \/ InstallSession \/ FailStart
    BY <1>5 DEF NoPendingStart, DropStaleStart, OpenStart, InstallSession, FailStart
<1>6. CASE OutputStage
    BY <1>6 DEF OutputStage, NoOutputWanted, OpenOutput, OutputRefused, Promote, NotYet,
                BeginRestart
<1>7. CASE PlaybackStep
    BY <1>7 DEF PlaybackStep, StepIdle, StepWithoutSession, StepSession, Pump, PumpFatal, PumpEof,
                Drain
<1>8. CASE Environment
    BY <1>8 DEF Environment, ConsumeFlush, LoseOutput, RetryElapsed
<1> QED
    BY <1>1, <1>2, <1>3, <1>4, <1>5, <1>6, <1>7, <1>8
    DEF WorkerStep, HandleCommand, InstallPendingStart

\* The worker takes its commands one at a time, in the order they were sent.
LEMMA WorkerCommands ==
    ASSUME TypeOK, WorkerStep \/ Environment
    PROVE  commands' = commands \/ (commands # <<>> /\ commands' = Tail(commands))
<1>1. CASE HandleCommand
    BY <1>1 DEF HandleCommand, HandlePlay, HandlePlayStream, HandleNext, HandleStop,
                HandleSetQueue, HandleSetStreamQueue, HandleSetRepeatOne, HandlePause,
                HandleResume, HandleSeek, HandleApplyPlaybackConfig, HandleSelectDevice,
                HandleReopenOutput, DropStale, FirstCommand, Take
<1>2. CASE ~HandleCommand
    BY <1>2 DEF WorkerStep, Environment, HandleResetNotice, RestartOk, RestartErr, StoreState,
               InstallPendingStart, OutputStage, PlaybackStep, ConsumeFlush, LoseOutput,
               RetryElapsed, NoPendingStart, DropStaleStart, OpenStart, InstallSession,
               FailStart, NoOutputWanted, OpenOutput, OutputRefused, Promote, NotYet, StepIdle,
               StepWithoutSession, StepSession, Pump, PumpFatal, PumpEof, Drain
<1> QED BY <1>1, <1>2

\* What the worker leaves in the channel, the queues and what other threads read.
LEMMA SharedType ==
    ASSUME TypeOK, WorkerStep \/ Environment
    PROVE  TypeShared'
<1> USE DEF TypeOK, TypeShared, TypeWorker, worker, lease
<1>1. commands' \in Seq(Command)
    <2>1. commands # <<>> => Tail(commands) \in Seq(Command)
        BY HeadTailProperties
    <2> QED BY <2>1, WorkerCommands
<1>2. queues' \in Queues
    <2>1. queues \in Queues /\ <<>> \in Seq(Track)
        BY EmptySeq DEF Queues
    <2>2. CASE HandlePlay
        BY <2>1, <2>2, FirstCommandType, UpcomingType, ReplaceType DEF HandlePlay
    <2>3. CASE HandlePlayStream
        <3>1. Queue!ReplaceForStreamStart(queues, <<>>) \in Queues
            BY <2>1, ReplaceType
        <3> QED BY <2>3, <3>1 DEF HandlePlayStream
    <2>4. CASE HandleNext \/ FailStart
        BY <2>1, <2>4, PopType, ClearType DEF HandleNext, FailStart
    <2>5. CASE HandleStop \/ DropStaleStart \/ InstallSession
        BY <2>1, <2>5, ClearType DEF HandleStop, DropStaleStart, InstallSession
    <2>6. CASE HandleSetQueue
        <3>1. PICK cmd \in FirstCommand : HandleSetQueue!(cmd)
            BY <2>6 DEF HandleSetQueue
        <3>2. UpcomingAfter("file", cmd) \in Seq(Track)
            BY <3>1, FirstCommandType, UpcomingType DEF Take, QueueCommands
        <3> QED BY <2>1, <3>1, <3>2, ReplaceType
    <2>7. CASE HandleSetStreamQueue
        <3>1. PICK cmd \in FirstCommand : HandleSetStreamQueue!(cmd)
            BY <2>7 DEF HandleSetStreamQueue
        <3>2. UpcomingAfter("stream", cmd) \in Seq(Track)
            BY <3>1, FirstCommandType, UpcomingType DEF Take, QueueCommands
        <3> QED BY <2>1, <3>1, <3>2, ReplaceType
    <2>8. CASE PumpEof
        <3>1. CanAdvance \in BOOLEAN /\ repeatOne \in BOOLEAN
            BY DEF CanAdvance, TypeFlags
        <3> QED BY <2>1, <2>8, <3>1, EofType DEF PumpEof
    <2>9. CASE Drain
        BY <2>1, <2>9, ClearType DEF Drain
    <2>10. CASE UNCHANGED queues
        BY <2>1, <2>10
    <2>11. HandleCommand =>
               \/ HandlePlay \/ HandlePlayStream \/ HandleNext \/ HandleStop
               \/ HandleSetQueue \/ HandleSetStreamQueue \/ UNCHANGED queues
        BY DEF HandleCommand, HandleSetRepeatOne, HandlePause, HandleResume, HandleSeek,
               HandleApplyPlaybackConfig, HandleSelectDevice, HandleReopenOutput, DropStale
    <2>12. WorkerStep \/ Environment =>
               \/ HandleCommand \/ FailStart \/ DropStaleStart \/ InstallSession
               \/ PumpEof \/ Drain \/ UNCHANGED queues
        BY DEF WorkerStep, Environment, HandleResetNotice, RestartOk, RestartErr, StoreState,
               InstallPendingStart, OutputStage, PlaybackStep, ConsumeFlush, LoseOutput,
               RetryElapsed, NoPendingStart, DropStaleStart, OpenStart, InstallSession,
               FailStart, NoOutputWanted, OpenOutput, OutputRefused, Promote, NotYet, StepIdle,
               StepWithoutSession, StepSession, Pump, PumpFatal, PumpEof, Drain
    <2> QED
        BY <2>2, <2>3, <2>4, <2>5, <2>6, <2>7, <2>8, <2>9, <2>10, <2>11, <2>12
<1>3. state' \in States
    <2>1. CASE HandleCommand
        BY <2>1 DEF HandleCommand, HandlePlay, HandlePlayStream, HandleNext, HandleStop,
                    HandleSetQueue, HandleSetStreamQueue, HandleSetRepeatOne, HandlePause,
                    HandleResume, HandleSeek, HandleApplyPlaybackConfig, HandleSelectDevice,
                    HandleReopenOutput, DropStale, BeginRestart, States
    <2>2. CASE HandleResetNotice \/ RestartOk \/ RestartErr \/ StoreState
        BY <2>2 DEF HandleResetNotice, RestartOk, RestartErr, StoreState, StateAfterRestart, States
    <2>3. CASE InstallPendingStart
        BY <2>3 DEF InstallPendingStart, NoPendingStart, DropStaleStart, OpenStart, Boundary,
                    InstallSession, FailStart, States
    <2>4. CASE OutputStage
        BY <2>4 DEF OutputStage, NoOutputWanted, OpenOutput, OutputRefused, Promote, NotYet,
                    BeginRestart, States
    <2>5. CASE PlaybackStep \/ Environment
        BY <2>5 DEF PlaybackStep, StepIdle, StepWithoutSession, StepSession, Pump, PumpFatal,
                    PumpEof, Drain, Environment, ConsumeFlush, LoseOutput, RetryElapsed, States
    <2> QED BY <2>1, <2>2, <2>3, <2>4, <2>5 DEF WorkerStep
<1>4. fileName' \in Track \cup {None, StartError}
    <2>1. CASE HandleCommand
        BY <2>1 DEF HandleCommand, HandlePlay, HandlePlayStream, HandleNext, HandleStop,
                    HandleSetQueue, HandleSetStreamQueue, HandleSetRepeatOne, HandlePause,
                    HandleResume, HandleSeek, HandleApplyPlaybackConfig, HandleSelectDevice,
                    HandleReopenOutput, DropStale, ClearNowPlaying
    <2>2. CASE InstallSession
        BY <2>2 DEF InstallSession, NowShow, Start, Located
    <2>3. fileName' \in {fileName, None, StartError} \/ HandleCommand \/ InstallSession
        BY DEF WorkerStep, Environment, HandleResetNotice, RestartOk, RestartErr, StoreState,
               InstallPendingStart, OutputStage, PlaybackStep, ConsumeFlush, LoseOutput,
               RetryElapsed, NoPendingStart, DropStaleStart, OpenStart, InstallSession,
               FailStart, NoOutputWanted, OpenOutput, OutputRefused, Promote, NotYet, StepIdle,
               StepWithoutSession, StepSession, Pump, PumpFatal, PumpEof, Drain, ClearNowPlaying
    <2> QED BY <2>1, <2>2, <2>3
<1>5. epoch' \in Nat
    BY WorkerFrame
<1> QED BY <1>1, <1>2, <1>3, <1>4, <1>5 DEF Queues

\* What follows a track that ends is a track, under the epoch of its session.
LEMMA EofStartType ==
    ASSUME TypeOK
    PROVE  EofStart \in Start \cup {None}
<1>1. EofTrack \in Track \cup {None}
    <2>1. CanAdvance \in BOOLEAN /\ repeatOne \in BOOLEAN
        BY DEF CanAdvance, TypeOK, TypeFlags
    <2> QED BY <2>1, EofType DEF EofTrack, TypeOK, TypeShared, TypeWorker, Queues
<1> QED BY <1>1 DEF EofStart, Start, TypeOK, TypeWorker

\* What the worker keeps for itself.
LEMMA WorkerType ==
    ASSUME TypeOK, WorkerStep \/ Environment
    PROVE  TypeWorker'
<1>0. TypeWorker /\ Located
    BY DEF TypeOK
<1> USE <1>0 DEF TypeWorker, worker, player, starts, stream, output, locals
<1>1. pendingStart' \in Start \cup {None}
    <2>1. CASE HandlePlay \/ HandlePlayStream \/ HandleNext
        <3>1. PICK cmd \in FirstCommand : HandlePlay!(cmd) \/ HandlePlayStream!(cmd) \/ HandleNext!(cmd)
            BY <2>1 DEF HandlePlay, HandlePlayStream, HandleNext
        <3>2. cmd.epoch \in Nat
            BY FirstCommandType DEF Command
        <3>3. /\ TheTrack("file", cmd.epoch, 0) \in Track
              /\ TheTrack("stream", cmd.epoch, 0) \in Track
              /\ Queue!PopTrack(queues) \in Track \cup {None}
            BY <3>2, PopType DEF TheTrack, Track, TypeOK, TypeShared, Queues
        <3> QED BY <3>1, <3>2, <3>3 DEF StartNext, Start
    <2>2. CASE FailStart
        <3>1. Queue!PopTrack(queues) \in Track \cup {None} /\ epoch \in Nat
            BY PopType DEF TypeOK, TypeShared, Queues
        <3> QED BY <2>2, <3>1 DEF FailStart, Start
    <2>3. CASE PumpEof
        BY <2>3, EofStartType DEF PumpEof
    <2>4. CASE Drain
        BY <2>4 DEF Drain
    <2>5. HandleCommand =>
              HandlePlay \/ HandlePlayStream \/ HandleNext \/ pendingStart' \in {pendingStart, None}
        BY DEF HandleCommand, HandleStop, HandleSetQueue, HandleSetStreamQueue, HandleSetRepeatOne,
               HandlePause, HandleResume, HandleSeek, HandleApplyPlaybackConfig,
               HandleSelectDevice, HandleReopenOutput, DropStale
    <2>6. \/ HandleCommand \/ FailStart \/ PumpEof \/ Drain
          \/ pendingStart' \in {pendingStart, None}
        BY DEF WorkerStep, Environment, HandleResetNotice, RestartOk, RestartErr, StoreState,
               InstallPendingStart, OutputStage, PlaybackStep, ConsumeFlush, LoseOutput,
               RetryElapsed, NoPendingStart, DropStaleStart, OpenStart, InstallSession,
               FailStart, NoOutputWanted, OpenOutput, OutputRefused, Promote, NotYet, StepIdle,
               StepWithoutSession, StepSession, Pump, PumpFatal, PumpEof, Drain
    <2> QED BY <2>1, <2>2, <2>3, <2>4, <2>5, <2>6
<1>2. inFlight' \in Start \cup {None}
    <2>1. CASE PumpEof
        BY <2>1, EofStartType DEF PumpEof
    <2>2. HandleCommand => UNCHANGED inFlight
        BY DEF HandleCommand, HandlePlay, HandlePlayStream, HandleNext, HandleStop,
               HandleSetQueue, HandleSetStreamQueue, HandleSetRepeatOne, HandlePause, HandleResume,
               HandleSeek, HandleApplyPlaybackConfig, HandleSelectDevice, HandleReopenOutput,
               DropStale
    <2>3. HandleCommand \/ PumpEof \/ inFlight' \in {inFlight, pendingStart, None}
        BY DEF WorkerStep, Environment, HandleResetNotice, RestartOk, RestartErr, StoreState,
               InstallPendingStart, OutputStage, PlaybackStep, ConsumeFlush, LoseOutput,
               RetryElapsed, NoPendingStart, DropStaleStart, OpenStart, InstallSession,
               FailStart, NoOutputWanted, OpenOutput, OutputRefused, Promote, NotYet, StepIdle,
               StepWithoutSession, StepSession, Pump, PumpFatal, PumpEof, Drain
    <2> QED BY <2>1, <2>2, <2>3
<1>3. /\ session' \in Track \cup {None} /\ currentFilePath' \in Track \cup {None}
      /\ sessionEpoch' \in Nat
    <2>1. CASE InstallSession \/ FailStart
        <3>1. inFlight \in Start /\ inFlight.track \in Track /\ inFlight.epoch \in Nat
            BY <2>1 DEF InstallSession, FailStart, Start, Located
        <3> QED BY <2>1, <3>1 DEF InstallSession, NowShow, FailStart, FilePath
    <2>2. CASE HandleCommand
        BY <2>2 DEF HandleCommand, HandlePlay, HandlePlayStream, HandleNext, HandleStop,
               HandleSetQueue, HandleSetStreamQueue, HandleSetRepeatOne, HandlePause, HandleResume,
               HandleSeek, HandleApplyPlaybackConfig, HandleSelectDevice, HandleReopenOutput,
               DropStale, ClearNowPlaying, NoSession
    <2>3. HandleCommand \/ InstallSession \/ FailStart
          \/ /\ session' \in {session, currentFilePath, None}
             /\ currentFilePath' \in {currentFilePath, None} /\ sessionEpoch' = sessionEpoch
        BY DEF WorkerStep, Environment, HandleResetNotice, RestartOk, RestartErr, StoreState,
               InstallPendingStart, OutputStage, PlaybackStep, ConsumeFlush, LoseOutput,
               RetryElapsed, NoPendingStart, DropStaleStart, OpenStart, InstallSession,
               FailStart, NoOutputWanted, OpenOutput, OutputRefused, Promote, NotYet, StepIdle,
               StepWithoutSession, StepSession, Pump, PumpFatal, PumpEof, Drain, ClearNowPlaying, NoSession
    <2> QED BY <2>1, <2>2, <2>3
<1>4. ring' \subseteq Nat
    <2>1. CASE HandleCommand
        BY <2>1 DEF HandleCommand, HandlePlay, HandlePlayStream, HandleNext, HandleStop,
               HandleSetQueue, HandleSetStreamQueue, HandleSetRepeatOne, HandlePause, HandleResume,
               HandleSeek, HandleApplyPlaybackConfig, HandleSelectDevice, HandleReopenOutput,
               DropStale, ResetPipeline, DropOutput, DropStream
    <2>2. CASE Pump \/ Drain
        <3>1. sessionEpoch \in Nat /\ ring' \in {ring \cup {sessionEpoch}, {}}
            BY <2>2 DEF Pump, Drain, Located, ResetPipeline, DropOutput, DropStream
        <3> QED BY <3>1
    <2>3. HandleCommand \/ Pump \/ Drain \/ ring' \in {ring, {}}
        BY DEF WorkerStep, Environment, HandleResetNotice, RestartOk, RestartErr, StoreState,
               InstallPendingStart, OutputStage, PlaybackStep, ConsumeFlush, LoseOutput,
               RetryElapsed, NoPendingStart, DropStaleStart, OpenStart, InstallSession,
               FailStart, NoOutputWanted, OpenOutput, OutputRefused, Promote, NotYet, StepIdle,
               StepWithoutSession, StepSession, Pump, PumpFatal, PumpEof, Drain, Boundary, ResetPipeline, DropOutput, DropStream
    <2> QED BY <2>1, <2>2, <2>3
<1>5. activeStream' \in Outputs \cup {"none"}
    <2>1. HandleCommand => activeStream' \in {activeStream, "none"}
        BY DEF HandleCommand, HandlePlay, HandlePlayStream, HandleNext, HandleStop,
               HandleSetQueue, HandleSetStreamQueue, HandleSetRepeatOne, HandlePause, HandleResume,
               HandleSeek, HandleApplyPlaybackConfig, HandleSelectDevice, HandleReopenOutput,
               DropStale, ResetPipeline, DropOutput, DropStream
    <2>2. HandleCommand \/ activeStream' \in Outputs \cup {activeStream, "none"}
        BY DEF WorkerStep, Environment, HandleResetNotice, RestartOk, RestartErr, StoreState,
               InstallPendingStart, OutputStage, PlaybackStep, ConsumeFlush, LoseOutput,
               RetryElapsed, NoPendingStart, DropStaleStart, OpenStart, InstallSession,
               FailStart, NoOutputWanted, OpenOutput, OutputRefused, Promote, NotYet, StepIdle,
               StepWithoutSession, StepSession, Pump, PumpFatal, PumpEof, Drain, Boundary, ResetPipeline, DropOutput, DropStream
    <2> QED BY <2>1, <2>2
<1>6. restart' \in [why: {"none", "config", "device", "rate"}, previous: States]
    <2>1. state \in States
        BY DEF TypeOK, TypeShared
    <2>2. HandleCommand =>
              restart' = restart \/ \E why \in {"config", "device"} : BeginRestart(why)
        BY DEF HandleCommand, HandlePlay, HandlePlayStream, HandleNext, HandleStop,
               HandleSetQueue, HandleSetStreamQueue, HandleSetRepeatOne, HandlePause, HandleResume,
               HandleSeek, HandleApplyPlaybackConfig, HandleSelectDevice, HandleReopenOutput,
               DropStale
    <2>3. \/ HandleCommand \/ restart' \in {restart, NoRestart} \/ BeginRestart("rate")
        BY DEF WorkerStep, Environment, HandleResetNotice, RestartOk, RestartErr, StoreState,
               InstallPendingStart, OutputStage, PlaybackStep, ConsumeFlush, LoseOutput,
               RetryElapsed, NoPendingStart, DropStaleStart, OpenStart, InstallSession,
               FailStart, NoOutputWanted, OpenOutput, OutputRefused, Promote, NotYet, StepIdle,
               StepWithoutSession, StepSession, Pump, PumpFatal, PumpEof, Drain
    <2> QED BY <2>1, <2>2, <2>3 DEF BeginRestart, NoRestart, States
<1>7. wpc' \in WorkerPCs /\ about' \in [to: States, next: {"top", "drain", "pumping"}]
    <2>1. CASE HandleCommand
        BY <2>1 DEF HandleCommand, HandlePlay, HandlePlayStream, HandleNext, HandleStop,
               HandleSetQueue, HandleSetStreamQueue, HandleSetRepeatOne, HandlePause, HandleResume,
               HandleSeek, HandleApplyPlaybackConfig, HandleSelectDevice, HandleReopenOutput,
               DropStale, Take, ThenStore, ApplySeek, BeginRestart, WorkerPCs, States
    <2>2. CASE StepWithoutSession \/ StepSession
        BY <2>2 DEF StepWithoutSession, StepSession, ThenStore, ApplySeek, WorkerPCs, States
    <2>3. CASE StoreState
        BY <2>3 DEF StoreState, Nothing, WorkerPCs, States
    <2>4. \/ HandleCommand \/ StepWithoutSession \/ StepSession \/ StoreState
          \/ about' = about /\ wpc' \in WorkerPCs
        BY DEF WorkerStep, Environment, HandleResetNotice, RestartOk, RestartErr, StoreState,
               InstallPendingStart, OutputStage, PlaybackStep, ConsumeFlush, LoseOutput,
               RetryElapsed, NoPendingStart, DropStaleStart, OpenStart, InstallSession,
               FailStart, NoOutputWanted, OpenOutput, OutputRefused, Promote, NotYet, StepIdle,
               StepWithoutSession, StepSession, Pump, PumpFatal, PumpEof, Drain, AfterRestart, BeginRestart, WorkerPCs
    <2> QED BY <2>1, <2>2, <2>3, <2>4
<1> QED BY <1>1, <1>2, <1>3, <1>4, <1>5, <1>6, <1>7

\* No step of the worker or of the output breaks TypeOK.
LEMMA WorkerTypeOK ==
    ASSUME TypeOK, WorkerStep \/ Environment
    PROVE  TypeOK'
<1>1. TypeClients'
    BY WorkerFrame, FaultsType DEF TypeOK, TypeClients, lease, clients
<1> QED
    BY <1>1, SharedType, FlagsType, WorkerType, LocatedType DEF TypeOK

\* A step that changes nothing keeps TypeOK.
LEMMA StutterTypeOK ==
    ASSUME TypeOK, UNCHANGED vars
    PROVE  TypeOK'
<1> USE DEF TypeOK, vars, lease, worker, player, starts, stream, output, locals, clients
<1>1. TypeShared' /\ TypeClients'
    BY DEF TypeShared, TypeClients
<1>2. TypeFlags'
    BY DEF TypeFlags
<1>3. TypeWorker' /\ Located'
    BY DEF TypeWorker, Located
<1> QED BY <1>1, <1>2, <1>3

\* Every variable keeps its type, and the worker never opens a start, decodes or
\* drains where there is no start or session: TypeOK is inductive as it stands.
THEOREM TypeCorrect == Spec => []TypeOK
<1>1. TypeOK /\ [Next]_vars => TypeOK'
    BY ClientTypeOK, WorkerTypeOK, StutterTypeOK DEF Next
<1> QED BY InitTypeOK, <1>1, PTL DEF Spec

-----------------------------------------------------------------------------
(* The order of the epochs. *)

\* No epoch has been handed out when the player is created.
LEMMA InitEpochOrder == Init => EpochOrder
BY DEF Init, EpochOrder, NoCommand, Cmd

\* A call only claims the next epoch or sends one it was given: EpochOrder stays.
LEMMA ClientEpochOrder ==
    ASSUME TypeOK, EpochOrder, NEW c \in Client, ClientStep(c)
    PROVE  EpochOrder'
<1>1. UNCHANGED <<sessionEpoch, pendingStart, inFlight>>
    BY ClientFrame DEF worker, player, starts, output, locals
<1>2. epoch \in Nat /\ epoch' \in Nat /\ epoch <= epoch'
    BY ClientEffects DEF TypeOK, TypeShared
<1>3. /\ sessionEpoch \in Nat /\ pendingStart \in Start \cup {None}
      /\ inFlight \in Start \cup {None}
    BY DEF TypeOK, TypeWorker
<1>4. /\ sessionEpoch' <= epoch'
      /\ pendingStart' # None => sessionEpoch' <= pendingStart'.epoch /\ pendingStart'.epoch <= epoch'
      /\ inFlight' # None => sessionEpoch' <= inFlight'.epoch /\ inFlight'.epoch <= epoch'
    BY <1>1, <1>2, <1>3 DEF EpochOrder, Start
<1>5. \A d \in Client : outbox[d].epoch \in Nat /\ outbox[d].epoch <= epoch
    BY DEF EpochOrder, TypeOK, TypeClients, Command
<1>6. \A d \in Client : outbox'[d].epoch <= epoch'
    <2>1. outbox \in [Client -> Command]
        BY DEF TypeOK, TypeClients
    <2>2. CASE UNCHANGED outbox
        BY <1>2, <1>5, <2>2
    <2>3. CASE Prepared(c)
        BY <1>2, <1>5, <2>1, <2>3 DEF Prepared
    <2> QED BY <2>2, <2>3, OutboxType
<1>7. \A i \in DOMAIN commands' : commands'[i].epoch <= epoch'
    <2>1. commands \in Seq(Command)
        BY DEF TypeOK, TypeShared
    <2>2. \A i \in 1..Len(commands) : commands[i].epoch \in Nat /\ commands[i].epoch <= epoch'
        <3>1. \A i \in 1..Len(commands) : commands[i] \in Command /\ commands[i].epoch <= epoch
            BY <2>1, ElementOfSeq, LenProperties DEF EpochOrder
        <3> QED BY <1>2, <3>1 DEF Command
    <2>3. CASE commands' = commands
        BY <2>1, <2>2, <2>3, LenProperties
    <2>4. CASE commands' = Append(commands, outbox[c])
        <3>1. outbox[c] \in Command
            BY DEF TypeOK, TypeClients
        <3>2. /\ Append(commands, outbox[c]) \in Seq(Command)
              /\ Len(Append(commands, outbox[c])) = Len(commands) + 1
              /\ \A i \in 1..Len(commands) : Append(commands, outbox[c])[i] = commands[i]
              /\ Append(commands, outbox[c])[Len(commands) + 1] = outbox[c]
            BY <2>1, <3>1, AppendProperties
        <3>3. DOMAIN commands' = 1..(Len(commands) + 1) /\ Len(commands) \in Nat
            BY <2>1, <2>4, <3>2, LenProperties
        <3> QED BY <1>2, <1>5, <2>2, <2>4, <3>2, <3>3
    <2> QED BY <2>3, <2>4, ClientEffects
<1> QED BY <1>4, <1>6, <1>7 DEF EpochOrder

\* What the worker makes of the epochs it has: the epoch of a start is the current
\* one, or came with a start, or is the epoch of the session that ended.
LEMMA WorkerEpochs ==
    ASSUME TypeOK, WorkerStep \/ Environment
    PROVE  \/ /\ InstallSession
              /\ sessionEpoch' = inFlight.epoch /\ inFlight' = None /\ pendingStart' = None
           \/ /\ sessionEpoch' = sessionEpoch
              /\ \/ pendingStart' \in {pendingStart, inFlight, None}
                 \/ pendingStart'.epoch \in {epoch, sessionEpoch}
              /\ \/ inFlight' \in {pendingStart, inFlight, None}
                 \/ inFlight'.epoch = sessionEpoch
<1>1. CASE HandlePlay \/ HandlePlayStream \/ HandleNext
    BY <1>1 DEF HandlePlay, HandlePlayStream, HandleNext, Take, Fresh, EpochCommands, StartNext,
                ClearNowPlaying, player, starts, locals
<1>2. CASE PumpEof
    BY <1>2 DEF PumpEof, EofStart
<1>3. CASE InstallSession
    BY <1>3 DEF InstallSession, TypeOK, Located, starts
<1>4. CASE FailStart
    BY <1>4 DEF FailStart
<1>5. CASE HandleCommand /\ ~(HandlePlay \/ HandlePlayStream \/ HandleNext)
    BY <1>5 DEF HandleCommand, HandleStop, HandleSetQueue, HandleSetStreamQueue,
                HandleSetRepeatOne, HandlePause, HandleResume, HandleSeek,
                HandleApplyPlaybackConfig, HandleSelectDevice, HandleReopenOutput, DropStale,
                player, starts, locals, worker
<1>6. CASE ~(HandleCommand \/ PumpEof \/ InstallSession \/ FailStart)
    BY <1>6 DEF WorkerStep, Environment, HandleResetNotice, RestartOk, RestartErr, StoreState,
                InstallPendingStart, OutputStage, PlaybackStep, ConsumeFlush, LoseOutput,
                RetryElapsed, NoPendingStart, DropStaleStart, OpenStart, NoOutputWanted,
                OpenOutput, OutputRefused, Promote, NotYet, StepIdle, StepWithoutSession,
                StepSession, Pump, PumpFatal, Drain, player, starts, locals
<1> QED BY <1>1, <1>2, <1>3, <1>4, <1>5, <1>6

\* The worker only moves epochs along, and drops a start that is not current
\* before it opens it: EpochOrder stays.
LEMMA WorkerEpochOrder ==
    ASSUME TypeOK, EpochOrder, WorkerStep \/ Environment
    PROVE  EpochOrder'
<1>1. UNCHANGED <<epoch, outbox>>
    BY WorkerFrame DEF lease, clients
<1>2. /\ epoch \in Nat /\ sessionEpoch \in Nat /\ pendingStart \in Start \cup {None}
      /\ inFlight \in Start \cup {None}
    BY DEF TypeOK, TypeShared, TypeWorker
<1>3. InstallSession => inFlight # None
    BY DEF InstallSession, TypeOK, Located
<1>4. /\ sessionEpoch' <= epoch'
      /\ pendingStart' # None => sessionEpoch' <= pendingStart'.epoch /\ pendingStart'.epoch <= epoch'
      /\ inFlight' # None => sessionEpoch' <= inFlight'.epoch /\ inFlight'.epoch <= epoch'
    BY <1>1, <1>2, <1>3, WorkerEpochs DEF EpochOrder, Start
<1>5. \A i \in DOMAIN commands' : commands'[i].epoch <= epoch'
    <2>1. commands \in Seq(Command)
        BY DEF TypeOK, TypeShared
    <2>2. commands' = commands \/ (commands # <<>> /\ commands' = Tail(commands))
        BY WorkerCommands
    <2>3. CASE commands' = commands
        BY <1>1, <2>3 DEF EpochOrder
    <2>4. CASE commands # <<>> /\ commands' = Tail(commands)
        <3>1. /\ Tail(commands) \in Seq(Command) /\ Len(Tail(commands)) = Len(commands) - 1
              /\ \A i \in 1..Len(Tail(commands)) : Tail(commands)[i] = commands[i + 1]
            BY <2>1, <2>4, HeadTailProperties
        <3>2. /\ DOMAIN commands = 1..Len(commands) /\ Len(commands) \in Nat
              /\ DOMAIN commands' = 1..(Len(commands) - 1)
            BY <2>1, <2>4, <3>1, LenProperties
        <3> QED BY <1>1, <2>4, <3>1, <3>2 DEF EpochOrder
    <2> QED BY <2>2, <2>3, <2>4
<1> QED BY <1>1, <1>4, <1>5 DEF EpochOrder

\* Every epoch in the engine was handed out, and no start is older than the session
\* it is about to replace, whatever the number of clients and calls.
THEOREM EpochsOrdered == Spec => []EpochOrder
<1>1. TypeOK /\ EpochOrder /\ [Next]_vars => EpochOrder'
    <2>1. ASSUME EpochOrder, UNCHANGED vars PROVE EpochOrder'
        BY <2>1 DEF EpochOrder, vars, lease, worker, player, starts, locals, clients
    <2> QED BY <2>1, ClientEpochOrder, WorkerEpochOrder DEF Next
<1> QED BY InitEpochOrder, TypeCorrect, <1>1, PTL DEF Spec

\* What plays never goes back to an older call.
THEOREM NeverGoesBack == Spec => NeverBack
<1>1. TypeOK /\ EpochOrder /\ [Next]_vars => [sessionEpoch' >= sessionEpoch]_vars
    <2> SUFFICES ASSUME TypeOK, EpochOrder, Next PROVE sessionEpoch' >= sessionEpoch
        OBVIOUS
    <2>1. sessionEpoch \in Nat /\ inFlight \in Start \cup {None}
        BY DEF TypeOK, TypeWorker
    <2>2. ASSUME NEW c \in Client, ClientStep(c) PROVE sessionEpoch' = sessionEpoch
        BY <2>2, ClientFrame DEF worker, player
    <2>3. ASSUME WorkerStep \/ Environment PROVE sessionEpoch' >= sessionEpoch
        <3>1. InstallSession => inFlight # None
            BY DEF InstallSession, TypeOK, Located
        <3> QED BY <2>1, <2>3, <3>1, WorkerEpochs DEF EpochOrder, Start
    <2> QED BY <2>1, <2>2, <2>3 DEF Next
<1> QED BY TypeCorrect, EpochsOrdered, <1>1, PTL DEF Spec, NeverBack

-----------------------------------------------------------------------------
(* The queues, and the flag that a stream popped off one is on its way. *)

StreamTrack == {t \in Track : t.kind = "stream"}

\* OneQueue as a fact about one record; only streams are in the stream queue.
Sound(q) ==
    /\ q.file = <<>> \/ q.stream = <<>>
    /\ q.len = Len(q.stream)
    /\ q.stream \in Seq(StreamTrack)

StreamStart(start) == start # None /\ start.track \in StreamTrack

\* OneQueue and AdvancingStream made inductive: where the worker holds a start it
\* is opening, or that follows the drain, the flag is about that start and no other.
QueuesSound ==
    /\ Sound(queues)
    /\ wpc \notin {"opening", "draining"} => inFlight = None
    /\ queues.advancing /\ wpc \in {"opening", "draining"} => StreamStart(inFlight)
    /\ queues.advancing /\ wpc \notin {"opening", "draining"} => StreamStart(pendingStart)

\* A list of upcoming streams is one of streams (commands.rs:63).
LEMMA UpcomingStreams ==
    ASSUME NEW e \in Nat, NEW p \in Nat, NEW n \in Nat
    PROVE  TracksAfter("stream", e, p, n) \in Seq(StreamTrack)
<1>1. \A i \in 1..n : TheTrack("stream", e, p + i) \in StreamTrack
    BY DEF TheTrack, Track, StreamTrack
<1> QED BY <1>1, SeqDef DEF TracksAfter

\* Replacing a queue empties the other one, and only the replacement of streams
\* behind a playing stream leaves the flag as it was (queue_state.rs:68-111).
LEMMA ReplaceSound ==
    ASSUME NEW q \in Queues, NEW new \in Seq(Track), NEW streams \in Seq(StreamTrack)
    PROVE  /\ Sound(Queue!ReplaceFileQueue(q, new))
           /\ ~Queue!ReplaceFileQueue(q, new).advancing
           /\ Sound(Queue!ReplaceForFileStart(q, new))
           /\ ~Queue!ReplaceForFileStart(q, new).advancing
           /\ Sound(Queue!ReplaceStreamQueue(q, streams))
           /\ Queue!ReplaceStreamQueue(q, streams).advancing = q.advancing
           /\ Sound(Queue!ReplaceForStreamStart(q, streams))
           /\ ~Queue!ReplaceForStreamStart(q, streams).advancing
BY EmptySeq
   DEF Queues, Sound, Queue!ReplaceStreamQueue, Queue!ReplaceFileQueue,
       Queue!ReplaceForFileStart, Queue!ReplaceForStreamStart, Queue!EmptyQueues,
       Queue!ClearAdvancing

\* Clearing lowers the flag (queue_state.rs:136-145).
LEMMA ClearSound ==
    ASSUME NEW q \in Queues, Sound(q)
    PROVE  /\ Sound(Queue!ClearAll(q)) /\ ~Queue!ClearAll(q).advancing
           /\ Sound(Queue!ClearAdvancing(q)) /\ ~Queue!ClearAdvancing(q).advancing
BY EmptySeq DEF Queues, Sound, Queue!ClearAll, Queue!EmptyQueues, Queue!ClearAdvancing

\* A pop raises the flag exactly when what it returns is a stream.
LEMMA PopSound ==
    ASSUME NEW q \in Queues, Sound(q)
    PROVE  /\ Sound(Queue!PopQueues(q))
           /\ Queue!PopQueues(q).advancing => Queue!PopTrack(q) \in StreamTrack
<1>1. CASE q.stream # <<>>
    <2>1. Head(q.stream) \in StreamTrack /\ Tail(q.stream) \in Seq(StreamTrack)
        BY <1>1, HeadTailProperties DEF Sound
    <2> QED BY <1>1, <2>1 DEF Queues, Sound, Queue!PopTrack, Queue!PopQueues
<1>2. CASE q.stream = <<>> /\ q.file # <<>>
    BY <1>2 DEF Queues, Sound, Queue!PopTrack, Queue!PopQueues
<1>3. CASE q.stream = <<>> /\ q.file = <<>>
    BY <1>3, ClearSound DEF Queue!PopTrack, Queue!PopQueues
<1> QED BY <1>1, <1>2, <1>3

\* And so does the end of a track.
LEMMA EofSound ==
    ASSUME NEW q \in Queues, Sound(q), NEW can \in BOOLEAN, NEW rep \in BOOLEAN,
           NEW path \in Track \cup {None}
    PROVE  /\ Sound(Queue!EofQueues(q, can, rep, path))
           /\ Queue!EofQueues(q, can, rep, path).advancing
                  => Queue!EofTrack(q, can, rep, path) \in StreamTrack
BY PopSound, ClearSound DEF Queue!EofTrack, Queue!EofQueues, Queue!Repeats

\* A command leaves the worker out of an open or a drain, and its queues sound.
LEMMA CommandSound ==
    ASSUME TypeOK, QueuesSound, HandleCommand
    PROVE  QueuesSound'
<1> USE DEF Queues
<1>0. /\ queues \in Queues /\ wpc = "drain" /\ inFlight = None /\ Sound(queues)
      /\ queues.advancing => StreamStart(pendingStart)
    BY DEF HandleCommand, HandlePlay, HandlePlayStream, HandleNext, HandleStop, HandleSetQueue,
           HandleSetStreamQueue, HandleSetRepeatOne, HandlePause, HandleResume, HandleSeek,
           HandleApplyPlaybackConfig, HandleSelectDevice, HandleReopenOutput, DropStale, Take,
           QueuesSound, TypeOK, TypeShared
<1>1. inFlight' = inFlight /\ wpc' \notin {"opening", "draining"}
    BY <1>0 DEF HandleCommand, HandlePlay, HandlePlayStream, HandleNext, HandleStop,
           HandleSetQueue, HandleSetStreamQueue, HandleSetRepeatOne, HandlePause, HandleResume,
           HandleSeek, HandleApplyPlaybackConfig, HandleSelectDevice, HandleReopenOutput,
           DropStale, Take, ThenStore, ApplySeek, BeginRestart, locals, worker
<1>2. ASSUME NEW cmd \in FirstCommand
      PROVE  cmd \in Command /\ cmd.len \in Nat /\ cmd.epoch \in Nat
    BY <1>2, FirstCommandType DEF Command
<1>3. CASE HandlePlay
    <2>1. PICK cmd \in FirstCommand :
              queues' = Queue!ReplaceForFileStart(queues, TracksAfter("file", cmd.epoch, 0, cmd.len))
        BY <1>3 DEF HandlePlay
    <2>2. TracksAfter("file", cmd.epoch, 0, cmd.len) \in Seq(Track)
        BY <1>2, TracksAfterType
    <2>3. <<>> \in Seq(StreamTrack)
        BY EmptySeq
    <2> QED BY <1>0, <1>1, <2>1, <2>2, <2>3, ReplaceSound DEF QueuesSound
<1>4. CASE HandlePlayStream
    <2>1. <<>> \in Seq(StreamTrack) /\ <<>> \in Seq(Track)
        BY EmptySeq
    <2>2. queues' = Queue!ReplaceForStreamStart(queues, <<>>)
        BY <1>4 DEF HandlePlayStream
    <2>3. Sound(queues') /\ ~queues'.advancing
        BY <1>0, <2>1, <2>2, ReplaceSound
    <2> QED BY <1>0, <1>1, <2>3 DEF QueuesSound
<1>5. CASE HandleNext
    <2>1. PICK cmd \in FirstCommand :
              /\ queues' = Queue!PopQueues(queues)
              /\ \/ StartNext(Queue!PopTrack(queues), cmd.epoch)
                 \/ Queue!PopTrack(queues) = None
        BY <1>5 DEF HandleNext
    <2>2. Queue!PopTrack(queues) = None => ~queues'.advancing
        BY <1>0, <2>1, PopSound, NoneAssumption DEF StreamTrack
    <2>3. StartNext(Queue!PopTrack(queues), cmd.epoch) /\ queues'.advancing
              => StreamStart(pendingStart')
        <3>1. ASSUME StartNext(Queue!PopTrack(queues), cmd.epoch), queues'.advancing
              PROVE  StreamStart(pendingStart')
            <4>1. Queue!PopTrack(queues) \in StreamTrack
                BY <1>0, <2>1, <3>1, PopSound
            <4>2. pendingStart' \in Start
                BY <1>2, <3>1, <4>1 DEF StartNext, Start, StreamTrack
            <4> QED BY <3>1, <4>1, <4>2, NoneAssumption DEF StartNext, StreamStart
        <3> QED BY <3>1
    <2> QED BY <1>0, <1>1, <2>1, <2>2, <2>3, PopSound DEF QueuesSound
<1>6. CASE HandleStop
    BY <1>0, <1>1, <1>6, ClearSound DEF HandleStop, QueuesSound
<1>7. CASE HandleSetQueue
    <2>1. PICK cmd \in FirstCommand :
              Take("SetQueue", cmd)
              /\ queues' = Queue!ReplaceFileQueue(queues, UpcomingAfter("file", cmd))
        BY <1>7 DEF HandleSetQueue
    <2>2. UpcomingAfter("file", cmd) \in Seq(Track) /\ <<>> \in Seq(StreamTrack)
        BY <1>2, <2>1, UpcomingType, EmptySeq DEF Take, QueueCommands
    <2> QED BY <1>0, <1>1, <2>1, <2>2, ReplaceSound DEF QueuesSound
<1>8. CASE HandleSetStreamQueue
    <2>1. PICK cmd \in FirstCommand :
              Take("SetStreamQueue", cmd)
              /\ queues' = Queue!ReplaceStreamQueue(queues, UpcomingAfter("stream", cmd))
        BY <1>8 DEF HandleSetStreamQueue
    <2>2. cmd.after \in Track
        BY <1>2, <2>1 DEF Take, Command, QueueCommands
    <2>3. UpcomingAfter("stream", cmd) \in Seq(StreamTrack) /\ <<>> \in Seq(Track)
        BY <1>2, <2>2, UpcomingStreams, EmptySeq DEF UpcomingAfter, Track
    <2>4. pendingStart' = pendingStart
        BY <1>8 DEF HandleSetStreamQueue, starts
    <2> QED BY <1>0, <1>1, <2>1, <2>3, <2>4, ReplaceSound DEF QueuesSound
<1>9. CASE ~(HandlePlay \/ HandlePlayStream \/ HandleNext \/ HandleStop \/ HandleSetQueue
             \/ HandleSetStreamQueue)
    <2>1. UNCHANGED <<queues, pendingStart>>
        BY <1>9 DEF HandleCommand, HandleSetRepeatOne, HandlePause, HandleResume, HandleSeek,
               HandleApplyPlaybackConfig, HandleSelectDevice, HandleReopenOutput, DropStale,
               starts, worker
    <2> QED BY <1>0, <1>1, <2>1 DEF QueuesSound
<1> QED BY <1>3, <1>4, <1>5, <1>6, <1>7, <1>8, <1>9

\* The steps that hand a start on, or end one, hand the flag on with it.
LEMMA StartSound ==
    ASSUME TypeOK, QueuesSound,
           DropStaleStart \/ OpenStart \/ InstallSession \/ FailStart \/ PumpEof \/ Drain
    PROVE  QueuesSound'
<1>0. /\ queues \in Queues /\ Sound(queues) /\ epoch \in Nat /\ sessionEpoch \in Nat
      /\ repeatOne \in BOOLEAN /\ CanAdvance \in BOOLEAN
      /\ currentFilePath \in Track \cup {None}
    BY DEF QueuesSound, TypeOK, TypeShared, TypeFlags, TypeWorker, Queues, CanAdvance
<1>1. ASSUME NEW t \in StreamTrack, NEW e \in Nat
      PROVE  StreamStart([track |-> t, epoch |-> e])
    BY NoneAssumption DEF StreamStart, Start, StreamTrack
<1>2. CASE DropStaleStart
    BY <1>0, <1>2, ClearSound DEF DropStaleStart, Drained, QueuesSound, locals
<1>3. CASE OpenStart
    BY <1>0, <1>3 DEF OpenStart, Drained, QueuesSound
<1>4. CASE InstallSession
    BY <1>0, <1>4, ClearSound DEF InstallSession, QueuesSound
<1>5. CASE FailStart
    <2>1. wpc' = "output" /\ inFlight' = None
        BY <1>5 DEF FailStart
    <2>2. CASE queues' = Queue!ClearAdvancing(queues)
        BY <1>0, <2>1, <2>2, ClearSound DEF QueuesSound
    <2>3. CASE /\ queues' = Queue!PopQueues(queues)
               /\ pendingStart' = [track |-> Queue!PopTrack(queues), epoch |-> epoch]
        BY <1>0, <1>1, <2>1, <2>3, PopSound DEF QueuesSound
    <2>4. CASE queues' = Queue!PopQueues(queues) /\ Queue!PopTrack(queues) = None
        BY <1>0, <2>1, <2>4, PopSound, NoneAssumption DEF QueuesSound, StreamTrack
    <2> QED BY <1>5, <2>2, <2>3, <2>4 DEF FailStart
<1>6. CASE PumpEof
    <2>1. /\ Sound(queues')
          /\ queues'.advancing => EofTrack \in StreamTrack
        BY <1>0, <1>6, EofSound DEF PumpEof, EofTrack
    <2>2. queues'.advancing => StreamStart(EofStart)
        BY <1>0, <1>1, <2>1, NoneAssumption DEF EofStart, StreamTrack
    <2> QED BY <1>6, <2>1, <2>2 DEF PumpEof, QueuesSound
<1>7. CASE Drain
    BY <1>0, <1>7, ClearSound DEF Drain, QueuesSound
<1> QED BY <1>2, <1>3, <1>4, <1>5, <1>6, <1>7

\* Every other step leaves the queues and the starts alone.
LEMMA QueuesFrame ==
    ASSUME TypeOK, WorkerStep \/ Environment, ~HandleCommand, ~DropStaleStart, ~OpenStart,
           ~InstallSession, ~FailStart, ~PumpEof, ~Drain
    PROVE  /\ UNCHANGED <<queues, pendingStart, inFlight>>
           /\ wpc' = wpc \/ {wpc, wpc'} \cap {"opening", "draining"} = {}
<1>1. CASE StoreState
    BY <1>1 DEF StoreState, starts, TypeOK, TypeWorker
<1>2. CASE HandleResetNotice \/ RestartOk \/ RestartErr \/ NoPendingStart
    BY <1>2 DEF HandleResetNotice, RestartOk, RestartErr, AfterRestart, NoPendingStart, Drained,
                starts, locals
<1>3. CASE OutputStage
    BY <1>3 DEF OutputStage, NoOutputWanted, OpenOutput, OutputRefused, Promote, NotYet,
                BeginRestart, starts, locals
<1>4. CASE PlaybackStep
    BY <1>4 DEF PlaybackStep, StepIdle, StepWithoutSession, StepSession, Pump, PumpFatal,
                ThenStore, ApplySeek, starts, locals
<1>5. CASE Environment
    BY <1>5 DEF Environment, ConsumeFlush, LoseOutput, RetryElapsed, starts, locals
<1> QED BY <1>1, <1>2, <1>3, <1>4, <1>5 DEF WorkerStep, InstallPendingStart

\* The queues stay sound whatever the calls and the worker do.
LEMMA QueuesAlwaysSound == Spec => []QueuesSound
<1>1. Init => QueuesSound
    BY EmptySeq DEF Init, QueuesSound, Sound, Queue!EmptyQueues
<1>2. ASSUME QueuesSound, UNCHANGED <<queues, pendingStart, inFlight>>,
             wpc' = wpc \/ {wpc, wpc'} \cap {"opening", "draining"} = {}
      PROVE  QueuesSound'
    BY <1>2 DEF QueuesSound
<1>3. TypeOK /\ QueuesSound /\ [Next]_vars => QueuesSound'
    <2>1. ASSUME NEW c \in Client, ClientStep(c)
          PROVE  UNCHANGED <<queues, pendingStart, inFlight, wpc>>
        BY <2>1, ClientFrame DEF worker, starts, locals
    <2>2. UNCHANGED vars => UNCHANGED <<queues, pendingStart, inFlight, wpc>>
        BY DEF vars, worker, starts, locals
    <2> QED BY <1>2, <2>1, <2>2, CommandSound, StartSound, QueuesFrame DEF Next
<1> QED BY <1>1, <1>3, TypeCorrect, PTL DEF Spec

\* Files and streams are never queued together, and the length other threads read
\* is that of the stream queue (queue_state.rs:16-34).
THEOREM QueuesAgree == Spec => []OneQueue
<1>1. QueuesSound => OneQueue
    BY DEF QueuesSound, Sound, OneQueue
<1> QED BY <1>1, QueuesAlwaysSound, PTL

\* stream_auto_advance_pending is raised only while the stream it announces is a
\* start the worker holds (session_start.rs:60-64).
THEOREM AdvancingHasStream == Spec => []AdvancingStream
<1>1. QueuesSound => AdvancingStream
    BY DEF QueuesSound, StreamStart, StreamTrack, AdvancingStream
<1> QED BY <1>1, QueuesAlwaysSound, PTL

-----------------------------------------------------------------------------
(* The engine implements PlaybackLease. *)

\* Every other worker step is taken, and ends, outside the opening of a start.
LEMMA LeaseFrame ==
    ASSUME TypeOK, WorkerStep \/ Environment, ~OpenStart, ~InstallSession, ~FailStart
    PROVE  /\ sessionEpoch' = sessionEpoch
           /\ \/ wpc # "opening" /\ wpc' # "opening"
              \/ wpc' = wpc /\ inFlight' = inFlight
<1>1. CASE HandleCommand
    BY <1>1 DEF HandleCommand, HandlePlay, HandlePlayStream, HandleNext, HandleStop,
                HandleSetQueue, HandleSetStreamQueue, HandleSetRepeatOne, HandlePause,
                HandleResume, HandleSeek, HandleApplyPlaybackConfig, HandleSelectDevice,
                HandleReopenOutput, DropStale, Take, ThenStore, ApplySeek, BeginRestart,
                ClearNowPlaying, player, worker
<1>2. CASE StoreState
    BY <1>2 DEF StoreState, player, TypeOK, TypeWorker
<1>3. CASE HandleResetNotice \/ RestartOk \/ RestartErr \/ NoPendingStart \/ DropStaleStart
    BY <1>3 DEF HandleResetNotice, RestartOk, RestartErr, AfterRestart, NoPendingStart,
                DropStaleStart, Drained, player
<1>4. CASE OutputStage
    BY <1>4 DEF OutputStage, NoOutputWanted, OpenOutput, OutputRefused, Promote, NotYet,
                BeginRestart, player
<1>5. CASE PlaybackStep
    BY <1>5 DEF PlaybackStep, StepIdle, StepWithoutSession, StepSession, Pump, PumpFatal, PumpEof,
                Drain, ThenStore, ApplySeek, player
<1>6. CASE Environment
    BY <1>6 DEF Environment, ConsumeFlush, LoseOutput, RetryElapsed, player, locals
<1> QED
    BY <1>1, <1>2, <1>3, <1>4, <1>5, <1>6 DEF WorkerStep, InstallPendingStart

\* Every step of the engine is a step of PlaybackLease or leaves it as it is.
LEMMA LeaseStep ==
    ASSUME TypeOK, [Next]_vars
    PROVE  [Lease!Next]_(Lease!vars)
<1> USE DEF Lease!vars, Lease!Next, Lease!Claim, Lease!Open, Lease!Install, Lease!Fail
<1>1. ASSUME NEW c \in Client, ClientStep(c)
      PROVE  Lease!Claim \/ UNCHANGED Lease!vars
    <2>1. UNCHANGED <<wpc, inFlight, sessionEpoch>>
        BY <1>1, ClientFrame DEF worker, player, locals
    <2> QED BY <1>1, <2>1, ClientEffects
<1>2. CASE OpenStart
    BY <1>2 DEF OpenStart, StartIsCurrent, Drained, player, lease
<1>3. CASE InstallSession
    BY <1>3 DEF InstallSession, lease
<1>4. CASE FailStart
    BY <1>4 DEF FailStart, lease
<1>5. CASE (WorkerStep \/ Environment) /\ ~OpenStart /\ ~InstallSession /\ ~FailStart
    BY <1>5, LeaseFrame, WorkerFrame DEF lease
<1>6. CASE UNCHANGED vars
    BY <1>6 DEF vars, lease, worker, player, locals
<1> QED
    BY <1>1, <1>2, <1>3, <1>4, <1>5, <1>6 DEF Next

\* The engine keeps the lease the playback epoch promises: a start is opened only
\* while its epoch is current, and what is installed is what was opened.
THEOREM ImplementsLease == Spec => KeepsLease
<1>1. Init => Lease!Init
    BY DEF Init, Lease!Init
<1> QED BY <1>1, TypeCorrect, LeaseStep, PTL DEF Spec, KeepsLease, Lease!Spec
=============================================================================
