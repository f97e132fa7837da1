------------------------------ MODULE Listening ------------------------------
(***************************************************************************)
(* What is listened to in a zone, and what of it is written to the playback  *)
(* history (src/listening.rs).  The dispatcher tells the tracker what was    *)
(* started, skipped and stopped; the monitor shows it every half second      *)
(* what the player reports, and credits the time in between.  The two meet   *)
(* in the tracker's mutexes only: a report may be older than a call that     *)
(* overtakes it.                                                              *)
(*                                                                         *)
(* One zone: zones meet in a transfer, which is modelled at both its ends,   *)
(* the other end being any zone.  A play is an instance of a track being     *)
(* played.  Time is counted in the monitor's rounds.  A track is recognised by *)
(* its name alone, and is a file, one of the library's or not; streams,       *)
(* profiles, radio, recent albums, seeking and repeat-one are left out.       *)
(***************************************************************************)
EXTENDS Naturals, Sequences

CONSTANTS
    Track, None,
    Indexed,        \* the tracks whose name the library finds; the others it does not know
    Asked,          \* bound: the tracks that are played from outside the queue
    Elsewhere,      \* bound: the listens that another zone may have
    MaxQueue,       \* bound: tracks queued behind one
    MaxCalls,       \* bound: calls of listeners
    MaxPosition     \* the duration of a track

\* A listen.  waiting is whether it waits for the queue to advance; pending and
\* waiting become "late" after PENDING_MATCH_GRACE_SECONDS.
ActiveListen ==
    [play : Nat, track : Track, queue : Seq(Track), listened : Nat, position : 0..MaxPosition,
     timed : BOOLEAN, due : BOOLEAN,
     pending : {"no", "yes", "late"}, waiting : {"no", "yes", "late"}]

ASSUME ListeningAssumption ==
    /\ Asked \subseteq Track /\ Indexed \subseteq Track /\ None \notin Track /\ None \notin ActiveListen
    /\ \A l \in Elsewhere : l \in ActiveListen /\ l.timed
    /\ {MaxQueue, MaxCalls} \subseteq Nat /\ MaxPosition \in Nat \ {0}

VARIABLES
    \* ListeningTracker, for the zone
    active, pendingQueue, transferred,
    \* PlaybackDispatcher and PlaybackHistory
    tasks,          \* calls under way
    credited,       \* the time the history has of each play
    \* spawn_listening_monitor: the report it holds, or the listen it found again
    monitor,
    player,
    calls

tracker == <<active, pendingQueue, transferred>>
vars == <<tracker, tasks, credited, monitor, player, calls>>
-----------------------------------------------------------------------------
Queue == UNION {[1..n -> Track] : n \in 0..MaxQueue}
NoPlay == 0
Nothing == [play |-> NoPlay, track |-> None]
Idle == [at |-> "idle"]
\* epoch counts what was asked of the player.
Silent(epoch) == [state |-> "Stopped", play |-> NoPlay, track |-> None, position |-> 0,
                  queue |-> <<>>, next |-> Nothing, epoch |-> epoch]

Init ==
    /\ active = None /\ pendingQueue = <<>> /\ transferred = None
    /\ tasks = {} /\ credited = <<>> /\ monitor = Idle
    /\ player = Silent(0)
    /\ calls = 0

\* A listen that is started.  Seeded fault: it waits for no report that matches it.
ListenAtOnce(p, t, q) ==
    [play |-> p, track |-> t, queue |-> q, listened |-> 0, position |-> 0, timed |-> FALSE,
     due |-> FALSE, pending |-> "no", waiting |-> "no"]
Listen(p, t, q) ==
    [play |-> p, track |-> t, queue |-> q, listened |-> 0, position |-> 0, timed |-> FALSE,
     due |-> FALSE, pending |-> "yes", waiting |-> "no"]

\* A listen that begins with report o.
Observed(o, q, listened) ==
    [Listen(o.play, o.track, q) EXCEPT
        !.listened = listened, !.position = o.position, !.timed = TRUE, !.pending = "no"]

\* finalize_listen: one with no time to its credit leaves no trace.
Finalize(l) == credited' = [credited EXCEPT ![l.play] = @ + l.listened]
FinalizeAny == IF active = None THEN UNCHANGED credited ELSE Finalize(active)
Complete(l) == l.timed /\ l.position = MaxPosition

\* The queue from behind its first t on.
Holds(q, t) == \E i \in DOMAIN q : q[i] = t
Behind(q, t) ==
    LET first == CHOOSE i \in DOMAIN q : q[i] = t /\ \A j \in 1..(i - 1) : q[j] # t
    IN  SubSeq(q, first + 1, Len(q))
-----------------------------------------------------------------------------
(* Calls.  The player is told first, the tracker afterwards.                    *)

Call == calls < MaxCalls /\ calls' = calls + 1
Task(op, p, t, q) ==
    [op |-> op, call |-> calls', play |-> p, track |-> t, queue |-> q, epoch |-> player.epoch]
Begin(task) == tasks' = tasks \cup {task}
Finish(task) == tasks' = tasks \ {task}
Becomes(task, op) == tasks' = (tasks \ {task}) \cup {[task EXCEPT !.op = op]}

NewPlay == Len(credited) + 1
OnePlayMore == credited' = Append(credited, 0)
Accepts(t, q) ==
    player' = [player EXCEPT !.next = [play |-> NewPlay, track |-> t], !.queue = q, !.epoch = @ + 1]
Falls == player' = Silent(player.epoch + 1)

Play(t, q, op) ==
    /\ Call /\ OnePlayMore
    /\ Accepts(t, q) /\ Begin(Task(op, NewPlay, t, q))
    /\ UNCHANGED <<tracker, monitor>>

\* start_with_radio.
Start(task) ==
    /\ \/ task.op = "start" /\ Finish(task)
       \/ task.op = "start here" /\ Becomes(task, "move here")
    /\ active' = Listen(task.play, task.track, task.queue)
    /\ pendingQueue' = <<>> /\ transferred' = None
    /\ FinalizeAny
    /\ UNCHANGED <<monitor, player, calls>>

\* The player goes to the head of its queue, or stops.
Skip ==
    /\ Call
    /\ \/ /\ player.queue # <<>> /\ OnePlayMore
          /\ Accepts(Head(player.queue), Tail(player.queue))
          /\ Begin(Task("next", NewPlay, None, <<>>))
       \/ /\ player.queue = <<>> /\ UNCHANGED credited
          /\ Falls /\ Begin(Task("next", NoPlay, None, <<>>))
    /\ UNCHANGED <<tracker, monitor>>

\* ListeningTracker::next.
SkipListen(task) ==
    /\ task.op = "next" /\ Finish(task)
    /\ transferred' = None
    /\ FinalizeAny
    /\ active' = IF active = None \/ active.queue = <<>> THEN None
                 ELSE Listen(IF task.play = NoPlay THEN active.play ELSE task.play,
                             Head(active.queue), Tail(active.queue))
    /\ UNCHANGED <<pendingQueue, monitor, player, calls>>

Stop ==
    /\ Call
    /\ Falls /\ Begin(Task("stop", NoPlay, None, <<>>))
    /\ UNCHANGED <<tracker, credited, monitor>>

\* ListeningTracker::stop.
StopListen(task) ==
    /\ task.op = "stop" /\ Finish(task)
    /\ transferred' = None /\ active' = None
    /\ FinalizeAny
    /\ UNCHANGED <<pendingQueue, monitor, player, calls>>

\* set_queue: the mutex of the listens is given back before that of the queues is
\* taken.  The player hears of the queue last, and leaves it when something else was
\* asked of it meanwhile.
SetQueue(q) ==
    /\ Call
    /\ \/ active # None /\ active' = [active EXCEPT !.queue = q]
          /\ Begin(Task("fill", NoPlay, None, q))
       \/ active = None /\ UNCHANGED active /\ Begin(Task("keep", NoPlay, None, q))
    /\ UNCHANGED <<pendingQueue, transferred, credited, monitor, player>>

KeepQueue(task) ==
    /\ task.op = "keep" /\ Becomes(task, "fill")
    /\ pendingQueue' = task.queue
    /\ UNCHANGED <<active, transferred, credited, monitor, player, calls>>

FillQueue(task) ==
    /\ task.op = "fill" /\ Finish(task)
    /\ \/ task.epoch = player.epoch /\ player' = [player EXCEPT !.queue = task.queue]
       \/ task.epoch # player.epoch /\ UNCHANGED player
    /\ UNCHANGED <<tracker, credited, monitor, calls>>

Pause ==
    /\ Call
    /\ \/ player.state = "Playing" /\ player' = [player EXCEPT !.state = "Paused"]
       \/ player.state = "Paused" /\ player' = [player EXCEPT !.state = "Playing"]
    /\ UNCHANGED <<tracker, tasks, credited, monitor>>

\* transfer_zone from another zone to this one: a play here as any other, and then
\* transfer_to_zone puts whatever is listened to in the other zone by then, if
\* anything, in the place of the listen that was started.
MoveHere(task) ==
    /\ task.op = "move here" /\ Finish(task)
    /\ \/ UNCHANGED <<active, credited>>
       \/ /\ OnePlayMore
          /\ \E l \in Elsewhere : active' = [l EXCEPT !.play = NewPlay]
    /\ UNCHANGED <<pendingQueue, transferred, monitor, player, calls>>

\* transfer_zone from this zone to another: a play there, then the listen goes, then the
\* queue is emptied.  The pause that may follow is a call like any other.
TransferAway ==
    /\ Call
    /\ player.state # "Stopped"
    /\ Begin(Task("move away", NoPlay, None, <<>>))
    /\ UNCHANGED <<tracker, credited, monitor, player>>

MoveAway(task) ==
    /\ task.op = "move away" /\ Becomes(task, "leave")
    /\ active' = None
    /\ transferred' = IF active = None THEN transferred ELSE active.track
    /\ UNCHANGED <<pendingQueue, credited, monitor, player, calls>>

\* apply_zone_queue_sources reads the epoch when it begins.
Clears(task, op) ==
    tasks' = (tasks \ {task}) \cup {[task EXCEPT !.op = op, !.epoch = player.epoch]}
Leave(task) ==
    /\ task.op = "leave"
    /\ \/ active # None /\ active' = [active EXCEPT !.queue = <<>>] /\ Clears(task, "fill")
       \/ active = None /\ UNCHANGED active /\ Clears(task, "keep")
    /\ UNCHANGED <<pendingQueue, transferred, credited, monitor, player, calls>>
-----------------------------------------------------------------------------
(* The player and time. *)

Plays(p, t, q) ==
    player' = [Silent(player.epoch) EXCEPT !.state = "Playing", !.play = p, !.track = t, !.queue = q]

BeginTrack ==
    /\ player.next # Nothing
    /\ Plays(player.next.play, player.next.track, player.queue)
    /\ UNCHANGED <<tracker, tasks, credited, monitor, calls>>

\* At the end of its track the player goes on by itself, or keeps what it has played.
EndTrack ==
    /\ player.state = "Playing" /\ player.position = MaxPosition /\ player.next = Nothing
    /\ \/ /\ player.queue # <<>> /\ OnePlayMore
          /\ Plays(NewPlay, Head(player.queue), Tail(player.queue))
       \/ /\ player.queue = <<>> /\ UNCHANGED credited
          /\ player' = [Silent(player.epoch) EXCEPT !.position = MaxPosition]
    /\ UNCHANGED <<tracker, tasks, monitor, calls>>

\* Half a second, none of which the monitor sleeps through.
Due(due) == active' = IF active = None THEN None ELSE [active EXCEPT !.due = due]
Tick ==
    /\ player.state = "Playing" /\ player.position < MaxPosition
    /\ active # None => ~active.due
    /\ player' = [player EXCEPT !.position = @ + 1]
    /\ Due(TRUE)
    /\ UNCHANGED <<pendingQueue, transferred, tasks, credited, monitor, calls>>

\* PENDING_MATCH_GRACE_SECONDS.
Late(x) == IF x = "yes" THEN "late" ELSE x
GraceElapses ==
    /\ active # None
    /\ "yes" \in {active.pending, active.waiting}
    /\ active' = [active EXCEPT !.pending = Late(@), !.waiting = Late(@)]
    /\ UNCHANGED <<pendingQueue, transferred, tasks, credited, monitor, player, calls>>
-----------------------------------------------------------------------------
(* The monitor. *)

Look ==
    /\ monitor = Idle
    /\ monitor' = [at |-> "seen", state |-> player.state, play |-> player.play,
                   track |-> player.track, position |-> player.position]
    /\ UNCHANGED <<tracker, tasks, credited, player, calls>>

\* Seeded fault: a listen is given no time to begin.
WaitsForNothing == FALSE
WaitsForMatch == active.pending = "yes"

\* What the zone's listen becomes: it stays, as l, or closes, and l, if any, is next.
Keeps(l) ==
    /\ active' = [l EXCEPT !.due = FALSE]
    /\ UNCHANGED <<credited, pendingQueue>>
ClosesFor(l) == Finalize(active) /\ active' = l

\* Stopped: the listen ends unless it has not begun, or may go on with its queue.
Merged ==
    [active EXCEPT !.position = IF monitor.position > @ THEN monitor.position ELSE @,
                   !.timed = @ \/ monitor.position > 0]
\* Seeded fault: it waits for its queue without end.
MayAdvanceEver == Complete(Merged) /\ active.queue # <<>>
MayAdvance == Complete(Merged) /\ active.queue # <<>> /\ active.waiting # "late"
ObserveStopped ==
    /\ monitor.state = "Stopped"
    /\ \/ WaitsForMatch /\ Keeps(Merged)
       \/ ~WaitsForMatch /\ MayAdvance /\ Keeps([Merged EXCEPT !.waiting = "yes"])
       \/ ~WaitsForMatch /\ ~MayAdvance /\ ClosesFor(None) /\ UNCHANGED pendingQueue

ObserveMatch ==
    /\ monitor.state # "Stopped" /\ monitor.track = active.track
    /\ Keeps([active EXCEPT
                  !.pending = "no", !.waiting = "no", !.timed = TRUE, !.position = monitor.position,
                  !.listened = @ + (IF active.due /\ monitor.state = "Playing" THEN 1 ELSE 0)])

\* recover_active_listen: from the queue that waits for a listen, or, when the library
\* finds a file by its name, from nothing; else none is found.  What is found is taken to
\* have been heard from its start.
Recovered ==
    IF Holds(pendingQueue, monitor.track)
    THEN Observed(monitor, Behind(pendingQueue, monitor.track), monitor.position)
    ELSE IF monitor.track \in Indexed THEN Observed(monitor, <<>>, monitor.position)
    ELSE None
QueueTaken == pendingQueue' = IF Holds(pendingQueue, monitor.track) THEN <<>> ELSE pendingQueue

\* Another track: it has not begun, the queue has advanced, or it came another way.
Foreign == ~WaitsForMatch /\ ~Holds(active.queue, monitor.track)
Adopts == monitor.state = "Playing"
ObserveOther ==
    /\ monitor.state # "Stopped" /\ monitor.track # active.track
    /\ \/ WaitsForMatch /\ Keeps(active)
       \/ /\ ~WaitsForMatch /\ Holds(active.queue, monitor.track)
          /\ ClosesFor(Observed(monitor, Behind(active.queue, monitor.track), 0))
          /\ UNCHANGED pendingQueue
       \/ Foreign /\ Adopts /\ ClosesFor(Recovered) /\ QueueTaken
       \/ Foreign /\ ~Adopts /\ ClosesFor(None) /\ UNCHANGED pendingQueue

Observe ==
    /\ monitor.at = "seen" /\ active # None /\ monitor' = Idle
    /\ transferred' = None
    /\ ObserveStopped \/ ObserveMatch \/ ObserveOther
    /\ UNCHANGED <<tasks, player, calls>>

\* Without a listen, what was transferred from here is left alone as long as it plays
\* on; else what plays is looked for again, and when found put in its place after the
\* mutex was given back, whatever was started meanwhile.
PlaysOn == monitor.state = "Playing" /\ transferred = monitor.track
ObserveNone ==
    /\ monitor.at = "seen" /\ active = None
    /\ \/ PlaysOn /\ monitor' = Idle /\ UNCHANGED <<transferred, pendingQueue>>
       \/ /\ ~PlaysOn /\ transferred' = None
          /\ \/ /\ Adopts /\ Recovered # None /\ QueueTaken
                /\ monitor' = [at |-> "found", listen |-> Recovered]
             \/ ~(Adopts /\ Recovered # None) /\ monitor' = Idle /\ UNCHANGED pendingQueue
    /\ UNCHANGED <<active, tasks, credited, player, calls>>

InsertRecovered ==
    /\ monitor.at = "found" /\ monitor' = Idle
    /\ active' = monitor.listen
    /\ UNCHANGED <<pendingQueue, transferred, tasks, credited, player, calls>>
-----------------------------------------------------------------------------
Listener ==
    \/ \E t \in Asked, q \in Queue, op \in {"start", "start here"} : Play(t, q, op)
    \/ \E q \in Queue : SetQueue(q)
    \/ Skip \/ Stop \/ Pause \/ TransferAway
TaskStep == \E task \in tasks :
    \/ Start(task) \/ SkipListen(task) \/ StopListen(task)
    \/ KeepQueue(task) \/ FillQueue(task)
    \/ MoveHere(task) \/ MoveAway(task) \/ Leave(task)
MonitorStep == Look \/ Observe \/ ObserveNone \/ InsertRecovered

Next ==
    \/ Listener \/ TaskStep \/ MonitorStep
    \/ BeginTrack \/ EndTrack \/ Tick \/ GraceElapses

Spec == Init /\ [][Next]_vars

(* Calls end, the monitor comes by, and the grace runs out before it has come by   *)
(* for ever.  Nothing is asked of the player, which may play on or stay stopped.    *)
FairSpec == Spec /\ WF_vars(TaskStep) /\ WF_vars(MonitorStep) /\ SF_vars(GraceElapses)
-----------------------------------------------------------------------------
(* The tracker is well formed: a listen is of a play there was, at a place in its  *)
(* track, and one that has begun knows its duration (listening.rs).                *)
TypeOK ==
    /\ active # None =>
           /\ active \in ActiveListen /\ active.play \in DOMAIN credited
           /\ active.pending = "no" => active.timed
    /\ transferred \in Track \cup {None}

(* A listen that a call has started stays for as long as no report has shown its    *)
(* track and the grace lasts, whatever happens but another call that takes it away:  *)
(* so looks a report older than the call, and a player that is still opening the     *)
(* track.  One report is excepted, of a track that was found again before the start  *)
(* and is inserted after it: the second lock of observe does not look whether a      *)
(* listen was started since (listening.rs:301-321), and the one that was is lost.    *)
TakesAway(task) ==
    Start(task) \/ SkipListen(task) \/ StopListen(task) \/ MoveHere(task) \/ MoveAway(task)
StartSurvives ==
    [][active # None /\ active.pending = "yes"
         /\ ~(\E task \in tasks : TakesAway(task)) /\ ~InsertRecovered
           => active' # None /\ active'.play = active.play]_vars

(* However calls and reports crossed, in the end a player that plays is listened to  *)
(* for the track it plays; or it was left playing by a transfer; or nothing is known *)
(* of its track, neither by a queue that was kept nor by the library, and then       *)
(* nothing else is listened to.  Of one that has stopped no listen is left.          *)
Unknown == player.track \notin Indexed /\ ~Holds(pendingQueue, player.track)
Follows ==
    CASE player.state = "Stopped" -> active = None
      [] player.state = "Paused" -> TRUE
      [] OTHER -> \/ transferred = player.track
                  \/ active # None /\ active.track = player.track
                  \/ active = None /\ Unknown
Settles == <>[]Follows
=============================================================================
