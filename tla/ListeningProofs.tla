-------------------------- MODULE ListeningProofs --------------------------
(***************************************************************************)
(* What the tracker of Listening promises for any number of tracks, calls    *)
(* and queued tracks, and any duration: it is well formed, however old the   *)
(* report it is shown, and a listen that was just started is not closed.     *)
(***************************************************************************)
EXTENDS Listening, SequenceTheorems, WellFoundedInduction, TLAPS

\* When there have been these plays: a listen, a report, the player, a call under way.
ListenOK(l, plays) ==
    /\ l \in ActiveListen
    /\ l.play \in plays
    /\ l.pending = "no" => l.timed
Playable(p, t, plays) == p \in plays /\ t \in Track
Request == [play : Nat, track : Track \cup {None}]
NextOK(n, plays) == n \in Request /\ (n # Nothing => Playable(n.play, n.track, plays))
States == {"Stopped", "Playing", "Paused"}
PlayerOK(r, plays) ==
    /\ r \in [state : States, play : Nat, track : Track \cup {None},
              position : 0..MaxPosition, queue : Seq(Track), next : Request, epoch : Nat]
    /\ r.state # "Stopped" => Playable(r.play, r.track, plays)
    /\ NextOK(r.next, plays)
SeenOK(m, plays) ==
    /\ m \in [at : {"seen"}, state : States, play : Nat, track : Track \cup {None},
              position : 0..MaxPosition]
    /\ m.state # "Stopped" => Playable(m.play, m.track, plays)
MonitorOK(m, plays) ==
    \/ m = Idle
    \/ SeenOK(m, plays)
    \/ m.at = "found" /\ ListenOK(m.listen, plays)
Ops == {"start", "start here", "move here", "next", "stop", "keep", "fill", "move away", "leave"}
TaskOK(task, plays) ==
    /\ task \in [op : Ops, call : Nat, play : Nat, track : Track \cup {None},
                 queue : Seq(Track), epoch : Nat]
    /\ task.op \in {"start", "start here", "move here"} => Playable(task.play, task.track, plays)
    /\ task.play # NoPlay => task.play \in plays

ActiveOK(l, plays) == l # None => ListenOK(l, plays)
TasksOK(ts, plays) == \A task \in ts : TaskOK(task, plays)
CountsOK ==
    /\ pendingQueue \in Seq(Track) /\ transferred \in Track \cup {None}
    /\ credited \in Seq(Nat) /\ calls \in Nat

(* No report and no call under way speaks of a play that has not been: what the    *)
(* tracker makes of them is a listen.                                              *)
IInv ==
    /\ CountsOK
    /\ ActiveOK(active, DOMAIN credited)
    /\ TasksOK(tasks, DOMAIN credited)
    /\ MonitorOK(monitor, DOMAIN credited)
    /\ PlayerOK(player, DOMAIN credited)
-----------------------------------------------------------------------------
(* The operators of the model. *)

\* A queue that holds a track has a first place of it.
LEMMA FirstOf ==
    ASSUME NEW q \in Seq(Track), NEW t, Holds(q, t)
    PROVE  \E i \in DOMAIN q : q[i] = t /\ \A j \in 1..(i - 1) : q[j] # t
<1> DEFINE places == {i \in DOMAIN q : q[i] = t}
           R == OpToRel(<, Nat)
<1>1. places # {} /\ places \subseteq Nat
    BY DEF Holds
<1>2. IsWellFoundedOn(R, Nat)
    BY NatLessThanWellFounded
<1>3. \A i, j \in Nat : i < j => <<i, j>> \in R
    BY DEF OpToRel
<1> HIDE DEF R
<1>4. PICK i \in places : \A j \in places : ~(<<j, i>> \in R)
    BY <1>1, <1>2, WFMin
<1>5. \A j \in places : ~(j < i)
    BY <1>1, <1>3, <1>4
<1>6. i \in DOMAIN q /\ q[i] = t /\ DOMAIN q = 1..Len(q) /\ Len(q) \in Nat
    BY <1>4, LenProperties
<1>7. \A j \in 1..(i - 1) : j \in DOMAIN q /\ j < i
    BY <1>6
<1>8. \A j \in 1..(i - 1) : q[j] # t
    BY <1>5, <1>7
<1> QED
    BY <1>6, <1>8

\* What is behind it is a queue.
LEMMA BehindIsQueue ==
    ASSUME NEW q \in Seq(Track), NEW t, Holds(q, t)
    PROVE  Behind(q, t) \in Seq(Track)
<1> DEFINE first == CHOOSE i \in DOMAIN q : q[i] = t /\ \A j \in 1..(i - 1) : q[j] # t
<1>1. first \in DOMAIN q
    BY FirstOf
<1>2. DOMAIN q = 1..Len(q) /\ Len(q) \in Nat
    BY LenProperties
<1> HIDE DEF first
<1>3. \A i \in (first + 1)..Len(q) : q[i] \in Track
  <2>1. \A i \in (first + 1)..Len(q) : i \in DOMAIN q
    BY <1>1, <1>2
  <2> QED
    BY <2>1, ElementOfSeq, <1>2
<1>4. SubSeq(q, first + 1, Len(q)) \in Seq(Track)
    BY <1>1, <1>2, <1>3, SubSeqProperties
<1> QED
    BY <1>4 DEF Behind, first

LEMMA QueuesAreSequences == Queue \subseteq Seq(Track)
    BY DEF Queue

\* One play more, and time credited to one, leave a history with the plays it had.
LEMMA OneMore ==
    ASSUME credited \in Seq(Nat), OnePlayMore
    PROVE  /\ credited' \in Seq(Nat)
           /\ DOMAIN credited \subseteq DOMAIN credited'
           /\ NewPlay \in Nat /\ NewPlay # NoPlay /\ NewPlay \in DOMAIN credited'
    BY LenProperties, AppendProperties DEF OnePlayMore, NewPlay, NoPlay

LEMMA FinalizeKeeps ==
    ASSUME credited \in Seq(Nat), NEW l, ListenOK(l, DOMAIN credited), Finalize(l)
    PROVE  credited' \in Seq(Nat) /\ DOMAIN credited' = DOMAIN credited
<1>1. l.play \in 1..Len(credited) /\ l.listened \in Nat
    BY LenProperties DEF ListenOK, ActiveListen
<1>2. credited[l.play] + l.listened \in Nat
    BY <1>1, ElementOfSeq, LenProperties
<1> QED
    BY <1>1, <1>2, ExceptSeq DEF Finalize

\* What was well formed stays so with more plays.
LEMMA MorePlays ==
    ASSUME NEW plays, NEW more, plays \subseteq more
    PROVE  /\ \A l : ActiveOK(l, plays) => ActiveOK(l, more)
           /\ \A ts : TasksOK(ts, plays) => TasksOK(ts, more)
           /\ \A m : MonitorOK(m, plays) => MonitorOK(m, more)
           /\ \A r : PlayerOK(r, plays) => PlayerOK(r, more)
<1>1. \A l : ListenOK(l, plays) => ListenOK(l, more)
    BY DEF ListenOK
<1>2. \A p, t : Playable(p, t, plays) => Playable(p, t, more)
    BY DEF Playable
<1>3. \A task : TaskOK(task, plays) => TaskOK(task, more)
    BY <1>2 DEF TaskOK
<1>4. \A n : NextOK(n, plays) => NextOK(n, more)
    BY <1>2 DEF NextOK
<1> QED
    BY <1>1, <1>2, <1>3, <1>4 DEF ActiveOK, TasksOK, MonitorOK, SeenOK, PlayerOK

\* What a step leaves alone stays well formed.
LEMMA LeftAlone ==
    ASSUME IInv, DOMAIN credited \subseteq DOMAIN credited'
    PROVE  /\ active' = active => ActiveOK(active, DOMAIN credited)'
           /\ tasks' = tasks => TasksOK(tasks, DOMAIN credited)'
           /\ monitor' = monitor => MonitorOK(monitor, DOMAIN credited)'
           /\ player' = player => PlayerOK(player, DOMAIN credited)'
    BY MorePlays DEF IInv

LEMMA NoPlayMore == UNCHANGED credited => DOMAIN credited \subseteq DOMAIN credited'
    OBVIOUS
-----------------------------------------------------------------------------
(* Calls under way. *)

LEMMA TaskBegins ==
    ASSUME IInv, DOMAIN credited \subseteq DOMAIN credited',
           NEW task, Begin(task), TaskOK(task, DOMAIN credited')
    PROVE  TasksOK(tasks, DOMAIN credited)'
    BY MorePlays DEF IInv, Begin, TasksOK

LEMMA TaskEnds ==
    ASSUME IInv, DOMAIN credited \subseteq DOMAIN credited', NEW task, Finish(task)
    PROVE  TasksOK(tasks, DOMAIN credited)'
    BY MorePlays DEF IInv, Finish, TasksOK

LEMMA TaskGoesOn ==
    ASSUME IInv, DOMAIN credited \subseteq DOMAIN credited',
           NEW task \in tasks, NEW op, Becomes(task, op),
           op \in {"keep", "fill", "leave"} \/ (op = "move here" /\ task.op = "start here")
    PROVE  TasksOK(tasks, DOMAIN credited)'
<1>1. TaskOK(task, DOMAIN credited')
    BY MorePlays DEF IInv, TasksOK
<1>2. TaskOK([task EXCEPT !.op = op], DOMAIN credited')
    BY <1>1 DEF TaskOK, Ops
<1> QED
    BY <1>2, MorePlays DEF IInv, Becomes, TasksOK

\* A call that has no play to tell the tracker of.
LEMMA PlainTask ==
    ASSUME IInv, NEW op \in {"next", "stop", "keep", "fill", "move away"}, NEW q \in Seq(Track),
           NEW plays, calls' \in Nat
    PROVE  TaskOK(Task(op, NoPlay, None, q), plays)
    BY DEF TaskOK, Task, NoPlay, Ops, IInv, PlayerOK

LEMMA CallCounts == ASSUME IInv, Call PROVE calls' \in Nat
    BY DEF IInv, CountsOK, Call
-----------------------------------------------------------------------------
(* Listens. *)

LEMMA ListenBegins ==
    ASSUME NEW plays, NEW p \in plays, p \in Nat, NEW t \in Track, NEW q \in Seq(Track)
    PROVE  ListenOK(Listen(p, t, q), plays)
    BY ListeningAssumption DEF ListenOK, Listen, ActiveListen

LEMMA ListenFound ==
    ASSUME NEW plays, NEW o, SeenOK(o, plays), o.state # "Stopped", NEW q \in Seq(Track),
           NEW listened \in Nat
    PROVE  ListenOK(Observed(o, q, listened), plays)
<1>1. o.play \in plays /\ o.play \in Nat /\ o.track \in Track /\ o.position \in 0..MaxPosition
    BY DEF SeenOK, Playable
<1> QED
    BY <1>1 DEF ListenOK, Listen, Observed, ActiveListen

\* Of a listen that changes what it has of the report and of its queue.
LEMMA ListenChanges ==
    ASSUME NEW plays, NEW l, ListenOK(l, plays)
    PROVE  /\ \A q \in Seq(Track) : ListenOK([l EXCEPT !.queue = q], plays)
           /\ \A due \in BOOLEAN : ListenOK([l EXCEPT !.due = due], plays)
           /\ ListenOK([l EXCEPT !.pending = Late(@), !.waiting = Late(@)], plays)
    BY DEF ListenOK, ActiveListen, Late

LEMMA Finalizes ==
    ASSUME IInv, FinalizeAny
    PROVE  credited' \in Seq(Nat) /\ DOMAIN credited' = DOMAIN credited
<1>1. CASE active = None
    BY <1>1 DEF FinalizeAny, IInv, CountsOK
<1>2. CASE active # None
    BY <1>2, FinalizeKeeps DEF FinalizeAny, IInv, CountsOK, ActiveOK
<1> QED
    BY <1>1, <1>2

LEMMA HeadAndTail ==
    ASSUME NEW q \in Seq(Track), q # <<>>
    PROVE  Head(q) \in Track /\ Tail(q) \in Seq(Track)
    BY HeadTailProperties

LEMMA NoQueue == <<>> \in Seq(Track)
    BY EmptySeq
-----------------------------------------------------------------------------
(* The player. *)

LEMMA Accepted ==
    ASSUME IInv, OnePlayMore, NEW t \in Track, NEW q \in Seq(Track), Accepts(t, q)
    PROVE  PlayerOK(player, DOMAIN credited)'
<1>1. PlayerOK(player, DOMAIN credited')
    BY OneMore, MorePlays DEF IInv, CountsOK
<1> DEFINE n == [play |-> NewPlay, track |-> t]
<1>2. NextOK(n, DOMAIN credited')
    BY OneMore DEF NextOK, Request, Playable, IInv, CountsOK
<1>3. player' = [player EXCEPT !.next = n, !.queue = q, !.epoch = @ + 1]
    BY DEF Accepts
<1> HIDE DEF n
<1> DEFINE epoch == player.epoch + 1
<1>4. player' = [player EXCEPT !.next = n, !.queue = q, !.epoch = epoch]
    BY <1>3
<1>5. epoch \in Nat
    BY <1>1 DEF PlayerOK
<1> HIDE DEF epoch
<1>6. player' \in [state : States, play : Nat, track : Track \cup {None},
                   position : 0..MaxPosition, queue : Seq(Track), next : Request, epoch : Nat]
    BY <1>1, <1>2, <1>4, <1>5 DEF PlayerOK, NextOK
<1>7. /\ player'.state = player.state /\ player'.play = player.play
      /\ player'.track = player.track /\ player'.next = n
    BY <1>1, <1>4 DEF PlayerOK
<1> QED
    BY <1>1, <1>2, <1>6, <1>7 DEF PlayerOK

LEMMA SilentOK ==
    ASSUME NEW plays, NEW position \in 0..MaxPosition, NEW epoch \in Nat
    PROVE  PlayerOK([Silent(epoch) EXCEPT !.position = position], plays)
<1>1. NextOK(Nothing, plays)
    BY NoQueue DEF NextOK, Nothing, Request, NoPlay
<1> QED
    BY <1>1, NoQueue, ListeningAssumption DEF PlayerOK, Silent, States, NextOK, NoPlay

LEMMA FallsOK ==
    ASSUME IInv, Falls, NEW plays
    PROVE  PlayerOK(player', plays)
<1>1. player' = [Silent(player.epoch + 1) EXCEPT !.position = 0]
    BY DEF Falls, Silent
<1>2. 0 \in 0..MaxPosition /\ player.epoch + 1 \in Nat
    BY ListeningAssumption DEF IInv, PlayerOK
<1> QED
    BY <1>1, <1>2, SilentOK

LEMMA PlaysOK ==
    ASSUME IInv, NEW p \in Nat, NEW t \in Track, NEW q \in Seq(Track), Plays(p, t, q),
           p \in DOMAIN credited'
    PROVE  PlayerOK(player, DOMAIN credited)'
<1>1. NextOK(Nothing, DOMAIN credited')
    BY NoQueue DEF NextOK, Nothing, Request, NoPlay
<1>2. player' = [state |-> "Playing", play |-> p, track |-> t, position |-> 0,
                 queue |-> q, next |-> Nothing, epoch |-> player.epoch]
    BY DEF Plays, Silent
<1>3. /\ Playable(p, t, DOMAIN credited') /\ 0 \in 0..MaxPosition /\ Nothing \in Request
      /\ player.epoch \in Nat
    BY <1>1, ListeningAssumption DEF Playable, NextOK, IInv, PlayerOK
<1> QED
    BY <1>1, <1>2, <1>3 DEF PlayerOK, States
-----------------------------------------------------------------------------
LEMMA InitOK == Init => IInv
<1> SUFFICES ASSUME Init PROVE IInv
    OBVIOUS
<1>1. player = [Silent(0) EXCEPT !.position = 0]
    BY DEF Init, Silent
<1>2. PlayerOK(player, DOMAIN credited)
    BY <1>1, SilentOK, ListeningAssumption
<1>3. credited \in Seq(Nat)
    BY EmptySeq DEF Init
<1> QED
    BY <1>2, <1>3, NoQueue DEF Init, IInv, CountsOK, ActiveOK, TasksOK, MonitorOK
-----------------------------------------------------------------------------
(* Every action keeps the invariant: the listener's. *)

LEMMA PlayKeeps ==
    ASSUME IInv, NEW t \in Asked, NEW q \in Queue, NEW op \in {"start", "start here"},
           Play(t, q, op)
    PROVE  IInv'
<1>1. t \in Track /\ q \in Seq(Track)
    BY ListeningAssumption, QueuesAreSequences
<1>2. /\ credited' \in Seq(Nat) /\ DOMAIN credited \subseteq DOMAIN credited'
      /\ NewPlay \in Nat /\ NewPlay \in DOMAIN credited' /\ calls' \in Nat
    BY OneMore, CallCounts DEF Play, IInv, CountsOK
<1>3. TaskOK(Task(op, NewPlay, t, q), DOMAIN credited')
    BY <1>1, <1>2 DEF TaskOK, Task, Ops, Playable, IInv, PlayerOK
<1>4. TasksOK(tasks, DOMAIN credited)'
    BY <1>2, <1>3, TaskBegins DEF Play
<1>5. PlayerOK(player, DOMAIN credited)'
    BY <1>1, Accepted DEF Play
<1> QED
    BY <1>2, <1>4, <1>5, LeftAlone DEF Play, tracker, IInv, CountsOK

LEMMA SkipKeeps ==
    ASSUME IInv, Skip
    PROVE  IInv'
<1>1. calls' \in Nat /\ player.queue \in Seq(Track)
    BY CallCounts DEF Skip, IInv, PlayerOK
<1>2. CASE player.queue # <<>> /\ OnePlayMore /\ Accepts(Head(player.queue), Tail(player.queue))
            /\ Begin(Task("next", NewPlay, None, <<>>))
  <2>1. /\ credited' \in Seq(Nat) /\ DOMAIN credited \subseteq DOMAIN credited'
        /\ NewPlay \in Nat /\ NewPlay \in DOMAIN credited'
      BY <1>2, OneMore DEF IInv, CountsOK
  <2>2. TaskOK(Task("next", NewPlay, None, <<>>), DOMAIN credited')
      BY <1>1, <2>1, NoQueue DEF TaskOK, Task, Ops, IInv, PlayerOK
  <2>3. TasksOK(tasks, DOMAIN credited)'
      BY <1>2, <2>1, <2>2, TaskBegins
  <2>4. PlayerOK(player, DOMAIN credited)'
      BY <1>1, <1>2, HeadAndTail, Accepted
  <2> QED
      BY <1>1, <2>1, <2>3, <2>4, LeftAlone DEF Skip, tracker, IInv, CountsOK
<1>3. CASE player.queue = <<>> /\ UNCHANGED credited /\ Falls
            /\ Begin(Task("next", NoPlay, None, <<>>))
  <2>1. TasksOK(tasks, DOMAIN credited)'
      BY <1>1, <1>3, NoQueue, PlainTask, TaskBegins
  <2>2. PlayerOK(player, DOMAIN credited)'
      BY <1>3, FallsOK
  <2> QED
      BY <1>1, <1>3, <2>1, <2>2, LeftAlone DEF Skip, tracker, IInv, CountsOK
<1> QED
    BY <1>2, <1>3 DEF Skip

LEMMA StopKeeps ==
    ASSUME IInv, Stop
    PROVE  IInv'
<1>1. calls' \in Nat
    BY CallCounts DEF Stop
<1>2. TasksOK(tasks, DOMAIN credited)'
    BY <1>1, NoQueue, PlainTask, TaskBegins DEF Stop
<1>3. PlayerOK(player, DOMAIN credited)'
    BY FallsOK DEF Stop
<1> QED
    BY <1>1, <1>2, <1>3, LeftAlone DEF Stop, tracker, IInv, CountsOK

LEMMA SetQueueKeeps ==
    ASSUME IInv, NEW q \in Queue, SetQueue(q)
    PROVE  IInv'
<1>1. calls' \in Nat /\ q \in Seq(Track) /\ UNCHANGED credited
    BY CallCounts, QueuesAreSequences DEF SetQueue
<1>2. TasksOK(tasks, DOMAIN credited)'
    BY <1>1, PlainTask, TaskBegins DEF SetQueue
<1>3. ActiveOK(active, DOMAIN credited)'
  <2>1. CASE active # None
    <3>1. ListenOK([active EXCEPT !.queue = q], DOMAIN credited)
        BY <1>1, <2>1, NoQueue, ListenChanges DEF IInv, ActiveOK
    <3> QED
        BY <1>1, <2>1, <3>1 DEF SetQueue, ActiveOK
  <2>2. CASE active = None
      BY <2>2 DEF SetQueue, ActiveOK
  <2> QED
      BY <2>1, <2>2
<1> QED
    BY <1>1, <1>2, <1>3, LeftAlone DEF SetQueue, IInv, CountsOK

LEMMA PauseKeeps ==
    ASSUME IInv, Pause
    PROVE  IInv'
<1>1. calls' \in Nat
    BY CallCounts DEF Pause
<1>2. PlayerOK(player, DOMAIN credited)'
    BY DEF Pause, IInv, PlayerOK, States
<1> QED
    BY <1>1, <1>2, LeftAlone DEF Pause, tracker, IInv, CountsOK

LEMMA TransferAwayKeeps ==
    ASSUME IInv, TransferAway
    PROVE  IInv'
<1>1. calls' \in Nat
    BY CallCounts DEF TransferAway
<1>2. TasksOK(tasks, DOMAIN credited)'
    BY <1>1, NoQueue, PlainTask, TaskBegins DEF TransferAway
<1> QED
    BY <1>1, <1>2, LeftAlone DEF TransferAway, tracker, IInv, CountsOK
-----------------------------------------------------------------------------
(* The calls under way. *)

LEMMA StartKeeps ==
    ASSUME IInv, NEW task \in tasks, Start(task)
    PROVE  IInv'
<1>1. credited' \in Seq(Nat) /\ DOMAIN credited' = DOMAIN credited
    BY Finalizes DEF Start
<1>2. TasksOK(tasks, DOMAIN credited)'
    BY <1>1, TaskEnds, TaskGoesOn DEF Start
<1>3. /\ task.play \in DOMAIN credited /\ task.play \in Nat
      /\ task.track \in Track /\ task.queue \in Seq(Track)
    BY DEF Start, IInv, TasksOK, TaskOK, Playable
<1>4. ActiveOK(active, DOMAIN credited)'
    BY <1>1, <1>3, ListenBegins DEF Start, ActiveOK
<1> QED
    BY <1>1, <1>2, <1>4, NoQueue, LeftAlone DEF Start, IInv, CountsOK

LEMMA SkipListenKeeps ==
    ASSUME IInv, NEW task \in tasks, SkipListen(task)
    PROVE  IInv'
<1>1. credited' \in Seq(Nat) /\ DOMAIN credited' = DOMAIN credited
    BY Finalizes DEF SkipListen
<1>2. TasksOK(tasks, DOMAIN credited)'
    BY <1>1, TaskEnds DEF SkipListen
<1>3. ActiveOK(active, DOMAIN credited)'
  <2>1. CASE active = None \/ active.queue = <<>>
      BY <2>1 DEF SkipListen, ActiveOK
  <2>2. CASE ~(active = None \/ active.queue = <<>>)
    <3> DEFINE p == IF task.play = NoPlay THEN active.play ELSE task.play
    <3>1. ListenOK(active, DOMAIN credited) /\ TaskOK(task, DOMAIN credited)
        BY <2>2 DEF IInv, ActiveOK, TasksOK
    <3>2. p \in DOMAIN credited /\ p \in Nat /\ active.queue \in Seq(Track)
        BY <3>1 DEF ListenOK, ActiveListen, TaskOK
    <3>3. active' = Listen(p, Head(active.queue), Tail(active.queue))
        BY <2>2 DEF SkipListen
    <3> HIDE DEF p
    <3>4. ListenOK(active', DOMAIN credited)
        BY <2>2, <3>2, <3>3, HeadAndTail, ListenBegins
    <3> QED
        BY <1>1, <3>4 DEF ActiveOK
  <2> QED
      BY <2>1, <2>2
<1> QED
    BY <1>1, <1>2, <1>3, LeftAlone DEF SkipListen, IInv, CountsOK

LEMMA StopListenKeeps ==
    ASSUME IInv, NEW task \in tasks, StopListen(task)
    PROVE  IInv'
<1>1. credited' \in Seq(Nat) /\ DOMAIN credited' = DOMAIN credited
    BY Finalizes DEF StopListen
<1>2. TasksOK(tasks, DOMAIN credited)'
    BY <1>1, TaskEnds DEF StopListen
<1> QED
    BY <1>1, <1>2, LeftAlone DEF StopListen, IInv, CountsOK, ActiveOK

LEMMA KeepQueueKeeps ==
    ASSUME IInv, NEW task \in tasks, KeepQueue(task)
    PROVE  IInv'
<1>1. UNCHANGED credited /\ TasksOK(tasks, DOMAIN credited)'
    BY TaskGoesOn DEF KeepQueue
<1>2. pendingQueue' \in Seq(Track)
    BY DEF KeepQueue, IInv, TasksOK, TaskOK
<1> QED
    BY <1>1, <1>2, LeftAlone DEF KeepQueue, IInv, CountsOK

LEMMA FillQueueKeeps ==
    ASSUME IInv, NEW task \in tasks, FillQueue(task)
    PROVE  IInv'
<1>1. UNCHANGED credited /\ TasksOK(tasks, DOMAIN credited)'
    BY TaskEnds DEF FillQueue
<1>2. task.queue \in Seq(Track)
    BY DEF IInv, TasksOK, TaskOK
<1>3. PlayerOK(player, DOMAIN credited)'
    BY <1>1, <1>2 DEF FillQueue, IInv, PlayerOK
<1> QED
    BY <1>1, <1>3, LeftAlone DEF FillQueue, tracker, IInv, CountsOK

LEMMA MoveHereKeeps ==
    ASSUME IInv, NEW task \in tasks, MoveHere(task)
    PROVE  IInv'
<1>1. CASE UNCHANGED <<active, credited>>
  <2>1. TasksOK(tasks, DOMAIN credited)'
      BY <1>1, TaskEnds DEF MoveHere
  <2> QED
      BY <1>1, <2>1, LeftAlone DEF MoveHere, IInv, CountsOK
<1>2. ASSUME OnePlayMore, NEW l \in Elsewhere, active' = [l EXCEPT !.play = NewPlay]
      PROVE  IInv'
  <2>1. /\ credited' \in Seq(Nat) /\ DOMAIN credited \subseteq DOMAIN credited'
        /\ NewPlay \in Nat /\ NewPlay \in DOMAIN credited'
      BY <1>2, OneMore DEF IInv, CountsOK
  <2>2. TasksOK(tasks, DOMAIN credited)'
      BY <2>1, TaskEnds DEF MoveHere
  <2>3. l \in ActiveListen /\ l.timed
      BY ListeningAssumption
  <2>4. ActiveOK(active, DOMAIN credited)'
      BY <1>2, <2>1, <2>3 DEF ActiveOK, ListenOK, ActiveListen
  <2> QED
      BY <2>1, <2>2, <2>4, LeftAlone DEF MoveHere, IInv, CountsOK
<1> QED
    BY <1>1, <1>2 DEF MoveHere

LEMMA MoveAwayKeeps ==
    ASSUME IInv, NEW task \in tasks, MoveAway(task)
    PROVE  IInv'
<1>1. UNCHANGED credited /\ TasksOK(tasks, DOMAIN credited)'
    BY TaskGoesOn DEF MoveAway
<1>2. ActiveOK(active, DOMAIN credited)'
    BY DEF MoveAway, ActiveOK
<1>3. transferred' \in Track \cup {None}
    BY DEF MoveAway, IInv, CountsOK, ActiveOK, ListenOK, ActiveListen
<1> QED
    BY <1>1, <1>2, <1>3, LeftAlone DEF MoveAway, IInv, CountsOK

LEMMA LeaveKeeps ==
    ASSUME IInv, NEW task \in tasks, Leave(task)
    PROVE  IInv'
<1>1. UNCHANGED credited /\ TasksOK(tasks, DOMAIN credited)'
  <2>1. PICK op \in {"keep", "fill"} : Clears(task, op)
      BY DEF Leave
  <2>2. TaskOK([task EXCEPT !.op = op, !.epoch = player.epoch], DOMAIN credited)
      BY DEF IInv, TasksOK, TaskOK, Ops, PlayerOK
  <2> QED
      BY <2>1, <2>2 DEF Leave, Clears, IInv, TasksOK
<1>2. ActiveOK(active, DOMAIN credited)'
  <2>1. CASE active # None
    <3>1. ListenOK([active EXCEPT !.queue = <<>>], DOMAIN credited)
        BY <1>1, <2>1, NoQueue, ListenChanges DEF IInv, ActiveOK
    <3> QED
        BY <1>1, <2>1, <3>1 DEF Leave, ActiveOK
  <2>2. CASE active = None
      BY <2>2 DEF Leave, ActiveOK
  <2> QED
      BY <2>1, <2>2
<1> QED
    BY <1>1, <1>2, LeftAlone DEF Leave, IInv, CountsOK
-----------------------------------------------------------------------------
(* The player and time. *)

LEMMA BeginTrackKeeps ==
    ASSUME IInv, BeginTrack
    PROVE  IInv'
<1>1. /\ player.next.play \in DOMAIN credited /\ player.next.play \in Nat
      /\ player.next.track \in Track /\ player.queue \in Seq(Track)
    BY DEF BeginTrack, IInv, PlayerOK, NextOK, Request, Playable
<1>2. PlayerOK(player, DOMAIN credited)'
    BY <1>1, PlaysOK DEF BeginTrack
<1> QED
    BY <1>2, LeftAlone DEF BeginTrack, tracker, IInv, CountsOK

LEMMA EndTrackKeeps ==
    ASSUME IInv, EndTrack
    PROVE  IInv'
<1>1. player.queue \in Seq(Track)
    BY DEF IInv, PlayerOK
<1>2. CASE player.queue # <<>> /\ OnePlayMore
            /\ Plays(NewPlay, Head(player.queue), Tail(player.queue))
  <2>1. /\ credited' \in Seq(Nat) /\ DOMAIN credited \subseteq DOMAIN credited'
        /\ NewPlay \in Nat /\ NewPlay \in DOMAIN credited'
      BY <1>2, OneMore DEF IInv, CountsOK
  <2>2. PlayerOK(player, DOMAIN credited)'
      BY <1>1, <1>2, <2>1, HeadAndTail, PlaysOK
  <2> QED
      BY <2>1, <2>2, LeftAlone DEF EndTrack, tracker, IInv, CountsOK
<1>3. CASE player.queue = <<>> /\ UNCHANGED credited
            /\ player' = [Silent(player.epoch) EXCEPT !.position = MaxPosition]
  <2>1. player.epoch \in Nat /\ MaxPosition \in 0..MaxPosition
      BY ListeningAssumption DEF IInv, PlayerOK
  <2>2. PlayerOK(player, DOMAIN credited)'
      BY <1>3, <2>1, SilentOK
  <2> QED
      BY <1>3, <2>2, LeftAlone DEF EndTrack, tracker, IInv, CountsOK
<1> QED
    BY <1>2, <1>3 DEF EndTrack

LEMMA TickKeeps ==
    ASSUME IInv, Tick
    PROVE  IInv'
<1>1. player.position + 1 \in 0..MaxPosition
    BY ListeningAssumption DEF Tick, IInv, PlayerOK
<1>2. PlayerOK(player, DOMAIN credited)'
    BY <1>1 DEF Tick, IInv, PlayerOK
<1>3. ActiveOK(active, DOMAIN credited)'
  <2>1. CASE active # None
    <3>1. ListenOK([active EXCEPT !.due = TRUE], DOMAIN credited)
        BY <2>1, ListenChanges DEF IInv, ActiveOK
    <3> QED
        BY <2>1, <3>1 DEF Tick, Due, ActiveOK
  <2>2. CASE active = None
      BY <2>2 DEF Tick, Due, ActiveOK
  <2> QED
      BY <2>1, <2>2
<1> QED
    BY <1>2, <1>3, LeftAlone DEF Tick, IInv, CountsOK

LEMMA GraceElapsesKeeps ==
    ASSUME IInv, GraceElapses
    PROVE  IInv'
<1>1. ListenOK([active EXCEPT !.pending = Late(@), !.waiting = Late(@)], DOMAIN credited)
    BY ListenChanges DEF GraceElapses, IInv, ActiveOK
<1>2. ActiveOK(active, DOMAIN credited)'
    BY <1>1 DEF GraceElapses, ActiveOK
<1> QED
    BY <1>2, LeftAlone DEF GraceElapses, IInv, CountsOK
-----------------------------------------------------------------------------
(* The monitor. *)

LEMMA LookKeeps ==
    ASSUME IInv, Look
    PROVE  IInv'
<1>1. SeenOK(monitor', DOMAIN credited)
    BY DEF Look, IInv, PlayerOK, SeenOK
<1>2. MonitorOK(monitor, DOMAIN credited)'
    BY <1>1 DEF Look, MonitorOK
<1> QED
    BY <1>2, LeftAlone DEF Look, tracker, IInv, CountsOK

LEMMA ReportSeen ==
    ASSUME IInv, monitor.at = "seen"
    PROVE  SeenOK(monitor, DOMAIN credited)
    BY DEF IInv, MonitorOK, Idle

\* A listen that stays takes from the report no more than its place.
LEMMA StaysListen ==
    ASSUME IInv, active # None, SeenOK(monitor, DOMAIN credited)
    PROVE  /\ ListenOK(Merged, DOMAIN credited) /\ Merged.play = active.play
           /\ ListenOK([Merged EXCEPT !.waiting = "yes"], DOMAIN credited)
<1>1. ListenOK(active, DOMAIN credited)
    BY DEF IInv, ActiveOK
<1>2. monitor.position \in 0..MaxPosition /\ (monitor.position > 0) \in BOOLEAN
    BY DEF SeenOK
<1> DEFINE position == IF monitor.position > active.position THEN monitor.position
                       ELSE active.position
           timed == active.timed \/ monitor.position > 0
<1>3. position \in 0..MaxPosition /\ timed \in BOOLEAN /\ (active.timed => timed)
    BY <1>1, <1>2 DEF ListenOK, ActiveListen
<1>4. Merged = [active EXCEPT !.position = position, !.timed = timed]
    BY DEF Merged
<1> HIDE DEF position, timed
<1>5. ListenOK(Merged, DOMAIN credited) /\ Merged.play = active.play
    BY <1>1, <1>3, <1>4 DEF ListenOK, ActiveListen
<1>6. ListenOK([Merged EXCEPT !.waiting = "yes"], DOMAIN credited)
    BY <1>5 DEF ListenOK, ActiveListen
<1> QED
    BY <1>5, <1>6

LEMMA MatchedListen ==
    ASSUME IInv, active # None, SeenOK(monitor, DOMAIN credited), NEW more \in Nat
    PROVE  ListenOK([active EXCEPT
                        !.pending = "no", !.waiting = "no", !.timed = TRUE,
                        !.position = monitor.position, !.listened = @ + more],
                    DOMAIN credited)
<1>1. ListenOK(active, DOMAIN credited) /\ monitor.position \in 0..MaxPosition
    BY DEF IInv, ActiveOK, SeenOK
<1>2. active.listened + more \in Nat
    BY <1>1 DEF ListenOK, ActiveListen
<1> QED
    BY <1>1, <1>2 DEF ListenOK, ActiveListen

LEMMA RecoveredListen ==
    ASSUME IInv, SeenOK(monitor, DOMAIN credited), monitor.state # "Stopped"
    PROVE  Recovered = None \/ ListenOK(Recovered, DOMAIN credited)
<1>1. monitor.position \in Nat
    BY DEF SeenOK
<1>2. CASE Holds(pendingQueue, monitor.track)
  <2>1. Behind(pendingQueue, monitor.track) \in Seq(Track)
      BY <1>2, BehindIsQueue DEF IInv, CountsOK
  <2> QED
      BY <1>1, <1>2, <2>1, ListenFound DEF Recovered
<1>3. CASE ~Holds(pendingQueue, monitor.track)
    BY <1>1, <1>3, NoQueue, ListenFound DEF Recovered
<1> QED
    BY <1>2, <1>3

\* What a step on the tracker has to leave: a listen that is kept, or one that is
\* closed for another or for none.
ListenKept(l) == ListenOK(l, DOMAIN credited) /\ Keeps(l)
ListenClosed(l) == (l = None \/ ListenOK(l, DOMAIN credited)) /\ ClosesFor(l)

LEMMA KeptOrClosed ==
    ASSUME IInv, active # None, NEW l, ListenKept(l) \/ ListenClosed(l)
    PROVE  /\ credited' \in Seq(Nat) /\ DOMAIN credited' = DOMAIN credited
           /\ ActiveOK(active, DOMAIN credited)'
<1>1. CASE ListenKept(l)
  <2>1. ListenOK([l EXCEPT !.due = FALSE], DOMAIN credited)
      BY <1>1, ListenChanges DEF ListenKept
  <2> QED
      BY <1>1, <2>1 DEF ListenKept, Keeps, IInv, CountsOK, ActiveOK
<1>2. CASE ListenClosed(l)
  <2>1. credited' \in Seq(Nat) /\ DOMAIN credited' = DOMAIN credited
      BY <1>2, FinalizeKeeps DEF ListenClosed, ClosesFor, IInv, CountsOK, ActiveOK
  <2> QED
      BY <1>2, <2>1 DEF ListenClosed, ClosesFor, ActiveOK
<1> QED
    BY <1>1, <1>2

LEMMA QueueTakenOK ==
    ASSUME IInv, QueueTaken
    PROVE  pendingQueue' \in Seq(Track)
    BY NoQueue DEF IInv, CountsOK, QueueTaken

\* A report changes the listen in one of the two ways, whatever it shows.
LEMMA ReportTells ==
    ASSUME IInv, Observe
    PROVE  /\ \E l : ListenKept(l) \/ ListenClosed(l)
           /\ pendingQueue' \in Seq(Track)
<1>1. SeenOK(monitor, DOMAIN credited) /\ active # None /\ pendingQueue \in Seq(Track)
    BY ReportSeen DEF Observe, IInv, CountsOK
<1>2. CASE ObserveStopped
  <2>1. CASE Keeps(Merged)
      BY <1>1, <2>1, StaysListen DEF ListenKept, Keeps
  <2>2. CASE Keeps([Merged EXCEPT !.waiting = "yes"])
      BY <1>1, <2>2, StaysListen DEF ListenKept, Keeps
  <2>3. CASE ClosesFor(None) /\ UNCHANGED pendingQueue
      BY <1>1, <2>3 DEF ListenClosed
  <2> QED
      BY <1>2, <2>1, <2>2, <2>3 DEF ObserveStopped
<1>3. CASE ObserveMatch
  <2> DEFINE more == IF active.due /\ monitor.state = "Playing" THEN 1 ELSE 0
             l == [active EXCEPT
                      !.pending = "no", !.waiting = "no", !.timed = TRUE,
                      !.position = monitor.position, !.listened = @ + more]
  <2>1. more \in Nat
      OBVIOUS
  <2>2. Keeps(l)
      BY <1>3 DEF ObserveMatch
  <2> HIDE DEF more
  <2>3. ListenOK(l, DOMAIN credited)
      BY <1>1, <2>1, MatchedListen
  <2> HIDE DEF l
  <2> QED
      BY <1>1, <2>2, <2>3 DEF ListenKept, Keeps
<1>4. CASE ObserveOther
  <2>1. CASE Keeps(active)
      BY <1>1, <2>1 DEF ListenKept, Keeps, IInv, ActiveOK
  <2>2. CASE /\ Holds(active.queue, monitor.track)
             /\ ClosesFor(Observed(monitor, Behind(active.queue, monitor.track), 0))
             /\ UNCHANGED pendingQueue
    <3>1. Behind(active.queue, monitor.track) \in Seq(Track)
        BY <1>1, <2>2, BehindIsQueue DEF IInv, ActiveOK, ListenOK, ActiveListen
    <3>2. ListenOK(Observed(monitor, Behind(active.queue, monitor.track), 0), DOMAIN credited)
        BY <1>1, <1>4, <3>1, ListenFound DEF ObserveOther
    <3> QED
        BY <1>1, <2>2, <3>2 DEF ListenClosed
  <2>3. CASE ClosesFor(Recovered) /\ QueueTaken
      BY <1>1, <1>4, <2>3, RecoveredListen, QueueTakenOK DEF ListenClosed, ObserveOther
  <2>4. CASE ClosesFor(None) /\ UNCHANGED pendingQueue
      BY <1>1, <2>4 DEF ListenClosed
  <2> QED
      BY <1>4, <2>1, <2>2, <2>3, <2>4 DEF ObserveOther
<1> QED
    BY <1>2, <1>3, <1>4 DEF Observe

LEMMA ObserveKeeps ==
    ASSUME IInv, Observe
    PROVE  IInv'
<1>1. PICK l : ListenKept(l) \/ ListenClosed(l)
    BY ReportTells
<1>2. active # None
    BY DEF Observe
<1>3. /\ credited' \in Seq(Nat) /\ DOMAIN credited' = DOMAIN credited
      /\ ActiveOK(active, DOMAIN credited)'
    BY <1>1, <1>2, KeptOrClosed
<1>4. MonitorOK(monitor, DOMAIN credited)'
    BY DEF Observe, MonitorOK
<1> QED
    BY <1>3, <1>4, ReportTells, LeftAlone DEF Observe, IInv, CountsOK

LEMMA ObserveNoneKeeps ==
    ASSUME IInv, ObserveNone
    PROVE  IInv'
<1>1. SeenOK(monitor, DOMAIN credited) /\ UNCHANGED credited
    BY ReportSeen DEF ObserveNone
<1>2. MonitorOK(monitor, DOMAIN credited)' /\ pendingQueue' \in Seq(Track)
  <2>1. CASE monitor' = Idle /\ UNCHANGED pendingQueue
      BY <2>1 DEF MonitorOK, IInv, CountsOK
  <2>2. CASE /\ monitor.state = "Playing" /\ Recovered # None /\ QueueTaken
             /\ monitor' = [at |-> "found", listen |-> Recovered]
    <3>1. ListenOK(Recovered, DOMAIN credited)
        BY <1>1, <2>2, RecoveredListen
    <3> QED
        BY <1>1, <2>2, <3>1, QueueTakenOK DEF MonitorOK
  <2> QED
      BY <2>1, <2>2 DEF ObserveNone, Adopts
<1>3. transferred' \in Track \cup {None}
    BY DEF ObserveNone, IInv, CountsOK
<1> QED
    BY <1>1, <1>2, <1>3, LeftAlone DEF ObserveNone, IInv, CountsOK

LEMMA InsertRecoveredKeeps ==
    ASSUME IInv, InsertRecovered
    PROVE  IInv'
<1>1. ActiveOK(active, DOMAIN credited)' /\ MonitorOK(monitor, DOMAIN credited)'
    BY DEF InsertRecovered, IInv, MonitorOK, SeenOK, Idle, ActiveOK
<1> QED
    BY <1>1, LeftAlone DEF InsertRecovered, IInv, CountsOK
-----------------------------------------------------------------------------
LEMMA Inductive == IInv /\ [Next]_vars => IInv'
<1> SUFFICES ASSUME IInv, [Next]_vars PROVE IInv'
    OBVIOUS
<1>1. CASE Listener
    BY <1>1, PlayKeeps, SkipKeeps, StopKeeps, SetQueueKeeps, PauseKeeps, TransferAwayKeeps
    DEF Listener
<1>2. CASE TaskStep
    BY <1>2, StartKeeps, SkipListenKeeps, StopListenKeeps, KeepQueueKeeps, FillQueueKeeps,
       MoveHereKeeps, MoveAwayKeeps, LeaveKeeps DEF TaskStep
<1>3. CASE MonitorStep
    BY <1>3, LookKeeps, ObserveKeeps, ObserveNoneKeeps, InsertRecoveredKeeps DEF MonitorStep
<1>4. CASE BeginTrack \/ EndTrack \/ Tick \/ GraceElapses
    BY <1>4, BeginTrackKeeps, EndTrackKeeps, TickKeeps, GraceElapsesKeeps
<1>5. CASE UNCHANGED vars
    BY <1>5, LeftAlone DEF vars, tracker, IInv, CountsOK
<1> QED
    BY <1>1, <1>2, <1>3, <1>4, <1>5 DEF Next

LEMMA Invariance == Spec => []IInv
    BY InitOK, Inductive, PTL DEF Spec
-----------------------------------------------------------------------------
(* The theorems. *)

(* The tracker is well formed (TypeOK): a listen is of a play there was, at a place *)
(* in its track, and one that has begun knows its duration, whichever of the calls  *)
(* and of the monitor's reports came last (listening.rs: start_with_radio, next,     *)
(* observe, recover_active_listen).                                                *)
THEOREM TypeCorrect == Spec => []TypeOK
<1>1. IInv => TypeOK
    BY DEF IInv, CountsOK, ActiveOK, ListenOK, PlayerOK, TypeOK
<1> QED
    BY <1>1, Invariance, PTL

(* A listen that waits for its first match stays, with its play, at every step but   *)
(* that of a call that takes it away (StartSurvives): a report that is older than the *)
(* call shows another track, or a player that has stopped, and is passed over; time   *)
(* and queue edits change what it has and not what it is (listening.rs: observe,      *)
(* pending_match).  The theorem does not speak of a track found again before the      *)
(* start: InsertRecovered puts it in the place of the started one, as the code does.  *)
THEOREM StartsSurvive == Spec => StartSurvives
<1>1. ASSUME IInv, Observe, active.pending = "yes"
      PROVE  active' # None /\ active'.play = active.play
  <2>1. /\ SeenOK(monitor, DOMAIN credited) /\ active # None
        /\ ListenOK(active, DOMAIN credited) /\ WaitsForMatch
      BY <1>1, ReportSeen DEF Observe, IInv, ActiveOK, WaitsForMatch
  <2>2. \E l : Keeps(l) /\ ListenOK(l, DOMAIN credited) /\ l.play = active.play
    <3>1. CASE ObserveStopped
        BY <1>1, <2>1, <3>1, StaysListen DEF ObserveStopped
    <3>2. CASE ObserveMatch
      <4> DEFINE more == IF active.due /\ monitor.state = "Playing" THEN 1 ELSE 0
                 l == [active EXCEPT
                          !.pending = "no", !.waiting = "no", !.timed = TRUE,
                          !.position = monitor.position, !.listened = @ + more]
      <4>1. more \in Nat /\ l.play = active.play
          BY <2>1 DEF ListenOK, ActiveListen
      <4>2. Keeps(l)
          BY <3>2 DEF ObserveMatch
      <4> HIDE DEF more
      <4>3. ListenOK(l, DOMAIN credited)
          BY <1>1, <2>1, <4>1, MatchedListen
      <4> QED
          BY <4>1, <4>2, <4>3
    <3>3. CASE ObserveOther
        BY <2>1, <3>3 DEF ObserveOther, Foreign
    <3> QED
        BY <1>1, <3>1, <3>2, <3>3 DEF Observe
  <2>3. PICK l : Keeps(l) /\ ListenOK(l, DOMAIN credited) /\ l.play = active.play
      BY <2>2
  <2>4. /\ active' = [l EXCEPT !.due = FALSE]
        /\ [l EXCEPT !.due = FALSE] \in ActiveListen /\ [l EXCEPT !.due = FALSE].play = l.play
      BY <2>3, ListenChanges DEF Keeps, ListenOK, ActiveListen
  <2> QED
      BY <2>3, <2>4, ListeningAssumption
<1>2. ASSUME IInv, Next, active # None, active.pending = "yes",
             ~(\E task \in tasks : TakesAway(task)), ~InsertRecovered
      PROVE  active' # None /\ active'.play = active.play
  <2>1. ListenOK(active, DOMAIN credited)
      BY <1>2 DEF IInv, ActiveOK
  <2>2. CASE UNCHANGED active
      BY <1>2, <2>2
  <2>3. ASSUME NEW q \in Seq(Track), active' = [active EXCEPT !.queue = q]
        PROVE  active' # None /\ active'.play = active.play
      BY <2>1, <2>3, ListeningAssumption DEF ListenOK, ActiveListen
  <2>4. CASE Listener
    <3>1. ASSUME NEW q \in Queue, SetQueue(q)
          PROVE  active' # None /\ active'.play = active.play
        BY <1>2, <2>2, <2>3, <3>1, QueuesAreSequences DEF SetQueue
    <3>2. CASE UNCHANGED active
        BY <2>2, <3>2
    <3> QED
        BY <2>4, <3>1, <3>2 DEF Listener, Play, Skip, Stop, Pause, TransferAway, tracker
  <2>5. CASE TaskStep
    <3>1. ASSUME NEW task \in tasks, Leave(task)
          PROVE  active' # None /\ active'.play = active.play
        BY <1>2, <2>2, <2>3, <3>1, NoQueue DEF Leave
    <3>2. ASSUME NEW task \in tasks, KeepQueue(task) \/ FillQueue(task)
          PROVE  UNCHANGED active
        BY <3>2 DEF KeepQueue, FillQueue, tracker
    <3> QED
        BY <1>2, <2>2, <2>5, <3>1, <3>2 DEF TaskStep, TakesAway
  <2>6. CASE MonitorStep
    <3>1. CASE Look \/ ObserveNone
        BY <2>2, <3>1 DEF Look, ObserveNone, tracker
    <3> QED
        BY <1>1, <1>2, <2>6, <3>1 DEF MonitorStep
  <2>7. CASE BeginTrack \/ EndTrack
      BY <2>2, <2>7 DEF BeginTrack, EndTrack, tracker
  <2>8. CASE Tick
    <3>1. active' = [active EXCEPT !.due = TRUE]
        BY <1>2, <2>8 DEF Tick, Due
    <3> QED
        BY <2>1, <3>1, ListeningAssumption DEF ListenOK, ActiveListen
  <2>9. CASE GraceElapses
    <3>1. active' = [active EXCEPT !.pending = Late(@), !.waiting = Late(@)]
        BY <2>9 DEF GraceElapses
    <3>2. ListenOK(active', DOMAIN credited)
        BY <2>1, <3>1, ListenChanges
    <3>3. active'.play = active.play
        BY <2>1, <3>1 DEF ListenOK, ActiveListen
    <3> QED
        BY <3>2, <3>3, ListeningAssumption DEF ListenOK
  <2> QED
      BY <1>2, <2>4, <2>5, <2>6, <2>7, <2>8, <2>9 DEF Next
<1>3. IInv /\ [Next]_vars
          => [active # None /\ active.pending = "yes"
                /\ ~(\E task \in tasks : TakesAway(task)) /\ ~InsertRecovered
                  => active' # None /\ active'.play = active.play]_vars
    BY <1>2
<1> QED
    BY <1>3, Invariance, PTL DEF Spec, StartSurvives
=============================================================================
