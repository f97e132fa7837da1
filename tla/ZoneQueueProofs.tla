--------------------------- MODULE ZoneQueueProofs ---------------------------
(***************************************************************************)
(* Theorems about ZoneQueue, for any tracks and requests and any bounds.     *)
(*                                                                         *)
(* The invariant has six parts: the types of the queues; the copies of the   *)
(* queue, with what a writer that is between its two writes still owes; the  *)
(* types of what is believed and of what is the case; the types of the        *)
(* tasks; the advance and its one play; and the generation an advance that    *)
(* waits for its retry remembers.                                            *)
(***************************************************************************)
EXTENDS ZoneQueue, TLAPS

States == {"Playing", "Stopped", "Transitioning", "Loaded"}
Tracks == Track \cup {None}

Sessions == [current : Tracks, armed : Tracks, state : States, ended : BOOLEAN, starting : BOOLEAN]
Renderers == [state : States, current : Tracks, next : Tracks, ended : BOOLEAN]
Advancing == [at : {"begins", "waits", "playing", "retries", "saving"}, next : Track,
              rest : Seq(Track), active : Track, generation : Nat, tries : Nat]
Resting == [at |-> "rests"]
Befores == Tracks \cup Sessions
Ops == {"play", "next", "stop", "edit", "arm"}
Tasks == [op : Ops, by : {"listener", "skip", "advance"}, call : Nat,
          at : {"waiting", "preparing", "loading", "asked", "listening", "falling", "saving"},
          track : Tracks, queue : Seq(Track), generation : Nat, before : Befores]

\* Plays, skips and prewarms are about a track; a play that loads knows the session before.
WellFormed(t) ==
    /\ t \in Tasks
    /\ t.op \notin {"stop", "edit"} => t.track \in Track
    /\ t.at = "loading" => t.before \in Sessions
    /\ t.by = "advance" => t.op = "play"

QueuesOK ==
    /\ stored \in Seq(Track) /\ pendingQueue \in Seq(Track) /\ listen \in Listens \cup {None}
    /\ monitor.at = "saving" => monitor.queue \in Seq(Track)

\* A writer that no other has crossed is alone, and finds what it wrote.
Writing(t) == t.at \in {"listening", "falling", "saving"}
Shows(q) == listen # None => listen.queue = q
CopiesOK ==
    ~crossed =>
        /\ \A t, u \in tasks : Writing(t) /\ Writing(u) => t = u
        /\ \A t \in tasks : Writing(t) => advance.at # "saving" /\ monitor.at # "saving"
        /\ \A t \in tasks : t.at \in {"listening", "falling"} => stored = t.queue
        /\ \A t \in tasks : t.at = "saving" => Shows(t.queue)
        /\ advance.at = "saving" => monitor.at # "saving" /\ Shows(advance.rest)
        /\ monitor.at = "saving" => Shows(monitor.queue)
        /\ ~Between => Shows(stored)

ControlOK ==
    /\ session \in Sessions /\ renderer \in Renderers
    /\ generation \in Nat /\ calls \in Nat /\ overtaken \in BOOLEAN
    /\ later \in [track : Track, queue : Seq(Track)]
TasksOK == \A t \in tasks : WellFormed(t)
OnePlay ==
    /\ (advance.at = "playing") <=> (\E t \in tasks : t.by = "advance")
    /\ \A t, u \in tasks : t.by = "advance" /\ u.by = "advance" => t = u
AdvanceOK == advance \in Advancing \cup {Resting, NoAdvance} /\ OnePlay

\* An advance that waits for its retry remembers a generation that a listener's command
\* leaves behind.
RetryOK ==
    advance.at = "retries" =>
        /\ advance.generation <= generation
        /\ overtaken => advance.generation < generation

IInv == QueuesOK /\ CopiesOK /\ ControlOK /\ TasksOK /\ AdvanceOK /\ RetryOK
-----------------------------------------------------------------------------
(* The copies of the queue.                                                    *)

LEMMA ListenType ==
    ASSUME NEW t \in Track, NEW q \in Seq(Track), NEW p \in {"no", "yes", "late"}
    PROVE  Listen(t, q, p) \in Listens /\ Listen(t, q, p).queue = q
BY DEF Listen, Listens

\* Nobody begins or ends a write.
SameWriters == \A t : Writing(t) => (t \in tasks' <=> t \in tasks)
QuietAdvance == advance' = advance \/ (advance.at # "saving" /\ advance'.at # "saving")
QuietMonitor == monitor' = monitor \/ (monitor.at # "saving" /\ monitor'.at # "saving")

LEMMA WritersStay == ASSUME tasks' = tasks PROVE SameWriters
BY DEF SameWriters
LEMMA WritersBegin == ASSUME NEW u, ~Writing(u), Begin(u) PROVE SameWriters
BY DEF SameWriters, Begin
LEMMA WritersEnd == ASSUME NEW t, ~Writing(t), Ends(t) PROVE SameWriters
BY DEF SameWriters, Ends
LEMMA WritersTurn == ASSUME NEW t, NEW u, ~Writing(t), ~Writing(u), Turns(t, u) PROVE SameWriters
BY DEF SameWriters, Turns

\* What is listened to keeps its queue, or is closed.
LEMMA CopiesKept ==
    ASSUME CopiesOK, UNCHANGED <<stored, crossed>>, SameWriters, QuietAdvance, QuietMonitor,
           listen' = None \/ (listen # None /\ listen'.queue = listen.queue)
    PROVE  CopiesOK'
<1> SUFFICES ASSUME ~crossed' PROVE CopiesOK'
    BY DEF CopiesOK
<1>1. \A q : Shows(q) => Shows(q)'
    BY DEF Shows
<1>2. \A t \in tasks' : Writing(t) => t \in tasks
    BY DEF SameWriters
<1>3. /\ \A t, u \in tasks' : Writing(t) /\ Writing(u) => t = u
      /\ \A t \in tasks' : Writing(t) => advance'.at # "saving" /\ monitor'.at # "saving"
    BY <1>2 DEF CopiesOK, QuietAdvance, QuietMonitor
<1>4. /\ \A t \in tasks' : t.at \in {"listening", "falling"} => stored' = t.queue
      /\ \A t \in tasks' : t.at = "saving" => Shows(t.queue)'
    BY <1>1, <1>2 DEF CopiesOK, Writing
<1>5. advance'.at = "saving" => monitor'.at # "saving" /\ Shows(advance.rest)'
    <2>1. ASSUME advance'.at = "saving" PROVE advance' = advance /\ advance.at = "saving"
        BY <2>1 DEF QuietAdvance
    <2>2. ASSUME advance.at = "saving", advance' = advance PROVE Shows(advance.rest)'
        BY <2>2 DEF CopiesOK, Shows
    <2> QED
        BY <2>1, <2>2 DEF CopiesOK, QuietMonitor
<1>6. monitor'.at = "saving" => Shows(monitor.queue)'
    <2>1. ASSUME monitor'.at = "saving" PROVE monitor' = monitor /\ monitor.at = "saving"
        BY <2>1 DEF QuietMonitor
    <2> QED
        BY <2>1 DEF CopiesOK, Shows
<1>7. ~Between' => ~Between
    BY DEF Between, SameWriters, Writing, QuietAdvance, QuietMonitor
<1>8. ~Between' => Shows(stored)'
    BY <1>7 DEF CopiesOK, Shows
<1> QED
    BY <1>3, <1>4, <1>5, <1>6, <1>8 DEF CopiesOK

LEMMA Untouched ==
    ASSUME QueuesOK, CopiesOK, UNCHANGED <<queues, monitor>>, SameWriters, QuietAdvance
    PROVE  QueuesOK' /\ CopiesOK'
<1>1. QueuesOK'
    BY DEF QueuesOK, queues
<1>2. UNCHANGED <<stored, crossed, listen>> /\ QuietMonitor
    BY DEF queues, QuietMonitor
<1> QED
    BY <1>1, <1>2, CopiesKept

\* A task writes the first copy.
LEMMA TaskWrites ==
    ASSUME Writes, NEW u \in tasks', Writing(u), \A t \in tasks' : t = u \/ t \in tasks,
           u.at \in {"listening", "falling"} => stored' = u.queue,
           u.at = "saving" => Shows(u.queue)',
           QuietAdvance, QuietMonitor
    PROVE  CopiesOK'
<1> SUFFICES ASSUME ~crossed' PROVE CopiesOK'
    BY DEF CopiesOK
<1>1. ~Between
    BY DEF Writes
<1>2. \A t \in tasks' : Writing(t) => t = u
    BY <1>1 DEF Between, Writing
<1>3. advance'.at # "saving" /\ monitor'.at # "saving"
    BY <1>1 DEF Between, QuietAdvance, QuietMonitor
<1>4. Between'
    BY DEF Between, Writing
<1>5. /\ \A t \in tasks' : t.at \in {"listening", "falling"} => stored' = t.queue
      /\ \A t \in tasks' : t.at = "saving" => Shows(t.queue)'
    BY <1>2 DEF Writing
<1> QED
    BY <1>2, <1>3, <1>4, <1>5 DEF CopiesOK

\* Nobody is between when the advance or the monitor writes what is listened to.
LEMMA AdvanceWrites ==
    ASSUME Writes, UNCHANGED <<tasks, monitor>>, advance'.at = "saving", Shows(advance.rest)'
    PROVE  CopiesOK'
<1> SUFFICES ASSUME ~crossed' PROVE CopiesOK'
    BY DEF CopiesOK
<1>1. ~Between
    BY DEF Writes
<1>2. (\A t \in tasks' : ~Writing(t)) /\ monitor'.at # "saving"
    BY <1>1 DEF Between, Writing
<1> QED
    BY <1>2 DEF CopiesOK, Between, Writing

LEMMA MonitorWrites ==
    ASSUME Writes, SameWriters, UNCHANGED advance, monitor'.at = "saving", Shows(monitor.queue)'
    PROVE  CopiesOK'
<1> SUFFICES ASSUME ~crossed' PROVE CopiesOK'
    BY DEF CopiesOK
<1>1. ~Between
    BY DEF Writes
<1>2. (\A t \in tasks' : ~Writing(t)) /\ advance'.at # "saving"
    BY <1>1 DEF Between, Writing, SameWriters
<1> QED
    BY <1>2 DEF CopiesOK, Between, Writing

\* One who writes both copies in one step has crossed whoever is between.
LEMMA BothWritten ==
    ASSUME Writes, SameWriters, UNCHANGED advance, QuietMonitor, Shows(stored)'
    PROVE  CopiesOK'
<1> SUFFICES ASSUME ~crossed' PROVE CopiesOK'
    BY DEF CopiesOK
<1>1. ~Between
    BY DEF Writes
<1>2. (\A t \in tasks' : ~Writing(t)) /\ advance'.at # "saving" /\ monitor'.at # "saving"
    BY <1>1 DEF Between, Writing, SameWriters, QuietMonitor
<1> QED
    BY <1>2 DEF CopiesOK, Writing

\* A task writes the second copy.
LEMMA TaskHasWritten ==
    ASSUME CopiesOK, UNCHANGED crossed, NEW t \in tasks, Writing(t),
           \A u \in tasks' : Writing(u) => u \in tasks /\ u # t,
           QuietAdvance, QuietMonitor, ~crossed => Shows(stored)'
    PROVE  CopiesOK'
<1> SUFFICES ASSUME ~crossed' PROVE CopiesOK'
    BY DEF CopiesOK
<1>1. \A u \in tasks' : ~Writing(u)
    BY DEF CopiesOK
<1>2. advance'.at # "saving" /\ monitor'.at # "saving"
    BY DEF CopiesOK, QuietAdvance, QuietMonitor
<1> QED
    BY <1>1, <1>2 DEF CopiesOK, Writing

\* What is listened to goes on to the head of its queue, and leaves the rest.
LEMMA NextListened ==
    ASSUME QueuesOK, ListenNext
    PROVE  /\ Left \in Seq(Track) /\ Writes /\ (listen' # None => listen'.queue = Left)
           /\ listen' \in Listens \cup {None} /\ UNCHANGED <<stored, pendingQueue>>
<1>1. listen \in Listens /\ listen.queue \in Seq(Track)
    BY DEF QueuesOK, ListenNext, Listens
<1>2. Writes /\ UNCHANGED <<stored, pendingQueue>>
    BY DEF ListenNext
<1>3. CASE listen.queue = <<>>
    <2>1. listen' = None /\ Left = <<>>
        BY <1>3 DEF ListenNext, Left
    <2> QED
        BY <1>2, <2>1
<1>4. CASE listen.queue # <<>>
    <2>1. Head(listen.queue) \in Track /\ Tail(listen.queue) \in Seq(Track)
        BY <1>1, <1>4
    <2>2. Left = Tail(listen.queue) /\ listen' = Listen(Head(listen.queue), Left, "yes")
        BY <1>4 DEF ListenNext, Left
    <2>3. listen' \in Listens /\ listen'.queue = Tail(listen.queue)
        BY <2>1, <2>2, ListenType
    <2> QED
        BY <1>2, <2>1, <2>2, <2>3
<1> QED
    BY <1>3, <1>4
-----------------------------------------------------------------------------
(* The other parts.                                                            *)

LEMMA AdvanceKept == ASSUME AdvanceOK, UNCHANGED advance, tasks' = tasks PROVE AdvanceOK'
BY DEF AdvanceOK, OnePlay

\* Tasks of others come and go.
LEMMA OthersCome ==
    ASSUME AdvanceOK, UNCHANGED advance, NEW u, u.by # "advance", Begin(u)
    PROVE  AdvanceOK'
BY DEF AdvanceOK, OnePlay, Begin

LEMMA OthersGo ==
    ASSUME AdvanceOK, UNCHANGED advance, NEW t, t.by # "advance", Ends(t)
    PROVE  AdvanceOK'
BY DEF AdvanceOK, OnePlay, Ends

LEMMA AnyTurns ==
    ASSUME AdvanceOK, UNCHANGED advance, NEW t \in tasks, NEW u, u.by = t.by, Turns(t, u)
    PROVE  AdvanceOK'
BY DEF AdvanceOK, OnePlay, Turns

LEMMA TasksKept == ASSUME TasksOK, tasks' = tasks PROVE TasksOK'
BY DEF TasksOK

LEMMA TaskBegins == ASSUME TasksOK, NEW u, WellFormed(u), Begin(u) PROVE TasksOK'
BY DEF TasksOK, Begin, WellFormed

LEMMA TaskEnds == ASSUME TasksOK, NEW t, Ends(t) PROVE TasksOK'
BY DEF TasksOK, Ends, WellFormed

LEMMA TaskTurns == ASSUME TasksOK, NEW t, NEW u, WellFormed(u), Turns(t, u) PROVE TasksOK'
BY DEF TasksOK, Turns, WellFormed

LEMMA RetryKept ==
    ASSUME RetryOK, UNCHANGED <<advance, generation, overtaken>> PROVE RetryOK'
BY DEF RetryOK

LEMMA RetryOvertaken ==
    ASSUME RetryOK, ControlOK, AdvanceOK, Commands, UNCHANGED advance
    PROVE  RetryOK'
<1>1. CASE advance.at = "retries"
    <2>1. advance.generation \in Nat
        BY <1>1 DEF AdvanceOK, Advancing, Resting, NoAdvance
    <2> QED
        BY <2>1 DEF RetryOK, ControlOK, Commands
<1>2. CASE advance.at # "retries"
    BY <1>2 DEF RetryOK
<1> QED
    BY <1>1, <1>2

LEMMA NewFormed ==
    ASSUME ControlOK, NEW op \in Ops, NEW t \in Tracks,
           NEW q \in Seq(Track), op \notin {"stop", "edit"} => t \in Track
    PROVE  /\ WellFormed(New(op, t, q)) /\ New(op, t, q).op = op /\ New(op, t, q).by = "listener"
           /\ New(op, t, q).track = t /\ New(op, t, q).queue = q /\ New(op, t, q).at = "waiting"
BY DEF ControlOK, New, WellFormed, Tasks, Befores, Tracks

\* A task that goes on to another place than the loading of a play.
LEMMA TurnsFormed ==
    ASSUME NEW t, WellFormed(t),
           NEW at \in {"waiting", "preparing", "asked", "listening", "falling", "saving"}
    PROVE  LET u == [t EXCEPT !.at = at]
           IN  WellFormed(u) /\ u.by = t.by /\ u.at = at /\ u.queue = t.queue
<1> DEFINE u == [t EXCEPT !.at = at]
<1>1. u \in Tasks /\ u.by = t.by /\ u.at = at /\ u.queue = t.queue /\ u.op = t.op /\ u.track = t.track
    BY DEF WellFormed, Tasks
<1> QED
    BY <1>1 DEF WellFormed

LEMMA PreparesFormed ==
    ASSUME ControlOK, NEW t, WellFormed(t), t.op \notin {"stop", "edit"}
    PROVE  WellFormed(Prepares(t)) /\ Prepares(t).by = t.by /\ Prepares(t).at = "preparing"
<1>1. t \in Tasks /\ generation + 1 \in Nat
    BY DEF ControlOK, WellFormed
<1>2. /\ Prepares(t) \in Tasks /\ Prepares(t).by = t.by /\ Prepares(t).track = t.track
      /\ Prepares(t).op = "play" /\ Prepares(t).at = "preparing"
    BY <1>1 DEF Prepares, Tasks, Ops
<1> QED
    BY <1>2 DEF WellFormed
-----------------------------------------------------------------------------
(* The advance.                                                                *)

LEMMA AttemptsKeeps ==
    ASSUME IInv, Attempts, AdvanceStep, advance.at \in {"begins", "waits", "retries"}
    PROVE  IInv'
<1>a. advance \in Advancing
    BY DEF IInv, AdvanceOK, Resting, NoAdvance
<1>p. WellFormed(Preparing) /\ Preparing.by = "advance" /\ Preparing.at = "preparing"
    <2> DEFINE new == New("play", advance.next, advance.rest)
               own == [new EXCEPT !.by = "advance", !.call = 0]
    <2>1. advance.next \in Track /\ advance.rest \in Seq(Track)
        BY <1>a DEF Advancing
    <2>2. WellFormed(new) /\ new.op = "play" /\ new.track \in Track /\ new.at = "waiting"
        BY <2>1, NewFormed DEF IInv, Ops, Tracks
    <2>3. new \in Tasks
        BY <2>2 DEF WellFormed
    <2>4. /\ own \in Tasks /\ own.by = "advance" /\ own.op = "play"
          /\ own.track \in Track /\ own.at = "waiting"
        BY <2>2, <2>3 DEF Tasks
    <2>5. WellFormed(own)
        BY <2>4 DEF WellFormed
    <2> QED
        BY <2>4, <2>5, PreparesFormed DEF IInv, Preparing
<1>1. advance' \in Advancing /\ advance'.at = "playing"
    BY <1>a DEF Attempts, Advancing
<1>2. QueuesOK' /\ CopiesOK'
    <2>1. SameWriters
        BY <1>p, WritersBegin DEF Attempts, Writing
    <2>2. QuietAdvance
        BY <1>1 DEF QuietAdvance
    <2>3. UNCHANGED <<queues, monitor>>
        BY DEF Attempts, AdvanceStep, looks
    <2> QED
        BY <2>1, <2>2, <2>3, Untouched DEF IInv
<1>3. ControlOK'
    BY DEF IInv, ControlOK, Attempts, AdvanceStep, counts
<1>4. TasksOK'
    BY <1>p, TaskBegins DEF IInv, Attempts
<1>5. AdvanceOK'
    <2>1. \A t \in tasks : t.by # "advance"
        BY DEF IInv, AdvanceOK, OnePlay
    <2>2. tasks' = tasks \cup {Preparing}
        BY DEF Attempts, Begin
    <2> QED
        BY <1>1, <2>1, <2>2, <1>p DEF AdvanceOK, OnePlay
<1>6. RetryOK'
    BY <1>1 DEF RetryOK
<1> QED
    BY <1>2, <1>3, <1>4, <1>5, <1>6 DEF IInv

\* An advance that goes elsewhere than to its play or to a retry.
LEMMA AdvanceMoves ==
    ASSUME IInv, advance.at # "playing", tasks' = tasks,
           advance' \in Advancing \cup {Resting, NoAdvance}, advance'.at \notin {"playing", "retries"}
    PROVE  AdvanceOK' /\ RetryOK' /\ TasksOK' /\ SameWriters
BY TasksKept, WritersStay DEF IInv, AdvanceOK, OnePlay, RetryOK

\* One that writes no queue.
LEMMA AdvanceMovesOn ==
    ASSUME IInv, AdvanceStep, UNCHANGED <<queues, control, tasks>>,
           advance.at \notin {"playing", "saving"},
           advance' \in Advancing \cup {Resting, NoAdvance},
           advance'.at \notin {"playing", "retries", "saving"}
    PROVE  IInv'
<1>1. AdvanceOK' /\ RetryOK' /\ TasksOK' /\ SameWriters
    BY AdvanceMoves
<1>2. QuietAdvance /\ UNCHANGED monitor
    BY DEF QuietAdvance, AdvanceStep, looks
<1>3. ControlOK'
    BY DEF IInv, ControlOK, AdvanceStep, control, counts
<1> QED
    BY <1>1, <1>2, <1>3, Untouched DEF IInv

LEMMA AdvanceGoesOnKeeps == ASSUME IInv, AdvanceGoesOn PROVE IInv'
<1>b. advance.at \notin {"none", "rests"} => advance \in Advancing
    BY DEF IInv, AdvanceOK, Resting, NoAdvance
<1>0. ASSUME AdvanceStep, UNCHANGED control PROVE ControlOK' /\ UNCHANGED monitor
    BY <1>0 DEF IInv, ControlOK, AdvanceStep, control, counts, looks
<1>1. CASE AdvanceBegins
    <2>1. CASE Attempts
        BY <1>1, <2>1, AttemptsKeeps DEF AdvanceBegins
    <2>2. CASE ~Attempts
        <3>1. /\ advance.at = "begins" /\ AdvanceStep /\ advance' = [advance EXCEPT !.at = "waits"]
              /\ UNCHANGED <<queues, control, tasks>>
            BY <1>1, <2>2 DEF AdvanceBegins
        <3>2. advance' \in Advancing /\ advance'.at = "waits"
            BY <1>b, <3>1 DEF Advancing
        <3> QED
            BY <3>1, <3>2, AdvanceMovesOn
    <2> QED
        BY <2>1, <2>2
<1>2. CASE AdvanceWaits
    <2>a. advance.at = "waits" /\ AdvanceStep /\ advance \in Advancing
        BY <1>2, <1>b DEF AdvanceWaits
    <2>1. CASE Attempts
        BY <2>a, <2>1, AttemptsKeeps
    <2>2. CASE Rests /\ UNCHANGED <<queues, control, tasks>>
        BY <2>a, <2>2, AdvanceMovesOn DEF Rests, Resting
    <2>3. CASE /\ ListenNext /\ advance' = [advance EXCEPT !.at = "saving", !.rest = Left]
               /\ UNCHANGED <<control, tasks>>
        <3>1. /\ Left \in Seq(Track) /\ Writes /\ (listen' # None => listen'.queue = Left)
              /\ listen' \in Listens \cup {None} /\ UNCHANGED <<stored, pendingQueue>>
            BY <2>3, NextListened DEF IInv
        <3>2. advance' \in Advancing /\ advance'.at = "saving" /\ advance'.rest = Left
            BY <2>a, <2>3, <3>1 DEF Advancing
        <3>3. AdvanceOK' /\ RetryOK' /\ TasksOK'
            BY <2>a, <2>3, <3>2, AdvanceMoves
        <3>4. ControlOK' /\ UNCHANGED monitor
            BY <1>0, <2>a, <2>3
        <3>5. CopiesOK'
            BY <2>3, <3>1, <3>2, <3>4, AdvanceWrites DEF Shows
        <3>6. QueuesOK'
            BY <3>1, <3>4 DEF IInv, QueuesOK
        <3> QED
            BY <3>3, <3>4, <3>5, <3>6 DEF IInv
    <2> QED
        BY <1>2, <2>1, <2>2, <2>3 DEF AdvanceWaits
<1>3. CASE AdvanceRetries
    <2>1. CASE Attempts
        BY <1>3, <2>1, AttemptsKeeps DEF AdvanceRetries
    <2>2. CASE ~Attempts
        BY <1>3, <2>2, AdvanceMovesOn DEF AdvanceRetries, Rests, Resting
    <2> QED
        BY <2>1, <2>2
<1>4. CASE AdvanceEnds
    BY <1>4, AdvanceMovesOn DEF AdvanceEnds, NoAdvance
<1>5. CASE AdvanceSaves
    <2>1. /\ advance.at = "saving" /\ AdvanceStep /\ stored' = advance.rest
          /\ UNCHANGED <<listen, pendingQueue, crossed, control, tasks>>
          /\ advance' = Resting
        BY <1>5 DEF AdvanceSaves, Saves, Rests, Resting
    <2>2. advance.rest \in Seq(Track)
        BY <1>b, <2>1 DEF Advancing
    <2>3. AdvanceOK' /\ RetryOK' /\ TasksOK'
        BY <2>1, AdvanceMoves DEF Resting
    <2>4. ControlOK' /\ UNCHANGED monitor
        BY <1>0, <2>1
    <2>5. QueuesOK'
        BY <2>1, <2>2, <2>4 DEF IInv, QueuesOK
    <2>6. CopiesOK'
        <3> SUFFICES ASSUME ~crossed' PROVE CopiesOK'
            BY DEF CopiesOK
        <3>1. /\ \A t \in tasks' : ~Writing(t)
              /\ monitor'.at # "saving" /\ Shows(advance.rest)
            BY <2>1, <2>4 DEF IInv, CopiesOK
        <3>2. Shows(stored)' /\ advance'.at # "saving"
            BY <2>1, <3>1 DEF Shows, Resting
        <3> QED
            BY <3>1, <3>2 DEF CopiesOK, Writing
    <2> QED
        BY <2>3, <2>4, <2>5, <2>6 DEF IInv
<1> QED
    BY <1>1, <1>2, <1>3, <1>4, <1>5 DEF AdvanceGoesOn

\* What the advance makes of the end of a play, its own or another's.
LEMMA TakesKeeps ==
    ASSUME IInv, NEW t \in tasks, NEW outcome, Ends(t), Takes(t, outcome),
           UNCHANGED <<generation, calls>>
    PROVE  AdvanceOK' /\ RetryOK' /\ overtaken' \in BOOLEAN /\ QuietAdvance
<1>1. CASE t.by # "advance"
    <2>1. UNCHANGED <<advance, overtaken>>
        BY <1>1 DEF Takes
    <2> QED
        BY <1>1, <2>1, OthersGo, RetryKept DEF IInv, ControlOK, QuietAdvance
<1>2. CASE t.by = "advance"
    <2>1. advance.at = "playing" /\ advance \in Advancing
        BY <1>2 DEF IInv, AdvanceOK, OnePlay, Resting, NoAdvance
    <2>2. \A u \in tasks' : u.by # "advance"
        BY <1>2 DEF IInv, AdvanceOK, OnePlay, Ends
    <2>3. CASE advance' = Resting /\ UNCHANGED overtaken
        BY <2>1, <2>2, <2>3 DEF IInv, ControlOK, AdvanceOK, OnePlay, RetryOK, Resting, QuietAdvance
    <2>4. CASE /\ advance' = [advance EXCEPT !.at = "retries", !.tries = @ + 1,
                                             !.generation = generation]
               /\ overtaken' = FALSE
        <3>1. generation \in Nat /\ advance.tries + 1 \in Nat /\ generation' = generation
            BY <2>1 DEF IInv, ControlOK, Advancing
        <3>2. /\ advance' \in Advancing /\ advance'.at = "retries"
              /\ advance'.generation = generation
            BY <2>1, <2>4, <3>1 DEF Advancing
        <3>3. AdvanceOK' /\ QuietAdvance
            BY <2>1, <2>2, <3>2 DEF AdvanceOK, OnePlay, QuietAdvance
        <3> QED
            <4>1. ~overtaken' /\ overtaken' \in BOOLEAN
                BY <2>4
            <4>2. advance'.generation <= generation'
                BY <3>1, <3>2
            <4> QED
                BY <3>3, <4>1, <4>2 DEF RetryOK
    <2> QED
        BY <1>2, <2>3, <2>4 DEF Takes, Rests, Resting
<1> QED
    BY <1>1, <1>2
-----------------------------------------------------------------------------
(* Plays.                                                                      *)

LEMMA PlaysKeep ==
    ASSUME IInv, NEW t \in tasks,
           \/ PlayStale(t) \/ PlayLocks(t) \/ PlayLoads(t) \/ PlayListens(t)
           \/ PrepareFails(t) \/ PlayFails(t)
    PROVE  IInv'
<1>t. WellFormed(t) /\ PlayStep(t)
    BY DEF IInv, TasksOK, PlayStale, PlayLocks, PlayLoads, PlayListens, PrepareFails, PlayFails
<1>s. /\ UNCHANGED <<generation, calls, later, monitor>>
      /\ t.track \in Track /\ t.queue \in Seq(Track) /\ t.op = "play"
    BY <1>t DEF PlayStep, WellFormed, Tasks, looks
<1>m. QuietMonitor
    BY <1>s DEF QuietMonitor
<1>1. CASE PlayStale(t) \/ PrepareFails(t)
    <2>1. /\ Ends(t) /\ \E outcome \in {"changed", "failed"} : Takes(t, outcome)
          /\ t.at = "preparing" /\ UNCHANGED <<queues, session, renderer>>
        BY <1>1 DEF PlayStale, PrepareFails
    <2>2. AdvanceOK' /\ RetryOK' /\ overtaken' \in BOOLEAN /\ QuietAdvance
        BY <1>s, <2>1, TakesKeeps
    <2>3. ControlOK'
        BY <1>s, <2>1, <2>2 DEF IInv, ControlOK
    <2>4. SameWriters
        BY <2>1, WritersEnd DEF Writing
    <2> QED
        BY <1>s, <2>1, <2>2, <2>3, <2>4, Untouched, TaskEnds DEF IInv
<1>2. CASE PlayLocks(t)
    <2> DEFINE u == [t EXCEPT !.at = "loading", !.before = session]
    <2>1. Turns(t, u) /\ t.at = "preparing" /\ UNCHANGED <<queues, advance, overtaken>>
        BY <1>2 DEF PlayLocks
    <2>2. u \in Tasks /\ u.by = t.by /\ u.at = "loading" /\ u.op = t.op /\ u.track = t.track
          /\ u.before \in Sessions
        BY <1>t DEF WellFormed, Tasks, Befores, IInv, ControlOK
    <2>3. WellFormed(u)
        BY <1>s, <2>2, <1>t DEF WellFormed
    <2>4. session' \in Sessions
        BY <1>2, <1>s DEF PlayLocks, Sessions, States, Tracks
    <2>5. renderer' \in Renderers
        BY <1>2 DEF PlayLocks, IInv, ControlOK, Renderers, States, Tracks
    <2>6. ControlOK'
        BY <1>s, <2>1, <2>4, <2>5 DEF IInv, ControlOK
    <2>7. SameWriters /\ QuietAdvance
        BY <2>1, <2>2, WritersTurn DEF Writing, QuietAdvance
    <2>8. AdvanceOK'
        BY <2>1, <2>2, AnyTurns DEF IInv
    <2> QED
        BY <1>s, <2>1, <2>3, <2>6, <2>7, <2>8, Untouched, TaskTurns, RetryKept DEF IInv
<1>3. CASE PlayLoads(t)
    <2>1. t.at = "loading" /\ UNCHANGED session /\ renderer' = Loaded(t, "Transitioning")
        BY <1>3 DEF PlayLoads
    <2>2. renderer' \in Renderers
        BY <1>s, <2>1 DEF Loaded, Renderers, States, Tracks
    <2>3. CASE Ends(t) /\ Takes(t, "changed") /\ UNCHANGED queues
        <3>1. AdvanceOK' /\ RetryOK' /\ overtaken' \in BOOLEAN /\ QuietAdvance
            BY <1>s, <2>3, TakesKeeps
        <3>2. ControlOK'
            BY <1>s, <2>1, <2>2, <3>1 DEF IInv, ControlOK
        <3>3. SameWriters
            BY <2>1, <2>3, WritersEnd DEF Writing
        <3> QED
            BY <1>s, <2>3, <3>1, <3>2, <3>3, Untouched, TaskEnds DEF IInv
    <2>4. CASE /\ Turns(t, [t EXCEPT !.at = "listening"]) /\ Stores(t.queue)
               /\ UNCHANGED <<advance, overtaken>>
        <3> DEFINE u == [t EXCEPT !.at = "listening"]
        <3>1. WellFormed(u) /\ u.by = t.by /\ u.at = "listening" /\ u.queue = t.queue
            BY <1>t, TurnsFormed
        <3>2. stored' = t.queue /\ Writes /\ UNCHANGED <<listen, pendingQueue>>
            BY <2>4 DEF Stores
        <3>3. ControlOK'
            BY <1>s, <2>1, <2>2, <2>4 DEF IInv, ControlOK
        <3>4. AdvanceOK' /\ QuietAdvance
            BY <2>4, <3>1, AnyTurns DEF IInv, QuietAdvance
        <3>5. QueuesOK'
            BY <1>s, <3>2 DEF IInv, QueuesOK
        <3>6. u \in tasks' /\ \A x \in tasks' : x = u \/ x \in tasks
            BY <2>4 DEF Turns
        <3> HIDE DEF u
        <3>7. CopiesOK'
            BY <1>m, <3>1, <3>2, <3>4, <3>6, TaskWrites DEF Writing
        <3> QED
            BY <1>s, <2>4, <3>1, <3>3, <3>4, <3>5, <3>7, TaskTurns, RetryKept DEF IInv, u
    <2> QED
        BY <1>3, <2>3, <2>4 DEF PlayLoads
<1>4. CASE PlayFails(t)
    <2>1. /\ Ends(t) /\ Takes(t, "failed") /\ UNCHANGED queues /\ t.at = "loading"
          /\ renderer' \in {renderer, Loaded(t, "Stopped")}
          /\ session' = [t.before EXCEPT !.armed = None, !.state = "Stopped", !.starting = FALSE]
        BY <1>4 DEF PlayFails
    <2>2. AdvanceOK' /\ RetryOK' /\ overtaken' \in BOOLEAN /\ QuietAdvance
        BY <1>s, <2>1, TakesKeeps
    <2>3. renderer' \in Renderers
        <3>1. renderer \in Renderers /\ t.track \in Tracks
            BY <1>s, <1>t DEF IInv, ControlOK, WellFormed, Tasks
        <3>2. Loaded(t, "Stopped") \in Renderers
            BY <3>1 DEF Loaded, Renderers, States, Tracks
        <3> QED
            BY <2>1, <3>1, <3>2
    <2>4. session' \in Sessions
        BY <1>t, <2>1 DEF WellFormed, Sessions, States, Tracks
    <2>5. ControlOK'
        BY <1>s, <2>2, <2>3, <2>4 DEF IInv, ControlOK
    <2>6. SameWriters
        BY <2>1, WritersEnd DEF Writing
    <2> QED
        BY <1>s, <2>1, <2>2, <2>5, <2>6, Untouched, TaskEnds DEF IInv
<1>5. CASE PlayListens(t)
    <2>1. /\ Ends(t) /\ Takes(t, "played") /\ t.at = "listening"
          /\ listen' = Listen(t.track, t.queue, "yes") /\ pendingQueue' = <<>>
          /\ UNCHANGED <<stored, crossed, session, renderer>>
        BY <1>5 DEF PlayListens
    <2>2. AdvanceOK' /\ RetryOK' /\ overtaken' \in BOOLEAN /\ QuietAdvance
        BY <1>s, <2>1, TakesKeeps
    <2>3. ControlOK'
        BY <1>s, <2>1, <2>2 DEF IInv, ControlOK
    <2>4. listen' \in Listens /\ listen'.queue = t.queue
        BY <1>s, <2>1, ListenType
    <2>5. QueuesOK'
        BY <1>s, <2>1, <2>4 DEF IInv, QueuesOK
    <2>6. ~crossed => Shows(stored)'
        BY <2>1, <2>4 DEF IInv, CopiesOK, Shows
    <2>7. Writing(t) /\ \A u \in tasks' : Writing(u) => u \in tasks /\ u # t
        BY <2>1 DEF Writing, Ends
    <2>8. CopiesOK'
        BY <1>m, <2>1, <2>2, <2>6, <2>7, TaskHasWritten DEF IInv
    <2> QED
        BY <2>1, <2>2, <2>3, <2>5, <2>8, TaskEnds DEF IInv
<1> QED
    BY <1>1, <1>2, <1>3, <1>4, <1>5
-----------------------------------------------------------------------------
(* Listeners and their commands.                                               *)

LEMMA ListenersKeep == ASSUME IInv, Listener PROVE IInv'
<1>c. calls' = calls + 1 /\ UNCHANGED <<advance, later, monitor>> /\ QuietAdvance /\ QuietMonitor
    BY DEF Listener, Play, Edit, Stop, Skip, Call, looks, QuietAdvance, QuietMonitor
<1>1. CASE Stop
    <2> DEFINE n == New("stop", None, <<>>)
               u == [n EXCEPT !.at = "asked"]
    <2>1. /\ Begin(u) /\ Commands /\ UNCHANGED <<queues, session>>
          /\ renderer' = [renderer EXCEPT !.state = "Stopped", !.next = None]
        BY <1>1 DEF Stop
    <2>n. WellFormed(n) /\ n.by = "listener"
        <3>1. <<>> \in Seq(Track) /\ None \in Tracks /\ "stop" \in Ops
            BY DEF Tracks, Ops
        <3>2. \A q \in Seq(Track) :
                  WellFormed(New("stop", None, q)) /\ New("stop", None, q).by = "listener"
            BY <3>1, NewFormed DEF IInv
        <3> QED
            BY <3>1, <3>2
    <2>2. WellFormed(u) /\ u.by = "listener" /\ u.at = "asked"
        <3> HIDE DEF n
        <3> QED
            BY <2>n, TurnsFormed
    <2> HIDE DEF u
    <2>3. ControlOK'
        <3>1. renderer' \in Renderers
            BY <2>1 DEF IInv, ControlOK, Renderers, States, Tracks
        <3> QED
            BY <1>c, <2>1, <3>1 DEF IInv, ControlOK, Commands
    <2>4. AdvanceOK' /\ SameWriters
        BY <1>c, <2>1, <2>2, OthersCome, WritersBegin DEF IInv, Writing
    <2> QED
        BY <1>c, <2>1, <2>2, <2>3, <2>4, Untouched, TaskBegins, RetryOvertaken DEF IInv
<1>2. CASE Skip
    <2> DEFINE n == New("next", Head(stored), Tail(stored))
               u == [n EXCEPT !.by = "skip"]
    <2>1. Begin(u) /\ stored # <<>> /\ UNCHANGED <<queues, control, renderer, overtaken>>
        BY <1>2 DEF Skip
    <2>2. Head(stored) \in Track /\ Tail(stored) \in Seq(Track)
        BY <2>1 DEF IInv, QueuesOK
    <2>3. WellFormed(n) /\ n.op = "next" /\ n.at = "waiting"
        <3>1. \A t \in Track, q \in Seq(Track) :
                  WellFormed(New("next", t, q)) /\ New("next", t, q).op = "next"
                  /\ New("next", t, q).at = "waiting"
            BY NewFormed DEF IInv, Ops, Tracks
        <3> QED
            BY <2>2, <3>1
    <2>4. WellFormed(u) /\ u.by = "skip" /\ u.at = "waiting"
        <3> HIDE DEF n
        <3>1. u \in Tasks /\ u.by = "skip" /\ u.at = "waiting" /\ u.op = n.op /\ u.track = n.track
            BY <2>3 DEF WellFormed, Tasks
        <3> QED
            BY <2>3, <3>1 DEF WellFormed
    <2> HIDE DEF u
    <2>5. ControlOK'
        BY <1>c, <2>1 DEF IInv, ControlOK, control
    <2>6. AdvanceOK' /\ SameWriters
        BY <1>c, <2>1, <2>4, OthersCome, WritersBegin DEF IInv, Writing
    <2> QED
        BY <1>c, <2>1, <2>4, <2>5, <2>6, Untouched, TaskBegins, RetryKept DEF IInv, control
<1>3. CASE Play(later)
    <2> DEFINE n == New("play", later.track, later.queue)
               u == Prepares(n)
    <2>1. Begin(u) /\ Commands /\ UNCHANGED <<queues, session, renderer>>
        BY <1>3 DEF Play
    <2>2. later.track \in Track /\ later.queue \in Seq(Track)
        BY DEF IInv, ControlOK
    <2>3. WellFormed(n) /\ n.op = "play" /\ n.by = "listener"
        BY <2>2, NewFormed DEF IInv, Ops, Tracks
    <2>4. WellFormed(u) /\ u.by = "listener" /\ u.at = "preparing"
        BY <2>3, PreparesFormed DEF IInv
    <2> HIDE DEF u
    <2>5. ControlOK'
        BY <1>c, <2>1 DEF IInv, ControlOK, Commands
    <2>6. AdvanceOK' /\ SameWriters
        BY <1>c, <2>1, <2>4, OthersCome, WritersBegin DEF IInv, Writing
    <2> QED
        BY <1>c, <2>1, <2>4, <2>5, <2>6, Untouched, TaskBegins, RetryOvertaken DEF IInv
<1>4. ASSUME NEW request \in Asked, Edit(request.queue) PROVE IInv'
    <2> DEFINE q == request.queue
               n == New("edit", None, q)
               u == [n EXCEPT !.at = "listening"]
    <2>1. stored' = q /\ Writes /\ UNCHANGED <<listen, pendingQueue, control, renderer, overtaken>>
        BY <1>4 DEF Edit, Stores
    <2>2. q \in Seq(Track)
        BY ZoneQueueAssumption
    <2>n. WellFormed(n) /\ n.by = "listener" /\ n.queue = q
        BY <2>2, NewFormed DEF IInv, Ops, Tracks
    <2>3. WellFormed(u) /\ u.by = "listener" /\ u.at = "listening" /\ u.queue = q
        <3> HIDE DEF n
        <3> QED
            BY <2>n, TurnsFormed
    <2>4. Begin(u)
        BY <1>4 DEF Edit
    <2> HIDE DEF u
    <2>5. ControlOK'
        BY <1>c, <2>1 DEF IInv, ControlOK, control
    <2>6. QueuesOK'
        BY <1>c, <2>1, <2>2 DEF IInv, QueuesOK
    <2>7. AdvanceOK'
        BY <1>c, <2>3, <2>4, OthersCome DEF IInv
    <2>8. CopiesOK'
        <3>1. u \in tasks' /\ \A x \in tasks' : x = u \/ x \in tasks
            BY <2>4 DEF Begin
        <3> QED
            BY <1>c, <2>1, <2>3, <3>1, TaskWrites DEF Writing
    <2> QED
        BY <1>c, <2>1, <2>3, <2>4, <2>5, <2>6, <2>7, <2>8, TaskBegins, RetryKept DEF IInv, control
<1> QED
    BY <1>1, <1>2, <1>3, <1>4 DEF Listener

\* A skip that falls back to a play writes the library's queue.
LEMMA NextFallsKeeps ==
    ASSUME IInv, NEW t \in tasks, NextFalls(t), t.op = "next", UNCHANGED <<advance, monitor>>
    PROVE  QueuesOK' /\ CopiesOK' /\ TasksOK' /\ AdvanceOK'
<1> DEFINE u == [t EXCEPT !.at = "falling"]
<1>1. Turns(t, u) /\ stored' = t.queue /\ Writes /\ UNCHANGED <<listen, pendingQueue>>
    BY DEF NextFalls, Stores
<1>2. WellFormed(t) /\ t.queue \in Seq(Track)
    BY DEF IInv, TasksOK, WellFormed, Tasks
<1>3. WellFormed(u) /\ u.by = t.by /\ u.at = "falling" /\ u.queue = t.queue
    BY <1>2, TurnsFormed
<1> HIDE DEF u
<1>4. QueuesOK'
    BY <1>1, <1>2 DEF IInv, QueuesOK
<1>5. u \in tasks' /\ \A x \in tasks' : x = u \/ x \in tasks
    BY <1>1 DEF Turns
<1>6. CopiesOK'
    BY <1>1, <1>3, <1>5, TaskWrites DEF Writing, QuietAdvance, QuietMonitor
<1> QED
    BY <1>1, <1>3, <1>4, <1>6, TaskTurns, AnyTurns DEF IInv

LEMMA CommandsKeep ==
    ASSUME IInv, NEW t \in tasks,
           \/ EditListens(t) \/ StopAnswered(t) \/ NextLocks(t) \/ NextAnswered(t)
           \/ NextFails(t) \/ NextSaves(t) \/ NextPlays(t)
    PROVE  IInv'
<1>t. WellFormed(t) /\ CommandStep /\ t.op # "play"
    BY DEF IInv, TasksOK, EditListens, StopAnswered, NextLocks, NextAnswered, NextFails,
        NextSaves, NextPlays
<1>c. UNCHANGED <<advance, calls, later, monitor>> /\ QuietAdvance /\ QuietMonitor
    BY <1>t DEF CommandStep, looks, QuietAdvance, QuietMonitor
<1>b. t.by # "advance" /\ t.track \in Tracks /\ t.queue \in Seq(Track)
    BY <1>t DEF WellFormed, Tasks
<1>1. CASE StopAnswered(t)
    <2>1. /\ Ends(t) /\ t.at = "asked" /\ listen' = None
          /\ UNCHANGED <<stored, pendingQueue, crossed, generation, renderer, overtaken>>
          /\ session' = [current |-> None, armed |-> None, state |-> "Stopped", ended |-> FALSE,
                         starting |-> FALSE]
        BY <1>1 DEF StopAnswered
    <2>2. session' \in Sessions
        BY <2>1 DEF Sessions, States, Tracks
    <2>3. ControlOK'
        BY <1>c, <2>1, <2>2 DEF IInv, ControlOK
    <2>4. QueuesOK'
        BY <1>c, <2>1 DEF IInv, QueuesOK
    <2>5. AdvanceOK' /\ SameWriters
        BY <1>c, <1>b, <2>1, OthersGo, WritersEnd DEF IInv, Writing
    <2>6. CopiesOK'
        BY <1>c, <2>1, <2>5, CopiesKept DEF IInv
    <2> QED
        BY <1>c, <2>1, <2>3, <2>4, <2>5, <2>6, TaskEnds, RetryKept DEF IInv
<1>2. CASE NextLocks(t)
    <2>1. t.op = "next" /\ t.at = "waiting" /\ UNCHANGED <<session, renderer>>
        BY <1>2 DEF NextLocks
    <2>2. CASE Commands /\ Turns(t, [t EXCEPT !.at = "asked"]) /\ UNCHANGED queues
        <3> DEFINE u == [t EXCEPT !.at = "asked"]
        <3>1. WellFormed(u) /\ u.by = t.by /\ u.at = "asked"
            BY <1>t, TurnsFormed
        <3>t. Turns(t, u)
            BY <2>2
        <3> HIDE DEF u
        <3>2. ControlOK'
            BY <1>c, <2>1, <2>2 DEF IInv, ControlOK, Commands
        <3>3. AdvanceOK' /\ SameWriters
            BY <1>c, <2>1, <3>t, <3>1, AnyTurns, WritersTurn DEF IInv, Writing
        <3> QED
            BY <1>c, <2>2, <3>t, <3>1, <3>2, <3>3, Untouched, TaskTurns, RetryOvertaken DEF IInv
    <2>3. CASE NextFalls(t) /\ UNCHANGED <<generation, overtaken>>
        <3>1. QueuesOK' /\ CopiesOK' /\ TasksOK' /\ AdvanceOK'
            BY <1>c, <2>1, <2>3, NextFallsKeeps
        <3>2. ControlOK'
            BY <1>c, <2>1, <2>3 DEF IInv, ControlOK
        <3> QED
            BY <1>c, <2>3, <3>1, <3>2, RetryKept DEF IInv
    <2> QED
        BY <1>2, <2>2, <2>3 DEF NextLocks
<1>3. CASE NextFails(t)
    <2>1. /\ NextFalls(t) /\ t.op = "next" /\ UNCHANGED <<control, overtaken>>
          /\ renderer' \in {renderer, Skipped}
        BY <1>3 DEF NextFails
    <2>2. QueuesOK' /\ CopiesOK' /\ TasksOK' /\ AdvanceOK'
        BY <1>c, <2>1, NextFallsKeeps
    <2>3. renderer' \in Renderers
        <3>1. renderer \in Renderers
            BY DEF IInv, ControlOK
        <3>2. Skipped \in Renderers
            BY <3>1 DEF Skipped, Renderers, States, Tracks
        <3> QED
            BY <2>1, <3>1, <3>2
    <2>4. ControlOK'
        BY <1>c, <2>1, <2>3 DEF IInv, ControlOK, control
    <2> QED
        BY <1>c, <2>1, <2>2, <2>4, RetryKept DEF IInv, control
<1>4. CASE NextAnswered(t)
    <2>1. /\ t.op = "next" /\ t.at = "asked" /\ renderer' = Skipped
          /\ UNCHANGED <<generation, overtaken>>
          /\ session' = [session EXCEPT !.current = t.track, !.armed = None,
                                        !.state = "Transitioning", !.ended = FALSE,
                                        !.starting = FALSE]
        BY <1>4 DEF NextAnswered
    <2>2. session' \in Sessions
        BY <1>b, <2>1 DEF IInv, ControlOK, Sessions, States, Tracks
    <2>3. renderer' \in Renderers
        BY <2>1 DEF IInv, ControlOK, Skipped, Renderers, States, Tracks
    <2>4. ControlOK' /\ RetryOK'
        BY <1>c, <2>1, <2>2, <2>3, RetryKept DEF IInv, ControlOK
    <2>5. CASE Ends(t) /\ UNCHANGED queues
        <3>1. AdvanceOK' /\ SameWriters
            BY <1>c, <1>b, <2>1, <2>5, OthersGo, WritersEnd DEF IInv, Writing
        <3> QED
            BY <1>c, <2>4, <2>5, <3>1, Untouched, TaskEnds DEF IInv
    <2>6. CASE ListenNext /\ Turns(t, [t EXCEPT !.at = "saving", !.queue = Left])
        <3>0. PICK u : u = [t EXCEPT !.at = "saving", !.queue = Left]
            OBVIOUS
        <3>1. /\ Left \in Seq(Track) /\ Writes /\ (listen' # None => listen'.queue = Left)
              /\ listen' \in Listens \cup {None} /\ UNCHANGED <<stored, pendingQueue>>
            BY <2>6, NextListened DEF IInv
        <3>2. /\ u \in Tasks /\ u.by = t.by /\ u.at = "saving" /\ u.queue = Left /\ u.op = t.op
              /\ u.track = t.track
            BY <1>t, <3>0, <3>1 DEF WellFormed, Tasks
        <3>3. WellFormed(u)
            BY <1>t, <3>2 DEF WellFormed
        <3>t. Turns(t, u)
            BY <2>6, <3>0
        <3>4. u \in tasks' /\ \A x \in tasks' : x = u \/ x \in tasks
            BY <3>t DEF Turns
        <3>5. u.at = "saving" => Shows(u.queue)'
            BY <3>1, <3>2 DEF Shows
        <3>6. CopiesOK'
            BY <1>c, <3>1, <3>2, <3>4, <3>5, TaskWrites DEF Writing
        <3>7. QueuesOK'
            BY <1>c, <3>1 DEF IInv, QueuesOK
        <3>8. AdvanceOK'
            BY <1>c, <3>t, <3>2, AnyTurns DEF IInv
        <3> QED
            BY <2>4, <3>t, <3>3, <3>6, <3>7, <3>8, TaskTurns DEF IInv
    <2> QED
        BY <1>4, <2>5, <2>6 DEF NextAnswered
\* What the second write comes to.
<1>w. ASSUME Writing(t), \A u \in tasks' : Writing(u) => u \in tasks /\ u # t,
             UNCHANGED crossed, ~crossed => Shows(stored)'
      PROVE  CopiesOK'
    BY <1>c, <1>w, TaskHasWritten DEF IInv
<1>5. CASE NextSaves(t)
    <2>1. /\ Ends(t) /\ t.at = "saving" /\ stored' = t.queue
          /\ UNCHANGED <<listen, pendingQueue, crossed, control, renderer, overtaken>>
        BY <1>5 DEF NextSaves, Saves
    <2>2. Writing(t) /\ \A u \in tasks' : Writing(u) => u \in tasks /\ u # t
        BY <2>1 DEF Writing, Ends
    <2>3. ~crossed => Shows(stored)'
        BY <2>1 DEF IInv, CopiesOK, Shows
    <2>4. CopiesOK'
        BY <1>w, <2>1, <2>2, <2>3
    <2>5. QueuesOK' /\ ControlOK'
        BY <1>c, <1>b, <2>1 DEF IInv, QueuesOK, ControlOK, control
    <2>6. AdvanceOK'
        BY <1>c, <1>b, <2>1, OthersGo DEF IInv
    <2> QED
        BY <1>c, <2>1, <2>4, <2>5, <2>6, TaskEnds, RetryKept DEF IInv, control
\* A listen, or what is kept for one, is given the queue.
<1>l. ASSUME ListensTo(t.queue), t.at \in {"listening", "falling"}
      PROVE  /\ QueuesOK' /\ UNCHANGED crossed /\ (~crossed => Shows(stored)')
    <2>1. UNCHANGED <<stored, crossed>>
        BY <1>l DEF ListensTo
    <2>2. CASE listen = None
        BY <1>b, <1>c, <1>l, <2>1, <2>2 DEF ListensTo, IInv, QueuesOK, Shows
    <2>3. CASE listen # None
        <3>1. listen \in Listens /\ UNCHANGED pendingQueue /\ listen' = [listen EXCEPT !.queue = t.queue]
            BY <1>l, <2>3 DEF ListensTo, IInv, QueuesOK
        <3>2. listen' \in Listens /\ listen'.queue = t.queue
            BY <1>b, <3>1 DEF Listens
        <3>3. ~crossed => stored = t.queue
            BY <1>l DEF IInv, CopiesOK
        <3> QED
            BY <1>c, <2>1, <3>1, <3>2, <3>3 DEF IInv, QueuesOK, Shows
    <2> QED
        BY <2>2, <2>3
<1>6. CASE EditListens(t)
    <2>1. /\ Ends(t) /\ t.at = "listening" /\ ListensTo(t.queue)
          /\ UNCHANGED <<control, renderer, overtaken>>
        BY <1>6 DEF EditListens
    <2>2. Writing(t) /\ \A u \in tasks' : Writing(u) => u \in tasks /\ u # t
        BY <2>1 DEF Writing, Ends
    <2>3. QueuesOK' /\ CopiesOK'
        BY <1>l, <1>w, <2>1, <2>2
    <2>4. ControlOK'
        BY <1>c, <2>1 DEF IInv, ControlOK, control
    <2>5. AdvanceOK'
        BY <1>c, <1>b, <2>1, OthersGo DEF IInv
    <2> QED
        BY <1>c, <2>1, <2>3, <2>4, <2>5, TaskEnds, RetryKept DEF IInv, control
<1>7. CASE NextPlays(t)
    <2>1. /\ Turns(t, Prepares(t)) /\ t.at = "falling" /\ t.op = "next" /\ ListensTo(t.queue)
          /\ Commands /\ UNCHANGED <<session, renderer>>
        BY <1>7 DEF NextPlays
    <2>2. WellFormed(Prepares(t)) /\ Prepares(t).by = t.by /\ Prepares(t).at = "preparing"
        BY <1>t, <2>1, PreparesFormed DEF IInv
    <2>3. Writing(t) /\ \A u \in tasks' : Writing(u) => u \in tasks /\ u # t
        BY <2>1, <2>2 DEF Writing, Turns
    <2>4. QueuesOK' /\ CopiesOK'
        BY <1>l, <1>w, <2>1, <2>3
    <2>5. ControlOK'
        BY <1>c, <2>1 DEF IInv, ControlOK, Commands
    <2>6. AdvanceOK'
        BY <1>c, <2>1, <2>2, AnyTurns DEF IInv
    <2> QED
        BY <1>c, <2>1, <2>2, <2>4, <2>5, <2>6, TaskTurns, RetryOvertaken DEF IInv
<1> QED
    BY <1>1, <1>2, <1>3, <1>4, <1>5, <1>6, <1>7
-----------------------------------------------------------------------------
(* Prewarms.                                                                   *)

LEMMA ArmsKeep ==
    ASSUME IInv, NEW t \in tasks, ArmLocks(t) \/ ArmAnswered(t)
    PROVE  IInv'
<1>t. /\ WellFormed(t) /\ t.op = "arm" /\ t.at \in {"waiting", "asked"}
      /\ UNCHANGED <<queues, generation, monitor, advance, calls, later, overtaken>>
    BY DEF IInv, TasksOK, ArmLocks, ArmAnswered, ArmStep, counts
<1>b. t.by # "advance" /\ t.track \in Track
    BY <1>t DEF WellFormed
<1>k. RetryOK' /\ QuietAdvance
    BY <1>t, RetryKept DEF IInv, QuietAdvance
<1>1. ASSUME Ends(t) PROVE AdvanceOK' /\ TasksOK' /\ QueuesOK' /\ CopiesOK'
    <2>1. SameWriters
        BY <1>t, <1>1, WritersEnd DEF Writing
    <2> QED
        BY <1>t, <1>b, <1>k, <1>1, <2>1, OthersGo, TaskEnds, Untouched DEF IInv
<1>2. CASE ArmAnswered(t)
    <2>1. Ends(t) /\ session' = [session EXCEPT !.armed = t.track] /\ UNCHANGED renderer
        BY <1>2 DEF ArmAnswered
    <2>2. session' \in Sessions
        BY <1>b, <2>1 DEF IInv, ControlOK, Sessions, Tracks
    <2>3. ControlOK'
        BY <1>t, <2>1, <2>2 DEF IInv, ControlOK
    <2> QED
        BY <1>k, <1>1, <2>1, <2>3 DEF IInv
<1>3. CASE ArmLocks(t) /\ Ends(t) /\ UNCHANGED renderer
    <2>1. ControlOK'
        BY <1>t, <1>3 DEF ArmLocks, IInv, ControlOK
    <2> QED
        BY <1>k, <1>1, <1>3, <2>1 DEF IInv
<1>4. CASE /\ ArmLocks(t) /\ Turns(t, [t EXCEPT !.at = "asked"])
           /\ renderer' = [renderer EXCEPT !.next = t.track]
    <2> DEFINE u == [t EXCEPT !.at = "asked"]
    <2>1. WellFormed(u) /\ u.by = t.by /\ u.at = "asked"
        BY <1>t, TurnsFormed
    <2>2. renderer' \in Renderers
        BY <1>b, <1>4 DEF IInv, ControlOK, Renderers, Tracks
    <2>3. ControlOK'
        BY <1>t, <1>4, <2>2 DEF ArmLocks, IInv, ControlOK
    <2>t. Turns(t, u)
        BY <1>4
    <2> HIDE DEF u
    <2>4. AdvanceOK' /\ SameWriters
        BY <1>t, <2>t, <2>1, AnyTurns, WritersTurn DEF IInv, Writing
    <2> QED
        BY <1>t, <1>k, <2>t, <2>1, <2>3, <2>4, TaskTurns, Untouched DEF IInv
<1> QED
    BY <1>2, <1>3, <1>4 DEF ArmLocks
-----------------------------------------------------------------------------
(* The renderer, and what is seen of it.                                       *)

LEMMA RendererKeeps ==
    ASSUME IInv, Begins \/ NearsEnd \/ EndsTrack \/ Poll
    PROVE  IInv'
<1>0. UNCHANGED <<queues, generation, tasks, monitor, advance, calls, later, overtaken>>
    BY DEF Begins, NearsEnd, EndsTrack, Poll, RendererStep, counts, looks
<1>1. renderer' \in Renderers
    <2> renderer \in Renderers
        BY DEF IInv, ControlOK
    <2>1. CASE Begins \/ NearsEnd
        BY <2>1 DEF Begins, NearsEnd, Renderers, States
    <2>2. CASE EndsTrack
        <3>1. \A state \in States : GoesOn(state) \in Renderers
            BY DEF GoesOn, Renderers, Tracks
        <3>2. [renderer EXCEPT !.state = "Stopped"] \in Renderers
            BY DEF Renderers, States
        <3> QED
            BY <2>2, <3>1, <3>2 DEF EndsTrack, States
    <2>3. CASE Poll
        BY <2>3 DEF Poll
    <2> QED
        BY <2>1, <2>2, <2>3
<1>2. session' \in Sessions
    <2>1. CASE Begins \/ EndsTrack
        BY <2>1 DEF IInv, ControlOK, Begins, EndsTrack
    <2>2. CASE NearsEnd
        BY <2>2 DEF IInv, ControlOK, NearsEnd, Sessions
    <2>3. CASE Poll
        <3>1. Reported \in States /\ renderer.ended \in BOOLEAN /\ session \in Sessions
            BY DEF IInv, ControlOK, Reported, Renderers, States
        <3>2. Reconciled \in Sessions
            BY <3>1 DEF Reconciled, Sessions, States, Tracks
        <3> QED
            BY <2>3, <3>1, <3>2 DEF Poll
    <2> QED
        BY <2>1, <2>2, <2>3
<1>3. ControlOK'
    BY <1>0, <1>1, <1>2 DEF IInv, ControlOK
<1>4. SameWriters /\ QuietAdvance
    BY <1>0, WritersStay DEF QuietAdvance
<1> QED
    BY <1>0, <1>3, <1>4, Untouched, AdvanceKept, TasksKept, RetryKept DEF IInv

\* What lies behind a track in a queue, and the listen made of it.
LEMMA SeenType ==
    ASSUME NEW q \in Seq(Track), Holds(q, session.current), session.ended \in BOOLEAN
    PROVE  /\ Behind(q, session.current) \in Seq(Track)
           /\ \A r \in Seq(Track) : Seen(r) \in Listens /\ Seen(r).queue = r
<1>1. session.current \in Track
    BY DEF Holds
<1>2. PICK i \in DOMAIN q : Behind(q, session.current) = SubSeq(q, i + 1, Len(q))
    BY DEF Holds, Behind
<1>3. Behind(q, session.current) \in Seq(Track)
    BY <1>2
<1>4. \A r \in Seq(Track) : Seen(r) \in Listens /\ Seen(r).queue = r
    BY <1>1 DEF Seen, Listen, Listens
<1> QED
    BY <1>3, <1>4

LEMMA LookKeeps == ASSUME IInv, Look PROVE IInv'
<1>0. UNCHANGED <<control, renderer, tasks, advance, calls, later, overtaken>>
    BY DEF Look, counts
<1>m. QuietMonitor /\ monitor'.at = "seen" /\ QuietAdvance /\ SameWriters
    BY <1>0, WritersStay DEF Look, Idle, Status, QuietMonitor, QuietAdvance
<1>1. ControlOK' /\ AdvanceOK' /\ TasksOK' /\ RetryOK'
    BY <1>0, AdvanceKept, TasksKept, RetryKept DEF IInv, ControlOK, control
<1>e. session.ended \in BOOLEAN
    BY DEF IInv, ControlOK, Sessions
\* It closes the listen, or keeps its queue.
<1>k. ASSUME NEW l \in Listens \cup {None}, Keeps(l),
             l = None \/ (listen # None /\ l.queue = listen.queue)
      PROVE  IInv'
    <2>1. QueuesOK'
        BY <1>m, <1>k DEF Keeps, IInv, QueuesOK
    <2>2. CopiesOK'
        BY <1>m, <1>k, CopiesKept DEF Keeps, IInv
    <2> QED
        BY <1>1, <2>1, <2>2 DEF IInv
<1>r. CASE Recovers
    <2>1. CASE Keeps(None)
        BY <1>k, <2>1
    <2>2. CASE /\ Holds(pendingQueue, session.current)
               /\ listen' = Seen(Behind(pendingQueue, session.current)) /\ pendingQueue' = <<>>
               /\ crossed' = TRUE /\ UNCHANGED stored
        <3>1. listen' \in Listens
            BY <1>e, <2>2, SeenType DEF IInv, QueuesOK
        <3>2. QueuesOK' /\ CopiesOK'
            BY <1>m, <2>2, <3>1 DEF IInv, QueuesOK, CopiesOK
        <3> QED
            BY <1>1, <3>2 DEF IInv
    <2> QED
        BY <1>r, <2>1, <2>2 DEF Recovers
<1>2. CASE listen = None
    BY <1>2, <1>r DEF Look
<1>3. CASE listen # None
    <2>1. listen \in Listens
        BY <1>3 DEF IInv, QueuesOK
    <2>2. Merged \in Listens /\ Merged.queue = listen.queue
        BY <1>e, <2>1 DEF Merged, Listens
    <2>3. CASE ObserveStopped
        <3>1. [Merged EXCEPT !.waiting = "yes"] \in Listens
              /\ [Merged EXCEPT !.waiting = "yes"].queue = listen.queue
            BY <2>2 DEF Listens
        <3> QED
            BY <1>3, <1>k, <2>2, <2>3, <3>1 DEF ObserveStopped
    <2>4. CASE ObserveOther
        <3>1. CASE UNCHANGED queues
            <4>1. Keeps(listen)
                BY <3>1 DEF Keeps, queues
            <4> QED
                BY <1>3, <1>k, <2>1, <4>1
        <3>2. CASE /\ Holds(listen.queue, session.current)
                   /\ stored' = Behind(listen.queue, session.current)
                   /\ listen' = Seen(stored') /\ Writes /\ UNCHANGED pendingQueue
            <4>1. listen.queue \in Seq(Track)
                BY <2>1 DEF Listens
            <4>2. stored' \in Seq(Track) /\ listen' \in Listens /\ listen'.queue = stored'
                BY <1>e, <3>2, <4>1, SeenType
            <4>3. QueuesOK'
                BY <1>m, <3>2, <4>2 DEF IInv, QueuesOK
            <4>4. CopiesOK'
                BY <1>0, <1>m, <3>2, <4>2, BothWritten DEF Shows
            <4> QED
                BY <1>1, <4>3, <4>4 DEF IInv
        <3> QED
            BY <1>r, <2>4, <3>1, <3>2 DEF ObserveOther
    <2>5. CASE ObserveMatch
        <3> DEFINE l == [listen EXCEPT !.pending = "no", !.waiting = "no", !.ended = session.ended]
        <3>1. l \in Listens /\ l.queue = listen.queue
            BY <1>e, <2>1 DEF Listens
        <3>2. Keeps(l)
            BY <2>5 DEF ObserveMatch
        <3> HIDE DEF l
        <3> QED
            BY <1>3, <1>k, <3>1, <3>2
    <2> QED
        BY <1>3, <2>3, <2>4, <2>5 DEF Look
<1> QED
    BY <1>2, <1>3

LEMMA GraceKeeps == ASSUME IInv, GraceElapses PROVE IInv'
<1>0. /\ UNCHANGED <<stored, pendingQueue, crossed, control, renderer, tasks, monitor, advance, calls,
                     later, overtaken>>
      /\ listen # None
    BY DEF GraceElapses, looks, counts
<1>1. listen' \in Listens /\ listen'.queue = listen.queue
    BY <1>0 DEF GraceElapses, Late, Listens, IInv, QueuesOK
<1>2. QueuesOK'
    BY <1>0, <1>1 DEF IInv, QueuesOK
<1>3. QuietAdvance /\ QuietMonitor /\ SameWriters
    BY <1>0, WritersStay DEF QuietAdvance, QuietMonitor
<1>4. CopiesOK'
    BY <1>0, <1>1, <1>3, CopiesKept DEF IInv
<1>5. ControlOK'
    BY <1>0 DEF IInv, ControlOK, control
<1> QED
    BY <1>0, <1>2, <1>4, <1>5, AdvanceKept, TasksKept, RetryKept DEF IInv, control

LEMMA ActKeeps == ASSUME IInv, Act PROVE IInv'
<1>0. /\ UNCHANGED <<control, renderer, calls, later, overtaken>> /\ Prewarm /\ AutoAdvance
      /\ monitor.at = "seen"
    BY DEF Act, counts
<1>1. ControlOK'
    BY <1>0 DEF IInv, ControlOK, control
<1>3. tasks' = tasks \/ \E u : WellFormed(u) /\ u.by # "advance" /\ u.at = "waiting" /\ Begin(u)
    <2> DEFINE new == New("arm", Head(stored), <<>>)
               arm == [new EXCEPT !.call = 0, !.before = listen.track]
    <2>1. CASE ~IsCandidate
        BY <1>0, <2>1 DEF Prewarm
    <2>2. CASE IsCandidate
        <3>1. stored # <<>> /\ listen # None
            BY <2>2 DEF IsCandidate
        <3>2. Head(stored) \in Track /\ listen.track \in Track
            BY <3>1 DEF IInv, QueuesOK, Listens
        <3>3. WellFormed(arm) /\ arm.by # "advance" /\ arm.at = "waiting"
            <4>1. /\ new \in Tasks /\ new.op = "arm" /\ new.by = "listener"
                  /\ new.at = "waiting" /\ new.track \in Track
                BY <3>2 DEF IInv, ControlOK, New, Tasks, Ops, Befores, Tracks
            <4>2. /\ arm \in Tasks /\ arm.op = "arm" /\ arm.by = "listener"
                  /\ arm.at = "waiting" /\ arm.track \in Track
                BY <3>2, <4>1 DEF Tasks, Befores, Tracks
            <4> QED
                BY <4>2 DEF WellFormed
        <3>4. tasks' = tasks \/ Begin(arm)
            BY <1>0, <2>2 DEF Prewarm
        <3> HIDE DEF arm
        <3> QED
            BY <3>3, <3>4
    <2> QED
        BY <2>1, <2>2
<1>4. TasksOK' /\ SameWriters
    BY <1>3, TasksKept, TaskBegins, WritersStay, WritersBegin DEF IInv, Writing
<1>5. CASE UNCHANGED advance
    <2>1. AdvanceOK' /\ RetryOK' /\ QuietAdvance
        BY <1>0, <1>3, <1>5, AdvanceKept, OthersCome, RetryKept DEF IInv, control, QuietAdvance
    <2>2. CASE UNCHANGED queues /\ monitor' = Idle
        <3>1. QuietMonitor /\ monitor'.at # "saving"
            BY <1>0, <2>2 DEF QuietMonitor, Idle
        <3>2. QueuesOK'
            BY <2>2, <3>1 DEF IInv, QueuesOK, queues
        <3>3. UNCHANGED <<stored, listen, crossed>>
            BY <2>2 DEF queues
        <3>4. CopiesOK'
            BY <1>4, <2>1, <3>1, <3>3, CopiesKept DEF IInv
        <3> QED
            BY <1>1, <1>4, <2>1, <3>2, <3>4 DEF IInv
    <2>3. CASE ListenNext /\ monitor' = [at |-> "saving", queue |-> Left]
        <3>1. /\ Left \in Seq(Track) /\ Writes /\ (listen' # None => listen'.queue = Left)
              /\ listen' \in Listens \cup {None} /\ UNCHANGED <<stored, pendingQueue>>
            BY <2>3, NextListened DEF IInv
        <3>2. monitor'.at = "saving" /\ monitor'.queue = Left
            BY <2>3
        <3>3. QueuesOK'
            BY <3>1, <3>2 DEF IInv, QueuesOK
        <3>4. CopiesOK'
            BY <1>4, <1>5, <3>1, <3>2, MonitorWrites DEF Shows
        <3> QED
            BY <1>1, <1>4, <2>1, <3>3, <3>4 DEF IInv
    <2> QED
        BY <1>0, <1>5, <2>2, <2>3 DEF AutoAdvance
<1>6. CASE /\ advance' = Advances /\ stored # <<>> /\ Free /\ listen # None
           /\ UNCHANGED queues /\ monitor' = Idle
    <2>1. Head(stored) \in Track /\ Tail(stored) \in Seq(Track) /\ listen.track \in Track
        BY <1>6 DEF IInv, QueuesOK, Listens
    <2>2. advance' \in Advancing /\ advance'.at = "begins"
        BY <1>6, <2>1 DEF Advances, Advancing
    <2>3. \A t \in tasks : t.by # "advance"
        BY <1>6 DEF Free, NoAdvance, IInv, AdvanceOK, OnePlay
    <2>4. \A t \in tasks' : t.by # "advance"
        BY <1>3, <2>3 DEF Begin
    <2>5. AdvanceOK' /\ RetryOK'
        BY <2>2, <2>4 DEF AdvanceOK, OnePlay, RetryOK
    <2>6. QuietMonitor /\ QuietAdvance /\ monitor'.at # "saving"
        BY <1>0, <1>6, <2>2 DEF QuietMonitor, QuietAdvance, Idle, Free, NoAdvance
    <2>7. UNCHANGED <<stored, listen, crossed>> /\ QueuesOK'
        BY <1>6, <2>6 DEF IInv, QueuesOK, queues
    <2>8. CopiesOK'
        BY <1>4, <2>6, <2>7, CopiesKept DEF IInv
    <2> QED
        BY <1>1, <1>4, <2>5, <2>7, <2>8 DEF IInv
<1> QED
    BY <1>0, <1>5, <1>6 DEF AutoAdvance, Acts

LEMMA MonitorSavesKeeps == ASSUME IInv, MonitorSaves PROVE IInv'
<1>0. /\ monitor.at = "saving" /\ monitor'.at # "saving" /\ stored' = monitor.queue
      /\ UNCHANGED <<listen, pendingQueue, crossed, control, renderer, tasks, advance, calls, later,
                     overtaken>>
    BY DEF MonitorSaves, Saves, Idle, counts
<1>1. QueuesOK'
    BY <1>0 DEF IInv, QueuesOK
<1>2. CopiesOK'
    <2> SUFFICES ASSUME ~crossed' PROVE CopiesOK'
        BY DEF CopiesOK
    <2>1. (\A t \in tasks' : ~Writing(t)) /\ advance'.at # "saving" /\ Shows(monitor.queue)
        BY <1>0 DEF IInv, CopiesOK
    <2>2. Shows(stored)'
        BY <1>0, <2>1 DEF Shows
    <2> QED
        BY <1>0, <2>1, <2>2 DEF CopiesOK, Writing
<1>3. ControlOK'
    BY <1>0 DEF IInv, ControlOK, control
<1> QED
    BY <1>0, <1>1, <1>2, <1>3, AdvanceKept, TasksKept, RetryKept DEF IInv, control
-----------------------------------------------------------------------------
LEMMA InitHolds == ASSUME Init PROVE IInv
<1>1. PICK evening \in Evenings : LET t == evening.first.track  q == evening.first.queue IN
          /\ stored = q /\ listen = Listen(t, q, "no") /\ later = evening.later
          /\ session = [current |-> t, armed |-> None, state |-> "Playing", ended |-> FALSE,
                        starting |-> FALSE]
          /\ renderer = [state |-> "Playing", current |-> t, next |-> None, ended |-> FALSE]
    BY DEF Init
<1> DEFINE t == evening.first.track
           q == evening.first.queue
<1>2. /\ evening.first \in [track : Track, queue : Seq(Track)]
      /\ later \in [track : Track, queue : Seq(Track)]
    BY <1>1, ZoneQueueAssumption
<1>3. t \in Track /\ q \in Seq(Track)
    BY <1>2
<1>4. QueuesOK
    BY <1>1, <1>3, ListenType DEF Init, Idle, QueuesOK
<1>5. CopiesOK
    BY <1>1, <1>3, ListenType DEF Init, Idle, NoAdvance, CopiesOK, Shows
<1>6. ControlOK
    <2>1. session \in Sessions /\ renderer \in Renderers
        BY <1>1, <1>3 DEF Sessions, Renderers, States, Tracks
    <2> QED
        BY <1>2, <2>1 DEF Init, ControlOK
<1>7. TasksOK /\ AdvanceOK /\ RetryOK
    BY DEF Init, NoAdvance, TasksOK, AdvanceOK, OnePlay, RetryOK
<1> QED
    BY <1>4, <1>5, <1>6, <1>7 DEF IInv

LEMMA StepHolds == ASSUME IInv, [Next]_vars PROVE IInv'
<1>1. CASE Listener
    BY <1>1, ListenersKeep
<1>2. CASE CommandGoesOn \/ TaskFails
    BY <1>2, PlaysKeep, CommandsKeep DEF CommandGoesOn, TaskFails
<1>3. CASE ArmGoesOn
    BY <1>3, ArmsKeep DEF ArmGoesOn
<1>4. CASE AdvanceGoesOn
    BY <1>4, AdvanceGoesOnKeeps
<1>5. CASE Begins \/ NearsEnd \/ EndsTrack \/ Poll
    BY <1>5, RendererKeeps
<1>6. CASE Look
    BY <1>6, LookKeeps
<1>7. CASE Act
    BY <1>7, ActKeeps
<1>8. CASE MonitorSaves
    BY <1>8, MonitorSavesKeeps
<1>9. CASE GraceElapses
    BY <1>9, GraceKeeps
<1>10. CASE UNCHANGED vars
    <2>1. /\ UNCHANGED <<queues, control, renderer, tasks, monitor, advance, calls, later, overtaken>>
          /\ QuietAdvance /\ SameWriters
        BY <1>10, WritersStay DEF vars, counts, looks, QuietAdvance
    <2>2. ControlOK'
        BY <2>1 DEF control, IInv, ControlOK
    <2> QED
        BY <2>1, <2>2, Untouched, AdvanceKept, TasksKept, RetryKept DEF control, IInv
<1> QED
    BY <1>1, <1>2, <1>3, <1>4, <1>5, <1>6, <1>7, <1>8, <1>9, <1>10 DEF Next

(* The six parts hold in every state. *)
LEMMA Inductive == Spec => []IInv
<1> QED
    BY InitHolds, StepHolds, PTL DEF Spec

(* The zone is well formed, and its advance has its one play for as long as it says so *)
(* (monitor.rs, auto_advance.rs).                                                      *)
THEOREM TypeCorrect == Spec => []TypeOK
<1>1. IInv => TypeOK
    BY DEF IInv, QueuesOK, ControlOK, AdvanceOK, OnePlay, TypeOK
<1> QED
    BY <1>1, Inductive, PTL

(* However the two writes of the queue by listeners, monitor and advance fall among     *)
(* those of others, whoever is not crossed leaves the library's queue and the queue of   *)
(* what is listened to the same (queue.rs, listening.rs, playback/upnp.rs).              *)
THEOREM QueuesStayOne == Spec => []QueuesAgree
<1>1. IInv => QueuesAgree
    BY DEF IInv, CopiesOK, Shows, QueuesAgree
<1> QED
    BY <1>1, Inductive, PTL

(* No retry begins after a listener's command that came after the failure before it     *)
(* (retry_upnp_queue_auto_advance).                                                     *)
THEOREM RetriesYield == Spec => RetryYields
<1> DEFINE Yields == (advance.at = "retries" /\ advance'.at = "playing") => ~overtaken
<1>1. ASSUME IInv, [Next]_vars PROVE Yields
    <2> SUFFICES ASSUME advance.at = "retries", advance'.at = "playing" PROVE ~overtaken
        OBVIOUS
    <2>1. advance \in Advancing
        BY <1>1 DEF IInv, AdvanceOK, Resting, NoAdvance
    <2>2. advance' # advance
        OBVIOUS
    <2>3. CASE AdvanceGoesOn
        <3>1. AdvanceRetries
            BY <2>3 DEF AdvanceGoesOn, AdvanceBegins, AdvanceWaits, AdvanceSaves, AdvanceEnds
        <3>2. Current
            BY <2>1, <3>1 DEF AdvanceRetries, Rests
        <3> QED
            BY <1>1, <2>1, <3>2 DEF Current, IInv, ControlOK, RetryOK, Advancing
    <2>4. CASE CommandGoesOn \/ ArmGoesOn \/ TaskFails
        <3>1. PICK t \in tasks : t.by = "advance"
            BY <2>2, <2>4 DEF CommandGoesOn, ArmGoesOn, TaskFails, PlayStale, PlayLocks, PlayLoads,
                PlayListens, PrepareFails, PlayFails, EditListens, StopAnswered, NextLocks,
                NextAnswered, NextFails, NextSaves, NextPlays, CommandStep, ArmLocks, ArmAnswered,
                ArmStep, Takes
        <3> QED
            BY <1>1, <3>1 DEF IInv, AdvanceOK, OnePlay
    <2>5. CASE Act
        BY <2>2, <2>5 DEF Act, AutoAdvance, Free, NoAdvance
    <2>6. ASSUME \/ Listener \/ Begins \/ NearsEnd \/ EndsTrack \/ Poll \/ Look \/ MonitorSaves
                 \/ GraceElapses \/ UNCHANGED vars
          PROVE FALSE
        BY <2>2, <2>6 DEF Listener, Play, Edit, Stop, Skip, Call, Begins, NearsEnd, EndsTrack,
            RendererStep, Poll, Look, MonitorSaves, GraceElapses, vars
    <2> QED
        BY <1>1, <2>3, <2>4, <2>5, <2>6 DEF Next
<1> QED
    BY <1>1, Inductive, PTL DEF Spec, RetryYields
=============================================================================
