------------------------- MODULE UpnpSessionProofs -------------------------
(***************************************************************************)
(* What UpnpSession promises for any number of sources, commands, prewarms  *)
(* and attempts: its lock has one holder, a seek's reservation does not     *)
(* outlive the seek, the renderer is not taken back to an older play, and a *)
(* KEF is neither given a next track while it settles nor sought with one.  *)
(***************************************************************************)
EXTENDS UpnpSession, TLAPS

\* The parts of TypeOK: what one step writes at a time.
StateOK ==
    /\ session \in Session /\ (session.pending = "seeking" <=> session.target # 0)
    /\ renderer \in Renderer /\ poll \in Looking \cup {NotLooking}
CountsOK ==
    /\ generation \in Nat /\ reservation \in Nat /\ loaded \in Nat /\ withdrawn \in Nat
    /\ settling \in BOOLEAN /\ asked \in BOOLEAN /\ doubt \in BOOLEAN /\ unreported \in BOOLEAN
    /\ commands \in Nat /\ arms \in Nat /\ superseded \subseteq Nat
TaskOK(t) ==
    /\ t \in Task
    /\ t.op \in {"play", "next", "arm"} => t.asset \in Asset
    /\ t.op = "seek" => t.generation # 0
TasksOK ==
    \A t \in tasks : /\ TaskOK(t)
                     /\ Locked(t) => poll = NotLooking
                     /\ \A u \in tasks : Locked(t) /\ Locked(u) => t = u

\* A play past the lock is the newest one that got it.
InPlay(t) == t.op = "play" /\ t.at \in {"stopped", "set", "sent"}
Ordered ==
    /\ loaded <= generation
    /\ \A t \in tasks : t.generation <= generation /\ (InPlay(t) => t.generation >= loaded)

IInv == StateOK /\ CountsOK /\ TasksOK /\ ReservationHeld /\ Ordered

LEMMA TypeParts == TypeOK <=> StateOK /\ CountsOK /\ TasksOK
    BY DEF TypeOK, StateOK, CountsOK, TasksOK, TaskOK

\* A task that ends takes its reservation with it, and nothing else.
LEMMA EndKeeps ==
    ASSUME IInv, NEW t \in tasks, Ends(t), poll' = poll, loaded' = loaded,
           generation' \in Nat, generation <= generation',
           reservation' = 0 \/ (reservation' = reservation /\ (t.op = "seek" => ~Reserved(t)))
    PROVE  TasksOK' /\ ReservationHeld' /\ Ordered'
<1> USE DEF IInv, CountsOK, Ends
<1>1. TasksOK'
    BY DEF TasksOK
<1>2. ReservationHeld'
    BY DEF ReservationHeld, Reserved
<1>3. Ordered'
    BY DEF Ordered, TasksOK, TaskOK, Task
<1> QED
    BY <1>1, <1>2, <1>3

\* A task may go on as another if it has the lock already or the lock is free.
Successor(t, u) ==
    /\ TaskOK(u)
    /\ Locked(u) => Locked(t) \/ Unlocked
    /\ u.op = "seek" \/ t.op = "seek" => u.op = t.op /\ u.generation = t.generation
    /\ u.generation <= generation'
    /\ InPlay(u) => u.generation >= loaded'
LEMMA TurnKeeps ==
    ASSUME IInv, NEW t \in tasks, NEW u, Turns(t, u), Successor(t, u), poll' = poll,
           generation' \in Nat, generation <= generation',
           loaded' = loaded \/ (InPlay(t) /\ loaded' = t.generation),
           reservation' \in {0, reservation} \/ (u.op = "seek" /\ reservation' = u.generation)
    PROVE  TasksOK' /\ ReservationHeld' /\ Ordered'
<1> USE DEF IInv, CountsOK, Turns
<1>1. TasksOK'
    BY DEF TasksOK, Successor, Unlocked
<1>2. ReservationHeld'
    BY DEF ReservationHeld, Successor
<1>3. Ordered'
  <2>1. loaded' \in Nat /\ loaded' <= generation'
    BY DEF Ordered, TasksOK, TaskOK, Task
  <2>2. ASSUME NEW v \in tasks \ {t}
        PROVE  v.generation <= generation' /\ (InPlay(v) => v.generation >= loaded')
    <3>1. v.generation \in Nat /\ v.generation <= generation
        BY DEF Ordered, TasksOK, TaskOK, Task
    <3>2. InPlay(v) => loaded' = loaded
        BY DEF TasksOK, InPlay, Locked
    <3> QED
        BY <3>1, <3>2 DEF Ordered
  <2> QED
    BY <2>1, <2>2 DEF Ordered, Successor
<1> QED
    BY <1>1, <1>2, <1>3

\* A task begins without the lock.
LEMMA BeginKeeps ==
    ASSUME IInv, NEW t, Begin(t), TaskOK(t), ~Locked(t), poll' = poll, loaded' = loaded,
           generation' \in Nat, generation <= generation', t.generation <= generation',
           reservation' \in {0, reservation} \/ (t.op = "seek" /\ t.generation = reservation')
    PROVE  TasksOK' /\ ReservationHeld' /\ Ordered'
<1> USE DEF IInv, CountsOK, Begin
<1>1. TasksOK'
    BY DEF TasksOK
<1>2. ReservationHeld'
    BY DEF ReservationHeld
<1>3. ~InPlay(t)
    BY DEF InPlay, Locked
<1>4. Ordered'
    BY <1>3 DEF Ordered, TasksOK, TaskOK, Task
<1> QED
    BY <1>1, <1>2, <1>4

\* What a call leaves of the task that made it: everything but the answer.
Alike(u, v) ==
    v \in Task /\ v.op = u.op /\ v.at = u.at /\ v.generation = u.generation /\ v.asset = u.asset
LEMMA SoapTurns ==
    ASSUME NEW t, NEW u \in Task, NEW effect \in Renderer, renderer \in Renderer, Soap(t, u, effect)
    PROVE  renderer' \in Renderer /\ \E v : Alike(u, v) /\ Turns(t, v)
<1>1. \A b \in BOOLEAN : Alike(u, [u EXCEPT !.ok = b])
    BY DEF Alike, Task
<1> QED
    BY <1>1 DEF Soap

\* Every command leaves the renderer in a state of a renderer.
LEMMA Effects ==
    ASSUME renderer \in Renderer
    PROVE  /\ Stopped \in Renderer /\ Started \in Renderer /\ Halted \in Renderer
           /\ Skipped \in Renderer
           /\ \A a \in Asset : Loaded(a) \in Renderer
           /\ \A a \in Asset \cup {None} : Armed(a) \in Renderer
           /\ \A g \in Nat : Sought(g) \in Renderer
<1>1. Stopped \in Renderer /\ Started \in Renderer /\ Halted \in Renderer
    BY DEF Renderer, TransportState, Stopped, Started, Halted
<1>2. \A a \in Asset : Loaded(a) \in Renderer
    BY <1>1 DEF Renderer, Loaded
<1>3. Skipped \in Renderer
  <2>1. CASE renderer.next = None
    BY <2>1 DEF Skipped
  <2>2. CASE renderer.next # None
    <3>1. Loaded(renderer.next) \in Renderer
        BY <1>2, <2>2 DEF Renderer
    <3> QED
        BY <2>2, <3>1 DEF Skipped, Renderer, TransportState
  <2> QED
    BY <2>1, <2>2
<1>4. \A a \in Asset \cup {None} : Armed(a) \in Renderer
    BY DEF Renderer, Armed
<1>5. \A g \in Nat : Sought(g) \in Renderer
    BY DEF Renderer, Sought
<1> QED
    BY <1>1, <1>2, <1>3, <1>4, <1>5

\* So does every answer leave a session.
Sound(s) == s \in Session /\ (s.pending = "seeking" <=> s.target # 0)
LEMMA Sessions ==
    ASSUME Sound(session)
    PROVE  /\ Sound(Confirmed)
           /\ \A op \in {"next", "pause", "resume", "stop"} : Sound(After(op))
           /\ \A a \in Asset : Sound(Primed(a))
           /\ \A t \in Task : Sound(Restored(t))
           /\ \A state \in TransportState : Sound(NotPending(state))
<1> USE DEF Sound, Session, TransportState
<1>1. Sound(Confirmed)
    BY DEF Confirmed
<1>2. \A op \in {"next", "pause", "resume", "stop"} : Sound(After(op))
  <2>1. Sound(After("next"))
    BY DEF After
  <2>2. Sound(After("pause"))
    BY DEF After
  <2>3. Sound(After("resume"))
    BY DEF After
  <2>4. Sound(After("stop"))
    BY DEF After
  <2> QED
    BY <2>1, <2>2, <2>3, <2>4
<1>3. \A a \in Asset : Sound(Primed(a))
  <2> SUFFICES ASSUME NEW a \in Asset PROVE Sound(Primed(a))
    OBVIOUS
  <2>1. session.play + 1 \in Nat
    OBVIOUS
  <2> DEFINE n == session.play + 1
             p == [session EXCEPT !.play = n, !.current = a, !.armed = None,
                                  !.state = "Transitioning", !.pending = "loading", !.target = 0,
                                  !.startup = "starting"]
  <2>2. Primed(a) = p
    BY DEF Primed
  <2> HIDE DEF n
  <2>3. n \in Nat
    BY <2>1 DEF n
  <2>4. Sound(p)
    BY <2>3
  <2> QED
    BY <2>2, <2>4
<1>4. \A t \in Task : Sound(Restored(t))
  <2> SUFFICES ASSUME NEW t \in Task PROVE Sound(Restored(t))
    OBVIOUS
  <2>1. session.play + 1 \in Nat /\ t.expected \in Asset \cup {None}
    BY DEF Task
  <2> DEFINE n == session.play + 1
             e == t.expected
             p == [session EXCEPT !.play = n, !.current = e, !.armed = None, !.state = "Stopped",
                                  !.pending = "no", !.target = 0, !.startup = "none"]
  <2>2. Restored(t) = p
    BY DEF Restored
  <2> HIDE DEF n, e
  <2>3. n \in Nat /\ e \in Asset \cup {None}
    BY <2>1 DEF n, e
  <2>4. Sound(p)
    BY <2>3
  <2> QED
    BY <2>2, <2>4
<1>5. \A state \in TransportState : Sound(NotPending(state))
    BY DEF NotPending
<1> QED
    BY <1>1, <1>2, <1>3, <1>4, <1>5

\* A task goes on at another place, with its lock or with a lock that was free.
Moves(t, u) ==
    u \in Task /\ u.op = t.op /\ u.generation = t.generation /\ u.asset = t.asset
MayMove(t, u) ==
    /\ Moves(t, u)
    /\ Locked(u) => Locked(t) \/ Unlocked
    /\ InPlay(u) => InPlay(t) \/ t.generation = generation
Frame(t) ==
    /\ poll' = poll /\ generation' \in {generation, generation + 1}
    /\ reservation' \in {0, reservation}
    /\ loaded' = loaded \/ (InPlay(t) /\ loaded' = t.generation)
LEMMA MoveFollows ==
    ASSUME IInv, NEW t \in tasks, NEW u, MayMove(t, u), Frame(t)
    PROVE  Successor(t, u)
<1>1. t \in Task /\ TaskOK(t) /\ t.generation \in Nat /\ t.generation <= generation
    BY DEF IInv, TasksOK, TaskOK, Ordered, Task
<1>2. generation \in Nat /\ loaded \in Nat /\ loaded <= generation
    BY DEF IInv, CountsOK, Ordered
<1>3. TaskOK(u)
    BY <1>1 DEF TaskOK, MayMove, Moves
<1>4. InPlay(u) => u.generation >= loaded'
    BY <1>1, <1>2 DEF IInv, Ordered, MayMove, Moves, Frame
<1> QED
    BY <1>1, <1>2, <1>3, <1>4 DEF Successor, MayMove, Moves, Frame

LEMMA Move ==
    ASSUME IInv, NEW t \in tasks, NEW u, MayMove(t, u), Frame(t), Turns(t, u)
    PROVE  TasksOK' /\ ReservationHeld' /\ Ordered'
<1>1. Successor(t, u)
    BY MoveFollows
<1>2. generation' \in Nat /\ generation <= generation'
    BY DEF IInv, CountsOK, Frame
<1> QED
    BY <1>1, <1>2, TurnKeeps DEF Frame

LEMMA Call ==
    ASSUME IInv, NEW t \in tasks, NEW u, NEW effect \in Renderer,
           MayMove(t, u), Frame(t), Soap(t, u, effect)
    PROVE  renderer' \in Renderer /\ TasksOK' /\ ReservationHeld' /\ Ordered'
<1>1. u \in Task /\ renderer \in Renderer
    BY DEF IInv, StateOK, MayMove, Moves
<1>2. renderer' \in Renderer
    BY <1>1, SoapTurns
<1>3. PICK v : Alike(u, v) /\ Turns(t, v)
    BY <1>1, SoapTurns
<1>4. MayMove(t, v)
    BY <1>3 DEF MayMove, Moves, Alike, Locked, InPlay
<1> QED
    BY <1>2, <1>3, <1>4, Move

LEMMA Finishes ==
    ASSUME IInv, NEW t \in tasks, Ends(t), poll' = poll, loaded' = loaded,
           generation' \in {generation, generation + 1},
           reservation' = 0 \/ (reservation' = reservation /\ (t.op = "seek" => ~Reserved(t)))
    PROVE  TasksOK' /\ ReservationHeld' /\ Ordered'
<1>1. generation' \in Nat /\ generation <= generation'
    BY DEF IInv, CountsOK
<1> QED
    BY <1>1, EndKeeps

\* What is known of a task, and of the task it is elsewhere.
LEMMA Facts ==
    ASSUME IInv, NEW t \in tasks
    PROVE  /\ t \in Task /\ TaskOK(t) /\ t.generation \in Nat /\ session.play \in Nat
           /\ Sound(session) /\ renderer \in Renderer
           /\ session.current \in Asset \cup {None} /\ session.armed \in Asset \cup {None}
           /\ \A at \in {"waiting", "stopped", "set", "sent", "accepting", "confirming", "answered",
                        "arming", "pausing", "clearing", "asking", "sleeping", "sought", "posting",
                        "posted", "verifying", "looking", "nudged"} :
                  /\ Moves(t, [t EXCEPT !.at = at]) /\ [t EXCEPT !.at = at].at = at
BY DEF IInv, StateOK, TasksOK, TaskOK, Task, Sound, Session, Moves
-----------------------------------------------------------------------------
(* Plays. *)

LEMMA PlayFrame ==
    ASSUME IInv, NEW t \in tasks, PlayStep(t)
    PROVE  /\ Frame(t) /\ generation' = generation /\ reservation' = reservation
           /\ t.op = "play" /\ t.asset \in Asset
           /\ t.at # "stopped" => loaded' = loaded
           /\ poll' \in Looking \cup {NotLooking}
           /\ (doubt' \in BOOLEAN => CountsOK')
<1>1. TaskOK(t) /\ t.generation \in Nat
    BY DEF IInv, TasksOK, TaskOK, Task
<1> QED
    BY <1>1 DEF IInv, StateOK, CountsOK, TaskOK, PlayStep, Frame, InPlay, seeking, counts

\* A play goes on with the lock it has.
LEMMA PlayMoves ==
    ASSUME IInv, NEW t \in tasks, t.op = "play", Locked(t),
           NEW at \in {"set", "sent", "accepting", "confirming"},
           at \in {"set", "sent"} => InPlay(t)
    PROVE  MayMove(t, [t EXCEPT !.at = at])
<1>1. t \in Task
    BY Facts
<1>2. [t EXCEPT !.at = at] \in Task /\ [t EXCEPT !.at = at].at = at
    BY <1>1 DEF Task
<1>3. Moves(t, [t EXCEPT !.at = at])
    BY <1>1, <1>2 DEF Moves, Task
<1> QED
    BY <1>2, <1>3 DEF MayMove, InPlay

LEMMA Together ==
    ASSUME Sound(session'), renderer' \in Renderer, poll' \in Looking \cup {NotLooking}, CountsOK',
           TasksOK', ReservationHeld', Ordered'
    PROVE  IInv'
BY DEF IInv, StateOK, Sound

LEMMA Plays ==
    ASSUME IInv, NEW t \in tasks,
           \/ PlayLocks(t) \/ PlaySetsUri(t) \/ PlaySends(t) \/ PlayRetries(t)
           \/ PlayAnswered(t) \/ PlayAccepted(t) \/ PlayConfirmed(t) \/ PlayFails(t)
    PROVE  IInv'
<1>t. /\ t \in Task /\ TaskOK(t) /\ t.generation \in Nat /\ Sound(session)
      /\ renderer \in Renderer /\ session.play \in Nat /\ session.current \in Asset \cup {None}
    BY Facts
<1>s. Sound(Confirmed) /\ Sound(Restored(t))
    BY <1>t, Sessions
<1>d. doubt \in BOOLEAN
    BY DEF IInv, CountsOK
<1>p. poll \in Looking \cup {NotLooking}
    BY DEF IInv, StateOK
<1>1. CASE PlayLocks(t)
  <2>1. t.op = "play" /\ t.asset \in Asset /\ t.at = "waiting" /\ Unlocked /\ poll' = poll
        /\ generation' = generation /\ loaded' = loaded
    BY <1>1, <1>t DEF PlayLocks, TaskOK
  <2>2. CASE ~NewestPlay(t)
    <3>1. Ends(t) /\ UNCHANGED <<session, seeking, renderer, unreported>>
        BY <1>1, <2>2 DEF PlayLocks
    <3>2. TasksOK' /\ ReservationHeld' /\ Ordered'
        BY <2>1, <3>1, Finishes DEF seeking
    <3>3. CountsOK'
        BY <1>1, <3>1 DEF IInv, PlayLocks, CountsOK, seeking, counts
    <3> QED
        BY <1>t, <1>p, <2>1, <3>1, <3>2, <3>3, Together
  <2>3. CASE NewestPlay(t)
    <3> DEFINE u == [t EXCEPT !.at = "stopped", !.play = session.play + 1,
                              !.expected = session.current]
    <3>1. /\ session' = Primed(t.asset) /\ Soap(t, u, Stopped)
          /\ reservation' = 0 /\ settling' = FALSE /\ asked' = FALSE
          /\ unreported' = (unreported \/ renderer'.reopening)
        BY <1>1, <2>3 DEF PlayLocks
    <3>2. session.play + 1 \in Nat /\ session.current \in Asset \cup {None}
        BY <1>t
    <3>3. Moves(t, u) /\ u.at = "stopped"
        BY <1>t, <3>2 DEF Moves, Task
    <3>4. MayMove(t, u)
        BY <2>1, <2>3, <3>3 DEF MayMove, InPlay, NewestPlay
    <3>5. Frame(t)
        BY <2>1, <3>1 DEF Frame
    <3> HIDE DEF u
    <3>6. renderer' \in Renderer /\ TasksOK' /\ ReservationHeld' /\ Ordered'
        BY <1>t, <3>1, <3>4, <3>5, Call, Effects
    <3>7. Sound(session')
        BY <1>t, <2>1, <3>1, Sessions
    <3>8. unreported' \in BOOLEAN
        BY <3>1, <3>6 DEF IInv, CountsOK, Renderer
    <3>9. CountsOK'
        BY <1>1, <2>1, <3>1, <3>8 DEF IInv, PlayLocks, CountsOK, counts
    <3> QED
        BY <1>p, <2>1, <3>6, <3>7, <3>9, Together
  <2> QED
    BY <2>2, <2>3
<1>2. CASE PlaySetsUri(t)
  <2> DEFINE u == [t EXCEPT !.at = "set"]
  <2>1. PlayStep(t) /\ t.at = "stopped" /\ Soap(t, u, Loaded(t.asset)) /\ UNCHANGED <<session, doubt>>
    BY <1>2 DEF PlaySetsUri
  <2>2. MayMove(t, u)
    <3>1. t.op = "play" /\ Locked(t)
        BY <2>1 DEF PlayStep, Locked
    <3> QED
        BY <2>1, <3>1, PlayMoves DEF InPlay
  <2> HIDE DEF u
  <2>3. renderer' \in Renderer /\ TasksOK' /\ ReservationHeld' /\ Ordered'
    BY <1>t, <2>1, <2>2, PlayFrame, Call, Effects
  <2>4. CountsOK' /\ poll' \in Looking \cup {NotLooking}
    BY <1>d, <2>1, PlayFrame
  <2> QED
    BY <1>t, <2>1, <2>3, <2>4, Together
<1>3. CASE PlaySends(t)
  <2> DEFINE u == [t EXCEPT !.at = "sent"]
  <2>1. PlayStep(t) /\ t.at = "set" /\ Soap(t, u, Started) /\ UNCHANGED <<session, doubt>>
    BY <1>3 DEF PlaySends
  <2>2. MayMove(t, u)
    <3>1. t.op = "play" /\ Locked(t)
        BY <2>1 DEF PlayStep, Locked
    <3> QED
        BY <2>1, <3>1, PlayMoves DEF InPlay
  <2> HIDE DEF u
  <2>3. renderer' \in Renderer /\ TasksOK' /\ ReservationHeld' /\ Ordered'
    BY <1>t, <2>1, <2>2, PlayFrame, Call, Effects
  <2>4. CountsOK' /\ poll' \in Looking \cup {NotLooking}
    BY <1>d, <2>1, PlayFrame
  <2> QED
    BY <1>t, <2>1, <2>3, <2>4, Together
<1>4. CASE PlayRetries(t)
  <2> DEFINE u == [t EXCEPT !.at = "stopped", !.tries = 2]
  <2>1. PlayStep(t) /\ t.at \in {"set", "sent"} /\ Turns(t, u) /\ UNCHANGED <<session, renderer, doubt>>
    BY <1>4 DEF PlayRetries
  <2>2. Moves(t, u) /\ u.at = "stopped"
    BY <1>t DEF Moves, Task
  <2>3. MayMove(t, u)
    BY <2>1, <2>2, PlayFrame DEF MayMove, Moves, InPlay, Locked
  <2> HIDE DEF u
  <2>4. TasksOK' /\ ReservationHeld' /\ Ordered'
    BY <2>1, <2>3, PlayFrame, Move
  <2>5. CountsOK' /\ poll' \in Looking \cup {NotLooking}
    BY <1>d, <2>1, PlayFrame
  <2> QED
    BY <1>t, <2>1, <2>4, <2>5, Together
<1>5. CASE PlayAnswered(t)
  <2> DEFINE u == [t EXCEPT !.at = "accepting"]
  <2>1. PlayStep(t) /\ t.at = "sent" /\ Turns(t, u) /\ UNCHANGED <<renderer, doubt>>
        /\ session' \in {session, Confirmed}
    BY <1>5 DEF PlayAnswered, Goto
  <2>2. MayMove(t, u)
    <3>1. t.op = "play" /\ Locked(t)
        BY <2>1 DEF PlayStep, Locked
    <3> QED
        BY <2>1, <3>1, PlayMoves DEF InPlay
  <2> HIDE DEF u
  <2>3. TasksOK' /\ ReservationHeld' /\ Ordered'
    BY <2>1, <2>2, PlayFrame, Move
  <2>4. CountsOK' /\ poll' \in Looking \cup {NotLooking}
    BY <1>d, <2>1, PlayFrame
  <2> QED
    BY <1>t, <1>s, <2>1, <2>3, <2>4, Together
<1>6. CASE PlayAccepted(t)
  <2> DEFINE u == [t EXCEPT !.at = "confirming"]
  <2>1. /\ PlayStep(t) /\ t.at = "accepting" /\ UNCHANGED <<session, renderer, doubt>>
        /\ Turns(t, u) \/ Ends(t)
    BY <1>6 DEF PlayAccepted, Goto
  <2>2. MayMove(t, u)
    <3>1. t.op = "play" /\ Locked(t)
        BY <2>1 DEF PlayStep, Locked
    <3> QED
        BY <2>1, <3>1, PlayMoves DEF InPlay
  <2> HIDE DEF u
  <2>3. TasksOK' /\ ReservationHeld' /\ Ordered'
    BY <2>1, <2>2, PlayFrame, Move, Finishes DEF Frame
  <2>4. CountsOK' /\ poll' \in Looking \cup {NotLooking}
    BY <1>d, <2>1, PlayFrame
  <2> QED
    BY <1>t, <2>1, <2>3, <2>4, Together
<1>7. CASE PlayConfirmed(t) \/ PlayFails(t)
  <2>1. /\ PlayStep(t) /\ t.at # "stopped" /\ Ends(t) /\ UNCHANGED renderer /\ doubt' \in BOOLEAN
        /\ session' \in {Confirmed, Restored(t)}
    BY <1>7, <1>d DEF PlayConfirmed, PlayFails
  <2>2. TasksOK' /\ ReservationHeld' /\ Ordered'
    BY <2>1, PlayFrame, Finishes DEF Frame
  <2>3. CountsOK' /\ poll' \in Looking \cup {NotLooking}
    BY <2>1, PlayFrame
  <2> QED
    BY <1>t, <1>s, <2>1, <2>2, <2>3, Together
<1> QED
    BY <1>1, <1>2, <1>3, <1>4, <1>5, <1>6, <1>7
-----------------------------------------------------------------------------
(* Seeks. *)

\* What a step of a seek comes to.
SeekEnds(t) ==
    Ends(t) /\ (reservation' = Released(t) \/ (reservation' = reservation /\ ~Reserved(t)))
SeekGoes(t) == reservation' = reservation /\ \E u : MayMove(t, u) /\ Turns(t, u)
FlagsOK ==
    /\ asked' \in BOOLEAN /\ settling' \in BOOLEAN /\ unreported' \in BOOLEAN
    /\ superseded' \subseteq Nat
SeekResult(t) ==
    /\ SeekEnds(t) \/ SeekGoes(t)
    /\ Sound(session') /\ renderer' \in Renderer /\ FlagsOK

LEMMA SeekKeeps ==
    ASSUME IInv, NEW t \in tasks, SeekStep(t), SeekResult(t)
    PROVE  IInv'
<1>1. /\ generation' = generation /\ poll' = poll /\ loaded' = loaded
      /\ UNCHANGED <<counts, doubt, withdrawn>>
    BY DEF SeekStep
<1>2. t.generation \in Nat
    BY Facts
<1>3. reservation' \in {0, reservation}
    BY DEF SeekResult, SeekEnds, SeekGoes, Released
<1>4. TasksOK' /\ ReservationHeld' /\ Ordered'
  <2>1. CASE SeekEnds(t)
    <3>1. reservation' = 0 \/ (reservation' = reservation /\ ~Reserved(t))
        BY <2>1 DEF SeekEnds, Released
    <3> QED
        BY <1>1, <2>1, <3>1, Finishes DEF SeekEnds
  <2>2. CASE SeekGoes(t)
    <3>1. Frame(t)
        BY <1>1, <1>3 DEF Frame
    <3>2. PICK u : MayMove(t, u) /\ Turns(t, u)
        BY <2>2 DEF SeekGoes
    <3> QED
        BY <3>1, <3>2, Move
  <2> QED
    BY <2>1, <2>2 DEF SeekResult
<1>5. CountsOK'
    BY <1>1, <1>3 DEF IInv, CountsOK, SeekResult, FlagsOK, counts
<1>6. poll' \in Looking \cup {NotLooking}
    BY <1>1 DEF IInv, StateOK
<1> QED
    BY <1>4, <1>5, <1>6, Together DEF SeekResult

\* A seek asks something of the renderer, or goes on without.
LEMMA SeekCalls ==
    ASSUME IInv, NEW t \in tasks, NEW u, NEW effect \in Renderer, MayMove(t, u),
           Soap(t, u, effect), reservation' = reservation
    PROVE  SeekGoes(t) /\ renderer' \in Renderer
<1>1. u \in Task /\ renderer \in Renderer
    BY DEF IInv, StateOK, MayMove, Moves
<1>2. PICK v : Alike(u, v) /\ Turns(t, v)
    BY <1>1, SoapTurns
<1>3. MayMove(t, v)
    BY <1>2 DEF MayMove, Moves, Alike, Locked, InPlay
<1> QED
    BY <1>1, <1>2, <1>3, SoapTurns DEF SeekGoes

SeekPlaces == {"clearing", "asking", "sleeping", "posting", "posted", "verifying", "looking", "nudged"}
LEMMA SeekMoves ==
    ASSUME IInv, NEW t \in tasks, t.op = "seek", NEW at \in SeekPlaces,
           at \in {"clearing", "asking", "sleeping"} => Locked(t) \/ Unlocked
    PROVE  MayMove(t, [t EXCEPT !.at = at])
<1>1. t \in Task
    BY Facts
<1>2. [t EXCEPT !.at = at] \in Task /\ [t EXCEPT !.at = at].at = at
    BY <1>1 DEF Task, SeekPlaces
<1>3. Moves(t, [t EXCEPT !.at = at])
    BY <1>1, <1>2 DEF Moves, Task
<1> QED
    BY <1>2, <1>3 DEF MayMove, Moves, Locked, InPlay, SeekPlaces

LEMMA SeekFacts ==
    ASSUME IInv, NEW t \in tasks, SeekStep(t)
    PROVE  /\ t.op = "seek" /\ t \in Task /\ t.generation \in Nat /\ t.generation # 0
           /\ Sound(session) /\ renderer \in Renderer /\ session.play \in Nat
           /\ session.state \in TransportState
           /\ asked \in BOOLEAN /\ settling \in BOOLEAN /\ unreported \in BOOLEAN
           /\ superseded \subseteq Nat
BY Facts DEF SeekStep, TaskOK, IInv, CountsOK, Sound, Session

LEMMA GivesWayResult ==
    ASSUME IInv, NEW t \in tasks, SeekStep(t), ~Reserved(t), GivesWay(t)
    PROVE  SeekResult(t)
BY SeekFacts DEF SeekResult, SeekEnds, FlagsOK, GivesWay, seeking

LEMMA AsksResult ==
    ASSUME IInv, NEW t \in tasks, SeekStep(t), AsksActions(t), Locked(t) \/ Unlocked, Sound(session')
    PROVE  SeekResult(t)
<1>1. t.op = "seek"
    BY SeekFacts
<1>2. MayMove(t, [t EXCEPT !.at = "asking"])
    BY <1>1, SeekMoves DEF SeekPlaces
<1> QED
    BY <1>2, SeekFacts DEF SeekResult, SeekGoes, FlagsOK, AsksActions, Goto, seeking

LEMMA SendResult ==
    ASSUME IInv, NEW t \in tasks, SeekStep(t), Locked(t), SendSeek(t)
    PROVE  SeekResult(t)
<1>f. /\ t.op = "seek" /\ t \in Task /\ t.generation \in Nat /\ t.generation # 0
      /\ Sound(session) /\ renderer \in Renderer /\ session.play \in Nat
      /\ asked \in BOOLEAN /\ settling \in BOOLEAN /\ unreported \in BOOLEAN
      /\ superseded \subseteq Nat
    BY SeekFacts
<1> DEFINE playing == EffectivelyPlaying
           u == [t EXCEPT !.at = "sought", !.playing = playing, !.play = session.play, !.tries = 1]
<1>1. playing \in BOOLEAN
    BY DEF EffectivelyPlaying
<1>2. Soap(t, u, Sought(t.generation)) /\ asked' = (asked /\ ~playing)
      /\ UNCHANGED <<reservation, settling, unreported, superseded>>
    BY DEF SendSeek
<1>3. Sound(session')
  <2>1. Sound([session EXCEPT !.state = "Transitioning", !.pending = "seeking", !.target = t.generation])
    BY <1>f DEF Sound, Session, TransportState
  <2>2. Sound([session EXCEPT !.state = "Paused", !.pending = "no", !.target = 0])
    BY <1>f DEF Sound, Session, TransportState
  <2> QED
    BY <2>1, <2>2 DEF SendSeek
<1> HIDE DEF playing
<1>4. Moves(t, u)
    BY <1>1, <1>f DEF Moves, Task
<1>5. MayMove(t, u)
    BY <1>4, <1>f DEF MayMove, Moves, InPlay
<1>6. asked' \in BOOLEAN
    BY <1>1, <1>2, <1>f
<1> HIDE DEF u
<1>7. SeekGoes(t) /\ renderer' \in Renderer
    BY <1>2, <1>5, <1>f, SeekCalls, Effects
<1> QED
    BY <1>2, <1>3, <1>6, <1>7, <1>f DEF SeekResult, FlagsOK

LEMMA Cleared ==
    ASSUME Sound(session), NEW t, NEW state \in TransportState, ClearPending(t, state)
    PROVE  Sound(session')
BY Sessions DEF ClearPending

LEMMA EndsResult ==
    ASSUME IInv, NEW t \in tasks, SeekStep(t), Ends(t), reservation' = Released(t),
           settling' \in BOOLEAN, UNCHANGED <<asked, superseded>>, unreported' \in BOOLEAN,
           renderer' = renderer, Sound(session')
    PROVE  SeekResult(t)
BY SeekFacts DEF SeekResult, SeekEnds, FlagsOK

LEMMA GoesResult ==
    ASSUME IInv, NEW t \in tasks, SeekStep(t), NEW at \in {"posting", "verifying", "looking"},
           Goto(t, at), Sound(session'), renderer' = renderer,
           UNCHANGED <<seeking, unreported, superseded>>
    PROVE  SeekResult(t)
<1>1. t.op = "seek"
    BY SeekFacts
<1>2. MayMove(t, [t EXCEPT !.at = at])
    BY <1>1, SeekMoves DEF SeekPlaces
<1> QED
    BY <1>2, SeekFacts DEF SeekResult, SeekGoes, FlagsOK, Goto, seeking

LEMMA Seeks ==
    ASSUME IInv, NEW t \in tasks,
           \/ SeekLocks(t) \/ SeekCleared(t) \/ SeekAsked(t) \/ SeekSlept(t) \/ SeekAnswered(t)
           \/ SeekPosts(t) \/ SeekPosted(t) \/ SeekVerifies(t) \/ SeekLooks(t) \/ SeekNudged(t)
    PROVE  SeekStep(t) /\ SeekResult(t)
<1>1. SeekStep(t)
    BY DEF SeekLocks, SeekCleared, SeekAsked, SeekSlept, SeekAnswered, SeekPosts, SeekPosted,
           SeekVerifies, SeekLooks, SeekNudged
<1>f. /\ t.op = "seek" /\ t \in Task /\ t.generation \in Nat /\ t.generation # 0
      /\ Sound(session) /\ renderer \in Renderer /\ session.state \in TransportState
      /\ asked \in BOOLEAN /\ settling \in BOOLEAN /\ unreported \in BOOLEAN
      /\ superseded \subseteq Nat
    BY <1>1, SeekFacts
<1>c. \A state \in TransportState : ClearPending(t, state) => Sound(session')
    BY <1>f, Cleared
<1>s. (settling \/ Reserved(t)) \in BOOLEAN
    BY DEF Reserved
<1>e. /\ Started \in Renderer /\ Armed(None) \in Renderer
    BY <1>f, Effects
<1>p. "Playing" \in TransportState
    BY DEF TransportState
<1>m. \A at \in SeekPlaces : (at \in {"clearing", "asking", "sleeping"} => Locked(t) \/ Unlocked)
                                => MayMove(t, [t EXCEPT !.at = at])
    BY <1>f, SeekMoves
<1>2. CASE SeekLocks(t)
  <2>1. CASE GivesWay(t) /\ ~Reserved(t)
    BY <1>1, <2>1, GivesWayResult
  <2>2. CASE /\ Soap(t, [t EXCEPT !.at = "clearing"], Armed(None))
             /\ UNCHANGED <<session, seeking, unreported, superseded>>
    <3>1. MayMove(t, [t EXCEPT !.at = "clearing"])
        BY <1>2, <1>m DEF SeekLocks, SeekPlaces
    <3>2. SeekGoes(t) /\ renderer' \in Renderer
        BY <1>e, <2>2, <3>1, SeekCalls DEF seeking
    <3> QED
        BY <1>1, <1>f, <2>2, <3>2 DEF SeekResult, FlagsOK, seeking
  <2>3. CASE AsksActions(t) /\ UNCHANGED session
    BY <1>1, <1>2, <1>f, <2>3, AsksResult DEF SeekLocks
  <2> QED
    BY <1>1, <1>2, <2>1, <2>2, <2>3 DEF SeekLocks
<1>3. CASE SeekCleared(t)
  <2>l. Locked(t)
    BY <1>f, <1>3 DEF SeekCleared, Locked
  <2>1. CASE t.ok
    <3>1. session' = [session EXCEPT !.armed = None]
        BY <1>3, <2>1 DEF SeekCleared
    <3>2. Sound(session')
        BY <1>f, <3>1 DEF Sound, Session
    <3>3. CASE AsksActions(t)
        BY <1>1, <2>l, <3>2, <3>3, AsksResult
    <3>4. CASE /\ ~Reserved(t) /\ Ends(t) /\ superseded' = superseded \cup {t.generation}
               /\ UNCHANGED <<seeking, renderer, unreported>>
        BY <1>1, <1>f, <3>2, <3>4 DEF SeekResult, SeekEnds, FlagsOK, seeking
    <3> QED
        BY <1>1, <1>3, <2>1, <3>3, <3>4 DEF SeekCleared
  <2>2. CASE /\ Soap(t, [t EXCEPT !.tries = @ + 1], Armed(None))
             /\ UNCHANGED <<session, seeking, unreported, superseded>>
    <3> DEFINE u == [t EXCEPT !.tries = @ + 1]
    <3>1. t.tries + 1 \in Nat
        BY <1>f DEF Task
    <3>2. Moves(t, u)
        BY <1>f, <3>1 DEF Moves, Task
    <3>3. MayMove(t, u)
        BY <1>f, <2>l, <3>2 DEF MayMove, Moves, InPlay
    <3> HIDE DEF u
    <3>4. SeekGoes(t) /\ renderer' \in Renderer
        BY <1>e, <2>2, <3>3, SeekCalls DEF seeking, u
    <3> QED
        BY <1>1, <1>f, <2>2, <3>4 DEF SeekResult, FlagsOK, seeking
  <2>3. CASE /\ Ends(t) /\ reservation' = Released(t)
             /\ UNCHANGED <<session, settling, asked, renderer, unreported, superseded>>
    BY <1>1, <1>f, <2>3, EndsResult
  <2> QED
    BY <1>1, <1>3, <2>1, <2>2, <2>3 DEF SeekCleared
<1>4. CASE SeekAsked(t)
  <2>l. Locked(t)
    BY <1>f, <1>4 DEF SeekAsked, Locked
  <2>1. CASE GivesWay(t) /\ ~Reserved(t)
    BY <1>1, <2>1, GivesWayResult
  <2>2. CASE /\ Goto(t, "sleeping")
             /\ UNCHANGED <<session, seeking, renderer, unreported, superseded>>
    <3>1. MayMove(t, [t EXCEPT !.at = "sleeping"])
        BY <1>m, <2>l DEF SeekPlaces
    <3> QED
        BY <1>1, <1>f, <2>2, <3>1 DEF SeekResult, SeekGoes, FlagsOK, Goto, seeking
  <2>3. CASE SendSeek(t)
    BY <1>1, <2>l, <2>3, SendResult
  <2> QED
    BY <1>1, <1>4, <2>1, <2>2, <2>3 DEF SeekAsked
<1>5. CASE SeekSlept(t)
  <2>l. Locked(t)
    BY <1>f, <1>5 DEF SeekSlept, Locked
  <2> QED
    BY <1>1, <1>5, <2>l, GivesWayResult, SendResult DEF SeekSlept
<1>6. CASE SeekAnswered(t)
  <2>1. CASE ~t.ok
    <3>1. Ends(t) /\ reservation' = Released(t) /\ settling' = FALSE /\ unreported' = TRUE
          /\ UNCHANGED <<asked, renderer, superseded>>
        BY <1>6, <2>1 DEF SeekAnswered, SeekBreaksOff
    <3>2. Sound(session')
        BY <1>6, <1>c, <1>f, <1>p, <2>1 DEF SeekAnswered
    <3> QED
        BY <1>1, <3>1, <3>2, EndsResult
  <2>2. CASE t.ok /\ t.playing
    <3>1. PICK at \in {"posting", "verifying", "looking"} : Goto(t, at)
        BY <1>6, <2>2 DEF SeekAnswered
    <3> QED
        BY <1>1, <1>6, <1>f, <2>2, <3>1, GoesResult DEF SeekAnswered
  <2>3. CASE t.ok /\ ~t.playing
    BY <1>1, <1>6, <1>f, <1>s, <2>3, EndsResult DEF SeekAnswered, Finish
  <2> QED
    BY <2>1, <2>2, <2>3
<1>7. CASE SeekPosts(t)
  <2>1. CASE Goto(t, "verifying") /\ UNCHANGED renderer
    BY <1>1, <1>7, <1>f, <2>1, GoesResult DEF SeekPosts
  <2>2. CASE Soap(t, [t EXCEPT !.at = "posted"], Started)
    <3>1. MayMove(t, [t EXCEPT !.at = "posted"])
        BY <1>m DEF SeekPlaces
    <3>2. UNCHANGED <<session, seeking, unreported, superseded>>
        BY <1>7 DEF SeekPosts
    <3>3. SeekGoes(t) /\ renderer' \in Renderer
        BY <1>e, <2>2, <3>1, <3>2, SeekCalls DEF seeking
    <3> QED
        BY <1>1, <1>f, <3>2, <3>3 DEF SeekResult, FlagsOK, seeking
  <2> QED
    BY <1>7, <1>1, <2>1, <2>2 DEF SeekPosts
<1>8. CASE SeekPosted(t)
  <2>1. CASE t.ok
    BY <1>1, <1>8, <1>f, <2>1, GoesResult DEF SeekPosted
  <2>2. CASE ~t.ok
    BY <1>1, <1>8, <1>c, <1>f, <1>p, <2>2, EndsResult DEF SeekPosted, SeekBreaksOff
  <2> QED
    BY <2>1, <2>2
<1>9. CASE SeekVerifies(t)
  <2>1. CASE Finish(t)
    <3>1. Sound(session') /\ UNCHANGED <<renderer, unreported, superseded>>
        BY <1>9, <1>c, <1>f, <1>p DEF SeekVerifies
    <3> QED
        BY <1>1, <1>f, <1>s, <2>1, <3>1, EndsResult DEF Finish
  <2>2. CASE Goto(t, "looking") /\ UNCHANGED <<session, seeking>>
    BY <1>1, <1>9, <1>f, <2>2, GoesResult DEF SeekVerifies
  <2> QED
    BY <1>1, <1>9, <2>1, <2>2 DEF SeekVerifies
<1>10. CASE SeekLooks(t)
  <2>u. UNCHANGED <<unreported, superseded>>
    BY <1>10 DEF SeekLooks
  <2>1. CASE Finish(t) /\ ClearPending(t, "Playing") /\ UNCHANGED renderer
    BY <1>1, <1>c, <1>f, <1>p, <1>s, <2>1, <2>u, EndsResult DEF Finish
  <2>2. CASE /\ Turns(t, [t EXCEPT !.at = "verifying", !.tries = @ + 1])
             /\ UNCHANGED <<session, seeking, renderer>>
    <3> DEFINE u == [t EXCEPT !.at = "verifying", !.tries = @ + 1]
    <3>1. t.tries + 1 \in Nat
        BY <1>f DEF Task
    <3>2. Moves(t, u) /\ u.at = "verifying"
        BY <1>f, <3>1 DEF Moves, Task
    <3>3. MayMove(t, u)
        BY <1>f, <3>2 DEF MayMove, Moves, InPlay, Locked
    <3> HIDE DEF u
    <3> QED
        BY <1>1, <1>f, <2>2, <2>u, <3>3 DEF SeekResult, SeekGoes, FlagsOK, seeking, u
  <2>3. CASE /\ ClearPending(t, "Playing") /\ UNCHANGED seeking
             /\ Soap(t, [t EXCEPT !.at = "nudged"], Started)
    <3>1. MayMove(t, [t EXCEPT !.at = "nudged"])
        BY <1>m DEF SeekPlaces
    <3>2. SeekGoes(t) /\ renderer' \in Renderer
        BY <1>e, <2>3, <3>1, SeekCalls DEF seeking
    <3> QED
        BY <1>1, <1>c, <1>f, <1>p, <2>3, <2>u, <3>2 DEF SeekResult, FlagsOK, seeking
  <2> QED
    BY <1>1, <1>10, <2>1, <2>2, <2>3 DEF SeekLooks
<1>11. CASE SeekNudged(t)
    BY <1>1, <1>11, <1>f, <1>s, EndsResult DEF SeekNudged, Finish
<1> QED
    BY <1>2, <1>3, <1>4, <1>5, <1>6, <1>7, <1>8, <1>9, <1>10, <1>11
-----------------------------------------------------------------------------
(* The other commands, the prewarms, and what happens by itself. *)

LEMMA Others ==
    ASSUME IInv, NEW t \in tasks,
           \/ PrepareEnds(t) \/ NextLocks(t) \/ PauseLocks(t) \/ ResumeLocks(t) \/ StopLocks(t)
           \/ Answered(t)
    PROVE  IInv'
<1>f. /\ t \in Task /\ TaskOK(t) /\ t.generation \in Nat /\ Sound(session) /\ renderer \in Renderer
    BY Facts
<1>p. poll \in Looking \cup {NotLooking} /\ generation + 1 \in Nat /\ generation <= generation + 1
    BY DEF IInv, StateOK, CountsOK
<1>g. Skipped \in Renderer /\ Halted \in Renderer /\ Started \in Renderer /\ Stopped \in Renderer
    BY <1>f, Effects
<1>1. CASE PrepareEnds(t)
  <2> DEFINE u == [t EXCEPT !.at = "waiting"]
  <2>1. /\ t.op = "play" /\ t.at = "preparing"
        /\ UNCHANGED <<session, generation, seeking, poll, renderer, counts, history>>
    BY <1>1 DEF PrepareEnds
  <2>t. Turns(t, u) \/ Ends(t)
    BY <1>1 DEF PrepareEnds, Goto
  <2>2. Moves(t, u) /\ u.at = "waiting"
    BY <1>f DEF Moves, Task
  <2>3. MayMove(t, u) /\ Frame(t)
    BY <2>1, <2>2 DEF MayMove, Moves, InPlay, Locked, Frame, seeking, history
  <2> HIDE DEF u
  <2>r. /\ poll' = poll /\ loaded' = loaded /\ reservation' = reservation
        /\ generation' \in {generation, generation + 1}
    BY <2>1 DEF seeking, history
  <2>4. TasksOK' /\ ReservationHeld' /\ Ordered'
    <3>1. CASE Ends(t)
        BY <2>1, <2>r, <3>1, Finishes
    <3>2. CASE Turns(t, u)
        BY <2>3, <3>2, Move
    <3> QED
        BY <2>t, <3>1, <3>2
  <2>5. CountsOK'
    BY <2>1 DEF IInv, CountsOK, seeking, counts, history
  <2> QED
    BY <1>f, <1>p, <2>1, <2>4, <2>5, Together
<1>2. ASSUME NEW op, Waits(t, op)
      PROVE  /\ t.op = op /\ t.at = "waiting" /\ Unlocked /\ generation' = generation + 1
             /\ loaded' = loaded /\ reservation' = reservation /\ poll' = poll /\ Frame(t)
             /\ CountsOK' /\ Sound(session')
  <2>1. /\ t.op = op /\ t.at = "waiting" /\ Unlocked /\ generation' = generation + 1
        /\ UNCHANGED <<session, seeking, poll, counts, history>>
    BY <1>2 DEF Waits
  <2> QED
    BY <1>f, <1>p, <2>1 DEF IInv, CountsOK, Frame, seeking, counts, history
<1>3. ASSUME NEW op \in {"next", "pause", "resume", "stop"}, NEW effect \in Renderer,
             Waits(t, op), Asks(t, effect)
      PROVE  IInv'
  <2> DEFINE u == [t EXCEPT !.at = "answered"]
  <2>1. Moves(t, u) /\ u.at = "answered"
    BY <1>f DEF Moves, Task
  <2>2. MayMove(t, u)
    BY <1>2, <1>3, <2>1 DEF MayMove, Moves, InPlay
  <2>3. Soap(t, u, effect)
    BY <1>3 DEF Asks
  <2> HIDE DEF u
  <2>4. renderer' \in Renderer /\ TasksOK' /\ ReservationHeld' /\ Ordered'
    BY <1>2, <1>3, <2>2, <2>3, Call
  <2> QED
    BY <1>2, <1>3, <1>p, <2>4, Together
<1>4. ASSUME t.op = "next", generation' = generation + 1, loaded' = loaded, poll' = poll,
             reservation' = reservation, Turns(t, Preparing(t))
      PROVE  TasksOK' /\ ReservationHeld' /\ Ordered'
  <2>1. /\ Preparing(t) \in Task /\ Preparing(t).op = "play" /\ Preparing(t).at = "preparing"
        /\ Preparing(t).generation = generation + 1 /\ Preparing(t).asset = t.asset
    BY <1>f, <1>p DEF Preparing, Task
  <2>2. Successor(t, Preparing(t))
    BY <1>f, <1>p, <1>4, <2>1 DEF Successor, TaskOK, Locked, InPlay
  <2> QED
    BY <1>p, <1>4, <2>2, TurnKeeps
<1>5. CASE NextLocks(t)
  <2>1. CASE Asks(t, Skipped)
    BY <1>3, <1>5, <1>g, <2>1 DEF NextLocks
  <2>2. CASE Turns(t, Preparing(t)) /\ UNCHANGED renderer
    <3>1. Waits(t, "next")
        BY <1>5 DEF NextLocks
    <3>2. TasksOK' /\ ReservationHeld' /\ Ordered'
        BY <1>2, <1>4, <2>2, <3>1
    <3> QED
        BY <1>2, <1>f, <1>p, <2>2, <3>1, <3>2, Together
  <2> QED
    BY <1>5, <2>1, <2>2 DEF NextLocks
<1>6. CASE PauseLocks(t) \/ ResumeLocks(t) \/ StopLocks(t)
    BY <1>3, <1>6, <1>g DEF PauseLocks, ResumeLocks, StopLocks
<1>7. CASE Answered(t)
  <2>1. /\ t.op \in {"next", "pause", "resume", "stop"}
        /\ UNCHANGED <<seeking, poll, renderer, counts, history>>
    BY <1>7 DEF Answered
  <2>2. CASE Ends(t) /\ UNCHANGED generation /\ session' \in {session, After(t.op)}
    <3>1. TasksOK' /\ ReservationHeld' /\ Ordered'
        BY <2>1, <2>2, Finishes DEF seeking, history
    <3>2. CountsOK'
        BY <2>1, <2>2 DEF IInv, CountsOK, seeking, counts, history
    <3>3. Sound(session')
        BY <1>f, <2>1, <2>2, Sessions
    <3> QED
        BY <1>f, <1>p, <2>1, <3>1, <3>2, <3>3, Together
  <2>3. CASE /\ t.op = "next" /\ Turns(t, Preparing(t)) /\ generation' = generation + 1
             /\ UNCHANGED session
    <3>1. TasksOK' /\ ReservationHeld' /\ Ordered'
        BY <1>4, <2>1, <2>3 DEF seeking, history
    <3>2. CountsOK'
        BY <1>p, <2>1, <2>3 DEF IInv, CountsOK, seeking, counts, history
    <3> QED
        BY <1>f, <1>p, <2>1, <2>3, <3>1, <3>2, Together
  <2> QED
    BY <1>7, <2>2, <2>3 DEF Answered
<1> QED
    BY <1>1, <1>5, <1>6, <1>7

LEMMA Arms ==
    ASSUME IInv, NEW t \in tasks, ArmLocks(t) \/ ArmPauses(t) \/ ArmRetries(t) \/ ArmGivesUp(t) \/ ArmEnds(t)
    PROVE  IInv'
<1>f. /\ t \in Task /\ TaskOK(t) /\ t.generation \in Nat /\ Sound(session) /\ renderer \in Renderer
      /\ session.play \in Nat
    BY Facts
<1>1. /\ t.op = "arm" /\ poll' = poll /\ generation' = generation /\ loaded' = loaded
      /\ reservation' = reservation /\ Frame(t)
    BY DEF ArmLocks, ArmPauses, ArmRetries, ArmGivesUp, ArmEnds, ArmStep, Frame, seeking
<1>2. doubt' \in BOOLEAN
    BY DEF ArmLocks, ArmPauses, ArmRetries, ArmGivesUp, ArmEnds, IInv, CountsOK
<1>3. CountsOK'
    BY <1>2 DEF ArmLocks, ArmPauses, ArmRetries, ArmGivesUp, ArmEnds, ArmStep, IInv, CountsOK, seeking, counts
<1>4. poll' \in Looking \cup {NotLooking}
    BY <1>1 DEF IInv, StateOK
<1>5. t.asset \in Asset /\ Armed(t.asset) \in Renderer
    BY <1>1, <1>f, Effects DEF TaskOK
<1>6. ASSUME Ends(t)
      PROVE  TasksOK' /\ ReservationHeld' /\ Ordered'
    BY <1>1, <1>6, Finishes
<1>7. CASE ArmLocks(t)
  <2> DEFINE u == [t EXCEPT !.at = "arming", !.play = session.play]
  <2>1. /\ t.at = "waiting" /\ Unlocked /\ UNCHANGED session
        /\ (Ends(t) /\ UNCHANGED renderer) \/ Soap(t, u, Armed(t.asset))
    BY <1>7 DEF ArmLocks
  <2>2. Moves(t, u)
    BY <1>f DEF Moves, Task
  <2>3. MayMove(t, u)
    BY <1>1, <2>1, <2>2 DEF MayMove, Moves, InPlay
  <2> HIDE DEF u
  <2>4. renderer' \in Renderer /\ TasksOK' /\ ReservationHeld' /\ Ordered'
    BY <1>1, <1>5, <1>6, <1>f, <2>1, <2>3, Call
  <2> QED
    BY <1>3, <1>4, <1>f, <2>1, <2>4, Together
<1>8. CASE ArmRetries(t)
  <2> DEFINE u == [t EXCEPT !.at = "arming", !.tries = @ + 1]
  <2>1. t.at = "pausing" /\ UNCHANGED session /\ Soap(t, u, Armed(t.asset))
    BY <1>8 DEF ArmRetries
  <2>2. t.tries + 1 \in Nat
    BY <1>f DEF Task
  <2>3. Moves(t, u)
    BY <1>f, <2>2 DEF Moves, Task
  <2>4. MayMove(t, u)
    BY <1>1, <2>1, <2>3 DEF MayMove, Moves, InPlay, Locked
  <2> HIDE DEF u
  <2>5. renderer' \in Renderer /\ TasksOK' /\ ReservationHeld' /\ Ordered'
    BY <1>1, <1>5, <2>1, <2>4, Call
  <2> QED
    BY <1>3, <1>4, <1>f, <2>1, <2>5, Together
<1>9. CASE ArmGivesUp(t)
    BY <1>3, <1>4, <1>6, <1>9, <1>f, Together DEF ArmGivesUp
<1>11. CASE ArmPauses(t)
  <2> DEFINE u == [t EXCEPT !.at = "pausing"]
  <2>1. t.at = "arming" /\ UNCHANGED <<session, renderer>> /\ Turns(t, u)
    BY <1>11 DEF ArmPauses, Goto
  <2>2. Moves(t, u) /\ u.at = "pausing"
    BY Facts
  <2>3. MayMove(t, u)
    BY <1>1, <2>1, <2>2 DEF MayMove, Moves, InPlay, Locked
  <2> HIDE DEF u
  <2>4. TasksOK' /\ ReservationHeld' /\ Ordered'
    BY <1>1, <2>1, <2>3, Move
  <2> QED
    BY <1>3, <1>4, <1>f, <2>1, <2>4, Together
<1>10. CASE ArmEnds(t)
  <2>1. Sound([session EXCEPT !.armed = t.asset])
    BY <1>5, <1>f DEF Sound, Session
  <2> QED
    BY <1>3, <1>4, <1>6, <1>10, <1>f, <2>1, Together DEF ArmEnds
<1> QED
    BY <1>7, <1>8, <1>9, <1>10, <1>11

\* A seek takes its reservation, whoever had it.
LEMMA Reserves ==
    ASSUME IInv, NEW t \in tasks, SeekReserves(t)
    PROVE  IInv'
<1> DEFINE u == [t EXCEPT !.at = "waiting"]
<1>f. /\ t \in Task /\ TaskOK(t) /\ t.generation \in Nat /\ Sound(session) /\ renderer \in Renderer
      /\ Moves(t, u) /\ u.at = "waiting"
    BY Facts
<1>1. /\ t.op = "seek" /\ Turns(t, u) /\ reservation' = t.generation
      /\ withdrawn' \in {withdrawn, generation}
      /\ UNCHANGED <<session, generation, settling, asked, poll, renderer, counts, doubt, unreported,
                     superseded, loaded>>
    BY DEF SeekReserves, Goto
<1>2. generation \in Nat /\ t.generation <= generation
    BY DEF IInv, CountsOK, Ordered
<1>3. Successor(t, u)
    BY <1>1, <1>2, <1>f DEF Successor, Moves, TaskOK, Locked, InPlay
<1>4. u.op = "seek" /\ reservation' = u.generation
    BY <1>1, <1>f DEF Moves
<1> HIDE DEF u
<1>5. TasksOK' /\ ReservationHeld' /\ Ordered'
    BY <1>1, <1>2, <1>3, <1>4, TurnKeeps
<1>6. CountsOK' /\ poll' \in Looking \cup {NotLooking}
    BY <1>1, <1>f DEF IInv, CountsOK, StateOK, counts
<1> QED
    BY <1>1, <1>5, <1>6, <1>f, Together

LEMMA Cancels ==
    ASSUME IInv, NEW t \in tasks, Cancel(t)
    PROVE  IInv'
<1>f. /\ t.generation \in Nat /\ Sound(session) /\ renderer \in Renderer
      /\ renderer.reopening \in BOOLEAN
    BY Facts DEF Renderer
<1>1. /\ Ends(t) /\ UNCHANGED <<session, generation, settling, asked, poll, renderer, counts>>
      /\ UNCHANGED <<superseded, withdrawn, loaded>>
      /\ doubt' = (doubt \/ (t.op = "play" /\ Locked(t)))
      /\ unreported' = (unreported \/ (t.op = "seek" /\ renderer.reopening))
      /\ reservation' = IF t.op = "seek" THEN Released(t) ELSE reservation
    BY DEF Cancel
<1>2. reservation' = 0 \/ (reservation' = reservation /\ (t.op = "seek" => ~Reserved(t)))
    BY <1>1 DEF Released
<1>3. TasksOK' /\ ReservationHeld' /\ Ordered'
    BY <1>1, <1>2, Finishes
<1>4. doubt' \in BOOLEAN /\ unreported' \in BOOLEAN
    BY <1>1
<1>5. CountsOK' /\ poll' \in Looking \cup {NotLooking}
    BY <1>1, <1>2, <1>4 DEF IInv, CountsOK, StateOK, counts
<1> QED
    BY <1>1, <1>3, <1>5, <1>f, Together
-----------------------------------------------------------------------------
(* Commands and prewarms begin. *)

LEMMA NewTask ==
    ASSUME IInv, NEW op \in {"play", "next", "pause", "resume", "stop", "arm", "seek"},
           NEW a \in Asset \cup {None}
    PROVE  /\ New(op, a) \in Task /\ New(op, a).op = op /\ New(op, a).at = "waiting"
           /\ New(op, a).generation = 0 /\ New(op, a).asset = a
BY DEF IInv, CountsOK, New, Task

LEMMA BeginCommand ==
    ASSUME IInv, NEW op \in {"next", "pause", "resume", "stop"}, NEW a \in Asset \cup {None},
           op = "next" => a \in Asset, Begins(op, a),
           reservation' \in {0, reservation}, settling' \in BOOLEAN, asked' = asked,
           withdrawn' \in {withdrawn, generation}, unreported' \in BOOLEAN,
           UNCHANGED <<doubt, superseded, loaded>>
    PROVE  IInv'
<1>1. /\ Begin(New(op, a)) /\ commands' = commands + 1
      /\ UNCHANGED <<arms, session, generation, poll, renderer>>
    BY DEF Begins, Command
<1>2. TaskOK(New(op, a)) /\ ~Locked(New(op, a)) /\ New(op, a).generation = 0
    BY NewTask DEF TaskOK, Locked
<1>3. generation' \in Nat /\ generation <= generation' /\ New(op, a).generation <= generation'
    BY <1>1, <1>2 DEF IInv, CountsOK
<1>4. TasksOK' /\ ReservationHeld' /\ Ordered'
    BY <1>1, <1>2, <1>3, BeginKeeps
<1>5. CountsOK'
    BY <1>1 DEF IInv, CountsOK
<1> QED
    BY <1>1, <1>4, <1>5 DEF IInv, StateOK

LEMMA Begun ==
    ASSUME IInv,
           \/ \E source \in Source : BeginPlay(source) \/ BeginNext(source) \/ BeginArm(source)
           \/ BeginPause \/ BeginResume \/ BeginStop \/ BeginSeek
    PROVE  IInv'
<1>c. /\ generation + 1 \in Nat /\ generation + 1 # 0 /\ generation <= generation + 1
      /\ 0 <= generation /\ generation <= generation /\ generation \in Nat
      /\ CountsOK /\ StateOK /\ renderer.reopening \in BOOLEAN
      /\ session.current \in Asset \cup {None}
    BY DEF IInv, CountsOK, StateOK, Renderer, Session
<1>a. /\ commands + 1 \in Nat /\ arms + 1 \in Nat
      /\ \A source \in Source, by \in {"command", "prewarm"}, n \in Nat :
             Prepared(source, by, n) \in Asset
    BY <1>c DEF CountsOK, Prepared, Asset
<1>1. ASSUME NEW source \in Source, BeginPlay(source)
      PROVE  IInv'
  <2> DEFINE a == Prepared(source, "command", commands + 1)
             t == Preparing(New("play", a))
  <2>a. a \in Asset
    BY <1>a
  <2>1. /\ Begin(t) /\ generation' = generation + 1 /\ commands' = commands + 1
        /\ UNCHANGED <<session, seeking, poll, renderer, history, arms>>
    BY <1>1 DEF BeginPlay, Command
  <2> HIDE DEF a
  <2>2. /\ t \in Task /\ t.op = "play" /\ t.at = "preparing" /\ t.asset = a
        /\ t.generation = generation + 1
    <3> DEFINE n == New("play", a)
    <3>1. n \in Task /\ n.op = "play" /\ n.at = "waiting" /\ n.asset = a
        BY <2>a, NewTask
    <3>2. t = Preparing(n)
        OBVIOUS
    <3> HIDE DEF n, t
    <3> QED
        BY <1>c, <3>1, <3>2 DEF Preparing, Task
  <2>3. TaskOK(t) /\ ~Locked(t)
    BY <2>2, <2>a DEF TaskOK, Locked
  <2> HIDE DEF t
  <2>4. TasksOK' /\ ReservationHeld' /\ Ordered'
    BY <1>c, <2>1, <2>2, <2>3, BeginKeeps DEF seeking, history
  <2> QED
    BY <1>c, <2>1, <2>4 DEF IInv, StateOK, CountsOK, seeking, history
<1>2. ASSUME NEW source \in Source, BeginNext(source)
      PROVE  IInv'
    BY <1>a, <1>c, <1>2, BeginCommand DEF BeginNext, CountsOK, seeking, history
<1>3. CASE BeginPause
    BY <1>c, <1>3, BeginCommand DEF BeginPause, CountsOK, seeking, history
<1>4. CASE BeginResume
    BY <1>c, <1>4, BeginCommand DEF BeginResume, CountsOK, seeking, history
<1>5. CASE BeginStop
    BY <1>c, <1>5, BeginCommand DEF BeginStop, CountsOK
<1>6. CASE BeginSeek
  <2> DEFINE t == [New("seek", None) EXCEPT !.at = "reserving", !.generation = generation + 1]
  <2>1. /\ Begin(t) /\ generation' = generation + 1 /\ commands' = commands + 1
        /\ UNCHANGED <<session, seeking, poll, renderer, history, arms>>
    BY <1>6 DEF BeginSeek, Command
  <2>2. t \in Task /\ t.op = "seek" /\ t.at = "reserving" /\ t.generation = generation + 1
    <3> DEFINE n == New("seek", None)
               g == generation + 1
    <3>1. n \in Task /\ n.op = "seek" /\ g \in Nat
        BY <1>c, NewTask
    <3>2. t = [n EXCEPT !.at = "reserving", !.generation = g]
        OBVIOUS
    <3> HIDE DEF n, g, t
    <3>3. g = generation + 1
        BY DEF g
    <3> QED
        BY <3>1, <3>2, <3>3 DEF Task
  <2>3. TaskOK(t) /\ ~Locked(t)
    BY <1>c, <2>2 DEF TaskOK, Locked
  <2> HIDE DEF t
  <2>4. TasksOK' /\ ReservationHeld' /\ Ordered'
    BY <1>c, <2>1, <2>2, <2>3, BeginKeeps DEF seeking, history
  <2> QED
    BY <1>c, <2>1, <2>4 DEF IInv, StateOK, CountsOK, seeking, history
<1>7. ASSUME NEW source \in Source, BeginArm(source)
      PROVE  IInv'
  <2> DEFINE a == Prepared(source, "prewarm", arms + 1)
             t == [New("arm", a) EXCEPT !.id = arms + 1, !.expected = session.current]
  <2>a. a \in Asset
    BY <1>a
  <2>1. /\ Begin(t) /\ arms' = arms + 1
        /\ UNCHANGED <<commands, session, generation, seeking, poll, renderer, history>>
    BY <1>7 DEF BeginArm
  <2> HIDE DEF a
  <2>2. arms + 1 \in Nat
    BY <1>c DEF CountsOK
  <2>3. /\ t \in Task /\ t.op = "arm" /\ t.at = "waiting" /\ t.generation = 0
        /\ t.asset = a
    <3> DEFINE n == New("arm", a)
               i == arms + 1
    <3>1. n \in Task /\ n.op = "arm" /\ n.at = "waiting" /\ n.asset = a /\ n.generation = 0
        BY <2>a, NewTask
    <3>2. t = [n EXCEPT !.id = i, !.expected = session.current] /\ i \in Nat
        BY <2>2
    <3> HIDE DEF n, t, i
    <3> QED
        BY <1>c, <3>1, <3>2 DEF Task
  <2>4. TaskOK(t) /\ ~Locked(t)
    BY <2>3, <2>a DEF TaskOK, Locked
  <2> HIDE DEF t
  <2>5. TasksOK' /\ ReservationHeld' /\ Ordered'
    BY <1>c, <2>1, <2>3, <2>4, BeginKeeps DEF seeking, history
  <2> QED
    BY <1>c, <2>1, <2>2, <2>5 DEF IInv, StateOK, CountsOK, seeking, history
<1> QED
    BY <1>1, <1>2, <1>3, <1>4, <1>5, <1>6, <1>7
-----------------------------------------------------------------------------
(* What happens to the session and the renderer without a command. *)

\* No task moves, and a seek's reservation may only end.
LEMMA Still ==
    ASSUME IInv, Sound(session'), renderer' \in Renderer, asked' \in BOOLEAN,
           settling' \in BOOLEAN, reservation' \in {0, reservation}, poll' = poll,
           UNCHANGED <<tasks, generation, counts, history>>
    PROVE  IInv'
<1>1. CountsOK' /\ poll' \in Looking \cup {NotLooking}
    BY DEF IInv, CountsOK, StateOK, counts, history
<1>2. TasksOK' /\ Ordered' /\ ReservationHeld'
    BY DEF IInv, TasksOK, Ordered, ReservationHeld, history
<1> QED
    BY <1>1, <1>2, Together

LEMMA Looks ==
    ASSUME IInv, PollLooks \/ PollEnds
    PROVE  IInv'
<1>1. CountsOK' /\ ReservationHeld' /\ Ordered' /\ renderer' \in Renderer
    BY DEF IInv, PollLooks, PollEnds, CountsOK, StateOK, ReservationHeld, Ordered, seeking,
           counts, history
<1>2. CASE PollLooks
  <2>1. poll' \in Looking
    BY <1>2 DEF IInv, StateOK, PollLooks, Looking, Renderer
  <2>2. Sound(session')
    BY <1>2 DEF IInv, StateOK, PollLooks, Sound
  <2>3. TasksOK'
    BY <1>2 DEF IInv, TasksOK, PollLooks, Unlocked
  <2> QED
    BY <1>1, <2>1, <2>2, <2>3, Together
<1>3. CASE PollEnds
  <2>1. poll \in Looking /\ poll' = NotLooking /\ tasks' = tasks
    BY <1>3 DEF IInv, StateOK, PollEnds
  <2>2. TasksOK'
    BY <2>1 DEF IInv, TasksOK
  <2>3. Sound(session)
    BY DEF IInv, StateOK, Sound
  <2>4. ASSUME NEW sight \in Sights
        PROVE  Sound(Reconciled(sight))
    <3> DEFINE s == Promoted(sight.track)
               p == IF StillPending(s, sight) THEN s.pending ELSE "no"
    <3>1. Sound(Promoted(sight.track))
        BY <2>3 DEF Promoted, Sound, Session
    <3>2. poll.state \in TransportState
        BY <2>1 DEF Looking
    <3>3. p \in {"no", "loading", "seeking"} /\ (p = "no" \/ p = s.pending)
        BY <3>1 DEF Sound, Session
    <3> DEFINE r == Reconciled(sight)
    <3>4. r = [s EXCEPT !.state = poll.state, !.pending = p,
                        !.target = IF p = "no" THEN 0 ELSE @,
                        !.startup = IF poll.state = "Playing" /\ @ # "none" THEN "confirmed" ELSE @]
        BY DEF Reconciled
    <3>5. s \in Session /\ (s.pending = "seeking" <=> s.target # 0)
        BY <3>1 DEF Sound
    <3> HIDE DEF s, p, r
    <3>6. Sound(r)
        BY <3>2, <3>3, <3>4, <3>5 DEF Sound, Session
    <3> QED
        BY <3>6 DEF r
  <2>5. Sound([session EXCEPT !.state = "Transitioning"])
    BY <2>3 DEF Sound, Session, TransportState
  <2>6. Sound(session')
    BY <1>3, <2>4, <2>5 DEF PollEnds
  <2> QED
    BY <1>1, <2>1, <2>2, <2>6, Together
<1> QED
    BY <1>2, <1>3

LEMMA Environment ==
    ASSUME IInv,
           \/ Fetch \/ RangeReady \/ SettleElapses \/ StartupElapses
           \/ RendererBegins \/ RendererEnds
    PROVE  IInv'
<1>s. /\ Sound(session) /\ renderer \in Renderer /\ asked \in BOOLEAN
      /\ settling \in BOOLEAN
    BY DEF IInv, StateOK, CountsOK, Sound
<1>1. CASE Fetch
    BY <1>1, <1>s, Still DEF Fetch
<1>2. CASE RangeReady
  <2>1. \A state \in TransportState : Sound(NotPending(state))
    BY <1>s, Sessions
  <2>2. Sound(session')
    BY <1>2, <1>s, <2>1 DEF RangeReady, TransportState, Sound, Session
  <2>3. settling' \in BOOLEAN
    BY <1>2, <1>s DEF RangeReady
  <2> QED
    BY <1>2, <1>s, <2>2, <2>3, Still DEF RangeReady
<1>3. CASE SettleElapses
  <2>1. renderer' \in Renderer
    BY <1>3, <1>s DEF SettleElapses, Renderer
  <2> QED
    BY <1>3, <1>s, <2>1, Still DEF SettleElapses
<1>4. CASE StartupElapses
  <2>1. Sound(session')
    BY <1>4, <1>s DEF StartupElapses, Sound, Session
  <2> QED
    BY <1>4, <1>s, <2>1, Still DEF StartupElapses, seeking
<1>5. CASE RendererBegins
  <2>1. renderer' \in Renderer
    BY <1>5, <1>s DEF RendererBegins, RendererStep, Renderer, TransportState
  <2> QED
    BY <1>5, <1>s, <2>1, Still DEF RendererBegins, RendererStep, seeking
<1>6. CASE RendererEnds
  <2>1. Stopped \in Renderer /\ (renderer.next # None => Loaded(renderer.next) \in Renderer)
    BY <1>s, Effects DEF Renderer
  <2>2. renderer' \in Renderer
    BY <1>6, <2>1 DEF RendererEnds, RendererStep, Renderer, TransportState
  <2> QED
    BY <1>6, <1>s, <2>2, Still DEF RendererEnds, RendererStep, seeking
<1> QED
    BY <1>1, <1>2, <1>3, <1>4, <1>5, <1>6
LEMMA Initially == Init => IInv
<1> SUFFICES ASSUME Init PROVE IInv
    OBVIOUS
<1>1. StateOK
    BY DEF Init, StateOK, Session, Renderer, TransportState, NotLooking, Asset
<1>2. CountsOK
    BY DEF Init, CountsOK
<1>3. TasksOK /\ ReservationHeld /\ Ordered
    BY DEF Init, TasksOK, ReservationHeld, Ordered
<1> QED
    BY <1>1, <1>2, <1>3 DEF IInv

LEMMA Inductive == IInv /\ [Next]_vars => IInv'
<1> SUFFICES ASSUME IInv, [Next]_vars PROVE IInv'
    OBVIOUS
<1>1. CASE Listener \/ Monitor
    BY <1>1, Begun, Environment DEF Listener, Monitor
<1>2. CASE TaskStep
  <2>1. PICK t \in tasks :
            \/ PrepareEnds(t) \/ PlayLocks(t) \/ PlaySetsUri(t) \/ PlaySends(t) \/ PlayRetries(t)
            \/ PlayAnswered(t) \/ PlayAccepted(t) \/ PlayConfirmed(t) \/ PlayFails(t)
            \/ NextLocks(t) \/ PauseLocks(t) \/ ResumeLocks(t) \/ StopLocks(t) \/ Answered(t)
            \/ ArmLocks(t) \/ ArmPauses(t) \/ ArmRetries(t) \/ ArmGivesUp(t) \/ ArmEnds(t)
            \/ SeekReserves(t) \/ SeekLocks(t) \/ SeekCleared(t) \/ SeekAsked(t) \/ SeekSlept(t)
            \/ SeekAnswered(t) \/ SeekPosts(t) \/ SeekPosted(t) \/ SeekVerifies(t) \/ SeekLooks(t)
            \/ SeekNudged(t)
    BY <1>2 DEF TaskStep
  <2>2. CASE \/ PrepareEnds(t) \/ NextLocks(t) \/ PauseLocks(t) \/ ResumeLocks(t)
             \/ StopLocks(t) \/ Answered(t)
    BY <2>2, Others
  <2>3. CASE \/ PlayLocks(t) \/ PlaySetsUri(t) \/ PlaySends(t) \/ PlayRetries(t)
             \/ PlayAnswered(t) \/ PlayAccepted(t) \/ PlayConfirmed(t) \/ PlayFails(t)
    BY <2>3, Plays
  <2>4. CASE ArmLocks(t) \/ ArmPauses(t) \/ ArmRetries(t) \/ ArmGivesUp(t) \/ ArmEnds(t)
    BY <2>4, Arms
  <2> QED
    BY <2>1, <2>2, <2>3, <2>4, Reserves, Seeks, SeekKeeps
<1>3. CASE \E t \in tasks : Cancel(t)
    BY <1>3, Cancels
<1>4. CASE Poll \/ Elapse \/ RendererBegins \/ RendererEnds
    BY <1>4, Looks, Environment DEF Poll, Elapse
<1>5. CASE UNCHANGED vars
    BY <1>5 DEF vars, seeking, counts, history, IInv, StateOK, CountsOK, TasksOK, TaskOK,
                Locked, ReservationHeld, Ordered, InPlay
<1> QED
    BY <1>1, <1>2, <1>3, <1>4, <1>5 DEF Next
-----------------------------------------------------------------------------
(* What the renderer is told while it settles, and what it has armed. *)

\* What a call leaves, with its answer.
Answer(u, v, effect) ==
    /\ Alike(u, v) /\ v.play = u.play
    /\ renderer' \in {renderer, effect} /\ (v.ok => renderer' = effect)
LEMMA SoapAnswers ==
    ASSUME NEW t, NEW u \in Task, NEW effect, Soap(t, u, effect)
    PROVE  \E v : Answer(u, v, effect) /\ Turns(t, v)
<1>1. \A b \in BOOLEAN : LET v == [u EXCEPT !.ok = b] IN Alike(u, v) /\ v.play = u.play /\ v.ok = b
    BY DEF Alike, Task
<1> QED
    BY <1>1 DEF Soap, Answer

\* What each call does to the tracks of the renderer.
Same(r) ==
    r.next = renderer.next /\ r.current = renderer.current /\ r.reopening = renderer.reopening
LEMMA EffectParts ==
    ASSUME renderer \in Renderer
    PROVE  /\ Stopped.next = None /\ Stopped.current = renderer.current /\ Stopped.reopening = FALSE
           /\ \A a : /\ Loaded(a).next = None /\ Loaded(a).current = a
                     /\ Loaded(a).reopening = FALSE
           /\ Same(Started) /\ Same(Halted)
           /\ \A a : /\ Armed(a).next = a /\ Armed(a).current = renderer.current
                     /\ Armed(a).reopening = renderer.reopening
           /\ \/ renderer.next = None /\ Same(Skipped)
              \/ /\ renderer.next # None /\ Skipped.next = None /\ Skipped.reopening = FALSE
                 /\ Skipped.current = renderer.next
           /\ \A g : /\ Sought(g).next = renderer.next /\ Sought(g).current = renderer.current
                     /\ Sought(g).position = g
                     /\ (renderer.state # "Playing" => Sought(g).reopening = renderer.reopening)
BY DEF Renderer, Stopped, Loaded, Started, Halted, Armed, Skipped, Sought, Same

Arming(t) == t.op = "arm" /\ t.at \in {"arming", "pausing"}
Clearing(t) == t.op = "seek" /\ t.at = "clearing"
Sending(t) == t.op = "seek" /\ t.at \in {"asking", "sleeping"}

\* The core knows that the renderer settles, and has nothing armed on a KEF that does.
\* A prewarm on the wire found that it does not, and a seek on its way to a KEF has
\* cleared what was armed.
Reopening == renderer.reopening /\ ~unreported
SettleKnown ==
    /\ Reopening => settling \/ reservation # 0
    /\ Reopening /\ Verified => session.armed = None
TaskSettled(t) ==
    /\ Arming(t) => ~Reopening
    /\ Clearing(t) => Verified /\ session.armed # None
    /\ Sending(t) /\ Verified => session.armed = None
Settled == SettleKnown /\ \A t \in tasks : TaskSettled(t)

\* One task moves, or ends.  What it may change of what others rely on, it changes with
\* the lock.
LEMMA SettleTurns ==
    ASSUME IInv, Settled, NEW t \in tasks, NEW u,
           tasks' \subseteq (tasks \ {t}) \cup {u},
           Reopening' => settling' \/ reservation' # 0,
           Reopening' => Reopening \/ (Locked(t) /\ (Verified => session'.armed = None)),
           session'.armed # session.armed =>
               (Locked(t) \/ Unlocked) /\ (session'.armed = None \/ ~Reopening'),
           u \in tasks' => TaskSettled(u)'
    PROVE  Settled'
<1>1. SettleKnown'
    BY DEF Settled, SettleKnown
<1>2. ASSUME NEW v \in tasks \ {t}
      PROVE  TaskSettled(v)'
  <2>1. TaskSettled(v)
    BY DEF Settled
  <2>2. Locked(v) => ~Locked(t) /\ ~Unlocked
    BY DEF IInv, TasksOK, Unlocked
  <2>3. Arming(v) \/ Clearing(v) \/ Sending(v) => Locked(v)
    BY DEF Arming, Clearing, Sending, Locked
  <2>4. Arming(v) => ~Reopening'
    BY <2>1, <2>2, <2>3 DEF TaskSettled
  <2>5. Locked(v) => session'.armed = session.armed
    BY <2>2
  <2> QED
    BY <2>1, <2>3, <2>4, <2>5 DEF TaskSettled
<1> QED
    BY <1>1, <1>2 DEF Settled

LEMMA PlaysSettle ==
    ASSUME IInv, Settled, NEW t \in tasks,
           \/ PlayLocks(t) \/ PlaySetsUri(t) \/ PlaySends(t) \/ PlayRetries(t)
           \/ PlayAnswered(t) \/ PlayAccepted(t) \/ PlayConfirmed(t) \/ PlayFails(t)
    PROVE  Settled'
<1>f. /\ t \in Task /\ renderer \in Renderer /\ session \in Session /\ t.op = "play"
      /\ session.play \in Nat /\ session.current \in Asset \cup {None}
    BY Facts DEF Sound, PlayLocks, PlaySetsUri, PlaySends, PlayRetries, PlayAnswered,
                 PlayAccepted, PlayConfirmed, PlayFails, PlayStep
<1>e. /\ Stopped.reopening = FALSE /\ Started.reopening = renderer.reopening
      /\ \A a : Loaded(a).reopening = FALSE
    BY <1>f, EffectParts DEF Same
<1>k. Reopening => settling \/ reservation # 0
    BY DEF Settled, SettleKnown
<1>o. \A u : u.op = "play" => TaskSettled(u)'
    BY DEF TaskSettled, Arming, Clearing, Sending
<1>a. Confirmed.armed = session.armed /\ Restored(t).armed = None /\ \A a : Primed(a).armed = None
    BY <1>f DEF Session, Confirmed, Restored, Primed
<1>1. CASE PlayLocks(t)
  <2>1. CASE ~NewestPlay(t)
    <3>1. Ends(t) /\ UNCHANGED <<session, seeking, renderer, unreported>>
        BY <1>1, <2>1 DEF PlayLocks
    <3> QED
        BY <1>k, <3>1, SettleTurns DEF Ends, Reopening, seeking
  <2>2. CASE NewestPlay(t)
    <3> DEFINE u == [t EXCEPT !.at = "stopped", !.play = session.play + 1,
                              !.expected = session.current]
    <3>1. /\ session'.armed = None /\ Unlocked /\ Soap(t, u, Stopped)
          /\ unreported' = (unreported \/ renderer'.reopening)
        BY <1>1, <1>a, <2>2 DEF PlayLocks
    <3>2. u \in Task /\ u.op = "play"
        <4>1. session.play + 1 \in Nat
            BY <1>f
        <4> QED
            BY <1>f, <4>1 DEF Task
    <3> HIDE DEF u
    <3>3. PICK v : Answer(u, v, Stopped) /\ Turns(t, v)
        BY <3>1, <3>2, SoapAnswers
    <3>4. ~Reopening'
        BY <3>1 DEF Reopening
    <3> QED
        BY <1>o, <3>1, <3>2, <3>3, <3>4, SettleTurns DEF Turns, Answer, Alike
  <2> QED
    BY <2>1, <2>2
<1>2. CASE PlaySetsUri(t) \/ PlaySends(t)
  <2>1. PICK at \in {"set", "sent"} : \E r \in {Loaded(t.asset), Started} :
            Soap(t, [t EXCEPT !.at = at], r)
    BY <1>2 DEF PlaySetsUri, PlaySends
  <2>2. PICK r \in {Loaded(t.asset), Started} : Soap(t, [t EXCEPT !.at = at], r)
    BY <2>1
  <2>3. [t EXCEPT !.at = at] \in Task /\ [t EXCEPT !.at = at].op = "play"
    BY <1>f DEF Task
  <2>4. PICK v : Answer([t EXCEPT !.at = at], v, r) /\ Turns(t, v)
    BY <2>2, <2>3, SoapAnswers
  <2>5. UNCHANGED <<session, settling, reservation, unreported>>
    BY <1>2 DEF PlaySetsUri, PlaySends, PlayStep, seeking
  <2>6. Reopening' => Reopening
    BY <1>e, <2>2, <2>4, <2>5 DEF Reopening, Answer
  <2> QED
    BY <1>k, <1>o, <2>3, <2>4, <2>5, <2>6, SettleTurns DEF Turns, Answer, Alike
<1>3. CASE PlayRetries(t) \/ PlayAnswered(t) \/ PlayAccepted(t) \/ PlayConfirmed(t) \/ PlayFails(t)
  <2>1. /\ session'.armed \in {session.armed, None} /\ Locked(t)
        /\ UNCHANGED <<renderer, settling, reservation, unreported>>
    BY <1>3, <1>a, <1>f DEF PlayRetries, PlayAnswered, PlayAccepted, PlayConfirmed, PlayFails,
                            PlayStep, Locked, seeking
  <2>2. PICK u : u.op = "play" /\ tasks' \subseteq (tasks \ {t}) \cup {u}
    <3>1. CASE PlayRetries(t)
        BY <1>f, <3>1 DEF PlayRetries, Turns, Task
    <3>2. CASE PlayAnswered(t) \/ PlayAccepted(t)
        BY <1>f, <3>2 DEF PlayAnswered, PlayAccepted, Goto, Turns, Ends, Task
    <3>3. CASE PlayConfirmed(t) \/ PlayFails(t)
        BY <1>f, <3>3 DEF PlayConfirmed, PlayFails, Ends
    <3> QED
        BY <1>3, <3>1, <3>2, <3>3
  <2> QED
    BY <1>k, <1>o, <2>1, <2>2, SettleTurns DEF Reopening
<1> QED
    BY <1>1, <1>2, <1>3

LEMMA OthersSettle ==
    ASSUME IInv, Settled, NEW t \in tasks,
           \/ PrepareEnds(t) \/ NextLocks(t) \/ PauseLocks(t) \/ ResumeLocks(t) \/ StopLocks(t)
           \/ Answered(t)
    PROVE  Settled'
<1>f. t \in Task /\ renderer \in Renderer /\ session \in Session
    BY Facts DEF Sound
<1>k. Reopening => settling \/ reservation # 0
    BY DEF Settled, SettleKnown
<1>o. \A u : u.op \notin {"seek", "arm"} => TaskSettled(u)'
    BY DEF TaskSettled, Arming, Clearing, Sending
<1>1. CASE PrepareEnds(t)
  <2>1. /\ (t.op = "play" /\ Turns(t, [t EXCEPT !.at = "waiting"])) \/ Ends(t)
        /\ UNCHANGED <<session, settling, reservation, renderer, unreported>>
    BY <1>1 DEF PrepareEnds, Goto, seeking, history
  <2>2. [t EXCEPT !.at = "waiting"].op = t.op
    BY <1>f DEF Task
  <2> QED
    BY <1>k, <1>o, <2>1, <2>2, SettleTurns DEF Turns, Ends, Reopening
<1>2. CASE NextLocks(t) \/ PauseLocks(t) \/ ResumeLocks(t) \/ StopLocks(t)
  <2>1. /\ t.op \in {"next", "pause", "resume", "stop"}
        /\ UNCHANGED <<session, settling, reservation, unreported>>
        /\ \/ \E r \in {Skipped, Halted, Started, Stopped} : Asks(t, r)
           \/ Turns(t, Preparing(t)) /\ UNCHANGED renderer
    BY <1>2 DEF NextLocks, PauseLocks, ResumeLocks, StopLocks, Waits, seeking, history
  <2>2. CASE Turns(t, Preparing(t)) /\ UNCHANGED renderer
    <3>1. Preparing(t).op = "play"
        BY <1>f DEF Preparing, Task
    <3> QED
        BY <1>k, <1>o, <2>1, <2>2, <3>1, SettleTurns DEF Turns, Reopening
  <2>3. ASSUME NEW r \in {Skipped, Halted, Started, Stopped}, Asks(t, r)
        PROVE  Settled'
    <3>1. [t EXCEPT !.at = "answered"] \in Task /\ [t EXCEPT !.at = "answered"].op = t.op
        BY <1>f DEF Task
    <3>2. PICK v : Answer([t EXCEPT !.at = "answered"], v, r) /\ Turns(t, v)
        BY <2>3, <3>1, SoapAnswers DEF Asks
    <3>3. Reopening' => Reopening
        BY <1>f, <2>1, <2>3, <3>2, EffectParts DEF Reopening, Answer, Same
    <3> QED
        BY <1>k, <1>o, <2>1, <3>1, <3>2, <3>3, SettleTurns DEF Turns, Answer, Alike
  <2> QED
    BY <2>1, <2>2, <2>3
<1>3. CASE Answered(t)
  <2>1. /\ t.op \in {"next", "pause", "resume", "stop"} /\ Locked(t)
        /\ UNCHANGED <<settling, reservation, renderer, unreported>>
        /\ Ends(t) \/ Turns(t, Preparing(t))
    BY <1>3 DEF Answered, Locked, seeking, history
  <2>2. session'.armed \in {session.armed, None}
    <3>1. \A op \in {"next", "pause", "resume", "stop"} : After(op).armed \in {session.armed, None}
        BY <1>f DEF After, Session
    <3> QED
        BY <1>3, <2>1, <3>1 DEF Answered
  <2>3. Preparing(t).op = "play"
    BY <1>f DEF Preparing, Task
  <2> QED
    BY <1>k, <1>o, <2>1, <2>2, <2>3, SettleTurns DEF Turns, Ends, Reopening
<1> QED
    BY <1>1, <1>2, <1>3

LEMMA ArmsSettle ==
    ASSUME IInv, Settled, NEW t \in tasks,
           ArmLocks(t) \/ ArmPauses(t) \/ ArmRetries(t) \/ ArmGivesUp(t) \/ ArmEnds(t)
    PROVE  Settled'
<1>f. /\ t \in Task /\ renderer \in Renderer /\ session \in Session /\ t.op = "arm"
      /\ UNCHANGED <<settling, reservation, unreported>>
    BY Facts DEF Sound, ArmLocks, ArmPauses, ArmRetries, ArmGivesUp, ArmEnds, ArmStep, seeking
<1>k. Reopening => settling \/ reservation # 0
    BY DEF Settled, SettleKnown
<1>o. \A u : u.op = "arm" => ~Clearing(u) /\ ~Sending(u)
    BY DEF Clearing, Sending
<1>1. CASE ArmGivesUp(t)
    BY <1>1, <1>f, <1>k, SettleTurns DEF ArmGivesUp, Ends, Reopening
<1>2. CASE ArmEnds(t)
  <2>1. Ends(t) /\ renderer' = renderer /\ session'.armed \in {session.armed, t.asset} /\ Arming(t)
    BY <1>2, <1>f DEF ArmEnds, Session, Arming
  <2>2. ~Reopening /\ Locked(t)
    BY <2>1 DEF Settled, TaskSettled, Arming, Locked
  <2>3. ~Reopening'
    BY <1>f, <2>1, <2>2 DEF Reopening
  <2> QED
    BY <2>1, <2>2, <2>3, SettleTurns DEF Ends
<1>3. CASE ArmLocks(t) /\ Ends(t) /\ UNCHANGED renderer
    BY <1>3, <1>f, <1>k, SettleTurns DEF ArmLocks, Ends, Reopening
<1>4. ASSUME NEW u \in Task, u.op = "arm", Soap(t, u, Armed(t.asset)), ~Reopening,
             UNCHANGED session
      PROVE  Settled'
  <2>1. PICK v : Answer(u, v, Armed(t.asset)) /\ Turns(t, v)
    BY <1>4, SoapAnswers
  <2>2. ~Reopening'
    BY <1>4, <1>f, <2>1, EffectParts DEF Reopening, Answer
  <2>3. TaskSettled(v)'
    BY <1>4, <1>o, <2>1, <2>2 DEF TaskSettled, Answer, Alike
  <2> QED
    BY <1>4, <2>1, <2>2, <2>3, SettleTurns DEF Turns
<1>5. CASE ArmLocks(t) /\ ~(Ends(t) /\ UNCHANGED renderer)
  <2>1. /\ ~BlockedBySeek /\ UNCHANGED session
        /\ Soap(t, [t EXCEPT !.at = "arming", !.play = session.play], Armed(t.asset))
    BY <1>5 DEF ArmLocks
  <2>2. session.play \in Nat
    BY <1>f DEF Session
  <2>3. /\ [t EXCEPT !.at = "arming", !.play = session.play] \in Task
        /\ [t EXCEPT !.at = "arming", !.play = session.play].op = "arm"
    BY <1>f, <2>2 DEF Task
  <2> QED
    BY <1>4, <1>k, <2>1, <2>3 DEF BlockedBySeek
<1>6. CASE ArmRetries(t)
  <2> DEFINE u == [t EXCEPT !.at = "arming", !.tries = @ + 1]
  <2>1. Arming(t) /\ UNCHANGED session /\ Soap(t, u, Armed(t.asset))
    BY <1>6, <1>f DEF ArmRetries, Arming
  <2>2. t.tries + 1 \in Nat
    BY <1>f DEF Task
  <2>3. u \in Task /\ u.op = "arm"
    BY <1>f, <2>2 DEF Task
  <2>4. ~Reopening
    BY <2>1 DEF Settled, TaskSettled
  <2> HIDE DEF u
  <2> QED
    BY <1>4, <2>1, <2>3, <2>4
<1>7. CASE ArmPauses(t)
  <2> DEFINE u == [t EXCEPT !.at = "pausing"]
  <2>1. Arming(t) /\ UNCHANGED <<session, renderer>> /\ Turns(t, u)
    BY <1>7, <1>f DEF ArmPauses, Arming, Goto
  <2>2. u.op = "arm"
    BY <1>f DEF Task
  <2>3. ~Reopening
    BY <2>1 DEF Settled, TaskSettled
  <2> HIDE DEF u
  <2>4. ~Reopening' /\ TaskSettled(u)'
    BY <1>f, <1>o, <2>1, <2>2, <2>3 DEF TaskSettled, Reopening
  <2> QED
    BY <2>1, <2>4, SettleTurns DEF Turns
<1> QED
    BY <1>1, <1>2, <1>3, <1>5, <1>6, <1>7

\* A seek that sends, with the lock: the renderer reopens its stream, and the seek has its
\* reservation.
LEMMA SendSettles ==
    ASSUME IInv, Settled, NEW t \in tasks, SeekStep(t), Sending(t), Reserved(t), SendSeek(t)
    PROVE  Settled'
<1>f. /\ t \in Task /\ renderer \in Renderer /\ session \in Session /\ t.op = "seek"
      /\ t.generation # 0 /\ session.play \in Nat
    BY Facts DEF Sound, SeekStep, TaskOK
<1> DEFINE u == [t EXCEPT !.at = "sought", !.playing = EffectivelyPlaying, !.play = session.play,
                          !.tries = 1]
<1>1. /\ UNCHANGED <<reservation, settling, unreported>> /\ session'.armed = session.armed
      /\ Soap(t, u, Sought(t.generation))
    BY <1>f DEF SendSeek, Session
<1>2. u \in Task /\ u.op = "seek" /\ u.at = "sought"
  <2>1. EffectivelyPlaying \in BOOLEAN
    BY DEF EffectivelyPlaying
  <2> DEFINE e == EffectivelyPlaying
             n == session.play
  <2>2. u = [t EXCEPT !.at = "sought", !.playing = e, !.play = n, !.tries = 1]
    OBVIOUS
  <2> HIDE DEF e, n, u
  <2>3. e \in BOOLEAN /\ n \in Nat
    BY <1>f, <2>1 DEF e, n
  <2> QED
    BY <1>f, <2>2, <2>3 DEF Task
<1> HIDE DEF u
<1>3. PICK v : Answer(u, v, Sought(t.generation)) /\ Turns(t, v)
    BY <1>1, <1>2, SoapAnswers
<1>4. reservation' # 0 /\ (Verified => session'.armed = None) /\ Locked(t)
    BY <1>1, <1>f DEF Reserved, Settled, TaskSettled, Sending, Locked
<1>5. TaskSettled(v)'
    BY <1>2, <1>3 DEF TaskSettled, Arming, Clearing, Sending, Answer, Alike
<1> QED
    BY <1>1, <1>3, <1>4, <1>5, SettleTurns DEF Turns

\* A seek that ends as it should: the renderer is left alone, or was before.
LEMMA FinishSettles ==
    ASSUME IInv, Settled, NEW t \in tasks, Finish(t), session'.armed = session.armed,
           UNCHANGED <<renderer, unreported>>
    PROVE  Settled'
<1>1. /\ Ends(t) /\ reservation' = Released(t)
      /\ settling' = (settling \/ Reserved(t))
    BY DEF Finish
<1>2. settling \in BOOLEAN /\ (Reopening => settling \/ reservation # 0)
    BY DEF IInv, CountsOK, Settled, SettleKnown
<1>3. Reopening' => Reopening /\ (settling' \/ reservation' # 0)
    BY <1>1, <1>2 DEF Reopening, Released
<1> QED
    BY <1>1, <1>3, SettleTurns DEF Ends

LEMMA SeeksSettle ==
    ASSUME IInv, Settled, NEW t \in tasks,
           \/ SeekLocks(t) \/ SeekCleared(t) \/ SeekAsked(t) \/ SeekSlept(t) \/ SeekAnswered(t)
           \/ SeekPosts(t) \/ SeekPosted(t) \/ SeekVerifies(t) \/ SeekLooks(t) \/ SeekNudged(t)
    PROVE  Settled'
<1>s. SeekStep(t)
    BY DEF SeekLocks, SeekCleared, SeekAsked, SeekSlept, SeekAnswered, SeekPosts, SeekPosted,
           SeekVerifies, SeekLooks, SeekNudged
<1>f. t \in Task /\ renderer \in Renderer /\ session \in Session /\ t.op = "seek"
    BY <1>s, Facts DEF Sound, SeekStep
<1>k. Reopening => settling \/ reservation # 0
    BY DEF Settled, SettleKnown
<1>t. TaskSettled(t)
    BY DEF Settled
<1>c. \A state \in TransportState : ClearPending(t, state) => session'.armed = session.armed
    BY <1>f DEF ClearPending, NotPending, Session
<1>p. "Playing" \in TransportState /\ session.state \in TransportState
    BY <1>f DEF TransportState, Session
<1>a. \A at \in SeekPlaces \cup {"sought"} :
          /\ [t EXCEPT !.at = at] \in Task /\ [t EXCEPT !.at = at].at = at
          /\ [t EXCEPT !.at = at].op = "seek"
    BY <1>f DEF Task, SeekPlaces
<1>o. \A u : u.op = "seek" /\ u.at \notin {"clearing", "asking", "sleeping"} => TaskSettled(u)'
    BY DEF TaskSettled, Arming, Clearing, Sending
\* The ways in which a seek goes on, or ends.
<1>1. ASSUME GivesWay(t)
      PROVE  Settled'
    BY <1>1, <1>k, SettleTurns DEF GivesWay, Ends, Reopening, seeking
<1>2. ASSUME AsksActions(t), Verified => session'.armed = None,
             session' = session \/ (session'.armed = None /\ Locked(t))
      PROVE  Settled'
  <2> DEFINE u == [t EXCEPT !.at = "asking"]
  <2>1. u.op = "seek" /\ u.at = "asking"
    BY <1>a DEF SeekPlaces
  <2>2. Turns(t, u) /\ UNCHANGED <<seeking, renderer, unreported>>
    BY <1>2 DEF AsksActions, Goto
  <2> HIDE DEF u
  <2>3. TaskSettled(u)'
    BY <1>2, <2>1 DEF TaskSettled, Arming, Clearing
  <2> QED
    BY <1>2, <1>k, <2>2, <2>3, SettleTurns DEF Turns, Reopening, seeking
<1>3. ASSUME NEW at \in SeekPlaces \ {"clearing", "asking", "sleeping"}, NEW u,
             u.op = "seek", u.at = at, Turns(t, u),
             UNCHANGED <<session, seeking, renderer, unreported>>
      PROVE  Settled'
    BY <1>3, <1>k, <1>o, SettleTurns DEF Turns, Reopening, seeking, SeekPlaces
<1>n. ASSUME NEW at \in {"posted", "nudged"}, Soap(t, [t EXCEPT !.at = at], Started),
             session'.armed = session.armed, UNCHANGED <<seeking, unreported>>
      PROVE  Settled'
  <2> DEFINE u == [t EXCEPT !.at = at]
  <2>1. u \in Task /\ u.op = "seek" /\ u.at = at
    BY <1>a DEF SeekPlaces
  <2>2. Soap(t, u, Started)
    BY <1>n
  <2> HIDE DEF u
  <2>3. PICK v : Answer(u, v, Started) /\ Turns(t, v)
    BY <2>1, <2>2, SoapAnswers
  <2>4. Reopening' => Reopening
    BY <1>f, <1>n, <2>3, EffectParts DEF Answer, Same, Reopening
  <2>5. TaskSettled(v)'
    BY <1>o, <2>1, <2>3 DEF Answer, Alike
  <2> QED
    BY <1>k, <1>n, <2>3, <2>4, <2>5, SettleTurns DEF Turns, seeking
<1>4. ASSUME SeekBreaksOff(t), session'.armed = session.armed
      PROVE  Settled'
    BY <1>4, SettleTurns DEF SeekBreaksOff, Ends, Reopening
<1>5. ASSUME NEW u \in Task, u.op = "seek", u.at = "clearing", Soap(t, u, Armed(None)),
             Verified, session.armed # None, UNCHANGED <<session, seeking, unreported>>
      PROVE  Settled'
  <2>1. PICK v : Answer(u, v, Armed(None)) /\ Turns(t, v)
    BY <1>5, SoapAnswers
  <2>2. Reopening' => Reopening
    BY <1>5, <1>f, <2>1, EffectParts DEF Answer, Reopening
  <2>3. TaskSettled(v)'
    BY <1>5, <2>1 DEF Answer, Alike, TaskSettled, Arming, Sending
  <2> QED
    BY <1>5, <1>k, <2>1, <2>2, <2>3, SettleTurns DEF Turns, seeking
<1>6. CASE SeekLocks(t)
  <2>1. CASE GivesWay(t)
    BY <1>1, <2>1
  <2>2. CASE Clears(t) /\ Soap(t, [t EXCEPT !.at = "clearing"], Armed(None))
             /\ UNCHANGED <<session, seeking, unreported, superseded>>
    BY <1>5, <1>a, <2>2 DEF SeekPlaces, Clears
  <2>3. CASE ~Clears(t) /\ AsksActions(t) /\ UNCHANGED session
    BY <1>2, <2>3 DEF Clears
  <2> QED
    BY <1>6, <2>1, <2>2, <2>3 DEF SeekLocks
<1>7. CASE SeekCleared(t)
  <2>l. Locked(t) /\ Clearing(t)
    BY <1>f, <1>7 DEF SeekCleared, Locked, Clearing
  <2>1. CASE t.ok
    <3>1. session'.armed = None
        BY <1>7, <1>f, <2>1 DEF SeekCleared, Session
    <3>2. CASE AsksActions(t)
        BY <1>2, <2>l, <3>1, <3>2
    <3>3. CASE Ends(t) /\ UNCHANGED <<seeking, renderer, unreported>>
        BY <1>k, <2>l, <3>1, <3>3, SettleTurns DEF Ends, Reopening, seeking
    <3> QED
        BY <1>7, <2>1, <3>2, <3>3 DEF SeekCleared
  <2>2. CASE /\ Soap(t, [t EXCEPT !.tries = @ + 1], Armed(None))
             /\ UNCHANGED <<session, seeking, unreported, superseded>>
    <3>1. t.tries + 1 \in Nat
        BY <1>f DEF Task
    <3>2. /\ [t EXCEPT !.tries = @ + 1] \in Task /\ [t EXCEPT !.tries = @ + 1].op = "seek"
          /\ [t EXCEPT !.tries = @ + 1].at = "clearing"
        BY <1>f, <2>l, <3>1 DEF Task, Clearing
    <3> QED
        BY <1>5, <1>t, <2>2, <2>l, <3>2 DEF TaskSettled
  <2>3. CASE /\ Ends(t) /\ UNCHANGED <<session, settling, asked, renderer, unreported, superseded>>
    <3>1. ~Reopening
        BY <1>t, <2>l DEF TaskSettled, Settled, SettleKnown
    <3>2. ~Reopening'
        BY <2>3, <3>1 DEF Reopening
    <3> QED
        BY <2>3, <3>2, SettleTurns DEF Ends
  <2> QED
    BY <1>7, <2>1, <2>2, <2>3 DEF SeekCleared
<1>8. CASE SeekAsked(t)
  <2>l. Sending(t) /\ Locked(t)
    BY <1>8, <1>f DEF SeekAsked, Sending, Locked
  <2>1. CASE Goto(t, "sleeping") /\ UNCHANGED <<session, seeking, renderer, unreported, superseded>>
    <3> DEFINE u == [t EXCEPT !.at = "sleeping"]
    <3>1. u.op = "seek" /\ u.at = "sleeping" /\ Turns(t, u)
        BY <1>a, <2>1 DEF SeekPlaces, Goto
    <3> HIDE DEF u
    <3>2. TaskSettled(u)'
        BY <1>t, <2>1, <2>l, <3>1 DEF TaskSettled, Arming, Clearing
    <3> QED
        BY <1>k, <2>1, <3>1, <3>2, SettleTurns DEF Turns, Reopening, seeking
  <2> QED
    BY <1>1, <1>8, <1>s, <2>1, <2>l, SendSettles DEF SeekAsked
<1>9. CASE SeekSlept(t)
  <2>1. Sending(t)
    BY <1>9, <1>f DEF SeekSlept, Sending
  <2> QED
    BY <1>1, <1>9, <1>s, <2>1, SendSettles DEF SeekSlept
<1>10. CASE SeekAnswered(t)
  <2>1. CASE ~t.ok
    BY <1>4, <1>10, <1>c, <1>p, <2>1 DEF SeekAnswered
  <2>2. CASE t.ok /\ t.playing
    <3>1. PICK at \in {"posting", "verifying"} : Goto(t, at)
        BY <1>10, <2>2 DEF SeekAnswered
    <3>2. UNCHANGED <<session, seeking, renderer, unreported>>
        BY <1>10, <2>2 DEF SeekAnswered
    <3> QED
        BY <1>3, <1>a, <3>1, <3>2 DEF Goto, SeekPlaces
  <2>3. CASE t.ok /\ ~t.playing
    BY <1>10, <2>3, FinishSettles DEF SeekAnswered
  <2> QED
    BY <2>1, <2>2, <2>3
<1>11. CASE SeekPosts(t)
  <2>1. CASE Goto(t, "verifying") /\ UNCHANGED renderer
    BY <1>3, <1>11, <1>a, <2>1 DEF SeekPosts, Goto, SeekPlaces
  <2>2. CASE Soap(t, [t EXCEPT !.at = "posted"], Started)
    BY <1>11, <1>n, <2>2 DEF SeekPosts
  <2> QED
    BY <1>11, <2>1, <2>2 DEF SeekPosts
<1>12. CASE SeekPosted(t)
  <2>1. CASE t.ok
    BY <1>3, <1>12, <1>a, <2>1 DEF SeekPosted, Goto, SeekPlaces
  <2>2. CASE ~t.ok
    BY <1>4, <1>12, <1>c, <1>p, <2>2 DEF SeekPosted
  <2> QED
    BY <2>1, <2>2
<1>13. CASE SeekVerifies(t)
  <2>1. CASE Finish(t)
    BY <1>13, <1>c, <1>p, <2>1, FinishSettles DEF SeekVerifies
  <2>2. CASE Goto(t, "looking") /\ UNCHANGED <<session, seeking>>
    BY <1>3, <1>13, <1>a, <2>2 DEF SeekVerifies, Goto, SeekPlaces
  <2> QED
    BY <1>13, <2>1, <2>2 DEF SeekVerifies
<1>14. CASE SeekLooks(t)
  <2>u. UNCHANGED unreported
    BY <1>14 DEF SeekLooks
  <2>1. CASE Finish(t) /\ ClearPending(t, "Playing") /\ UNCHANGED renderer
    BY <1>c, <1>p, <2>1, <2>u, FinishSettles
  <2>2. CASE /\ Turns(t, [t EXCEPT !.at = "verifying", !.tries = @ + 1])
             /\ UNCHANGED <<session, seeking, renderer>>
    <3> DEFINE u == [t EXCEPT !.at = "verifying", !.tries = @ + 1]
    <3>1. t.tries + 1 \in Nat
        BY <1>f DEF Task
    <3>2. u \in Task /\ u.op = "seek" /\ u.at = "verifying"
        BY <1>f, <3>1 DEF Task
    <3> QED
        BY <1>3, <2>2, <2>u, <3>2 DEF SeekPlaces
  <2>3. CASE /\ ClearPending(t, "Playing") /\ UNCHANGED seeking
             /\ Soap(t, [t EXCEPT !.at = "nudged"], Started)
    BY <1>c, <1>n, <1>p, <2>3, <2>u
  <2> QED
    BY <1>14, <2>1, <2>2, <2>3 DEF SeekLooks
<1>15. CASE SeekNudged(t)
    BY <1>15, FinishSettles DEF SeekNudged
<1> QED
    BY <1>6, <1>7, <1>8, <1>9, <1>10, <1>11, <1>12, <1>13, <1>14, <1>15

LEMMA ReservesSettle ==
    ASSUME IInv, Settled, NEW t \in tasks, SeekReserves(t)
    PROVE  Settled'
<1> DEFINE u == [t EXCEPT !.at = "waiting"]
<1>f. t \in Task /\ t.generation # 0
    BY Facts DEF SeekReserves, TaskOK
<1>1. /\ Turns(t, u) /\ reservation' = t.generation
      /\ UNCHANGED <<session, renderer, unreported>>
    BY DEF SeekReserves, Goto
<1>2. u.at = "waiting"
    BY <1>f DEF Task
<1> HIDE DEF u
<1>3. TaskSettled(u)'
    BY <1>2 DEF TaskSettled, Arming, Clearing, Sending
<1> QED
    BY <1>1, <1>3, <1>f, SettleTurns DEF Turns, Reopening

LEMMA SettleInitially == Init => Settled
BY DEF Init, Settled, SettleKnown, Reopening

LEMMA SettleInductive == IInv /\ Settled /\ [Next]_vars => Settled'
<1> SUFFICES ASSUME IInv, Settled, [Next]_vars PROVE Settled'
    OBVIOUS
<1>f. renderer \in Renderer /\ session \in Session
    BY DEF IInv, StateOK
<1>w. \A u : u.at \in {"preparing", "waiting", "reserving"} => TaskSettled(u)'
    BY DEF TaskSettled, Arming, Clearing, Sending
\* What nobody does to what is armed, or to the settling, without a task.
<1>1. ASSUME UNCHANGED <<session, settling, reservation, renderer, unreported>>,
             \A t \in tasks' \ tasks : t.at \in {"preparing", "waiting", "reserving"}
      PROVE  Settled'
    BY <1>1 DEF Settled, SettleKnown, TaskSettled, Reopening, Arming, Clearing, Sending
<1>2. ASSUME tasks' = tasks, session'.armed = session.armed, Reopening' => Reopening,
             Reopening' => settling' \/ reservation' # 0
      PROVE  Settled'
    BY <1>2 DEF Settled, SettleKnown, TaskSettled
<1>3. CASE Listener \/ \E source \in Source : BeginArm(source)
  <2>1. \A op, a : New(op, a).at = "waiting"
    BY DEF New
  <2>2. ASSUME NEW source \in Source, BeginPlay(source)
        PROVE  Settled'
    <3> DEFINE t == New("play", Prepared(source, "command", commands + 1))
    <3>1. Preparing(t).at = "preparing"
        BY DEF Preparing, New
    <3> QED
        BY <1>1, <2>2, <3>1 DEF BeginPlay, Begin, seeking, history
  <2>3. ASSUME NEW source \in Source, BeginNext(source)
        PROVE  Settled'
    BY <1>1, <2>1, <2>3 DEF BeginNext, Begins, Begin, seeking, history
  <2>4. CASE BeginPause \/ BeginResume
    BY <1>1, <2>1, <2>4 DEF BeginPause, BeginResume, Begins, Begin, seeking, history
  <2>5. CASE BeginStop
    <3>1. /\ tasks' = tasks \cup {New("stop", None)} /\ UNCHANGED <<session, renderer>>
          /\ unreported' = (unreported \/ renderer.reopening)
        BY <2>5 DEF BeginStop, Begins, Begin
    <3>2. ~Reopening'
        BY <3>1 DEF Reopening
    <3> QED
        BY <1>w, <2>1, <3>1, <3>2 DEF Settled, SettleKnown, TaskSettled
  <2>6. CASE BeginSeek
    <3> DEFINE t == [New("seek", None) EXCEPT !.at = "reserving", !.generation = generation + 1]
    <3>1. t.at = "reserving"
        BY DEF New
    <3>2. Begin(t) /\ UNCHANGED <<session, settling, reservation, renderer, unreported>>
        BY <2>6 DEF BeginSeek, seeking, history
    <3> QED
        BY <1>1, <3>1, <3>2 DEF Begin
  <2>7. ASSUME NEW source \in Source, BeginArm(source)
        PROVE  Settled'
    <3> DEFINE t == [New("arm", Prepared(source, "prewarm", arms + 1))
                       EXCEPT !.id = arms + 1, !.expected = session.current]
    <3>1. t.at = "waiting"
        BY DEF New
    <3>2. Begin(t) /\ UNCHANGED <<session, settling, reservation, renderer, unreported>>
        BY <2>7 DEF BeginArm, seeking, history
    <3> QED
        BY <1>1, <3>1, <3>2 DEF Begin
  <2> QED
    BY <1>3, <2>2, <2>3, <2>4, <2>5, <2>6, <2>7 DEF Listener
<1>4. CASE TaskStep
  <2>1. PICK t \in tasks :
            \/ PrepareEnds(t) \/ PlayLocks(t) \/ PlaySetsUri(t) \/ PlaySends(t) \/ PlayRetries(t)
            \/ PlayAnswered(t) \/ PlayAccepted(t) \/ PlayConfirmed(t) \/ PlayFails(t)
            \/ NextLocks(t) \/ PauseLocks(t) \/ ResumeLocks(t) \/ StopLocks(t) \/ Answered(t)
            \/ ArmLocks(t) \/ ArmPauses(t) \/ ArmRetries(t) \/ ArmGivesUp(t) \/ ArmEnds(t)
            \/ SeekReserves(t) \/ SeekLocks(t) \/ SeekCleared(t) \/ SeekAsked(t) \/ SeekSlept(t)
            \/ SeekAnswered(t) \/ SeekPosts(t) \/ SeekPosted(t) \/ SeekVerifies(t) \/ SeekLooks(t)
            \/ SeekNudged(t)
    BY <1>4 DEF TaskStep
  <2>2. CASE \/ PrepareEnds(t) \/ NextLocks(t) \/ PauseLocks(t) \/ ResumeLocks(t)
             \/ StopLocks(t) \/ Answered(t)
    BY <2>2, OthersSettle
  <2>3. CASE \/ PlayLocks(t) \/ PlaySetsUri(t) \/ PlaySends(t) \/ PlayRetries(t)
             \/ PlayAnswered(t) \/ PlayAccepted(t) \/ PlayConfirmed(t) \/ PlayFails(t)
    BY <2>3, PlaysSettle
  <2>4. CASE ArmLocks(t) \/ ArmPauses(t) \/ ArmRetries(t) \/ ArmGivesUp(t) \/ ArmEnds(t)
    BY <2>4, ArmsSettle
  <2> QED
    BY <2>1, <2>2, <2>3, <2>4, ReservesSettle, SeeksSettle
<1>5. CASE \E t \in tasks : Cancel(t)
  <2>1. PICK t \in tasks : Cancel(t)
    BY <1>5
  <2>2. /\ Ends(t) /\ UNCHANGED <<session, settling, renderer>>
        /\ reservation' = IF t.op = "seek" THEN Released(t) ELSE reservation
        /\ unreported' = (unreported \/ (t.op = "seek" /\ renderer.reopening))
    BY <2>1 DEF Cancel
  <2>3. Reopening' => Reopening /\ (settling' \/ reservation' # 0)
    BY <2>2 DEF Reopening, Settled, SettleKnown
  <2> QED
    BY <2>2, <2>3, SettleTurns DEF Ends
<1>6. CASE Fetch \/ RangeReady \/ Elapse \/ PollLooks \/ RendererBegins \/ RendererEnds
  <2>1. tasks' = tasks /\ unreported' = unreported
    BY <1>6 DEF Fetch, RangeReady, Elapse, SettleElapses, StartupElapses, PollLooks,
                RendererBegins, RendererEnds, RendererStep, history
  <2>2. session'.armed = session.armed
    BY <1>6, <1>f DEF Fetch, RangeReady, Elapse, SettleElapses, StartupElapses, PollLooks,
                RendererBegins, RendererEnds, RendererStep, NotPending, Session
  <2>3. renderer'.reopening \in {renderer.reopening, FALSE}
    <3>1. CASE RendererBegins \/ RendererEnds
        BY <1>f, <3>1 DEF RendererBegins, RendererEnds, RendererStep, Renderer, Loaded, Stopped
    <3>2. CASE Fetch \/ RangeReady \/ Elapse \/ PollLooks
        BY <1>f, <3>2 DEF Fetch, RangeReady, Elapse, SettleElapses, StartupElapses, PollLooks, Renderer
    <3> QED
        BY <1>6, <3>1, <3>2
  <2>4. renderer'.reopening => (settling \/ reservation # 0 => settling' \/ reservation' # 0)
    BY <1>6, <1>f DEF Fetch, RangeReady, Elapse, SettleElapses, StartupElapses, PollLooks, Renderer,
                RendererBegins, RendererEnds, RendererStep, seeking
  <2> QED
    BY <1>2, <2>1, <2>2, <2>3, <2>4 DEF Reopening, Settled, SettleKnown
<1>7. CASE PollEnds
  <2>1. /\ \A t \in tasks : ~Locked(t)
        /\ UNCHANGED <<settling, reservation, renderer, unreported, tasks>>
    BY <1>7 DEF PollEnds, IInv, TasksOK, seeking, history
  <2>2. session'.armed \in {session.armed, None}
    <3>1. \A track : /\ Promoted(track) \in Session
                     /\ Promoted(track).armed \in {session.armed, None}
        BY <1>f DEF Promoted, Session
    <3>2. \A sight \in Sights : Reconciled(sight).armed = Promoted(sight.track).armed
        BY <3>1 DEF Reconciled, Session
    <3> QED
        BY <1>7, <1>f, <3>1, <3>2 DEF PollEnds, Session
  <2> QED
    BY <2>1, <2>2 DEF Settled, SettleKnown, TaskSettled, Reopening, Arming, Clearing, Sending, Locked
<1>8. CASE UNCHANGED vars
    BY <1>1, <1>8 DEF vars, seeking, history
<1> QED
    BY <1>3, <1>4, <1>5, <1>6, <1>7, <1>8 DEF Next, Monitor, Poll
-----------------------------------------------------------------------------
(* What the renderer has armed, and what the core knows of it. *)

\* A prewarm that is new to the renderer: what it arms, nobody else was given.
Made(a) == a.by = "prewarm" => a.number <= arms
TaskMade(t) ==
    /\ t.asset # None => Made(t.asset) /\ (t.op # "arm" => t.asset.by = "command")
    /\ t.op = "arm" /\ t.at = "waiting" =>
           /\ t.asset.by = "prewarm" /\ t.asset \notin {renderer.current, renderer.next}
           /\ \A u \in tasks : u.asset = t.asset => u = t
Fresh ==
    /\ Made(renderer.current) /\ (renderer.next # None => Made(renderer.next))
    /\ \A t \in tasks : TaskMade(t)

\* While a prewarm is on the wire nothing else begins to play.
SamePlay == \A t \in tasks : Arming(t) => t.play = session.play

\* Unless a call was left in doubt, the renderer has armed what the core knows, or a task
\* with the lock is about to tell it so, or to load a track in its place.
Jumping(t) == t.at = "answered" /\ t.op \in {"next", "stop"}
Owns(t) ==
    \/ Arming(t) /\ renderer.next = t.asset
    \/ t.op = "play" /\ (t.at = "stopped" \/ (t.at = "set" /\ ~t.ok))
NextKnown ==
    renderer.next # None => renderer.next = session.armed \/ \E t \in tasks : Owns(t)
\* It is not at the track it has armed.
NextDistinct == renderer.next # renderer.current
TaskKnown(t) ==
    /\ Arming(t) => t.at = "arming" /\ (t.ok => renderer.next \in {t.asset, None})
    /\ t.ok /\ (Clearing(t) \/ Jumping(t)) => renderer.next = None
Known == ~doubt => NextKnown /\ NextDistinct /\ \A t \in tasks : TaskKnown(t)

NextOK == Fresh /\ SamePlay /\ Known

\* One task moves, or ends, as the other tasks may rely on.
LEMMA FreshTurns ==
    ASSUME IInv, Fresh, NEW t \in tasks, NEW u, arms' = arms, renderer'.current # None,
           tasks' \subseteq (tasks \ {t}) \cup {u},
           u \in tasks' => /\ u.asset = t.asset /\ (u.op = "arm" <=> t.op = "arm")
                           /\ ~(u.op = "arm" /\ u.at = "waiting"),
           renderer'.current \in {renderer.current, renderer.next}
               \/ (renderer'.current = t.asset /\ t.op # "arm"),
           renderer'.next \in {renderer.next, None} \/ (renderer'.next = t.asset /\ t.op = "arm")
    PROVE  Fresh'
<1>m. \A a : Made(a)' <=> Made(a)
    BY DEF Made
<1>1. TaskMade(t) /\ t.asset \in Asset \cup {None}
    BY Facts DEF Fresh, Task
<1>2. Made(renderer.current)' /\ (renderer'.next # None => Made(renderer.next)')
    BY <1>1, <1>m DEF Fresh, TaskMade, Made
<1>3. ASSUME NEW v \in tasks \ {t}
      PROVE  TaskMade(v)'
  <2>1. TaskMade(v)
    BY DEF Fresh
  <2>2. CASE v.op = "arm" /\ v.at = "waiting"
    <3>1. v.asset.by = "prewarm" /\ v.asset # t.asset /\ v.asset \in Asset
          /\ v.asset \notin {renderer.current, renderer.next}
        BY <2>1, <2>2 DEF TaskMade, IInv, TasksOK, TaskOK
    <3>2. None \notin Asset
        BY UpnpAssumption
    <3>3. v.asset \notin {renderer'.current, renderer'.next}
        BY <3>1, <3>2
    <3>4. \A w \in tasks' : w.asset = v.asset => w = v
        BY <2>1, <2>2, <3>1 DEF TaskMade
    <3> QED
        BY <1>m, <2>1, <2>2, <3>1, <3>3, <3>4 DEF TaskMade
  <2>3. CASE ~(v.op = "arm" /\ v.at = "waiting")
    BY <1>m, <2>1, <2>3 DEF TaskMade
  <2> QED
    BY <2>2, <2>3
<1>4. u \in tasks' => TaskMade(u)'
    BY <1>1, <1>m DEF TaskMade
<1> QED
    BY <1>2, <1>3, <1>4 DEF Fresh

LEMMA NextTurns ==
    ASSUME IInv, IInv', NextOK, NEW t \in tasks, NEW u, poll' = poll, arms' = arms, doubt => doubt',
           tasks \ {t} \subseteq tasks', tasks' \subseteq (tasks \ {t}) \cup {u},
           u \in tasks' => /\ u.asset = t.asset /\ (u.op = "arm" <=> t.op = "arm")
                           /\ ~(u.op = "arm" /\ u.at = "waiting")
                           /\ (Arming(u) => u.play = session'.play)
                           /\ (~doubt' => TaskKnown(u)'),
           session'.play # session.play => Locked(t) \/ Unlocked,
           renderer'.current = renderer.current
               \/ (/\ renderer'.next = None
                   /\ renderer'.current = renderer.next \/ (renderer'.current = t.asset /\ t.op # "arm")),
           \/ renderer'.next \in {renderer.next, None}
           \/ /\ renderer'.next = t.asset /\ t.op = "arm" /\ renderer'.current = renderer.current
              /\ doubt' \/ (t.at = "waiting" /\ Unlocked),
           \/ doubt' \/ renderer'.next = None \/ renderer'.next = session'.armed
           \/ u \in tasks' /\ Owns(u)'
           \/ /\ renderer'.next = renderer.next /\ session'.armed = session.armed /\ ~Owns(t)
    PROVE  NextOK'
<1>r. renderer'.current \in Asset /\ renderer.current \in Asset /\ None \notin Asset
    BY UpnpAssumption DEF IInv, StateOK, Renderer
<1>1. Fresh'
    BY <1>r, FreshTurns DEF NextOK
<1>l. \A v \in tasks \ {t} : Locked(v) => ~Locked(t) /\ ~Unlocked
    BY DEF IInv, TasksOK, Unlocked
<1>2. SamePlay'
  <2>1. \A v \in tasks \ {t} : Arming(v) => v.play = session'.play
    BY <1>l DEF NextOK, SamePlay, Arming, Locked
  <2> QED
    BY <2>1 DEF SamePlay
<1>3. ASSUME ~doubt'
      PROVE  NextKnown' /\ NextDistinct' /\ \A v \in tasks' : TaskKnown(v)'
  <2>1. NextKnown /\ NextDistinct /\ \A v \in tasks : TaskKnown(v)
    BY <1>3 DEF NextOK, Known
  <2>2. NextKnown'
    <3>1. CASE renderer'.next = None \/ renderer'.next = session'.armed \/ (u \in tasks' /\ Owns(u)')
        BY <3>1 DEF NextKnown
    <3>2. CASE renderer'.next = renderer.next /\ session'.armed = session.armed /\ ~Owns(t)
        <4>1. \A v \in tasks \ {t} : Owns(v) => Owns(v)'
            BY <3>2 DEF Owns
        <4> QED
            BY <2>1, <3>2, <4>1 DEF NextKnown
    <3> QED
        BY <1>3, <3>1, <3>2
  <2>3. NextDistinct'
    <3>1. CASE renderer'.next \in {renderer.next, None}
        BY <1>r, <2>1, <3>1 DEF NextDistinct
    <3>2. CASE renderer'.next = t.asset /\ t.op = "arm" /\ t.at = "waiting" /\ Unlocked
               /\ renderer'.current = renderer.current
        BY <3>2 DEF NextDistinct, NextOK, Fresh, TaskMade, Unlocked
    <3> QED
        BY <1>3, <3>1, <3>2
  <2>4. ASSUME NEW v \in tasks \ {t}
        PROVE  TaskKnown(v)'
    <3>1. CASE renderer'.next \in {renderer.next, None}
        BY <2>1, <3>1 DEF TaskKnown
    <3>2. CASE Unlocked
        <4>1. ~Locked(v)
            BY <1>l, <3>2
        <4> QED
            BY <4>1 DEF TaskKnown, Arming, Clearing, Jumping, Locked
    <3> QED
        BY <1>3, <3>1, <3>2
  <2> QED
    BY <1>3, <2>2, <2>3, <2>4
<1> QED
    BY <1>1, <1>2, <1>3 DEF NextOK, Known

\* A step that touches nothing of it.
LEMMA NextRests ==
    ASSUME IInv, IInv', NextOK, NEW t \in tasks, NEW u, poll' = poll, arms' = arms, doubt => doubt',
           tasks \ {t} \subseteq tasks', tasks' \subseteq (tasks \ {t}) \cup {u},
           t.op # "arm", ~Owns(t),
           u \in tasks' => /\ u.asset = t.asset /\ u.op # "arm" /\ ~Clearing(u) /\ ~Jumping(u),
           session'.play = session.play, session'.armed = session.armed,
           renderer'.current = renderer.current, renderer'.next = renderer.next
    PROVE  NextOK'
<1>1. u \in tasks' => ~Arming(u) /\ TaskKnown(u)'
    BY DEF TaskKnown, Arming
<1> QED
    BY <1>1, NextTurns

LEMMA PlaysNext ==
    ASSUME IInv, IInv', NextOK, NEW t \in tasks,
           \/ PlayLocks(t) \/ PlaySetsUri(t) \/ PlaySends(t) \/ PlayRetries(t)
           \/ PlayAnswered(t) \/ PlayAccepted(t) \/ PlayConfirmed(t) \/ PlayFails(t)
    PROVE  NextOK'
<1>f. /\ t \in Task /\ renderer \in Renderer /\ session \in Session /\ t.op = "play"
      /\ session.play \in Nat /\ session.current \in Asset \cup {None} /\ t.asset \in Asset
    BY Facts DEF Sound, TaskOK, PlayLocks, PlaySetsUri, PlaySends, PlayRetries, PlayAnswered,
                 PlayAccepted, PlayConfirmed, PlayFails, PlayStep
<1>u. poll' = poll /\ arms' = arms
    BY DEF PlayLocks, PlaySetsUri, PlaySends, PlayRetries, PlayAnswered, PlayAccepted,
           PlayConfirmed, PlayFails, PlayStep, counts
<1>a. Confirmed.armed = session.armed /\ Confirmed.play = session.play
    BY <1>f DEF Session, Confirmed
<1>k. \A u : u.op = "play" => TaskKnown(u)' /\ ~Arming(u) /\ ~Clearing(u) /\ ~Jumping(u)
    BY DEF TaskKnown, Arming, Clearing, Jumping
<1>1. CASE PlayLocks(t)
  <2>1. CASE ~NewestPlay(t)
    <3>1. /\ Ends(t) /\ UNCHANGED <<session, renderer, doubt>> /\ t.at = "waiting"
        BY <1>1, <2>1 DEF PlayLocks
    <3> QED
        BY <1>f, <1>u, <3>1, NextRests DEF Ends, Owns, Arming
  <2>2. CASE NewestPlay(t)
    <3> DEFINE u == [t EXCEPT !.at = "stopped", !.play = session.play + 1,
                              !.expected = session.current]
    <3>1. Unlocked /\ Soap(t, u, Stopped) /\ UNCHANGED doubt
        BY <1>1, <2>2 DEF PlayLocks
    <3>2. u \in Task /\ u.op = "play" /\ u.at = "stopped" /\ u.asset = t.asset
        <4>1. session.play + 1 \in Nat
            BY <1>f
        <4> QED
            BY <1>f, <4>1 DEF Task
    <3> HIDE DEF u
    <3>3. PICK v : Answer(u, v, Stopped) /\ Turns(t, v)
        BY <3>1, <3>2, SoapAnswers
    <3>4. v \in tasks' /\ Owns(v)' /\ v.op = "play" /\ v.asset = t.asset
        BY <3>2, <3>3 DEF Turns, Owns, Answer, Alike
    <3>5. renderer'.current = renderer.current /\ renderer'.next \in {renderer.next, None}
        BY <1>f, <3>3, EffectParts DEF Answer
    <3> QED
        BY <1>f, <1>k, <1>u, <3>1, <3>3, <3>4, <3>5, NextTurns DEF Turns
  <2> QED
    BY <2>1, <2>2
<1>2. CASE PlaySetsUri(t)
  <2> DEFINE u == [t EXCEPT !.at = "set"]
  <2>1. Soap(t, u, Loaded(t.asset)) /\ UNCHANGED <<session, doubt>>
    BY <1>2 DEF PlaySetsUri
  <2>2. u \in Task /\ u.op = "play" /\ u.at = "set" /\ u.asset = t.asset
    BY <1>f DEF Task
  <2> HIDE DEF u
  <2>3. PICK v : Answer(u, v, Loaded(t.asset)) /\ Turns(t, v)
    BY <2>1, <2>2, SoapAnswers
  <2>4. v \in tasks' /\ v.op = "play" /\ v.at = "set" /\ v.asset = t.asset
    BY <2>2, <2>3 DEF Turns, Answer, Alike
  <2> DEFINE r == Loaded(t.asset)
  <2>e. r.next = None /\ r.current = t.asset
    BY <1>f, EffectParts
  <2>r. renderer' \in {renderer, r} /\ (v.ok => renderer' = r)
    BY <2>3 DEF Answer
  <2> HIDE DEF r
  <2>5. renderer' = renderer \/ (renderer'.next = None /\ renderer'.current = t.asset)
    BY <2>e, <2>r
  <2>6. renderer'.next = None \/ Owns(v)'
    BY <2>e, <2>r, <2>4 DEF Owns
  <2> QED
    BY <1>f, <1>k, <1>u, <2>1, <2>3, <2>4, <2>5, <2>6, NextTurns DEF Turns
<1>3. CASE PlaySends(t)
  <2> DEFINE u == [t EXCEPT !.at = "sent"]
  <2>1. Soap(t, u, Started) /\ UNCHANGED <<session, doubt>> /\ ~Owns(t)
    BY <1>3, <1>f DEF PlaySends, Owns, Arming
  <2>2. u \in Task /\ u.op = "play" /\ u.asset = t.asset
    BY <1>f DEF Task
  <2> HIDE DEF u
  <2>3. PICK v : Answer(u, v, Started) /\ Turns(t, v)
    BY <2>1, <2>2, SoapAnswers
  <2>4. renderer'.next = renderer.next /\ renderer'.current = renderer.current
    BY <1>f, <2>3, EffectParts DEF Answer, Same
  <2>5. v.op = "play" /\ v.asset = t.asset
    BY <2>2, <2>3 DEF Answer, Alike
  <2> QED
    BY <1>f, <1>k, <1>u, <2>1, <2>3, <2>4, <2>5, NextRests DEF Turns
<1>4. CASE PlayRetries(t)
  <2> DEFINE u == [t EXCEPT !.at = "stopped", !.tries = 2]
  <2>1. Turns(t, u) /\ UNCHANGED <<session, renderer, doubt>>
    BY <1>4 DEF PlayRetries
  <2>2. u.op = "play" /\ u.asset = t.asset /\ u.at = "stopped"
    BY <1>f DEF Task
  <2> HIDE DEF u
  <2>3. u \in tasks' /\ Owns(u)'
    BY <2>1, <2>2 DEF Turns, Owns
  <2> QED
    BY <1>f, <1>k, <1>u, <2>1, <2>2, <2>3, NextTurns DEF Turns
<1>5. CASE PlayAnswered(t) \/ PlayAccepted(t) \/ PlayConfirmed(t)
  <2>1. /\ UNCHANGED <<renderer, doubt>> /\ session' \in {session, Confirmed} /\ ~Owns(t)
    BY <1>5, <1>f DEF PlayAnswered, PlayAccepted, PlayConfirmed, Owns, Arming
  <2>2. Ends(t) \/ \E at \in {"accepting", "confirming"} : Turns(t, [t EXCEPT !.at = at])
    BY <1>5 DEF PlayAnswered, PlayAccepted, PlayConfirmed, Goto
  <2>3. CASE Ends(t)
    BY <1>a, <1>f, <1>u, <2>1, <2>3, NextRests DEF Ends
  <2>4. ASSUME NEW at \in {"accepting", "confirming"}, Turns(t, [t EXCEPT !.at = at])
        PROVE  NextOK'
    <3>1. [t EXCEPT !.at = at].op = "play" /\ [t EXCEPT !.at = at].asset = t.asset
        BY <1>f DEF Task
    <3> QED
        BY <1>a, <1>f, <1>k, <1>u, <2>1, <2>4, <3>1, NextRests DEF Turns
  <2> QED
    BY <2>2, <2>3, <2>4
<1>6. CASE PlayFails(t)
  <2>1. Ends(t) /\ doubt' = TRUE /\ UNCHANGED renderer /\ Locked(t)
    BY <1>6, <1>f DEF PlayFails, Locked
  <2> QED
    BY <1>f, <1>u, <2>1, NextTurns DEF Ends
<1> QED
    BY <1>1, <1>2, <1>3, <1>4, <1>5, <1>6

LEMMA OthersNext ==
    ASSUME IInv, IInv', NextOK, NEW t \in tasks,
           \/ PrepareEnds(t) \/ NextLocks(t) \/ PauseLocks(t) \/ ResumeLocks(t) \/ StopLocks(t)
           \/ Answered(t)
    PROVE  NextOK'
<1>f. t \in Task /\ renderer \in Renderer /\ session \in Session
    BY Facts DEF Sound
<1>u. poll' = poll /\ arms' = arms /\ doubt' = doubt
    BY DEF PrepareEnds, NextLocks, PauseLocks, ResumeLocks, StopLocks, Answered, Waits, counts, history
<1>p. Preparing(t).op = "play" /\ Preparing(t).asset = t.asset
    BY <1>f DEF Preparing, Task
<1>k. \A u : u.op \in {"play", "pause", "resume"} => ~Arming(u) /\ ~Clearing(u) /\ ~Jumping(u)
    BY DEF Arming, Clearing, Jumping
<1>w. t.op \in {"next", "pause", "resume", "stop"} => ~Owns(t)
    BY DEF Owns, Arming
<1>1. CASE PrepareEnds(t)
  <2>1. /\ t.op = "play" /\ t.at = "preparing" /\ UNCHANGED <<session, renderer>>
        /\ Turns(t, [t EXCEPT !.at = "waiting"]) \/ Ends(t)
    BY <1>1 DEF PrepareEnds, Goto
  <2>2. [t EXCEPT !.at = "waiting"].op = "play" /\ [t EXCEPT !.at = "waiting"].asset = t.asset
    BY <1>f, <2>1 DEF Task
  <2>3. ~Owns(t) /\ t.op # "arm"
    BY <2>1 DEF Owns, Arming
  <2>4. CASE Ends(t)
    BY <1>u, <2>1, <2>3, <2>4, NextRests DEF Ends
  <2>5. CASE Turns(t, [t EXCEPT !.at = "waiting"])
    <3> DEFINE u == [t EXCEPT !.at = "waiting"]
    <3>1. u.op = "play" /\ u.asset = t.asset
        BY <2>2
    <3>2. tasks' = (tasks \ {t}) \cup {u}
        BY <2>5 DEF Turns
    <3> HIDE DEF u
    <3>3. u.op # "arm" /\ ~Clearing(u) /\ ~Jumping(u)
        BY <1>k, <3>1
    <3> QED
        BY <1>u, <2>1, <2>3, <3>1, <3>2, <3>3, NextRests
  <2> QED
    BY <2>1, <2>4, <2>5
<1>2. ASSUME t.op \in {"next", "pause", "resume", "stop"}, Turns(t, Preparing(t)),
             UNCHANGED <<session, renderer>>
      PROVE  NextOK'
  <2>1. t.op # "arm"
    BY <1>2
  <2> QED
    BY <1>2, <1>k, <1>p, <1>u, <1>w, <2>1, NextRests DEF Turns
<1>3. ASSUME NEW r, Asks(t, r), t.op \in {"next", "stop"}, UNCHANGED session,
             r.next = None, r.current \in {renderer.current, renderer.next}
      PROVE  NextOK'
  <2> DEFINE u == [t EXCEPT !.at = "answered"]
  <2>1. u \in Task /\ u.op = t.op /\ u.asset = t.asset
    BY <1>f DEF Task
  <2>2. Soap(t, u, r)
    BY <1>3 DEF Asks
  <2> HIDE DEF u
  <2>3. PICK v : Answer(u, v, r) /\ Turns(t, v)
    BY <2>1, <2>2, SoapAnswers
  <2>4. v.op = t.op /\ v.asset = t.asset /\ ~Arming(v) /\ ~Clearing(v) /\ TaskKnown(v)'
    BY <1>3, <2>1, <2>3 DEF Answer, Alike, TaskKnown, Arming, Clearing
  <2>5. renderer' = renderer \/ (renderer'.next = None /\ renderer'.current \in {renderer.current, renderer.next})
    BY <1>3, <2>3 DEF Answer
  <2> QED
    BY <1>3, <1>u, <1>w, <2>3, <2>4, <2>5, NextTurns DEF Turns
<1>4. ASSUME NEW r \in {Halted, Started}, Asks(t, r), t.op \in {"pause", "resume"}, UNCHANGED session
      PROVE  NextOK'
  <2> DEFINE u == [t EXCEPT !.at = "answered"]
  <2>1. u \in Task /\ u.op = t.op /\ u.asset = t.asset
    BY <1>f DEF Task
  <2>2. Soap(t, u, r)
    BY <1>4 DEF Asks
  <2> HIDE DEF u
  <2>3. PICK v : Answer(u, v, r) /\ Turns(t, v)
    BY <2>1, <2>2, SoapAnswers
  <2>4. v.op = t.op /\ v.asset = t.asset
    BY <2>1, <2>3 DEF Answer, Alike
  <2>5. renderer'.next = renderer.next /\ renderer'.current = renderer.current
    BY <1>4, <1>f, <2>3, EffectParts DEF Answer, Same
  <2> QED
    BY <1>4, <1>k, <1>u, <1>w, <2>3, <2>4, <2>5, NextRests DEF Turns
<1>5. CASE NextLocks(t)
  <2>1. t.op = "next" /\ UNCHANGED session
        /\ (Asks(t, Skipped) \/ (Turns(t, Preparing(t)) /\ UNCHANGED renderer))
    BY <1>5 DEF NextLocks, Waits
  <2>2. Skipped.next = None /\ Skipped.current \in {renderer.current, renderer.next}
    BY <1>f, EffectParts DEF Same
  <2> QED
    BY <1>2, <1>3, <2>1, <2>2
<1>6. CASE StopLocks(t)
  <2>1. Stopped.next = None /\ Stopped.current = renderer.current
    BY <1>f, EffectParts
  <2> QED
    BY <1>3, <1>6, <2>1 DEF StopLocks, Waits
<1>7. CASE PauseLocks(t) \/ ResumeLocks(t)
    BY <1>4, <1>7 DEF PauseLocks, ResumeLocks, Waits
<1>8. CASE Answered(t)
  <2>1. t.op \in {"next", "pause", "resume", "stop"} /\ t.at = "answered" /\ renderer' = renderer
    BY <1>8 DEF Answered
  <2>2. CASE t.ok /\ t.op \in {"next", "stop"}
    <3>1. Ends(t) /\ session' = After(t.op)
        BY <1>8, <2>2 DEF Answered
    <3>2. session'.play = session.play
        BY <1>f, <2>2, <3>1 DEF After, Session
    <3>3. ~doubt => renderer.next = None
        BY <2>1, <2>2 DEF NextOK, Known, TaskKnown, Jumping
    <3> QED
        BY <1>u, <2>1, <3>1, <3>2, <3>3, NextTurns DEF Ends
  <2>3. CASE t.ok /\ t.op \in {"pause", "resume"}
    <3>1. Ends(t) /\ session' = After(t.op)
        BY <1>8, <2>3 DEF Answered
    <3>2. session'.play = session.play /\ session'.armed = session.armed
        BY <1>f, <2>3, <3>1 DEF After, Session
    <3> QED
        BY <1>u, <1>w, <2>1, <3>1, <3>2, NextRests DEF Ends
  <2>4. CASE ~t.ok
    <3>1. UNCHANGED session /\ (Ends(t) \/ Turns(t, Preparing(t)))
        BY <1>8, <2>4 DEF Answered
    <3> QED
        BY <1>2, <1>u, <1>w, <2>1, <3>1, NextRests DEF Ends
  <2> QED
    BY <2>1, <2>2, <2>3, <2>4
<1> QED
    BY <1>1, <1>5, <1>6, <1>7, <1>8

LEMMA ArmsNext ==
    ASSUME IInv, IInv', NextOK, NEW t \in tasks,
           ArmLocks(t) \/ ArmPauses(t) \/ ArmRetries(t) \/ ArmGivesUp(t) \/ ArmEnds(t)
    PROVE  NextOK'
<1>f. /\ t \in Task /\ renderer \in Renderer /\ session \in Session /\ t.op = "arm"
      /\ poll' = poll /\ arms' = arms /\ session.play \in Nat
    BY Facts DEF Sound, ArmLocks, ArmPauses, ArmRetries, ArmGivesUp, ArmEnds, ArmStep, counts
<1>e. /\ Armed(t.asset).next = t.asset /\ Armed(t.asset).current = renderer.current
    BY <1>f, EffectParts
<1>1. ASSUME NEW u \in Task, u.op = "arm", u.at = "arming", u.asset = t.asset, u.play = session.play,
             Soap(t, u, Armed(t.asset)), session' = session,
             (t.at = "waiting" /\ Unlocked /\ doubt' = doubt) \/ doubt' = TRUE
      PROVE  NextOK'
  <2> DEFINE r == Armed(t.asset)
  <2>1. PICK v : Answer(u, v, r) /\ Turns(t, v)
    BY <1>1, SoapAnswers
  <2>2. v.op = "arm" /\ v.at = "arming" /\ v.asset = t.asset /\ v.play = session.play
    BY <1>1, <2>1 DEF Answer, Alike
  <2>3. renderer' \in {renderer, r} /\ (v.ok => renderer' = r)
    BY <2>1 DEF Answer
  <2>e. r.next = t.asset /\ r.current = renderer.current
    BY <1>e
  <2> HIDE DEF r
  <2>4. TaskKnown(v)'
    BY <2>2, <2>3, <2>e DEF TaskKnown, Clearing, Jumping
  <2>5. doubt' \/ Owns(v)' \/ (renderer'.next = renderer.next /\ ~Owns(t))
    BY <1>1, <1>f, <2>2, <2>3, <2>e DEF Owns, Arming
  <2>6. renderer'.current = renderer.current /\ renderer'.next \in {renderer.next, t.asset}
    BY <2>3, <2>e
  <2>7. tasks' = (tasks \ {t}) \cup {v}
    BY <2>1 DEF Turns
  <2> QED
    BY <1>1, <1>f, <2>2, <2>4, <2>5, <2>6, <2>7, NextTurns
<1>2. CASE ArmLocks(t)
  <2>1. t.at = "waiting" /\ Unlocked /\ session' = session /\ doubt' = doubt
    BY <1>2 DEF ArmLocks
  <2>2. CASE Ends(t) /\ UNCHANGED renderer
    <3>1. ~Owns(t)
        BY <1>f, <2>1 DEF Owns, Arming
    <3> QED
        BY <1>f, <2>1, <2>2, <3>1, NextTurns DEF Ends
  <2>3. CASE Soap(t, [t EXCEPT !.at = "arming", !.play = session.play], Armed(t.asset))
    <3> DEFINE u == [t EXCEPT !.at = "arming", !.play = session.play]
    <3>1. /\ u \in Task /\ u.op = "arm" /\ u.at = "arming" /\ u.asset = t.asset
          /\ u.play = session.play
        BY <1>f DEF Task
    <3>2. Soap(t, u, Armed(t.asset))
        BY <2>3
    <3> HIDE DEF u
    <3> QED
        BY <1>1, <2>1, <3>1, <3>2
  <2> QED
    BY <1>2, <2>2, <2>3 DEF ArmLocks
<1>3. CASE ArmRetries(t)
  <2> DEFINE u == [t EXCEPT !.at = "arming", !.tries = @ + 1]
  <2>1. Arming(t) /\ session' = session /\ doubt' = doubt /\ Soap(t, u, Armed(t.asset))
    BY <1>3, <1>f DEF ArmRetries, Arming
  <2>2. t.tries + 1 \in Nat /\ t.play = session.play /\ doubt' = TRUE
    <3>1. doubt
        BY <1>3 DEF ArmRetries, NextOK, Known, TaskKnown, Arming, ArmStep
    <3> QED
        BY <1>f, <2>1, <3>1 DEF Task, NextOK, SamePlay, IInv, CountsOK
  <2>3. /\ u \in Task /\ u.op = "arm" /\ u.at = "arming" /\ u.asset = t.asset
        /\ u.play = session.play
    BY <1>f, <2>1, <2>2 DEF Task, Arming
  <2> HIDE DEF u
  <2> QED
    BY <1>1, <2>1, <2>2, <2>3
<1>6. CASE ArmPauses(t)
  <2> DEFINE u == [t EXCEPT !.at = "pausing"]
  <2>1. /\ Arming(t) /\ session' = session /\ renderer' = renderer /\ doubt' = TRUE
        /\ Turns(t, u)
    BY <1>6, <1>f DEF ArmPauses, Arming, Goto
  <2>2. u.op = "arm" /\ u.at = "pausing" /\ u.asset = t.asset /\ u.play = session.play
    BY <1>f, <2>1 DEF Task, NextOK, SamePlay
  <2> HIDE DEF u
  <2> QED
    BY <1>f, <2>1, <2>2, NextTurns DEF Turns
<1>4. CASE ArmGivesUp(t)
    BY <1>4, <1>f, NextTurns DEF ArmGivesUp, Ends
<1>5. CASE ArmEnds(t)
  <2>1. /\ Arming(t) /\ t.ok /\ Ends(t) /\ UNCHANGED <<renderer, doubt>>
        /\ session' = IF Kept(t) THEN [session EXCEPT !.armed = t.asset] ELSE session
    BY <1>5, <1>f DEF ArmEnds, Arming
  <2>2. session'.armed = t.asset /\ session'.play = session.play
    BY <1>f, <2>1 DEF NextOK, SamePlay, Kept, Session
  <2>3. ~doubt => renderer.next \in {t.asset, None}
    BY <2>1 DEF NextOK, Known, TaskKnown
  <2> QED
    BY <1>f, <2>1, <2>2, <2>3, NextTurns DEF Ends
<1> QED
    BY <1>2, <1>3, <1>4, <1>5, <1>6

LEMMA SeeksNext ==
    ASSUME IInv, IInv', NextOK, NEW t \in tasks,
           \/ SeekLocks(t) \/ SeekCleared(t) \/ SeekAsked(t) \/ SeekSlept(t) \/ SeekAnswered(t)
           \/ SeekPosts(t) \/ SeekPosted(t) \/ SeekVerifies(t) \/ SeekLooks(t) \/ SeekNudged(t)
    PROVE  NextOK'
<1>s. SeekStep(t)
    BY DEF SeekLocks, SeekCleared, SeekAsked, SeekSlept, SeekAnswered, SeekPosts, SeekPosted,
           SeekVerifies, SeekLooks, SeekNudged
<1>f. /\ t \in Task /\ renderer \in Renderer /\ session \in Session /\ t.op = "seek"
      /\ poll' = poll /\ arms' = arms /\ doubt' = doubt /\ session.play \in Nat
    BY <1>s, Facts DEF Sound, SeekStep, counts
<1>w. ~Owns(t)
    BY <1>f DEF Owns, Arming
<1>c. \A state \in TransportState : ClearPending(t, state) =>
          session'.armed = session.armed /\ session'.play = session.play
    BY <1>f DEF ClearPending, NotPending, Session
<1>p. "Playing" \in TransportState /\ session.state \in TransportState
    BY <1>f DEF TransportState, Session
\* What is armed is left alone, by a seek that goes on or ends ...
<1>1. ASSUME NEW u, u.op = "seek", u.at # "clearing", u.asset = t.asset, Turns(t, u),
             session'.armed = session.armed, session'.play = session.play,
             renderer'.next = renderer.next, renderer'.current = renderer.current
      PROVE  NextOK'
    BY <1>1, <1>f, <1>w, NextRests DEF Turns, Clearing, Jumping
<1>2. ASSUME Ends(t), session'.armed = session.armed, session'.play = session.play,
             renderer' = renderer
      PROVE  NextOK'
    BY <1>2, <1>f, <1>w, NextRests DEF Ends
\* ... by a call, ...
<1>3. ASSUME NEW u \in Task, u.op = "seek", u.at # "clearing", u.asset = t.asset,
             NEW r, r.next = renderer.next, r.current = renderer.current, Soap(t, u, r),
             session'.armed = session.armed, session'.play = session.play
      PROVE  NextOK'
  <2>1. PICK v : Answer(u, v, r) /\ Turns(t, v)
    BY <1>3, SoapAnswers
  <2>2. /\ v.op = "seek" /\ v.at # "clearing" /\ v.asset = t.asset
        /\ renderer'.next = renderer.next /\ renderer'.current = renderer.current
    BY <1>3, <2>1 DEF Answer, Alike
  <2> QED
    BY <1>1, <1>3, <2>1, <2>2
\* ... or it is cleared, and the core knows once the call was answered.
<1>4. ASSUME NEW u \in Task, u.op = "seek", u.asset = t.asset,
             Soap(t, u, Armed(None)), session' = session
      PROVE  NextOK'
  <2> DEFINE r == Armed(None)
  <2>1. PICK v : Answer(u, v, r) /\ Turns(t, v)
    BY <1>4, SoapAnswers
  <2>e. r.next = None /\ r.current = renderer.current
    BY <1>f, EffectParts
  <2> HIDE DEF r
  <2>2. v.op = "seek" /\ v.asset = t.asset /\ TaskKnown(v)' /\ ~Arming(v)
    BY <1>4, <2>1, <2>e DEF Answer, Alike, TaskKnown, Arming
  <2>3. renderer' = renderer \/ (renderer'.next = None /\ renderer'.current = renderer.current)
    BY <2>1, <2>e DEF Answer
  <2> QED
    BY <1>4, <1>f, <1>w, <2>1, <2>2, <2>3, NextTurns DEF Turns
<1>5. ASSUME GivesWay(t)
      PROVE  NextOK'
    BY <1>2, <1>5 DEF GivesWay
<1>a. \A at \in SeekPlaces :
          /\ [t EXCEPT !.at = at] \in Task /\ [t EXCEPT !.at = at].at = at
          /\ [t EXCEPT !.at = at].op = "seek" /\ [t EXCEPT !.at = at].asset = t.asset
    BY <1>f DEF Task, SeekPlaces
<1>6. ASSUME NEW at \in SeekPlaces \ {"clearing"}, Goto(t, at), renderer' = renderer,
             session'.armed = session.armed, session'.play = session.play
      PROVE  NextOK'
  <2> DEFINE u == [t EXCEPT !.at = at]
  <2>1. u.op = "seek" /\ u.at # "clearing" /\ u.asset = t.asset
    BY <1>a
  <2>2. Turns(t, u)
    BY <1>6 DEF Goto
  <2> HIDE DEF u
  <2> QED
    BY <1>1, <1>6, <2>1, <2>2
<1>7. ASSUME NEW at \in {"posted", "nudged"}, Soap(t, [t EXCEPT !.at = at], Started),
             session'.armed = session.armed, session'.play = session.play
      PROVE  NextOK'
  <2> DEFINE u == [t EXCEPT !.at = at]
             r == Started
  <2>1. u \in Task /\ u.op = "seek" /\ u.at # "clearing" /\ u.asset = t.asset
    BY <1>a DEF SeekPlaces
  <2>2. Soap(t, u, r) /\ r.next = renderer.next /\ r.current = renderer.current
    BY <1>7, <1>f, EffectParts DEF Same
  <2> HIDE DEF u, r
  <2> QED
    BY <1>3, <1>7, <2>1, <2>2
<1>8. ASSUME SendSeek(t)
      PROVE  NextOK'
  <2> DEFINE u == [t EXCEPT !.at = "sought", !.playing = EffectivelyPlaying, !.play = session.play,
                            !.tries = 1]
             r == Sought(t.generation)
  <2>1. /\ session'.armed = session.armed /\ session'.play = session.play /\ Soap(t, u, r)
    BY <1>8, <1>f DEF SendSeek, Session
  <2>2. u \in Task /\ u.op = "seek" /\ u.at = "sought" /\ u.asset = t.asset
    <3>1. EffectivelyPlaying \in BOOLEAN
        BY DEF EffectivelyPlaying
    <3> DEFINE e == EffectivelyPlaying
               n == session.play
    <3>2. u = [t EXCEPT !.at = "sought", !.playing = e, !.play = n, !.tries = 1]
        OBVIOUS
    <3> HIDE DEF e, n, u
    <3>3. e \in BOOLEAN /\ n \in Nat
        BY <1>f, <3>1 DEF e, n
    <3> QED
        BY <1>f, <3>2, <3>3 DEF Task
  <2>3. r.next = renderer.next /\ r.current = renderer.current
    BY <1>f, EffectParts
  <2> HIDE DEF u, r
  <2> QED
    BY <1>3, <2>1, <2>2, <2>3
<1>9. CASE SeekLocks(t)
  <2>1. CASE Soap(t, [t EXCEPT !.at = "clearing"], Armed(None)) /\ UNCHANGED session
    BY <1>4, <1>a, <2>1 DEF SeekPlaces
  <2>2. CASE AsksActions(t) /\ UNCHANGED session
    BY <1>6, <2>2 DEF AsksActions, SeekPlaces
  <2> QED
    BY <1>5, <1>9, <2>1, <2>2 DEF SeekLocks
<1>10. CASE SeekCleared(t)
  <2>1. t.at = "clearing"
    BY <1>10 DEF SeekCleared
  <2>2. CASE t.ok
    <3>1. session'.armed = None /\ session'.play = session.play
        BY <1>10, <1>f, <2>2 DEF SeekCleared, Session
    <3>2. ~doubt => renderer.next = None
        BY <1>f, <2>1, <2>2 DEF NextOK, Known, TaskKnown, Clearing
    <3>3. renderer' = renderer /\ (Goto(t, "asking") \/ Ends(t))
        BY <1>10, <2>2 DEF SeekCleared, AsksActions
    <3> DEFINE u == [t EXCEPT !.at = "asking"]
    <3>4. u.op = "seek" /\ u.at = "asking" /\ u.asset = t.asset
        BY <1>a DEF SeekPlaces
    <3>5. tasks' = (tasks \ {t}) \cup {u} \/ tasks' = tasks \ {t}
        BY <3>3 DEF Goto, Turns, Ends
    <3> HIDE DEF u
    <3>6. TaskKnown(u)' /\ ~Arming(u)
        BY <3>4 DEF TaskKnown, Arming, Clearing, Jumping
    <3> QED
        BY <1>f, <3>1, <3>2, <3>3, <3>4, <3>5, <3>6, NextTurns
  <2>3. CASE Soap(t, [t EXCEPT !.tries = @ + 1], Armed(None)) /\ UNCHANGED session
    <3>1. t.tries + 1 \in Nat
        BY <1>f DEF Task
    <3>2. /\ [t EXCEPT !.tries = @ + 1] \in Task /\ [t EXCEPT !.tries = @ + 1].op = "seek"
          /\ [t EXCEPT !.tries = @ + 1].asset = t.asset
        BY <1>f, <3>1 DEF Task
    <3> QED
        BY <1>4, <2>3, <3>2
  <2>4. CASE Ends(t) /\ UNCHANGED <<session, renderer>>
    BY <1>2, <2>4
  <2> QED
    BY <1>10, <2>2, <2>3, <2>4 DEF SeekCleared
<1>11. CASE SeekAsked(t)
  <2>1. CASE Goto(t, "sleeping") /\ UNCHANGED <<session, renderer>>
    BY <1>6, <2>1 DEF SeekPlaces
  <2> QED
    BY <1>5, <1>8, <1>11, <2>1 DEF SeekAsked
<1>12. CASE SeekSlept(t)
    BY <1>5, <1>8, <1>12 DEF SeekSlept
<1>13. CASE SeekAnswered(t)
  <2>1. CASE ~t.ok
    BY <1>2, <1>13, <1>c, <1>p, <2>1 DEF SeekAnswered, SeekBreaksOff
  <2>2. CASE t.ok
    BY <1>2, <1>6, <1>13, <2>2 DEF SeekAnswered, Finish, SeekPlaces
  <2> QED
    BY <2>1, <2>2
<1>14. CASE SeekPosts(t)
    BY <1>6, <1>7, <1>14 DEF SeekPosts, SeekPlaces
<1>15. CASE SeekPosted(t)
  <2>1. CASE t.ok
    BY <1>6, <1>15, <2>1 DEF SeekPosted, SeekPlaces
  <2>2. CASE ~t.ok
    BY <1>2, <1>15, <1>c, <1>p, <2>2 DEF SeekPosted, SeekBreaksOff
  <2> QED
    BY <2>1, <2>2
<1>16. CASE SeekVerifies(t)
  <2>1. CASE Finish(t)
    BY <1>2, <1>16, <1>c, <1>p, <2>1 DEF SeekVerifies, Finish
  <2>2. CASE Goto(t, "looking") /\ UNCHANGED session
    BY <1>6, <1>16, <2>2 DEF SeekVerifies, SeekPlaces
  <2> QED
    BY <1>16, <2>1, <2>2 DEF SeekVerifies
<1>17. CASE SeekLooks(t)
  <2>1. CASE Finish(t) /\ ClearPending(t, "Playing") /\ UNCHANGED renderer
    BY <1>2, <1>c, <1>p, <2>1 DEF Finish
  <2>2. CASE Turns(t, [t EXCEPT !.at = "verifying", !.tries = @ + 1]) /\ UNCHANGED <<session, renderer>>
    <3> DEFINE u == [t EXCEPT !.at = "verifying", !.tries = @ + 1]
    <3>1. u.op = "seek" /\ u.at # "clearing" /\ u.asset = t.asset
        BY <1>f DEF Task
    <3> QED
        BY <1>1, <2>2, <3>1
  <2>3. CASE ClearPending(t, "Playing") /\ Soap(t, [t EXCEPT !.at = "nudged"], Started)
    BY <1>7, <1>c, <1>p, <2>3
  <2> QED
    BY <1>17, <2>1, <2>2, <2>3 DEF SeekLooks
<1>18. CASE SeekNudged(t)
    BY <1>2, <1>18 DEF SeekNudged, Finish
<1> QED
    BY <1>9, <1>10, <1>11, <1>12, <1>13, <1>14, <1>15, <1>16, <1>17, <1>18

LEMMA ReservesNext ==
    ASSUME IInv, IInv', NextOK, NEW t \in tasks, SeekReserves(t)
    PROVE  NextOK'
<1> DEFINE u == [t EXCEPT !.at = "waiting"]
<1>1. /\ t.op = "seek" /\ Turns(t, u) /\ poll' = poll /\ arms' = arms /\ doubt' = doubt
      /\ session' = session /\ renderer' = renderer
    BY DEF SeekReserves, Goto, counts
<1>2. u.op = "seek" /\ u.at = "waiting" /\ u.asset = t.asset
    BY <1>1, Facts DEF Task
<1> HIDE DEF u
<1>3. ~Owns(t)
    BY <1>1 DEF Owns, Arming
<1> QED
    BY <1>1, <1>2, <1>3, NextRests DEF Turns, Clearing, Jumping

\* A command or a prewarm begins: what a prewarm is given is new.
LEMMA BegunNext ==
    ASSUME IInv, NextOK, NEW t, tasks' = tasks \cup {t}, t.at \in {"preparing", "waiting", "reserving"},
           UNCHANGED <<session, renderer, poll, doubt>>, arms' \in {arms, arms + 1},
           t.op # "arm" => t.asset = None \/ t.asset.by = "command",
           t.op = "arm" => /\ t.asset \in Asset /\ t.asset.by = "prewarm"
                           /\ t.asset.number = arms + 1 /\ arms' = arms + 1
    PROVE  NextOK'
<1>n. arms \in Nat
    BY DEF IInv, CountsOK
<1>m. \A a \in Asset : Made(a) => Made(a)'
    BY <1>n DEF Made, Asset
<1>r. /\ renderer.current \in Asset /\ renderer.next \in Asset \cup {None} /\ None \notin Asset
      /\ \A v \in tasks : /\ v.asset \in Asset \cup {None} /\ TaskMade(v)
                          /\ (v.op = "arm" => v.asset \in Asset)
    BY UpnpAssumption DEF IInv, StateOK, Renderer, TasksOK, TaskOK, Task, NextOK, Fresh
<1>1. t.op = "arm" => \A a \in Asset : Made(a) => a # t.asset
    BY <1>n DEF Made, Asset
<1>2. TaskMade(t)'
  <2>1. CASE t.op = "arm"
    <3>1. Made(t.asset)'
        BY <1>n, <2>1 DEF Made
    <3>2. t.asset # renderer.current /\ t.asset # renderer.next
        BY <1>1, <1>r, <2>1 DEF NextOK, Fresh
    <3>3. \A u \in tasks : u.asset # t.asset
        BY <1>1, <1>r, <2>1 DEF TaskMade
    <3> QED
        BY <2>1, <3>1, <3>2, <3>3 DEF TaskMade
  <2>2. CASE t.op # "arm"
    BY <2>2 DEF TaskMade, Made
  <2> QED
    BY <2>1, <2>2
<1>3. ASSUME NEW v \in tasks
      PROVE  TaskMade(v)'
  <2>1. v.op = "arm" /\ v.at = "waiting" => t.asset # v.asset
    BY <1>1, <1>r DEF TaskMade
  <2> QED
    BY <1>m, <1>r, <2>1 DEF TaskMade
<1>4. Fresh'
    BY <1>m, <1>r, <1>2, <1>3 DEF NextOK, Fresh
<1>5. SamePlay'
    BY DEF NextOK, SamePlay, Arming
<1>6. Known'
    BY DEF NextOK, Known, NextKnown, NextDistinct, TaskKnown, Owns, Arming, Clearing, Jumping
<1> QED
    BY <1>4, <1>5, <1>6 DEF NextOK

\* No task moves.
LEMMA NextStill ==
    ASSUME IInv, IInv', NextOK, UNCHANGED <<tasks, doubt, arms>>, session'.play = session.play,
           renderer'.next \in {renderer.next, None},
           \/ renderer'.current = renderer.current
           \/ renderer'.next = None /\ renderer'.current = renderer.next,
           session'.armed = session.armed \/ (~doubt => renderer'.next = None)
    PROVE  NextOK'
<1>r. renderer'.current \in Asset /\ renderer.current \in Asset /\ None \notin Asset
    BY UpnpAssumption DEF IInv, StateOK, Renderer
<1>1. Fresh'
  <2>1. Made(renderer.current)' /\ (renderer'.next # None => Made(renderer.next)')
    BY <1>r DEF NextOK, Fresh, Made
  <2>2. ASSUME NEW v \in tasks
        PROVE  TaskMade(v)'
    <3>1. TaskMade(v) /\ (v.op = "arm" => v.asset \in Asset)
        BY DEF NextOK, Fresh, IInv, TasksOK, TaskOK
    <3> QED
        BY <1>r, <3>1 DEF TaskMade, Made
  <2> QED
    BY <2>1, <2>2 DEF Fresh
<1>2. SamePlay'
    BY DEF NextOK, SamePlay
<1>3. Known'
  <2> SUFFICES ASSUME ~doubt' PROVE NextKnown' /\ NextDistinct' /\ \A v \in tasks' : TaskKnown(v)'
    BY DEF Known
  <2>1. NextKnown /\ NextDistinct /\ \A v \in tasks : TaskKnown(v)
    BY DEF NextOK, Known
  <2>2. NextKnown'
    BY <2>1 DEF NextKnown, Owns
  <2>3. NextDistinct'
    BY <1>r, <2>1 DEF NextDistinct
  <2>4. \A v \in tasks' : TaskKnown(v)'
    BY <2>1 DEF TaskKnown
  <2> QED
    BY <2>2, <2>3, <2>4
<1> QED
    BY <1>1, <1>2, <1>3 DEF NextOK

LEMMA NextInitially == Init => NextOK
<1> SUFFICES ASSUME Init PROVE NextOK
    OBVIOUS
<1>1. PICK a \in [source : Source, by : {"command"}, number : {0}] :
          renderer.current = a /\ renderer.next = None
    BY DEF Init
<1>2. a \in Asset /\ a # None
    BY UpnpAssumption DEF Asset
<1>3. Fresh
    BY <1>1 DEF Init, Fresh, Made
<1>4. SamePlay /\ Known
    BY <1>1, <1>2 DEF Init, SamePlay, Known, NextKnown, NextDistinct
<1> QED
    BY <1>3, <1>4 DEF NextOK

LEMMA NextInductive == IInv /\ NextOK /\ [Next]_vars => NextOK'
<1> SUFFICES ASSUME IInv, NextOK, [Next]_vars PROVE NextOK'
    OBVIOUS
<1>i. IInv'
    BY Inductive
<1>f. renderer \in Renderer /\ session \in Session
    BY DEF IInv, StateOK
<1>1. CASE Listener \/ \E source \in Source : BeginArm(source)
  <2>1. \A op, a : New(op, a).at = "waiting" /\ New(op, a).op = op /\ New(op, a).asset = a
    BY DEF New
  <2>2. \A source, by, n : /\ Prepared(source, by, n).by = by
                           /\ Prepared(source, by, n).number = n
    BY DEF Prepared
  <2>3. ASSUME NEW source \in Source, BeginPlay(source)
        PROVE  NextOK'
    <3> DEFINE n == New("play", Prepared(source, "command", commands + 1))
               t == Preparing(n)
    <3>1. t.at = "preparing" /\ t.op = "play" /\ t.asset.by = "command"
        BY <2>2 DEF Preparing, New
    <3>2. /\ tasks' = tasks \cup {t} /\ UNCHANGED <<session, renderer, poll, doubt>>
          /\ arms' = arms
        BY <2>3 DEF BeginPlay, Begin, Command, history
    <3> HIDE DEF t
    <3> QED
        BY <3>1, <3>2, BegunNext
  <2>4. ASSUME NEW source \in Source, BeginNext(source)
        PROVE  NextOK'
    <3> DEFINE t == New("next", Prepared(source, "command", commands + 1))
    <3>1. t.at = "waiting" /\ t.op = "next" /\ t.asset.by = "command"
        BY <2>1, <2>2
    <3>2. /\ tasks' = tasks \cup {t} /\ UNCHANGED <<session, renderer, poll, doubt>>
          /\ arms' = arms
        BY <2>4 DEF BeginNext, Begins, Begin, Command, history
    <3> HIDE DEF t
    <3> QED
        BY <3>1, <3>2, BegunNext
  <2>5. CASE BeginPause \/ BeginResume \/ BeginStop
    <3>1. PICK op \in {"pause", "resume", "stop"} : Begins(op, None) /\ doubt' = doubt
        BY <2>5 DEF BeginPause, BeginResume, BeginStop, history
    <3> DEFINE t == New(op, None)
    <3>2. t.at = "waiting" /\ t.op # "arm" /\ t.asset = None
        BY <2>1
    <3>3. /\ tasks' = tasks \cup {t} /\ UNCHANGED <<session, renderer, poll, doubt>>
          /\ arms' = arms
        BY <3>1 DEF Begins, Begin, Command
    <3> HIDE DEF t
    <3> QED
        BY <3>2, <3>3, BegunNext
  <2>6. CASE BeginSeek
    <3> DEFINE t == [New("seek", None) EXCEPT !.at = "reserving", !.generation = generation + 1]
    <3>1. t.at = "reserving" /\ t.op = "seek" /\ t.asset = None
        BY DEF New
    <3>2. /\ tasks' = tasks \cup {t} /\ UNCHANGED <<session, renderer, poll, doubt>>
          /\ arms' = arms
        BY <2>6 DEF BeginSeek, Begin, Command, history
    <3> HIDE DEF t
    <3> QED
        BY <3>1, <3>2, BegunNext
  <2>7. ASSUME NEW source \in Source, BeginArm(source)
        PROVE  NextOK'
    <3> DEFINE a == Prepared(source, "prewarm", arms + 1)
               t == [New("arm", a) EXCEPT !.id = arms + 1, !.expected = session.current]
    <3>1. t.at = "waiting" /\ t.op = "arm" /\ t.asset = a
        BY DEF New
    <3>2. a.by = "prewarm" /\ a.number = arms + 1 /\ a \in Asset
        BY <2>2 DEF IInv, CountsOK, Prepared, Asset
    <3>3. /\ tasks' = tasks \cup {t} /\ UNCHANGED <<session, renderer, poll, doubt>>
          /\ arms' = arms + 1
        BY <2>7 DEF BeginArm, Begin, history
    <3> HIDE DEF a, t
    <3> QED
        BY <3>1, <3>2, <3>3, BegunNext
  <2> QED
    BY <1>1, <2>3, <2>4, <2>5, <2>6, <2>7 DEF Listener
<1>2. CASE TaskStep
  <2>1. PICK t \in tasks :
            \/ PrepareEnds(t) \/ PlayLocks(t) \/ PlaySetsUri(t) \/ PlaySends(t) \/ PlayRetries(t)
            \/ PlayAnswered(t) \/ PlayAccepted(t) \/ PlayConfirmed(t) \/ PlayFails(t)
            \/ NextLocks(t) \/ PauseLocks(t) \/ ResumeLocks(t) \/ StopLocks(t) \/ Answered(t)
            \/ ArmLocks(t) \/ ArmPauses(t) \/ ArmRetries(t) \/ ArmGivesUp(t) \/ ArmEnds(t)
            \/ SeekReserves(t) \/ SeekLocks(t) \/ SeekCleared(t) \/ SeekAsked(t) \/ SeekSlept(t)
            \/ SeekAnswered(t) \/ SeekPosts(t) \/ SeekPosted(t) \/ SeekVerifies(t) \/ SeekLooks(t)
            \/ SeekNudged(t)
    BY <1>2 DEF TaskStep
  <2>2. CASE \/ PrepareEnds(t) \/ NextLocks(t) \/ PauseLocks(t) \/ ResumeLocks(t)
             \/ StopLocks(t) \/ Answered(t)
    BY <1>i, <2>2, OthersNext
  <2>3. CASE \/ PlayLocks(t) \/ PlaySetsUri(t) \/ PlaySends(t) \/ PlayRetries(t)
             \/ PlayAnswered(t) \/ PlayAccepted(t) \/ PlayConfirmed(t) \/ PlayFails(t)
    BY <1>i, <2>3, PlaysNext
  <2>4. CASE ArmLocks(t) \/ ArmPauses(t) \/ ArmRetries(t) \/ ArmGivesUp(t) \/ ArmEnds(t)
    BY <1>i, <2>4, ArmsNext
  <2> QED
    BY <1>i, <2>1, <2>2, <2>3, <2>4, ReservesNext, SeeksNext
<1>3. CASE \E t \in tasks : Cancel(t)
  <2>1. PICK t \in tasks : Cancel(t)
    BY <1>3
  <2>2. /\ Ends(t) /\ t.op # "arm" /\ UNCHANGED <<session, poll, renderer, arms>>
        /\ doubt' = (doubt \/ (t.op = "play" /\ Locked(t)))
    BY <2>1 DEF Cancel, counts
  <2>3. doubt' \/ ~Owns(t)
    BY <2>2 DEF Owns, Arming, Locked
  <2> QED
    BY <1>i, <2>2, <2>3, NextTurns DEF Ends
<1>4. CASE Fetch \/ RangeReady \/ Elapse
  <2>1. UNCHANGED <<tasks, doubt, arms, poll>>
    BY <1>4 DEF Fetch, RangeReady, Elapse, SettleElapses, StartupElapses, counts, history
  <2>2. session'.play = session.play /\ session'.armed = session.armed
    BY <1>4, <1>f DEF Fetch, RangeReady, Elapse, SettleElapses, StartupElapses, NotPending, Session
  <2>3. renderer'.current = renderer.current /\ renderer'.next = renderer.next
    BY <1>4, <1>f DEF Fetch, RangeReady, Elapse, SettleElapses, StartupElapses, Renderer
  <2> QED
    BY <1>i, <2>1, <2>2, <2>3, NextStill
<1>5. CASE RendererBegins \/ RendererEnds
  <2>1. UNCHANGED <<tasks, doubt, arms, poll, session>>
    BY <1>5 DEF RendererBegins, RendererEnds, RendererStep, counts, history
  <2>2. \/ renderer'.current = renderer.current /\ renderer'.next \in {renderer.next, None}
        \/ renderer'.current = renderer.next /\ renderer'.next = None
    BY <1>5, <1>f DEF RendererBegins, RendererEnds, RendererStep, Renderer, Stopped, Loaded
  <2> QED
    BY <1>i, <2>1, <2>2, NextStill
<1>6. CASE PollLooks
  <2>1. UNCHANGED <<tasks, doubt, arms, session, renderer>>
    BY <1>6 DEF PollLooks, counts, history
  <2> QED
    BY <1>i, <2>1, NextStill
\* The monitor takes the armed track for begun only when the renderer is at it.
<1>7. CASE PollEnds
  <2>1. /\ UNCHANGED <<tasks, doubt, arms, renderer>> /\ \A t \in tasks : ~Locked(t)
    BY <1>7 DEF PollEnds, IInv, TasksOK, counts, history
  <2>2. \A track : /\ Promoted(track) \in Session /\ Promoted(track).play = session.play
                   /\ \/ Promoted(track).armed = session.armed
                      \/ track = session.armed /\ track # None
    BY <1>f DEF Promoted, Session, Elsewhere
  <2>3. \A sight \in Sights : /\ Reconciled(sight).armed = Promoted(sight.track).armed
                              /\ Reconciled(sight).play = Promoted(sight.track).play
    BY <2>2 DEF Reconciled, Session
  <2>4. \A sight \in Sights : sight.track # None => sight.track = renderer.current
    BY DEF Sights
  <2>5. /\ session'.play = session.play
        /\ session'.armed = session.armed \/ renderer.current = session.armed
    BY <1>7, <1>f, <2>2, <2>3, <2>4 DEF PollEnds, Session
  <2>6. ~doubt /\ renderer.current = session.armed => renderer.next = None
    <3>1. \A t \in tasks : ~Owns(t)
        BY <2>1 DEF Owns, Arming, Locked
    <3> QED
        BY <3>1 DEF NextOK, Known, NextKnown, NextDistinct
  <2> QED
    BY <1>i, <2>1, <2>5, <2>6, NextStill
<1>8. CASE UNCHANGED vars
    BY <1>8, <1>i, NextStill DEF vars, counts, history
<1> QED
    BY <1>1, <1>2, <1>3, <1>4, <1>5, <1>6, <1>7, <1>8 DEF Next, Monitor, Poll
-----------------------------------------------------------------------------
(* Who tells the renderer what. *)

\* Only a prewarm arms a track, and only a seek takes the renderer to its position.
Untold(r) == r.next \in {renderer.next, None} /\ r.position \in {renderer.position, 0}
LEMMA Untelling ==
    ASSUME renderer \in Renderer
    PROVE  /\ Untold(renderer) /\ Untold(Stopped) /\ Untold(Started) /\ Untold(Halted)
           /\ Untold(Skipped) /\ Untold(Armed(None)) /\ \A a : Untold(Loaded(a))
BY DEF Untold, Renderer, Stopped, Started, Halted, Skipped, Armed, Loaded

LEMMA WhoTells ==
    ASSUME IInv, [Next]_vars
    PROVE  \/ Untold(renderer')
           \/ /\ renderer'.position = renderer.position
              /\ \E t \in tasks : (ArmLocks(t) /\ ~BlockedBySeek) \/ (Arming(t) /\ ArmRetries(t))
           \/ renderer'.next = renderer.next /\ \E t \in tasks : Sending(t)
<1>f. renderer \in Renderer
    BY DEF IInv, StateOK
<1>u. Untold(renderer)
    BY <1>f, Untelling
<1>1. CASE TaskStep
  <2>1. PICK t \in tasks :
            \/ PrepareEnds(t) \/ PlayLocks(t) \/ PlaySetsUri(t) \/ PlaySends(t) \/ PlayRetries(t)
            \/ PlayAnswered(t) \/ PlayAccepted(t) \/ PlayConfirmed(t) \/ PlayFails(t)
            \/ NextLocks(t) \/ PauseLocks(t) \/ ResumeLocks(t) \/ StopLocks(t) \/ Answered(t)
            \/ ArmLocks(t) \/ ArmPauses(t) \/ ArmRetries(t) \/ ArmGivesUp(t) \/ ArmEnds(t)
            \/ SeekReserves(t) \/ SeekLocks(t) \/ SeekCleared(t) \/ SeekAsked(t) \/ SeekSlept(t)
            \/ SeekAnswered(t) \/ SeekPosts(t) \/ SeekPosted(t) \/ SeekVerifies(t) \/ SeekLooks(t)
            \/ SeekNudged(t)
    BY <1>1 DEF TaskStep
  <2>2. CASE \/ PrepareEnds(t) \/ PlayLocks(t) \/ PlaySetsUri(t) \/ PlaySends(t) \/ PlayRetries(t)
             \/ PlayAnswered(t) \/ PlayAccepted(t) \/ PlayConfirmed(t) \/ PlayFails(t)
             \/ NextLocks(t) \/ PauseLocks(t) \/ ResumeLocks(t) \/ StopLocks(t) \/ Answered(t)
    <3>1. \/ renderer' = renderer
          \/ \E r \in {Stopped, Loaded(t.asset), Started, Skipped, Halted} : renderer' \in {renderer, r}
        BY <2>2 DEF PrepareEnds, PlayLocks, PlaySetsUri, PlaySends, PlayRetries, PlayAnswered,
                    PlayAccepted, PlayConfirmed, PlayFails, NextLocks, PauseLocks, ResumeLocks,
                    StopLocks, Answered, Asks, Soap
    <3> QED
        BY <1>f, <1>u, <3>1, Untelling
  <2>3. CASE \/ SeekLocks(t) \/ SeekCleared(t) \/ SeekAnswered(t) \/ SeekPosts(t) \/ SeekPosted(t)
             \/ SeekVerifies(t) \/ SeekLooks(t) \/ SeekNudged(t) \/ SeekReserves(t)
    <3>1. renderer' \in {renderer, Armed(None), Started}
        BY <2>3 DEF SeekLocks, SeekCleared, SeekAnswered, SeekPosts, SeekPosted, SeekVerifies,
                    SeekLooks, SeekNudged, SeekReserves, GivesWay, AsksActions, SeekBreaksOff, Soap
    <3> QED
        BY <1>f, <1>u, <3>1, Untelling
  <2>4. CASE SeekAsked(t) \/ SeekSlept(t)
    <3>1. Sending(t) /\ renderer' \in {renderer, Sought(t.generation)}
        BY <2>4 DEF SeekAsked, SeekSlept, SeekStep, Sending, SendSeek, GivesWay, Soap
    <3>2. renderer'.next = renderer.next
        BY <1>f, <3>1, EffectParts
    <3> QED
        BY <3>1, <3>2
  <2>5. CASE ArmLocks(t) \/ ArmRetries(t)
    <3>1. renderer' \in {renderer, Armed(t.asset)}
        BY <2>5 DEF ArmLocks, ArmRetries, Soap
    <3>2. renderer'.position = renderer.position
        BY <1>f, <3>1 DEF Renderer, Armed
    <3>3. renderer' = renderer \/ (ArmLocks(t) /\ ~BlockedBySeek) \/ (Arming(t) /\ ArmRetries(t))
        BY <2>5 DEF ArmLocks, ArmRetries, ArmStep, Arming
    <3> QED
        BY <1>u, <3>2, <3>3
  <2>6. CASE ArmPauses(t) \/ ArmGivesUp(t) \/ ArmEnds(t)
    BY <1>u, <2>6 DEF ArmPauses, ArmGivesUp, ArmEnds
  <2> QED
    BY <2>1, <2>2, <2>3, <2>4, <2>5, <2>6
<1>2. CASE RendererBegins \/ RendererEnds
    BY <1>2, <1>f DEF RendererBegins, RendererEnds, RendererStep, Renderer, Stopped, Loaded, Untold
<1>3. CASE Elapse
    BY <1>3, <1>f DEF Elapse, SettleElapses, StartupElapses, Renderer, Untold
<1>4. CASE Listener \/ Monitor \/ Poll \/ (\E t \in tasks : Cancel(t)) \/ UNCHANGED vars
  <2>1. renderer' = renderer
    BY <1>4 DEF Listener, BeginPlay, BeginNext, BeginPause, BeginResume, BeginStop, BeginSeek,
                Begins, Monitor, BeginArm, Fetch, RangeReady, Poll, PollLooks, PollEnds, Cancel, vars
  <2> QED
    BY <1>u, <2>1
<1> QED
    BY <1>1, <1>2, <1>3, <1>4 DEF Next
-----------------------------------------------------------------------------
(* The theorems. *)

(* In every behaviour the state is well formed, and the lock of the zone's commands    *)
(* has one holder, whichever commands are dropped (session.rs:542-548).                *)
THEOREM TypeCorrect == Spec => []TypeOK
<1>1. IInv => TypeOK
    BY TypeParts DEF IInv
<1> QED
    BY <1>1, Initially, Inductive, PTL DEF Spec

(* In every behaviour a reservation is that of a seek on its way: one that gives up,   *)
(* fails or is dropped takes its own with it, and only its own (transport.rs:4-32).    *)
THEOREM ReservationsEnd == Spec => []ReservationHeld
<1>1. IInv => ReservationHeld
    BY DEF IInv
<1> QED
    BY <1>1, Initially, Inductive, PTL DEF Spec

(* In every behaviour a play that reaches the renderer is no older than the last one   *)
(* that did (transport.rs:45-64).                                                      *)
THEOREM PlaysNeverGoBack == Spec => PlaysInOrder
<1>1. IInv /\ [Next]_vars => [\A t \in tasks : PlaySetsUri(t) => t.generation >= loaded]_vars
    BY DEF IInv, Ordered, InPlay, PlaySetsUri, PlayStep
<1> QED
    BY <1>1, Initially, Inductive, PTL DEF Spec, PlaysInOrder

(* In every behaviour a renderer that settles from a seek is not given a next track,   *)
(* unless the core gave the seek up: a prewarm finds the reservation or the settling,  *)
(* or the seek finds the prewarm on the wire (transport.rs:583-585).                    *)
THEOREM SettlingLeftAlone == Spec => SettleRespected
<1>1. IInv /\ Settled /\ [Next]_vars =>
          [renderer'.next # renderer.next /\ renderer'.next # None
               => ~renderer.reopening \/ unreported]_vars
  <2> SUFFICES ASSUME IInv, Settled, [Next]_vars,
                      renderer'.next # renderer.next, renderer'.next # None
               PROVE  ~renderer.reopening \/ unreported
    OBVIOUS
  <2>1. PICK t \in tasks : (ArmLocks(t) /\ ~BlockedBySeek) \/ (Arming(t) /\ ArmRetries(t))
    BY WhoTells DEF Untold
  <2> QED
    BY <2>1 DEF Settled, SettleKnown, TaskSettled, Reopening, BlockedBySeek
<1> QED
    BY <1>1, Initially, Inductive, SettleInitially, SettleInductive, PTL DEF Spec, SettleRespected

(* In every behaviour a KEF that is told to seek has no next track armed, unless a     *)
(* call was left in doubt: what it has armed is what the core cleared, or what a task  *)
(* with the lock would be about to tell, and the seek has the lock                      *)
(* (transport.rs:466-468, 142-145).                                                    *)
THEOREM NothingArmedAtSeek == Spec => SeekUnarmed
<1>1. IInv /\ Settled /\ NextOK /\ [Next]_vars =>
          [\A t \in tasks : SeekStep(t) /\ renderer'.position = t.generation
               /\ renderer.position # t.generation /\ Verified /\ ~doubt => renderer.next = None]_vars
  <2> SUFFICES ASSUME IInv, Settled, NextOK, [Next]_vars, NEW t \in tasks, SeekStep(t),
                      renderer'.position = t.generation, renderer.position # t.generation,
                      Verified, ~doubt
               PROVE  renderer.next = None
    OBVIOUS
  <2>1. t.generation # 0
    BY SeekFacts
  <2>2. PICK u \in tasks : Sending(u)
    BY <2>1, WhoTells DEF Untold
  <2>3. session.armed = None
    BY <2>2 DEF Settled, TaskSettled
  <2>4. \A v \in tasks : ~Owns(v)
    BY <2>2 DEF IInv, TasksOK, Owns, Sending, Arming, Locked
  <2> QED
    BY <2>3, <2>4 DEF NextOK, Known, NextKnown
<1> QED
    BY <1>1, Initially, Inductive, SettleInitially, SettleInductive, NextInitially, NextInductive,
       PTL DEF Spec, SeekUnarmed
=============================================================================
