------------------------ MODULE AgentPlaybackProofs ------------------------
(***************************************************************************)
(* What AgentPlayback promises for any tracks, queues, numbers of commands  *)
(* and of streams kept open: a load always has a task that ends it, the     *)
(* queue is taken head by head, and after a Stop nothing plays.             *)
(***************************************************************************)
EXTENDS AgentPlayback, FiniteSetTheorems, SequenceTheorems, TLAPS

Maybe == Track \cup {None}
ArmedStream == [track : Maybe, observed : BOOLEAN]
Runtime ==
    [queue : Seq(Track), current : Maybe, generation : Nat, loading : Nat, armed : ArmedStream,
     late : BOOLEAN, wasActive : BOOLEAN, skip : BOOLEAN, repeatOne : BOOLEAN,
     prefetched : SUBSET Track, prefetching : Maybe]

\* The stream that is armed is the front of the queue.
ArmedFront(s) == s.armed.track # None => s.queue # <<>> /\ Head(s.queue) = s.armed.track
Typed(s) == s \in Runtime /\ s.loading \in {0, s.generation} /\ IsFiniteSet(s.prefetched)
Sound(s) == Typed(s) /\ ArmedFront(s)
RuntimeOK == Sound(rt) /\ Cardinality(rt.prefetched) <= MaxPrefetched

\* What the steps of the loop, the tasks and the engine have to agree on.
Agree(s, u) ==
    /\ u.queue = s.queue /\ u.current = s.current /\ u.generation = s.generation
    /\ u.loading = s.loading
-----------------------------------------------------------------------------
(* The operators the runtime state is changed by. *)

LEMMA RetainedOK ==
    ASSUME AgentAssumption, NEW s \in Runtime, IsFiniteSet(s.prefetched), NEW preferred,
           NEW p \in Retained(s, preferred)
    PROVE  /\ p \in SUBSET s.prefetched /\ p \in SUBSET Track
           /\ IsFiniteSet(p) /\ Cardinality(p) <= MaxPrefetched
<1> DEFINE kept == s.prefetched \cap Relevant(s)
<1>1. IsFiniteSet(kept) /\ Cardinality(kept) \in Nat
    BY FS_Subset, FS_CardinalityType
<1>2. p \in SUBSET kept /\ IsFiniteSet(p)
    BY <1>1, FS_Subset DEF Retained
<1>3. Cardinality(p) <= MaxPrefetched
    BY <1>1 DEF Retained, AgentAssumption
<1>4. s.prefetched \in SUBSET Track
    BY DEF Runtime
<1> QED
    BY <1>2, <1>3, <1>4

LEMMA PrefetchedSet ==
    ASSUME NEW s \in Runtime, NEW p \in SUBSET Track
    PROVE  /\ [s EXCEPT !.prefetched = p] \in Runtime
           /\ [s EXCEPT !.prefetched = p].prefetched = p
           /\ [s EXCEPT !.prefetched = p].armed = s.armed
           /\ [s EXCEPT !.prefetched = p].repeatOne = s.repeatOne
           /\ Agree(s, [s EXCEPT !.prefetched = p])
BY DEF Runtime, Agree

LEMMA PrefetchedSound ==
    ASSUME NEW s, Sound(s), NEW p \in SUBSET Track, IsFiniteSet(p)
    PROVE  Sound([s EXCEPT !.prefetched = p])
BY PrefetchedSet DEF Sound, Typed, ArmedFront, Agree

LEMMA LeaveOK ==
    ASSUME AgentAssumption, NEW s, Sound(s), NEW preferred, Leave(s, preferred)
    PROVE  RuntimeOK' /\ Agree(s, rt')
<1>1. PICK p \in Retained(s, preferred) : rt' = [s EXCEPT !.prefetched = p]
    BY DEF Leave
<1>2. /\ p \in SUBSET s.prefetched /\ p \in SUBSET Track
      /\ IsFiniteSet(p) /\ Cardinality(p) <= MaxPrefetched
    BY RetainedOK DEF Sound, Typed
<1>3. Sound([s EXCEPT !.prefetched = p])
    BY <1>2, PrefetchedSound
<1>4. Sound(rt)'
    BY <1>1, <1>3 DEF Sound, Typed, ArmedFront
<1> QED
    BY <1>1, <1>2, <1>4, PrefetchedSet DEF RuntimeOK, Sound, Typed

LEMMA TurnToOK ==
    ASSUME NEW s, Sound(s), NEW t \in Track, NEW q \in Seq(Track)
    PROVE  /\ Sound(TurnTo(s, t, q))
           /\ TurnTo(s, t, q).queue = q /\ TurnTo(s, t, q).current = t
           /\ TurnTo(s, t, q).generation = s.generation + 1
           /\ TurnTo(s, t, q).loading = s.generation + 1
           /\ TurnTo(s, t, q).prefetched = s.prefetched
<1>0. s \in Runtime /\ NotArmed \in ArmedStream /\ t \in Maybe /\ s.generation \in Nat
    BY DEF Sound, Typed, Runtime, NotArmed, ArmedStream, Maybe
<1>1. TurnTo(s, t, q) \in Runtime
  <2>1. PICK n \in Nat : n = s.generation + 1
    BY <1>0
  <2>2. TurnTo(s, t, q) =
            [s EXCEPT !.generation = n, !.queue = q, !.current = t, !.loading = n,
                      !.armed = NotArmed, !.late = FALSE, !.wasActive = FALSE, !.skip = FALSE]
    BY <2>1, Zenon DEF TurnTo
  <2> DEFINE u == [s EXCEPT !.generation = n, !.queue = q, !.current = t, !.loading = n]
  <2>3. u \in Runtime
    BY <1>0 DEF Runtime
  <2>4. TurnTo(s, t, q) =
            [u EXCEPT !.armed = NotArmed, !.late = FALSE, !.wasActive = FALSE, !.skip = FALSE]
    BY <2>2
  <2> HIDE DEF u
  <2> QED
    BY <1>0, <2>3, <2>4 DEF Runtime
<1>2. /\ TurnTo(s, t, q).queue = q /\ TurnTo(s, t, q).current = t
      /\ TurnTo(s, t, q).generation = s.generation + 1
      /\ TurnTo(s, t, q).loading = s.generation + 1
      /\ TurnTo(s, t, q).prefetched = s.prefetched
      /\ TurnTo(s, t, q).armed = NotArmed
    BY DEF Sound, Typed, Runtime, TurnTo
<1> QED
    BY <1>1, <1>2 DEF Sound, Typed, ArmedFront, NotArmed

LEMMA QueueIsSeq ==
    ASSUME NEW n \in Nat, NEW q \in [1..n -> Track]
    PROVE  q \in Seq(Track)
BY SeqDef

LEMMA ArmOK ==
    ASSUME NEW s, Sound(s), NEW t \in Track, s.queue # <<>>, Head(s.queue) = t
    PROVE  Sound(Arm(s, t)) /\ Agree(s, Arm(s, t)) /\ Arm(s, t).prefetched = s.prefetched
<1>1. s \in Runtime /\ [track |-> t, observed |-> FALSE] \in ArmedStream
    BY DEF Sound, Typed, ArmedStream, Maybe
<1>2. /\ Arm(s, t) \in Runtime /\ Arm(s, t).armed = [track |-> t, observed |-> FALSE]
      /\ Agree(s, Arm(s, t)) /\ Arm(s, t).prefetched = s.prefetched
    BY <1>1 DEF Runtime, Arm, Agree
<1> QED
    BY <1>2 DEF Sound, Typed, ArmedFront, Agree

LEMMA DisarmOK ==
    ASSUME NEW s, Typed(s)
    PROVE  LET u == [s EXCEPT !.armed = NotArmed]
           IN  Sound(u) /\ Agree(s, u) /\ u.prefetched = s.prefetched /\ u.repeatOne = s.repeatOne
<1> DEFINE u == [s EXCEPT !.armed = NotArmed]
<1>1. s \in Runtime /\ NotArmed \in ArmedStream
    BY DEF Typed, NotArmed, ArmedStream, Maybe
<1>2. /\ u \in Runtime /\ u.armed = NotArmed /\ Agree(s, u) /\ u.prefetched = s.prefetched
      /\ u.repeatOne = s.repeatOne
    BY <1>1 DEF Runtime, Agree
<1> HIDE DEF u
<1>3. Sound(u)
    BY <1>2 DEF Sound, Typed, ArmedFront, NotArmed, Agree
<1> QED
    BY <1>2, <1>3 DEF u

\* An open stream that is put into the engine is no longer kept.
LEMMA ArmFrontOK ==
    ASSUME AgentAssumption, NEW s, Sound(s), CanArmFront(s),
           Cardinality(s.prefetched) <= MaxPrefetched
    PROVE  /\ Sound(ArmFront(s)) /\ Agree(s, ArmFront(s))
           /\ Cardinality(ArmFront(s).prefetched) <= MaxPrefetched
<1> DEFINE t == Head(s.queue)
           p == s.prefetched \ {t}
<1>1. t \in Track /\ s.queue # <<>> /\ s.prefetched \in SUBSET Track
    BY DEF Sound, Typed, Runtime, CanArmFront
<1>2. IsFiniteSet(p) /\ Cardinality(p) <= Cardinality(s.prefetched) /\ p \in SUBSET Track
    BY <1>1, FS_Subset DEF Sound, Typed
<1>3. Cardinality(p) \in Nat /\ Cardinality(s.prefetched) \in Nat
    BY <1>2, FS_CardinalityType DEF Sound, Typed
<1>4. Sound(Arm(s, t)) /\ Agree(s, Arm(s, t)) /\ Arm(s, t).prefetched = s.prefetched
    BY <1>1, ArmOK
<1>5. ArmFront(s) = [Arm(s, t) EXCEPT !.prefetched = p]
    BY <1>4 DEF ArmFront
<1> HIDE DEF t, p
<1>6. Sound(ArmFront(s))
    BY <1>2, <1>4, <1>5, PrefetchedSound
<1>7. Agree(Arm(s, t), ArmFront(s)) /\ ArmFront(s).prefetched = p
    BY <1>2, <1>4, <1>5, PrefetchedSet DEF Sound, Typed
<1> QED
    BY <1>2, <1>3, <1>4, <1>6, <1>7 DEF Agree, AgentAssumption
-----------------------------------------------------------------------------
(* The other variables. *)

LoopState ==
    {Idle, [at |-> "stop"], [at |-> "next"]}
        \cup [at : {"play"}, track : Track, queue : Seq(Track), epoch : Nat]
        \cup [at : {"tick"}, active : BOOLEAN, file : Maybe]
        \cup [at : {"reserve"}, track : Track, generation : Nat]
Opening == {"taking", "opening", "opened", "checked"}
PlayState ==
    [generation : Nat, track : Track, epoch : Nat,
     at : Opening \cup {"failed", "refused", "played"}]
PrefetchState == [id : Nat, track : Track, at : {"asked", "opening"}]
Command ==
    [op : {"PlayStream", "Stop", "Next", "SetStreamQueue"}, epoch : Nat, track : Maybe,
     shown : Maybe]
Engine ==
    [active : BOOLEAN, session : Nat, file : Maybe, queue : Maybe, pending : Maybe,
     pendingEpoch : Nat]

LoopOK == loop \in LoopState
TasksOK ==
    /\ status \in [at : {"idle", "seen"}, file : Maybe]
    /\ plays \subseteq PlayState /\ prefetches \subseteq PrefetchState
PlayerOK == epoch \in Nat /\ channel \in Seq(Command) /\ engine \in Engine
HistoryOK == received \in Nat /\ stopped \in BOOLEAN

\* No task is of a generation or an epoch to come.
Numbered ==
    /\ \A p \in plays : p.generation \in 1..rt.generation /\ p.epoch \in 1..epoch
    /\ loop.at = "play" => loop.epoch \in 1..epoch
    /\ loop.at = "reserve" => loop.generation \in 1..rt.generation

TypeInv == RuntimeOK /\ LoopOK /\ TasksOK /\ PlayerOK /\ HistoryOK /\ Numbered
-----------------------------------------------------------------------------
(* What each step does to the runtime state. *)

LEMMA PlaySourceTurns ==
    ASSUME AgentAssumption, TypeInv, PlaySourceLocked
    PROVE  /\ RuntimeOK' /\ loop \in [at : {"play"}, track : Track, queue : Seq(Track), epoch : Nat]
           /\ rt'.generation = rt.generation + 1 /\ rt'.loading = rt.generation + 1
           /\ rt'.current = loop.track /\ rt'.queue = loop.queue
<1>1. loop \in [at : {"play"}, track : Track, queue : Seq(Track), epoch : Nat]
    BY DEF TypeInv, LoopOK, LoopState, PlaySourceLocked, Idle
<1>2. loop.track \in Track /\ loop.queue \in Seq(Track)
    BY <1>1
<1>3. Leave(TurnTo(rt, loop.track, loop.queue), loop.track)
    BY DEF PlaySourceLocked
<1> QED
    BY <1>1, <1>2, <1>3, TurnToOK, LeaveOK DEF TypeInv, RuntimeOK, Agree

LEMMA StopForgets ==
    ASSUME AgentAssumption, TypeInv, StopLocked
    PROVE  /\ RuntimeOK' /\ rt'.generation = rt.generation + 1 /\ rt'.loading = 0
           /\ rt'.current = None /\ rt'.queue = <<>>
<1>1. /\ rt \in Runtime /\ NotArmed \in ArmedStream /\ None \in Maybe
      /\ rt' = Stopped(rt) /\ <<>> \in Seq(Track)
    BY DEF TypeInv, RuntimeOK, Sound, Typed, NotArmed, ArmedStream, Maybe, StopLocked
<1>2. PICK n \in Nat : n = rt.generation + 1
    BY <1>1 DEF Runtime
<1>3. rt' = [rt EXCEPT !.generation = n, !.queue = <<>>, !.current = None, !.loading = 0,
                       !.armed = NotArmed, !.wasActive = FALSE, !.skip = FALSE,
                       !.prefetched = {}, !.prefetching = None]
    BY <1>1, <1>2, Zenon DEF Stopped
<1>4. rt' \in Runtime
  <2>1. rt \in Runtime /\ NotArmed \in ArmedStream /\ None \in Maybe /\ <<>> \in Seq(Track)
    BY <1>1
  <2>2. {} \in SUBSET Track
    OBVIOUS
  <2> DEFINE s == [rt EXCEPT !.generation = n, !.queue = <<>>, !.current = None, !.loading = 0]
  <2>3. s \in Runtime
    BY <2>1 DEF Runtime
  <2>4. rt' = [s EXCEPT !.armed = NotArmed, !.wasActive = FALSE, !.skip = FALSE,
                        !.prefetched = {}, !.prefetching = None]
    BY <1>3
  <2> HIDE DEF s
  <2> QED
    BY <2>1, <2>2, <2>3, <2>4 DEF Runtime
<1>5. /\ rt'.generation = rt.generation + 1 /\ rt'.loading = 0 /\ rt'.current = None
      /\ rt'.queue = <<>> /\ rt'.armed = NotArmed /\ rt'.prefetched = {}
    BY <1>1, <1>2, <1>3 DEF Runtime
<1>6. IsFiniteSet({}) /\ Cardinality({}) = 0
    BY FS_EmptySet
<1> QED
    BY <1>4, <1>5, <1>6 DEF RuntimeOK, Sound, Typed, ArmedFront, NotArmed, AgentAssumption

LEMMA SetQueueTurns ==
    ASSUME AgentAssumption, TypeInv, NEW q \in Seq(Track), SetQueue(q)
    PROVE  /\ RuntimeOK' /\ rt'.generation = rt.generation /\ rt'.loading = rt.loading
           /\ rt'.current = rt.current /\ rt'.queue = q
<1> DEFINE r == [rt EXCEPT !.queue = q]
<1>1. /\ Typed(r) /\ r.queue = q /\ r.current = rt.current /\ r.generation = rt.generation
      /\ r.loading = rt.loading /\ r.armed = rt.armed /\ r.prefetched = rt.prefetched
    BY DEF TypeInv, RuntimeOK, Sound, Typed, Runtime
<1>2. PICK p \in Retained(r, None) :
          LET s == [rt EXCEPT !.queue = q, !.prefetched = p]
              cleared == [s EXCEPT !.armed = NotArmed]
          IN  \/ KeepsArmed(q) /\ rt' = s
              \/ ~KeepsArmed(q) /\ CanArmFront(cleared) /\ rt' = ArmFront(cleared)
              \/ ~KeepsArmed(q) /\ ~CanArmFront(cleared) /\ rt' = cleared
    BY DEF SetQueue
<1> DEFINE s == [r EXCEPT !.prefetched = p]
           cleared == [s EXCEPT !.armed = NotArmed]
<1>3. \/ KeepsArmed(q) /\ rt' = s
      \/ ~KeepsArmed(q) /\ CanArmFront(cleared) /\ rt' = ArmFront(cleared)
      \/ ~KeepsArmed(q) /\ ~CanArmFront(cleared) /\ rt' = cleared
    BY <1>2
<1> HIDE DEF r
<1>4. p \in SUBSET Track /\ IsFiniteSet(p) /\ Cardinality(p) <= MaxPrefetched
    BY <1>1, <1>2, RetainedOK DEF Typed
<1>5. Typed(s) /\ s.prefetched = p /\ s.armed = rt.armed /\ Agree(r, s)
    BY <1>1, <1>4, PrefetchedSet DEF Typed, Agree
<1> HIDE DEF s
<1>6. Sound(cleared) /\ Agree(s, cleared) /\ cleared.prefetched = p
    BY <1>5, DisarmOK
<1> HIDE DEF cleared
<1>7. CASE KeepsArmed(q) /\ rt' = s
    BY <1>1, <1>4, <1>5, <1>7 DEF Sound, ArmedFront, KeepsArmed, RuntimeOK, Agree, Typed
<1>8. CASE CanArmFront(cleared) /\ rt' = ArmFront(cleared)
    BY <1>1, <1>4, <1>5, <1>6, <1>8, ArmFrontOK DEF RuntimeOK, Agree, Sound, Typed, ArmedFront
<1>9. CASE rt' = cleared
    BY <1>1, <1>4, <1>5, <1>6, <1>9 DEF RuntimeOK, Agree, Sound, Typed, ArmedFront
<1> QED
    BY <1>3, <1>7, <1>8, <1>9

\* The flags, and what is being prefetched, say nothing of the queue or the load.
LEMMA FlagsOK ==
    ASSUME NEW s, Sound(s), NEW b \in BOOLEAN
    PROVE  /\ LET u == [s EXCEPT !.skip = b] IN
                  Sound(u) /\ Agree(s, u) /\ u.prefetched = s.prefetched
           /\ LET u == [s EXCEPT !.late = b] IN
                  Sound(u) /\ Agree(s, u) /\ u.prefetched = s.prefetched
           /\ LET u == [s EXCEPT !.wasActive = b] IN
                  Sound(u) /\ Agree(s, u) /\ u.prefetched = s.prefetched
           /\ LET u == [s EXCEPT !.repeatOne = b] IN
                  Sound(u) /\ Agree(s, u) /\ u.prefetched = s.prefetched
    BY DEF Sound, Typed, ArmedFront, Runtime, Agree

LEMMA PrefetchingOK ==
    ASSUME NEW s, Sound(s), NEW t \in Maybe
    PROVE  LET u == [s EXCEPT !.prefetching = t]
           IN  Sound(u) /\ Agree(s, u) /\ u.prefetched = s.prefetched
    BY DEF Sound, Typed, ArmedFront, Runtime, Agree

LEMMA SetLoopModeKeeps ==
    ASSUME AgentAssumption, TypeInv, NEW on \in BOOLEAN, SetLoopMode(on)
    PROVE  RuntimeOK' /\ Agree(rt, rt')
<1> DEFINE s == [rt EXCEPT !.repeatOne = on]
<1>1. Sound(s) /\ Agree(rt, s) /\ s.prefetched = rt.prefetched
    BY FlagsOK DEF TypeInv, RuntimeOK
<1>2. \/ rt' = [s EXCEPT !.armed = NotArmed]
      \/ CanArmFront(s) /\ rt' = ArmFront(s)
      \/ rt' = s
    BY DEF SetLoopMode
<1> HIDE DEF s
<1>3. CASE rt' = [s EXCEPT !.armed = NotArmed]
    BY <1>1, <1>3, DisarmOK DEF TypeInv, RuntimeOK, Sound, Agree, Typed, ArmedFront
<1>4. CASE CanArmFront(s) /\ rt' = ArmFront(s)
    BY <1>1, <1>4, ArmFrontOK DEF TypeInv, RuntimeOK, Sound, Agree, Typed, ArmedFront
<1>5. CASE rt' = s
    BY <1>1, <1>5 DEF TypeInv, RuntimeOK, Sound, Agree, Typed, ArmedFront
<1> QED
    BY <1>2, <1>3, <1>4, <1>5

LEMMA FlagsKeep ==
    ASSUME AgentAssumption, TypeInv, NextLocked \/ TickWaits \/ GraceElapses
    PROVE  RuntimeOK' /\ Agree(rt, rt')
<1>1. \E b \in BOOLEAN :
          \/ rt' = rt
          \/ rt' = [rt EXCEPT !.skip = b]
          \/ rt' = [rt EXCEPT !.late = b]
          \/ rt' = [rt EXCEPT !.wasActive = b]
  <2>1. CASE NextLocked
    BY <2>1 DEF NextLocked
  <2>2. CASE GraceElapses
    BY <2>2 DEF GraceElapses
  <2>3. CASE TickWaits
    <3> DEFINE b == rt.wasActive \/ Shown(rt.current)
    <3>1. b \in BOOLEAN
        OBVIOUS
    <3>2. rt' = [rt EXCEPT !.wasActive = b] \/ rt' = [rt EXCEPT !.skip = FALSE] \/ rt' = rt
        BY <2>3 DEF TickWaits, TickDone
    <3> HIDE DEF b
    <3> QED
        BY <3>1, <3>2
  <2> QED
    BY <2>1, <2>2, <2>3
<1>2. PICK b \in BOOLEAN :
          \/ rt' = rt
          \/ rt' = [rt EXCEPT !.skip = b]
          \/ rt' = [rt EXCEPT !.late = b]
          \/ rt' = [rt EXCEPT !.wasActive = b]
    BY <1>1
<1>3. Sound(rt') /\ Agree(rt, rt') /\ rt'.prefetched = rt.prefetched
  <2>1. Sound(rt)
    BY DEF TypeInv, RuntimeOK
  <2>2. CASE rt' = rt
    BY <2>1, <2>2 DEF Agree
  <2>3. CASE rt' = [rt EXCEPT !.skip = b]
    BY <2>1, <2>3, FlagsOK
  <2>4. CASE rt' = [rt EXCEPT !.late = b]
    BY <2>1, <2>4, FlagsOK
  <2>5. CASE rt' = [rt EXCEPT !.wasActive = b]
    BY <2>1, <2>5, FlagsOK
  <2> QED
    BY <1>2, <2>2, <2>3, <2>4, <2>5
<1> QED
    BY <1>3 DEF TypeInv, RuntimeOK, Sound, Typed, ArmedFront

LEMMA TakePrefetchedKeeps ==
    ASSUME AgentAssumption, TypeInv, NEW p \in plays, TakePrefetched(p)
    PROVE  RuntimeOK' /\ Agree(rt, rt')
<1>1. PICK kept \in Retained(rt, p.track) :
          rt' = [rt EXCEPT !.prefetched = kept \ {p.track}]
    BY DEF TakePrefetched
<1>2. kept \in SUBSET Track /\ IsFiniteSet(kept) /\ Cardinality(kept) <= MaxPrefetched
    BY <1>1, RetainedOK DEF TypeInv, RuntimeOK, Sound, Typed
<1> DEFINE left == kept \ {p.track}
<1>3. /\ left \in SUBSET Track /\ IsFiniteSet(left)
      /\ Cardinality(left) <= Cardinality(kept) /\ {Cardinality(left), Cardinality(kept)} \subseteq Nat
    BY <1>2, FS_Subset, FS_CardinalityType
<1> HIDE DEF left
<1>4. rt' = [rt EXCEPT !.prefetched = left]
    BY <1>1 DEF left
<1>5. Sound(rt') /\ Agree(rt, rt') /\ rt'.prefetched = left
    BY <1>3, <1>4, PrefetchedSound, PrefetchedSet DEF TypeInv, RuntimeOK, Sound, Typed
<1> QED
    BY <1>2, <1>3, <1>5 DEF RuntimeOK, Sound, Typed, ArmedFront, AgentAssumption

LEMMA PlayEndsKeeps ==
    ASSUME AgentAssumption, TypeInv, NEW p \in plays, PlayEnds(p)
    PROVE  /\ RuntimeOK' /\ rt'.queue = rt.queue /\ rt'.current = rt.current
           /\ rt'.generation = rt.generation
           /\ rt'.loading = IF rt.generation # p.generation THEN rt.loading ELSE 0
<1>1. CASE rt.generation # p.generation
  <2>1. rt' = rt
    BY <1>1 DEF PlayEnds, LoadingEnds
  <2> QED
    BY <1>1, <2>1 DEF TypeInv, RuntimeOK, Sound, Typed, ArmedFront
<1>2. CASE rt.generation = p.generation
  <2> DEFINE b == rt.wasActive /\ p.at # "played"
             c == rt.late /\ p.at # "played"
  <2>1. rt' = [rt EXCEPT !.loading = 0, !.wasActive = b, !.late = c]
    BY <1>2 DEF PlayEnds, LoadingEnds
  <2>2. b \in BOOLEAN /\ c \in BOOLEAN /\ rt \in Runtime
    BY DEF TypeInv, RuntimeOK, Sound, Typed
  <2> HIDE DEF b, c
  <2>3. rt' \in Runtime
    BY <2>1, <2>2 DEF Runtime
  <2>4. /\ rt'.queue = rt.queue /\ rt'.current = rt.current /\ rt'.generation = rt.generation
        /\ rt'.loading = 0 /\ rt'.armed = rt.armed /\ rt'.prefetched = rt.prefetched
    BY <2>1, <2>2 DEF Runtime
  <2> QED
    BY <1>2, <2>3, <2>4 DEF TypeInv, RuntimeOK, Sound, Typed, ArmedFront
<1> QED
    BY <1>1, <1>2

LEMMA PrefetchBeginsKeeps ==
    ASSUME AgentAssumption, TypeInv, NEW f \in prefetches, PrefetchBegins(f)
    PROVE  RuntimeOK' /\ Agree(rt, rt')
<1>1. PICK kept \in Retained(rt, None) :
          LET s == [rt EXCEPT !.prefetched = kept]
          IN  rt' = s \/ rt' = [s EXCEPT !.prefetching = f.track]
    BY DEF PrefetchBegins
<1>2. kept \in SUBSET Track /\ IsFiniteSet(kept) /\ Cardinality(kept) <= MaxPrefetched
    BY <1>1, RetainedOK DEF TypeInv, RuntimeOK, Sound, Typed
<1> DEFINE s == [rt EXCEPT !.prefetched = kept]
<1>3. Sound(s) /\ Agree(rt, s) /\ s.prefetched = kept
    BY <1>2, PrefetchedSound, PrefetchedSet DEF TypeInv, RuntimeOK, Sound, Typed
<1>4. rt' = s \/ rt' = [s EXCEPT !.prefetching = f.track]
    BY <1>1
<1>5. f.track \in Maybe
    BY DEF TypeInv, TasksOK, PrefetchState, Maybe
<1> HIDE DEF s
<1>6. Sound(rt') /\ Agree(rt, rt') /\ rt'.prefetched = kept
  <2>1. CASE rt' = s
    BY <1>3, <2>1
  <2>2. CASE rt' = [s EXCEPT !.prefetching = f.track]
    <3>1. Sound(rt') /\ Agree(s, rt') /\ rt'.prefetched = s.prefetched
        BY <1>3, <1>5, <2>2, PrefetchingOK
    <3> QED
        BY <1>3, <3>1 DEF Agree
  <2> QED
    BY <1>4, <2>1, <2>2
<1> QED
    BY <1>2, <1>6 DEF RuntimeOK, Sound, Typed, ArmedFront

LEMMA PrefetchEndsKeeps ==
    ASSUME AgentAssumption, TypeInv, NEW f \in prefetches, PrefetchEnds(f)
    PROVE  RuntimeOK' /\ Agree(rt, rt')
<1> DEFINE t == IF rt.prefetching = f.track THEN None ELSE rt.prefetching
           s == [rt EXCEPT !.prefetching = t]
<1>1. NotPrefetching(f.track) = s
    BY DEF NotPrefetching
<1>2. t \in Maybe /\ f.track \in Track
    BY DEF TypeInv, RuntimeOK, Sound, Typed, Runtime, Maybe, TasksOK, PrefetchState
<1> HIDE DEF t
<1>3. Sound(s) /\ Agree(rt, s) /\ s.prefetched = rt.prefetched
    BY <1>2, PrefetchingOK DEF TypeInv, RuntimeOK
<1>4. \/ rt' = s
      \/ Armable(f.track) /\ Leave(Arm(s, f.track), None)
      \/ Leave([s EXCEPT !.prefetched = @ \cup {f.track}], f.track)
      \/ Leave(s, None)
    BY <1>1 DEF PrefetchEnds
<1> HIDE DEF s
<1>5. CASE rt' = s
    BY <1>3, <1>5 DEF TypeInv, RuntimeOK, Sound, Typed, ArmedFront
<1>6. CASE Armable(f.track) /\ Leave(Arm(s, f.track), None)
  <2>1. Sound(Arm(s, f.track)) /\ Agree(s, Arm(s, f.track))
    BY <1>2, <1>3, <1>6, ArmOK DEF Armable, Agree
  <2> QED
    BY <1>3, <1>6, <2>1, LeaveOK DEF Agree
<1>7. CASE Leave([s EXCEPT !.prefetched = @ \cup {f.track}], f.track)
  <2> DEFINE q == s.prefetched \cup {f.track}
  <2>1. q \in SUBSET Track /\ IsFiniteSet(q)
    BY <1>2, <1>3, FS_AddElement DEF Sound, Typed, Runtime
  <2>2. Leave([s EXCEPT !.prefetched = q], f.track)
    BY <1>7
  <2> HIDE DEF q
  <2>3. Sound([s EXCEPT !.prefetched = q]) /\ Agree(s, [s EXCEPT !.prefetched = q])
    BY <1>3, <2>1, PrefetchedSound, PrefetchedSet DEF Sound, Typed
  <2> QED
    BY <1>3, <2>2, <2>3, LeaveOK DEF Agree
<1>8. CASE Leave(s, None)
    BY <1>3, <1>8, LeaveOK DEF Agree
<1> QED
    BY <1>4, <1>5, <1>6, <1>7, <1>8

\* The runtime turns to what the tick takes; without repeat-one that is the head.
LEMMA TickSelectsTurns ==
    ASSUME AgentAssumption, TypeInv, TickSelects
    PROVE  /\ RuntimeOK'
           /\ \/ /\ rt'.generation = rt.generation + 1 /\ rt'.loading = rt.generation + 1
                 /\ rt'.current \in Track
                 /\ loop' = [at |-> "reserve", track |-> rt'.current, generation |-> rt'.generation]
                 /\ \/ rt'.current = rt.current /\ rt'.queue = rt.queue
                    \/ /\ rt.queue # <<>> /\ rt'.current = Head(rt.queue)
                       /\ rt'.queue = Tail(rt.queue)
              \/ /\ loop' = Idle /\ rt'.current = None /\ rt'.queue = rt.queue /\ rt.queue = <<>>
                 /\ rt'.generation = rt.generation /\ rt'.loading = 0
<1> DEFINE again == rt.repeatOne /\ ~rt.skip
           source == IF again THEN rt.current ELSE Head(rt.queue)
           rest == IF again THEN rt.queue ELSE Tail(rt.queue)
           ended == [rt EXCEPT !.current = None, !.loading = 0, !.wasActive = FALSE, !.skip = FALSE]
<1>1. /\ Sound(rt) /\ rt \in Runtime /\ rt.current # None
      /\ rt.queue \in Seq(Track) /\ rt.current \in Maybe
    BY DEF TypeInv, RuntimeOK, Sound, Typed, Runtime, TickSelects
<1>2. \/ /\ again \/ rt.queue # <<>>
         /\ Leave(TurnTo(rt, source, rest), None)
         /\ loop' = [at |-> "reserve", track |-> source, generation |-> rt.generation + 1]
      \/ rt.queue = <<>> /\ Leave(ended, None) /\ loop' = Idle
    BY DEF TickSelects
<1>3. CASE /\ again \/ rt.queue # <<>>
           /\ Leave(TurnTo(rt, source, rest), None)
           /\ loop' = [at |-> "reserve", track |-> source, generation |-> rt.generation + 1]
  <2>1. /\ source \in Track /\ rest \in Seq(Track)
        /\ \/ source = rt.current /\ rest = rt.queue
           \/ rt.queue # <<>> /\ source = Head(rt.queue) /\ rest = Tail(rt.queue)
    BY <1>1, <1>3 DEF Maybe
  <2> HIDE DEF source, rest, again
  <2>2. /\ Sound(TurnTo(rt, source, rest))
        /\ TurnTo(rt, source, rest).queue = rest /\ TurnTo(rt, source, rest).current = source
        /\ TurnTo(rt, source, rest).generation = rt.generation + 1
        /\ TurnTo(rt, source, rest).loading = rt.generation + 1
    BY <1>1, <2>1, TurnToOK
  <2>3. RuntimeOK' /\ Agree(TurnTo(rt, source, rest), rt')
    BY <1>3, <2>2, LeaveOK
  <2> QED
    BY <1>3, <2>1, <2>2, <2>3 DEF Agree
<1>4. CASE rt.queue = <<>> /\ Leave(ended, None) /\ loop' = Idle
  <2>1. /\ ended \in Runtime /\ ended.queue = rt.queue /\ ended.current = None
        /\ ended.generation = rt.generation /\ ended.loading = 0 /\ ended.armed = rt.armed
        /\ ended.prefetched = rt.prefetched
    BY <1>1 DEF Runtime, Maybe
  <2> HIDE DEF ended
  <2>2. Sound(ended)
    BY <1>1, <2>1 DEF Sound, Typed, ArmedFront
  <2>3. RuntimeOK' /\ Agree(ended, rt')
    BY <1>4, <2>2, LeaveOK
  <2> QED
    BY <1>4, <2>1, <2>3 DEF Agree
<1> QED
    BY <1>2, <1>3, <1>4

\* What is behind the first element is behind its first occurrence.
LEMMA AfterHead ==
    ASSUME NEW q \in Seq(Track), q # <<>>
    PROVE  After(q, Head(q)) = Tail(q)
<1>1. 1 \in DOMAIN q /\ q[1] = Head(q)
    OBVIOUS
<1>2. Head(q) \in ToSet(q)
    BY <1>1 DEF ToSet
<1> DEFINE First(i) == i \in DOMAIN q /\ q[i] = Head(q) /\ \A j \in 1..(i - 1) : q[j] # Head(q)
           first == CHOOSE i \in DOMAIN q : q[i] = Head(q) /\ \A j \in 1..(i - 1) : q[j] # Head(q)
<1>3. \A i \in DOMAIN q : q[i] = Head(q) /\ (\A j \in 1..(i - 1) : q[j] # Head(q)) => i = 1
  <2>1. SUFFICES ASSUME NEW i \in DOMAIN q, q[i] = Head(q),
                        \A j \in 1..(i - 1) : q[j] # Head(q)
                 PROVE  i = 1
    OBVIOUS
  <2>2. i \in Nat /\ i >= 1
    OBVIOUS
  <2>3. 1 \notin 1..(i - 1)
    BY <1>1, <2>1
  <2> QED
    BY <2>2, <2>3
<1>4. \E i \in DOMAIN q : q[i] = Head(q) /\ \A j \in 1..(i - 1) : q[j] # Head(q)
    BY <1>1
<1>5. first = 1
    BY <1>3, <1>4
<1>6. After(q, Head(q)) = SubSeq(q, first + 1, Len(q))
    BY <1>2, Zenon DEF After
<1>7. SubSeq(q, 2, Len(q)) = Tail(q)
    OBVIOUS
<1> HIDE DEF first
<1> QED
    BY <1>5, <1>6, <1>7

LEMMA SynchronizeTurns ==
    ASSUME AgentAssumption, TypeInv, Synchronize
    PROVE  /\ RuntimeOK'
           /\ \/ /\ rt'.generation = rt.generation + 1 /\ rt'.loading = 0
                 /\ rt.queue # <<>> /\ rt'.current = Head(rt.queue) /\ rt'.queue = Tail(rt.queue)
              \/ Agree(rt, rt')
<1>1. /\ Sound(rt) /\ rt \in Runtime /\ rt.queue \in Seq(Track) /\ rt.generation \in Nat
      /\ rt.armed \in ArmedStream /\ NotArmed \in ArmedStream
    BY DEF TypeInv, RuntimeOK, Sound, Typed, Runtime, NotArmed, ArmedStream, Maybe
<1>2. CASE EngineAdvanced
  <2>1. rt.armed.track \in Track /\ rt.queue # <<>> /\ Head(rt.queue) = rt.armed.track
    BY <1>1, <1>2 DEF EngineAdvanced, Sound, ArmedFront, ArmedStream, Maybe
  <2>2. After(rt.queue, rt.armed.track) = Tail(rt.queue)
    BY <1>1, <2>1, AfterHead
  <2>3. PICK n \in Nat : n = rt.generation + 1
    BY <1>1
  <2> DEFINE t == rt.armed.track
             q == Tail(rt.queue)
             s == [rt EXCEPT !.queue = q, !.current = t, !.armed = NotArmed, !.generation = n,
                             !.loading = 0, !.late = FALSE, !.wasActive = TRUE, !.skip = FALSE]
  <2>4. Leave([rt EXCEPT !.queue = After(@, rt.armed.track), !.current = rt.armed.track,
                         !.armed = NotArmed, !.generation = @ + 1, !.loading = 0,
                         !.late = FALSE, !.wasActive = TRUE, !.skip = FALSE], None)
    BY <1>2 DEF Synchronize
  <2>5. Leave(s, None)
    BY <2>2, <2>3, <2>4, Zenon
  <2>6. t \in Maybe /\ q \in Seq(Track)
    BY <1>1, <2>1 DEF Maybe
  <2> HIDE DEF t, q
  <2>7. /\ s \in Runtime /\ s.queue = q /\ s.current = t /\ s.generation = n /\ s.loading = 0
        /\ s.armed = NotArmed /\ s.prefetched = rt.prefetched
    BY <1>1, <2>6 DEF Runtime
  <2> HIDE DEF s
  <2>8. Sound(s)
    BY <1>1, <2>7 DEF Sound, Typed, ArmedFront, NotArmed
  <2>9. RuntimeOK' /\ Agree(s, rt')
    BY <2>5, <2>8, LeaveOK
  <2> QED
    BY <2>1, <2>3, <2>7, <2>9 DEF Agree, t, q
<1>3. CASE ~EngineAdvanced
  <2> DEFINE b == IF Observed THEN TRUE ELSE FALSE
             a == [rt.armed EXCEPT !.observed = Observed]
  <2>1. rt' = [rt EXCEPT !.armed.observed = Observed]
    BY <1>3 DEF Synchronize
  <2>2. Observed \in BOOLEAN
    BY <1>1 DEF Observed, ArmedStream
  <2>3. a \in ArmedStream /\ a.track = rt.armed.track
    BY <1>1, <2>2 DEF ArmedStream
  <2>4. rt' = [rt EXCEPT !.armed = a]
    BY <1>1, <2>1 DEF Runtime
  <2> HIDE DEF a
  <2>5. /\ rt' \in Runtime /\ rt'.armed = a /\ rt'.prefetched = rt.prefetched /\ Agree(rt, rt')
    BY <1>1, <2>3, <2>4 DEF Runtime, Agree
  <2> QED
    BY <1>1, <2>3, <2>5 DEF TypeInv, RuntimeOK, Sound, Typed, ArmedFront, Agree
<1> QED
    BY <1>2, <1>3
-----------------------------------------------------------------------------
(* What the steps do to everything else. *)

LEMMA RuntimeStep ==
    ASSUME AgentAssumption, TypeInv, Next
    PROVE  RuntimeOK' /\ rt'.generation \in {rt.generation, rt.generation + 1}
<1>0. rt.generation \in Nat
    BY DEF TypeInv, RuntimeOK, Sound, Typed, Runtime
<1>1. CASE UNCHANGED rt
    BY <1>1 DEF TypeInv, RuntimeOK, Sound, Typed, ArmedFront
<1>2. CASE PlaySourceLocked
    BY <1>2, PlaySourceTurns
<1>3. CASE StopLocked
    BY <1>3, StopForgets
<1>4. ASSUME NEW q \in UNION {[1..n -> Track] : n \in 0..MaxQueue}, SetQueue(q)
      PROVE  RuntimeOK' /\ rt'.generation = rt.generation
  <2>1. q \in Seq(Track)
    BY <1>4, QueueIsSeq DEF AgentAssumption
  <2> QED
    BY <1>4, <2>1, SetQueueTurns
<1>5. ASSUME NEW on \in BOOLEAN, SetLoopMode(on)
      PROVE  RuntimeOK' /\ rt'.generation = rt.generation
    BY <1>5, SetLoopModeKeeps DEF Agree
<1>6. CASE NextLocked \/ TickWaits \/ GraceElapses
    BY <1>6, FlagsKeep DEF Agree
<1>7. CASE TickSelects
    BY <1>7, TickSelectsTurns
<1>8. CASE Synchronize
    BY <1>8, SynchronizeTurns DEF Agree
<1>9. CASE PlayStep
  <2>1. PICK p \in plays :
            UNCHANGED rt \/ TakePrefetched(p) \/ PlayEnds(p)
    BY <1>9 DEF PlayStep, OpenStream, CheckCurrent, PlayStream
  <2> QED
    BY <1>1, <2>1, TakePrefetchedKeeps, PlayEndsKeeps DEF Agree
<1>10. CASE PrefetchStep
    BY <1>10, PrefetchBeginsKeeps, PrefetchEndsKeeps DEF Agree, PrefetchStep
<1>11. \/ UNCHANGED rt \/ PlaySourceLocked \/ StopLocked
       \/ \E q \in UNION {[1..n -> Track] : n \in 0..MaxQueue} : SetQueue(q)
       \/ \E on \in BOOLEAN : SetLoopMode(on)
       \/ NextLocked \/ TickWaits \/ GraceElapses \/ TickSelects \/ Synchronize
       \/ PlayStep \/ PrefetchStep
  <2>1. CASE ReceiveCommand
    BY <2>1 DEF ReceiveCommand, PlaySource, PreFetch, Stop
  <2>2. CASE HandleCommand \/ Tick \/ TickWaits \/ TickAdvances \/ StatusStep
    BY <2>2 DEF HandleCommand, NextSent, Tick, TickAdvances, TickReserves, StatusStep, Look
  <2>3. CASE EngineStep
    BY <2>3 DEF EngineStep, EngineCommand, HandlePlayStream, HandleStop, HandleNext,
                HandleSetStreamQueue, InstallStart, EndOfTrack, StepWithoutSession
  <2> QED
    BY <2>1, <2>2, <2>3 DEF Next
<1> QED
    BY <1>0, <1>1, <1>2, <1>3, <1>4, <1>5, <1>6, <1>7, <1>8, <1>9, <1>10, <1>11

LEMMA LoopStep ==
    ASSUME AgentAssumption, TypeInv, Next
    PROVE  LoopOK'
<1>1. CASE loop' = loop
    BY <1>1 DEF TypeInv, LoopOK
<1>2. CASE loop' \in {Idle, [at |-> "stop"], [at |-> "next"]}
    BY <1>2 DEF LoopOK, LoopState
<1>3. ASSUME NEW t \in Track, NEW q \in UNION {[1..n -> Track] : n \in 0..MaxQueue},
             PlaySource(t, q)
      PROVE  LoopOK'
  <2>1. q \in Seq(Track)
    BY <1>3, QueueIsSeq DEF AgentAssumption
  <2>2. loop' = [at |-> "play", track |-> t, queue |-> q, epoch |-> epoch + 1]
    BY <1>3 DEF PlaySource
  <2>3. epoch + 1 \in Nat
    BY DEF TypeInv, PlayerOK
  <2> QED
    BY <2>1, <2>2, <2>3 DEF LoopOK, LoopState
<1>4. CASE Tick
    BY <1>4 DEF Tick, TypeInv, PlayerOK, Engine, LoopOK, LoopState
<1>5. CASE TickSelects
  <2>1. \/ rt'.current \in Track /\ rt'.generation \in Nat
        \/ loop' = Idle
    BY <1>5, TickSelectsTurns DEF TypeInv, RuntimeOK, Sound, Typed, Runtime
  <2>2. \/ loop' = Idle
        \/ loop' = [at |-> "reserve", track |-> rt'.current, generation |-> rt'.generation]
    BY <1>5, TickSelectsTurns
  <2> QED
    BY <1>2, <2>1, <2>2 DEF LoopOK, LoopState
<1>6. \/ loop' = loop \/ loop' \in {Idle, [at |-> "stop"], [at |-> "next"]}
      \/ \E t \in Track, q \in UNION {[1..n -> Track] : n \in 0..MaxQueue} : PlaySource(t, q)
      \/ Tick \/ TickSelects
  <2>1. CASE ReceiveCommand
    BY <2>1 DEF ReceiveCommand, SetQueue, PreFetch, SetLoopMode, Stop, NextLocked, tasks
  <2>2. CASE HandleCommand \/ Tick \/ TickWaits \/ TickAdvances \/ StatusStep
    BY <2>2 DEF HandleCommand, PlaySourceLocked, StopLocked, NextSent, TickWaits, TickDone,
                TickAdvances, GraceElapses, TickReserves, StatusStep, Look, Synchronize, tasks
  <2>3. CASE PlayStep \/ PrefetchStep
    BY <2>3 DEF PlayStep, PrefetchStep, TakePrefetched, OpenStream, CheckCurrent, PlayStream,
                PlayEnds, PrefetchBegins, PrefetchEnds
  <2>4. CASE EngineStep
    BY <2>4 DEF EngineStep, EngineCommand, HandlePlayStream, HandleStop, HandleNext,
                HandleSetStreamQueue, InstallStart, EndOfTrack, StepWithoutSession, tasks
  <2> QED
    BY <2>1, <2>2, <2>3, <2>4 DEF Next
<1> QED
    BY <1>1, <1>2, <1>3, <1>4, <1>5, <1>6

\* What a spawned task is, and where a task goes.
LEMMA PlaysMove ==
    ASSUME AgentAssumption, TypeInv, Next
    PROVE  \/ plays' \subseteq plays
           \/ \E p \in plays, at \in Opening \cup {"failed", "refused", "played"} :
                  plays' = (plays \ {p}) \cup {[p EXCEPT !.at = at]}
           \/ /\ PlaySourceLocked
              /\ plays' = plays \cup {PlayTask(rt.generation + 1, loop.track, loop.epoch)}
           \/ /\ TickReserves
              /\ plays' = plays \cup {PlayTask(loop.generation, loop.track, epoch + 1)}
<1>1. CASE ReceiveCommand
    BY <1>1 DEF ReceiveCommand, PlaySource, SetQueue, PreFetch, SetLoopMode, Stop, NextLocked, tasks
<1>2. CASE HandleCommand \/ Tick \/ TickWaits \/ TickAdvances \/ StatusStep
    BY <1>2 DEF HandleCommand, PlaySourceLocked, Spawn, StopLocked, NextSent, Tick, TickWaits,
                TickAdvances, GraceElapses, TickSelects, TickReserves, StatusStep, Look,
                Synchronize, tasks
<1>3. CASE PlayStep
  <2>1. PICK p \in plays :
            TakePrefetched(p) \/ OpenStream(p) \/ CheckCurrent(p) \/ PlayStream(p) \/ PlayEnds(p)
    BY <1>3 DEF PlayStep
  <2>2. CASE CheckCurrent(p) \/ PlayEnds(p)
    BY <2>2 DEF CheckCurrent, PlayEnds, Becomes, Ends, Opening
  <2>3. CASE OpenStream(p) \/ PlayStream(p)
    BY <2>3 DEF OpenStream, PlayStream, Becomes, Opening
  <2>4. CASE TakePrefetched(p)
    BY <2>4 DEF TakePrefetched, Becomes, Opening
  <2> QED
    BY <2>1, <2>2, <2>3, <2>4
<1>4. CASE PrefetchStep \/ EngineStep
    BY <1>4 DEF PrefetchStep, PrefetchBegins, PrefetchEnds, EngineStep, EngineCommand,
                HandlePlayStream, HandleStop, HandleNext, HandleSetStreamQueue, InstallStart,
                EndOfTrack, StepWithoutSession, tasks
<1> QED
    BY <1>1, <1>2, <1>3, <1>4 DEF Next

LEMMA TasksStep ==
    ASSUME AgentAssumption, TypeInv, Next
    PROVE  TasksOK'
<1>1. plays' \subseteq PlayState
  <2>1. plays \subseteq PlayState /\ rt.generation \in Nat /\ epoch \in Nat
    BY DEF TypeInv, TasksOK, RuntimeOK, Sound, Typed, Runtime, PlayerOK
  <2>2. CASE plays' \subseteq plays
    BY <2>1, <2>2
  <2>3. ASSUME NEW p \in plays, NEW at \in Opening \cup {"failed", "refused", "played"},
               plays' = (plays \ {p}) \cup {[p EXCEPT !.at = at]}
        PROVE  plays' \subseteq PlayState
    BY <2>1, <2>3 DEF PlayState
  <2>4. CASE PlaySourceLocked
             /\ plays' = plays \cup {PlayTask(rt.generation + 1, loop.track, loop.epoch)}
    <3>1. loop.track \in Track /\ loop.epoch \in Nat
        BY <2>4, PlaySourceTurns
    <3> QED
        BY <2>1, <2>4, <3>1 DEF PlayTask, PlayState, Opening
  <2>5. CASE TickReserves
             /\ plays' = plays \cup {PlayTask(loop.generation, loop.track, epoch + 1)}
    <3>1. loop.track \in Track /\ loop.generation \in Nat
        BY <2>5 DEF TickReserves, TypeInv, LoopOK, LoopState, Idle
    <3> QED
        BY <2>1, <2>5, <3>1 DEF PlayTask, PlayState, Opening
  <2> QED
    BY <2>2, <2>3, <2>4, <2>5, PlaysMove
<1>2. prefetches' \subseteq PrefetchState
  <2>1. prefetches \subseteq PrefetchState /\ received \in Nat
    BY DEF TypeInv, TasksOK, HistoryOK
  <2>2. CASE prefetches' \subseteq prefetches
    BY <2>1, <2>2
  <2>3. ASSUME NEW t \in Track, PreFetch(t)
        PROVE  prefetches' \subseteq PrefetchState
    BY <2>1, <2>3 DEF PreFetch, Receive, PrefetchState
  <2>4. ASSUME NEW f \in prefetches, PrefetchBegins(f) \/ PrefetchEnds(f)
        PROVE  prefetches' \subseteq PrefetchState
    <3>1. \/ prefetches' = prefetches \ {f}
          \/ prefetches' = (prefetches \ {f}) \cup {[f EXCEPT !.at = "opening"]}
        BY <2>4 DEF PrefetchBegins, PrefetchEnds
    <3> QED
        BY <2>1, <3>1 DEF PrefetchState
  <2>5. CASE ReceiveCommand
    BY <2>2, <2>3, <2>5 DEF ReceiveCommand, PlaySource, SetQueue, SetLoopMode, Stop, NextLocked,
                tasks
  <2>6. CASE HandleCommand \/ Tick \/ TickWaits \/ TickAdvances \/ StatusStep
    BY <2>2, <2>6 DEF HandleCommand, PlaySourceLocked, StopLocked, NextSent, Tick, TickWaits,
                TickAdvances, GraceElapses, TickSelects, TickReserves, StatusStep, Look,
                Synchronize, tasks
  <2>7. CASE PlayStep
    BY <2>2, <2>7 DEF PlayStep, TakePrefetched, OpenStream, CheckCurrent, PlayStream, PlayEnds
  <2>8. CASE PrefetchStep
    BY <2>4, <2>8 DEF PrefetchStep
  <2>9. CASE EngineStep
    BY <2>2, <2>9 DEF EngineStep, EngineCommand, HandlePlayStream, HandleStop, HandleNext,
                HandleSetStreamQueue, InstallStart, EndOfTrack, StepWithoutSession, tasks
  <2> QED
    BY <2>5, <2>6, <2>7, <2>8, <2>9 DEF Next
<1>3. status' \in [at : {"idle", "seen"}, file : Maybe]
  <2>1. CASE status' = status
    BY <2>1 DEF TypeInv, TasksOK
  <2>2. CASE Look \/ Synchronize
    BY <2>2 DEF Look, Synchronize, NotLooking, TypeInv, PlayerOK, Engine, Maybe
  <2>3. CASE ReceiveCommand
    BY <2>1, <2>3 DEF ReceiveCommand, PlaySource, SetQueue, PreFetch, SetLoopMode, Stop,
                NextLocked, tasks
  <2>4. CASE HandleCommand \/ Tick \/ TickWaits \/ TickAdvances
    BY <2>1, <2>4 DEF HandleCommand, PlaySourceLocked, StopLocked, NextSent, Tick, TickWaits,
                TickAdvances, GraceElapses, TickSelects, TickReserves, tasks
  <2>5. CASE PlayStep \/ PrefetchStep
    BY <2>1, <2>5 DEF PlayStep, TakePrefetched, OpenStream, CheckCurrent, PlayStream, PlayEnds,
                PrefetchStep, PrefetchBegins, PrefetchEnds
  <2>6. CASE EngineStep
    BY <2>1, <2>6 DEF EngineStep, EngineCommand, HandlePlayStream, HandleStop, HandleNext,
                HandleSetStreamQueue, InstallStart, EndOfTrack, StepWithoutSession, tasks
  <2> QED
    BY <2>2, <2>3, <2>4, <2>5, <2>6 DEF Next, StatusStep
<1> QED
    BY <1>1, <1>2, <1>3 DEF TasksOK

\* What is sent is one command, or two, under an epoch that has been given out.
Sent(e) == {c \in Command : c.epoch <= e}

LEMMA ChannelGrows ==
    ASSUME AgentAssumption, TypeInv, Next
    PROVE  /\ \/ channel' = channel
              \/ channel # <<>> /\ channel' = Tail(channel)
              \/ \E c \in Sent(epoch') : channel' = Append(channel, c)
              \/ \E c, d \in Sent(epoch') : channel' = channel \o <<c, d>>
           /\ epoch' \in {epoch, epoch + 1}
<1>0. /\ epoch \in Nat /\ epoch + 1 \in Nat /\ rt.current \in Maybe /\ rt.queue \in Seq(Track)
      /\ Track \subseteq Maybe /\ None \in Maybe
    BY DEF TypeInv, PlayerOK, RuntimeOK, Sound, Typed, Runtime, Maybe
<1>1. \A e \in Nat, t \in Maybe, u \in Maybe,
         op \in {"PlayStream", "Stop", "Next", "SetStreamQueue"} : Cmd(op, e, t, u) \in Sent(e)
    BY DEF Cmd, Command, Sent
<1>2. CASE ReceiveCommand
  <2>1. ASSUME NEW q \in UNION {[1..n -> Track] : n \in 0..MaxQueue}, SetQueue(q)
        PROVE  /\ \/ channel' = channel
                  \/ \E c \in Sent(epoch') : channel' = Append(channel, c)
                  \/ \E c, d \in Sent(epoch') : channel' = channel \o <<c, d>>
               /\ epoch' = epoch
    <3> DEFINE clear == Cmd("SetStreamQueue", epoch, None, rt.current)
               fill == Cmd("SetStreamQueue", epoch, Head(q), rt.current)
    <3>1. \/ channel' = channel
          \/ channel' = Append(channel, clear)
          \/ q # <<>> /\ channel' = channel \o <<clear, fill>>
        <4>1. \A p : [rt EXCEPT !.queue = q, !.prefetched = p, !.armed = NotArmed].queue = q
            BY DEF TypeInv, RuntimeOK, Sound, Typed, Runtime
        <4>2. \/ channel' = channel
              \/ channel' = Append(channel, clear)
              \/ /\ \E p : CanArmFront([rt EXCEPT !.queue = q, !.prefetched = p, !.armed = NotArmed])
                 /\ channel' = channel \o <<clear, fill>>
            BY <2>1 DEF SetQueue, Send
        <4> QED
            BY <4>1, <4>2 DEF CanArmFront
    <3>2. q \in Seq(Track) /\ epoch' = epoch
        BY <2>1, QueueIsSeq DEF AgentAssumption, SetQueue
    <3>3. clear \in Sent(epoch) /\ (q # <<>> => fill \in Sent(epoch))
        BY <1>0, <1>1, <3>2
    <3> QED
        BY <3>1, <3>2, <3>3
  <2>2. ASSUME NEW on \in BOOLEAN, SetLoopMode(on)
        PROVE  /\ \/ channel' = channel
                  \/ \E c \in Sent(epoch') : channel' = Append(channel, c)
               /\ epoch' = epoch
    <3>1. \/ channel' = channel
          \/ channel' = Append(channel, Cmd("SetStreamQueue", epoch, None, rt.current))
          \/ rt.queue # <<>>
             /\ channel' = Append(channel, Cmd("SetStreamQueue", epoch, Head(rt.queue), rt.current))
        BY <2>2 DEF SetLoopMode, SendQueue, Send, CanArmFront
    <3> QED
        BY <1>0, <1>1, <2>2, <3>1 DEF SetLoopMode
  <2>3. CASE Stop
    BY <1>0, <1>1, <2>3 DEF Stop, Send, Claim
  <2>4. CASE channel' = channel /\ epoch' \in {epoch, epoch + 1}
    BY <2>4
  <2> QED
    BY <1>2, <2>1, <2>2, <2>3, <2>4
       DEF ReceiveCommand, PlaySource, Claim, PreFetch, NextLocked, player
<1>3. CASE HandleCommand \/ Tick \/ TickWaits \/ TickAdvances \/ StatusStep
  <2>1. CASE NextSent
    BY <1>0, <1>1, <2>1 DEF NextSent, Send, Claim
  <2> QED
    BY <1>3, <2>1 DEF HandleCommand, PlaySourceLocked, StopLocked, Tick, TickWaits, TickAdvances,
                GraceElapses, TickSelects, TickReserves, Claim, StatusStep, Look, Synchronize,
                player
<1>4. CASE PlayStep
  <2>1. PICK p \in plays :
            TakePrefetched(p) \/ OpenStream(p) \/ CheckCurrent(p) \/ PlayStream(p) \/ PlayEnds(p)
    BY <1>4 DEF PlayStep
  <2>2. p.track \in Maybe
    BY DEF TypeInv, TasksOK, PlayState, Maybe
  <2>3. \/ channel' = channel /\ epoch' = epoch
        \/ channel' = Append(channel, Cmd("PlayStream", epoch + 1, p.track, None)) /\ epoch' = epoch + 1
    <3>1. CASE PlayStream(p)
        BY <3>1 DEF PlayStream, Send, Claim
    <3>2. CASE TakePrefetched(p) \/ OpenStream(p) \/ CheckCurrent(p) \/ PlayEnds(p)
        BY <3>2 DEF TakePrefetched, OpenStream, CheckCurrent, PlayEnds, player
    <3> QED
        BY <2>1, <3>1, <3>2
  <2> QED
    BY <1>0, <1>1, <2>2, <2>3
<1>5. CASE PrefetchStep
  <2>1. PICK f \in prefetches : PrefetchBegins(f) \/ PrefetchEnds(f)
    BY <1>5 DEF PrefetchStep
  <2>2. f.track \in Maybe
    BY DEF TypeInv, TasksOK, PrefetchState, Maybe
  <2>3. /\ \/ channel' = channel
           \/ channel' = Append(channel, Cmd("SetStreamQueue", epoch, f.track, rt.current))
        /\ epoch' = epoch
    BY <2>1 DEF PrefetchBegins, PrefetchEnds, SendQueue, Send, player
  <2> QED
    BY <1>0, <1>1, <2>2, <2>3
<1>6. CASE EngineStep
    BY <1>6 DEF EngineStep, EngineCommand, HandlePlayStream, HandleStop, HandleNext,
                HandleSetStreamQueue, InstallStart, EndOfTrack, StepWithoutSession, Handle
<1> QED
    BY <1>2, <1>3, <1>4, <1>5, <1>6 DEF Next

LEMMA PlayerStep ==
    ASSUME AgentAssumption, TypeInv, Next
    PROVE  PlayerOK'
<1>0. epoch \in Nat /\ channel \in Seq(Command) /\ engine \in Engine /\ None \in Maybe
    BY DEF TypeInv, PlayerOK, Maybe
<1>1. epoch' \in Nat /\ Sent(epoch') \subseteq Command
    BY <1>0, ChannelGrows DEF Sent
<1>2. channel' \in Seq(Command)
  <2>1. CASE channel # <<>> /\ channel' = Tail(channel)
    BY <1>0, <2>1
  <2>2. ASSUME NEW c \in Command, channel' = Append(channel, c)
        PROVE  channel' \in Seq(Command)
    BY <1>0, <2>2
  <2>3. ASSUME NEW c \in Command, NEW d \in Command, channel' = channel \o <<c, d>>
        PROVE  channel' \in Seq(Command)
    <3>1. <<c, d>> \in Seq(Command)
        OBVIOUS
    <3> HIDE DEF Command
    <3> QED
        BY <1>0, <2>3, <3>1
  <2> QED
    BY <1>0, <1>1, <2>1, <2>2, <2>3, ChannelGrows
<1>3. engine' \in Engine
  <2>1. CASE engine' = engine
    BY <1>0, <2>1
  <2>2. CASE ReceiveCommand
    BY <1>0, <2>1, <2>2 DEF ReceiveCommand, PlaySource, SetQueue, PreFetch, SetLoopMode, Stop,
                NextLocked, player, Engine
  <2>3. CASE HandleCommand \/ Tick \/ TickWaits \/ TickAdvances \/ StatusStep
    BY <2>1, <2>3 DEF HandleCommand, PlaySourceLocked, StopLocked, NextSent, Tick, TickWaits,
                TickAdvances, GraceElapses, TickSelects, TickReserves, StatusStep, Look,
                Synchronize, player
  <2>4. CASE PlayStep \/ PrefetchStep
    BY <2>1, <2>4 DEF PlayStep, TakePrefetched, OpenStream, CheckCurrent, PlayStream, PlayEnds,
                PrefetchStep, PrefetchBegins, PrefetchEnds, player
  <2>5. CASE EngineCommand
    <3>1. channel # <<>>
        BY <2>5 DEF EngineCommand, HandlePlayStream, HandleStop, HandleNext, HandleSetStreamQueue,
                    Handle
    <3>2. Head(channel) \in Command
        BY <1>0, <3>1
    <3>3. Head(channel).epoch \in Nat /\ Head(channel).track \in Maybe
        BY <3>2 DEF Command
    <3> HIDE DEF Maybe
    <3>4. CASE HandlePlayStream
        BY <1>0, <3>3, <3>4 DEF HandlePlayStream, Engine
    <3>5. CASE HandleStop
        BY <1>0, <3>5 DEF HandleStop, Engine
    <3>6. CASE HandleNext
        <4> DEFINE q == engine.queue
        <4>1. q \in Maybe
            BY <1>0 DEF Engine
        <4>2. \/ engine' = engine
              \/ engine' = [engine EXCEPT !.pending = q, !.queue = None, !.pendingEpoch = epoch]
              \/ engine' = [engine EXCEPT !.active = FALSE, !.session = 0, !.file = None]
            BY <3>6 DEF HandleNext
        <4> HIDE DEF q
        <4>3. CASE engine' = [engine EXCEPT !.pending = q, !.queue = None, !.pendingEpoch = epoch]
            BY <1>0, <4>1, <4>3 DEF Engine
        <4>4. CASE engine' = [engine EXCEPT !.active = FALSE, !.session = 0, !.file = None]
            BY <1>0, <4>4 DEF Engine
        <4> QED
            BY <2>1, <4>2, <4>3, <4>4
    <3>7. CASE HandleSetStreamQueue
        BY <1>0, <3>3, <3>7 DEF HandleSetStreamQueue, Engine
    <3> QED
        BY <2>5, <3>4, <3>5, <3>6, <3>7 DEF EngineCommand
  <2>6. CASE EndOfTrack
    <3> DEFINE q == engine.queue
               e == engine.session
    <3>1. q \in Maybe /\ e \in Nat
        BY <1>0 DEF Engine
    <3>2. \/ engine' = [engine EXCEPT !.session = 0, !.pending = q, !.queue = None, !.pendingEpoch = e]
          \/ engine' = [engine EXCEPT !.active = FALSE, !.session = 0, !.file = None, !.queue = None]
        BY <2>6 DEF EndOfTrack
    <3> HIDE DEF q, e
    <3>3. CASE engine' = [engine EXCEPT !.session = 0, !.pending = q, !.queue = None,
                                        !.pendingEpoch = e]
        BY <1>0, <3>1, <3>3 DEF Engine
    <3>4. CASE engine' = [engine EXCEPT !.active = FALSE, !.session = 0, !.file = None,
                                        !.queue = None]
        BY <1>0, <3>4 DEF Engine
    <3> QED
        BY <3>2, <3>3, <3>4
  <2>7. CASE StepWithoutSession
    BY <1>0, <2>7 DEF StepWithoutSession, Engine
  <2>8. CASE InstallStart
    <3> DEFINE e == engine.pendingEpoch
               free == [engine EXCEPT !.pending = None, !.pendingEpoch = 0]
               n == IF engine.queue = None THEN 0 ELSE e
               b == engine.queue # None
               opened == [free EXCEPT !.file = engine.pending, !.active = TRUE, !.session = e]
               failed == [free EXCEPT !.file = None, !.session = 0, !.queue = None,
                                      !.pending = engine.queue, !.pendingEpoch = n, !.active = b]
    <3>1. engine' = free \/ engine' = opened \/ engine' = failed
        BY <2>8 DEF InstallStart
    <3>2. /\ free \in Engine /\ e \in Nat /\ n \in Nat /\ b \in BOOLEAN
          /\ engine.pending \in Maybe /\ engine.queue \in Maybe
        BY <1>0 DEF Engine
    <3> HIDE DEF free, n, b, e
    <3>3. opened \in Engine
        BY <3>2 DEF Engine
    <3>4. failed \in Engine
        BY <1>0, <3>2 DEF Engine
    <3> QED
        BY <3>1, <3>2, <3>3, <3>4
  <2> QED
    BY <2>2, <2>3, <2>4, <2>5, <2>6, <2>7, <2>8 DEF Next, EngineStep
<1> QED
    BY <1>1, <1>2, <1>3 DEF PlayerOK

LEMMA ReceiveCounts ==
    ASSUME ReceiveCommand
    PROVE  /\ received' = received + 1 /\ loop = Idle
           /\ stopped' \in BOOLEAN \/ stopped' = stopped
           /\ \/ loop' = loop \/ loop'.at \notin {"play", "reserve"}
              \/ loop'.at = "play" /\ loop'.epoch = epoch + 1 /\ epoch' = epoch + 1
<1>1. ASSUME NEW t \in Track, NEW q, PlaySource(t, q)
      PROVE  /\ received' = received + 1 /\ loop = Idle
             /\ stopped' \in BOOLEAN \/ stopped' = stopped
             /\ loop'.at = "play" /\ loop'.epoch = epoch + 1 /\ epoch' = epoch + 1
    BY <1>1 DEF PlaySource, Receive, Claim
<1>2. ASSUME NEW q, SetQueue(q)
      PROVE  /\ received' = received + 1 /\ loop = Idle
             /\ stopped' \in BOOLEAN \/ stopped' = stopped
             /\ loop' = loop
    BY <1>2 DEF SetQueue, Receive, tasks
<1>3. ASSUME NEW t, PreFetch(t)
      PROVE  /\ received' = received + 1 /\ loop = Idle
             /\ stopped' \in BOOLEAN \/ stopped' = stopped
             /\ loop' = loop
    BY <1>3 DEF PreFetch, Receive
<1>4. ASSUME NEW on, SetLoopMode(on)
      PROVE  /\ received' = received + 1 /\ loop = Idle
             /\ stopped' \in BOOLEAN \/ stopped' = stopped
             /\ loop' = loop
    BY <1>4 DEF SetLoopMode, Receive, tasks
<1>5. CASE Stop
    BY <1>5 DEF Stop, Receive
<1>6. CASE NextLocked
    BY <1>6 DEF NextLocked, Receive
<1> QED
    BY <1>1, <1>2, <1>3, <1>4, <1>5, <1>6 DEF ReceiveCommand

LEMMA OthersKeepHistory ==
    ASSUME Next
    PROVE  UNCHANGED history \/ ReceiveCommand
<1>1. CASE HandleCommand \/ Tick \/ TickWaits \/ TickAdvances \/ StatusStep
    BY <1>1 DEF HandleCommand, PlaySourceLocked, StopLocked, NextSent, Tick, TickWaits,
                TickAdvances, GraceElapses, TickSelects, TickReserves, StatusStep, Look,
                Synchronize
<1>2. CASE PlayStep \/ PrefetchStep
    BY <1>2 DEF PlayStep, TakePrefetched, OpenStream, CheckCurrent, PlayStream, PlayEnds,
                PrefetchStep, PrefetchBegins, PrefetchEnds
<1>3. CASE EngineStep
    BY <1>3 DEF EngineStep, EngineCommand, HandlePlayStream, HandleStop, HandleNext,
                HandleSetStreamQueue, InstallStart, EndOfTrack, StepWithoutSession
<1> QED
    BY <1>1, <1>2, <1>3 DEF Next

LEMMA HistoryStep ==
    ASSUME AgentAssumption, TypeInv, Next
    PROVE  HistoryOK'
<1>0. received \in Nat /\ stopped \in BOOLEAN
    BY DEF TypeInv, HistoryOK
<1>1. CASE ReceiveCommand
    BY <1>0, <1>1, ReceiveCounts DEF HistoryOK
<1>2. CASE UNCHANGED history
    BY <1>0, <1>2 DEF history, HistoryOK
<1> QED
    BY <1>1, <1>2, OthersKeepHistory

\* The loop holds an epoch, or a generation, only from its own steps.
LEMMA LoopMoves ==
    ASSUME AgentAssumption, TypeInv, Next
    PROVE  /\ loop'.at = "play" =>
                  loop' = loop \/ (loop'.epoch = epoch + 1 /\ epoch' = epoch + 1 /\ loop = Idle)
           /\ loop'.at = "reserve" =>
                  loop' = loop \/ (TickSelects /\ loop'.generation = rt'.generation)
<1>1. CASE ReceiveCommand
    BY <1>1, ReceiveCounts
<1>2. CASE HandleCommand \/ Tick \/ TickWaits \/ GraceElapses \/ TickReserves \/ StatusStep
    BY <1>2 DEF HandleCommand, PlaySourceLocked, StopLocked, NextSent, Tick, TickWaits, TickDone,
                GraceElapses, TickReserves, StatusStep, Look, Synchronize, tasks, Idle
<1>3. CASE TickSelects
    BY <1>3, TickSelectsTurns DEF Idle
<1>4. CASE PlayStep \/ PrefetchStep
    BY <1>4 DEF PlayStep, TakePrefetched, OpenStream, CheckCurrent, PlayStream, PlayEnds,
                PrefetchStep, PrefetchBegins, PrefetchEnds
<1>5. CASE EngineStep
    BY <1>5 DEF EngineStep, EngineCommand, HandlePlayStream, HandleStop, HandleNext,
                HandleSetStreamQueue, InstallStart, EndOfTrack, StepWithoutSession, tasks
<1> QED
    BY <1>1, <1>2, <1>3, <1>4, <1>5 DEF Next, TickAdvances

LEMMA NumberedStep ==
    ASSUME AgentAssumption, TypeInv, Next
    PROVE  Numbered'
<1>0. /\ Numbered /\ epoch \in Nat /\ epoch' \in {epoch, epoch + 1}
      /\ rt.generation \in Nat /\ rt'.generation \in {rt.generation, rt.generation + 1}
      /\ plays \subseteq PlayState
    BY RuntimeStep, ChannelGrows
       DEF TypeInv, PlayerOK, RuntimeOK, Sound, Typed, Runtime, TasksOK
<1>1. \A p \in plays : p.generation \in 1..rt'.generation /\ p.epoch \in 1..epoch'
    BY <1>0 DEF Numbered
<1>2. \A p \in plays' : p.generation \in 1..rt'.generation /\ p.epoch \in 1..epoch'
  <2>1. CASE plays' \subseteq plays
    BY <1>1, <2>1
  <2>2. ASSUME NEW p \in plays, NEW at \in Opening \cup {"failed", "refused", "played"},
               plays' = (plays \ {p}) \cup {[p EXCEPT !.at = at]}
        PROVE  \A u \in plays' : u.generation \in 1..rt'.generation /\ u.epoch \in 1..epoch'
    <3>1. /\ [p EXCEPT !.at = at].generation = p.generation
          /\ [p EXCEPT !.at = at].epoch = p.epoch
        BY <1>0 DEF PlayState
    <3> QED
        BY <1>1, <2>2, <3>1
  <2>3. CASE PlaySourceLocked
             /\ plays' = plays \cup {PlayTask(rt.generation + 1, loop.track, loop.epoch)}
    <3>1. rt'.generation = rt.generation + 1 /\ loop.epoch \in 1..epoch
        BY <1>0, <2>3, PlaySourceTurns DEF Numbered, PlaySourceLocked
    <3> QED
        BY <1>0, <1>1, <2>3, <3>1 DEF PlayTask
  <2>4. CASE TickReserves
             /\ plays' = plays \cup {PlayTask(loop.generation, loop.track, epoch + 1)}
    <3>1. loop.generation \in 1..rt.generation /\ epoch' = epoch + 1
        BY <1>0, <2>4 DEF Numbered, TickReserves, Claim
    <3> QED
        BY <1>0, <1>1, <2>4, <3>1 DEF PlayTask
  <2> QED
    BY <2>1, <2>2, <2>3, <2>4, PlaysMove
<1>3. loop'.at = "play" => loop'.epoch \in 1..epoch'
    BY <1>0, LoopMoves DEF Numbered
<1>4. loop'.at = "reserve" => loop'.generation \in 1..rt'.generation
    BY <1>0, LoopMoves, TickSelectsTurns DEF Numbered, Idle
<1> QED
    BY <1>2, <1>3, <1>4 DEF Numbered
-----------------------------------------------------------------------------
LEMMA TypeInit ==
    ASSUME AgentAssumption, Init
    PROVE  TypeInv
<1>1. IsFiniteSet({}) /\ Cardinality({}) = 0
    BY FS_EmptySet
<1>2. RuntimeOK
    BY <1>1 DEF Init, RuntimeOK, Sound, Typed, ArmedFront, Runtime, ArmedStream, Maybe, NotArmed,
                AgentAssumption
<1>3. LoopOK /\ TasksOK /\ HistoryOK /\ Numbered
    BY DEF Init, LoopOK, LoopState, TasksOK, HistoryOK, Numbered, Idle, NotLooking, Maybe
<1>4. PlayerOK
    BY DEF Init, PlayerOK, Engine, Maybe
<1> QED
    BY <1>2, <1>3, <1>4 DEF TypeInv

LEMMA TypeStep ==
    ASSUME AgentAssumption, TypeInv, [Next]_vars
    PROVE  TypeInv'
<1>1. CASE Next
    BY <1>1, RuntimeStep, LoopStep, TasksStep, PlayerStep, HistoryStep, NumberedStep DEF TypeInv
<1>2. CASE UNCHANGED vars
  <2>1. UNCHANGED rt /\ UNCHANGED tasks /\ UNCHANGED player /\ UNCHANGED history
    BY <1>2 DEF vars
  <2>2. RuntimeOK'
    BY <2>1 DEF TypeInv, RuntimeOK, Sound, Typed, ArmedFront
  <2> QED
    BY <2>1, <2>2 DEF tasks, player, history, TypeInv, LoopOK, TasksOK, PlayerOK, HistoryOK, Numbered
<1> QED
    BY <1>1, <1>2

LEMMA TypeInvariant ==
    ASSUME AgentAssumption
    PROVE  Spec => []TypeInv
<1>1. Init => TypeInv
    BY TypeInit
<1>2. TypeInv /\ [Next]_vars => TypeInv'
    BY TypeStep
<1> QED
    BY <1>1, <1>2, PTL DEF Spec

(* The runtime state is well formed and keeps at most MaxPrefetched open streams *)
(* after every critical section, and no task is of a generation or an epoch that  *)
(* has not been given out (agent/runtime.rs, agent/prefetch.rs).                  *)
THEOREM TypeCorrect ==
    ASSUME AgentAssumption
    PROVE  Spec => []TypeOK
<1>1. TypeInv => TypeOK
  <2>1. ASSUME TypeInv
        PROVE  TypeOK
    <3>1. RuntimeOK /\ LoopOK /\ TasksOK /\ PlayerOK /\ HistoryOK /\ Numbered
        BY <2>1 DEF TypeInv
    <3>2. /\ rt.queue \in Seq(Track) /\ rt.current \in Track \cup {None}
          /\ rt.generation \in Nat /\ rt.loading \in 0..rt.generation
          /\ rt.armed \in [track: Track \cup {None}, observed: BOOLEAN]
          /\ rt.prefetched \subseteq Track /\ Cardinality(rt.prefetched) <= MaxPrefetched
          /\ rt.prefetching \in Track \cup {None}
        BY <3>1 DEF RuntimeOK, Sound, Typed, Runtime, Maybe, ArmedStream
    <3>3. {rt.late, rt.wasActive, rt.skip, rt.repeatOne} \subseteq BOOLEAN
        BY <3>1 DEF RuntimeOK, Sound, Typed, Runtime
    <3>4. loop.at \in {"idle", "play", "stop", "next", "tick", "reserve"}
        BY <3>1 DEF LoopOK, LoopState, Idle
    <3>5. /\ status \in [at: {"idle", "seen"}, file: Track \cup {None}]
          /\ engine.file \in Track \cup {None} /\ engine.queue \in Track \cup {None}
        BY <3>1 DEF TasksOK, PlayerOK, Engine, Maybe
    <3> QED
        BY <3>1, <3>2, <3>3, <3>4, <3>5 DEF Numbered, TypeOK
  <2> QED
    BY <2>1
<1> QED
    BY <1>1, TypeInvariant, PTL
-----------------------------------------------------------------------------
(* Loading, and the order of the queue. *)

\* A step that neither turns the runtime nor touches the tasks that play.
Quiet ==
    /\ Agree(rt, rt') /\ plays' = plays
    /\ loop' = loop \/ (loop.at # "reserve" /\ loop'.at # "reserve")

LEMMA QuietSteps ==
    ASSUME AgentAssumption, TypeInv, Next
    PROVE  \/ Quiet \/ PlaySourceLocked \/ StopLocked \/ TickSelects \/ TickReserves
           \/ PlayStep \/ Synchronize \/ \E q \in Seq(Track) : SetQueue(q)
<1>1. CASE ReceiveCommand
  <2>1. loop' = loop \/ (loop.at # "reserve" /\ loop'.at # "reserve")
    BY <1>1, ReceiveCounts DEF Idle
  <2>2. ASSUME NEW q \in UNION {[1..n -> Track] : n \in 0..MaxQueue}, SetQueue(q)
        PROVE  \E u \in Seq(Track) : SetQueue(u)
    <3>1. q \in Seq(Track)
        BY <2>2, QueueIsSeq DEF AgentAssumption
    <3> QED
        BY <2>2, <3>1
  <2>3. ASSUME NEW on \in BOOLEAN, SetLoopMode(on)
        PROVE  Agree(rt, rt') /\ plays' = plays
    BY <2>3, SetLoopModeKeeps DEF SetLoopMode, tasks
  <2>4. ASSUME NextLocked
        PROVE  Agree(rt, rt') /\ plays' = plays
    BY <2>4, FlagsKeep DEF NextLocked
  <2>5. ASSUME NEW t \in Track, NEW q, PlaySource(t, q)
        PROVE  Agree(rt, rt') /\ plays' = plays
    BY <2>5 DEF PlaySource, Agree
  <2>6. ASSUME NEW t \in Track, PreFetch(t)
        PROVE  Agree(rt, rt') /\ plays' = plays
    BY <2>6 DEF PreFetch, Agree
  <2>7. ASSUME Stop
        PROVE  Agree(rt, rt') /\ plays' = plays
    BY <2>7 DEF Stop, Agree
  <2>8. (Agree(rt, rt') /\ plays' = plays) \/ \E q \in Seq(Track) : SetQueue(q)
    BY <1>1, <2>2, <2>3, <2>4, <2>5, <2>6, <2>7 DEF ReceiveCommand
  <2> QED
    BY <2>1, <2>8 DEF Quiet
<1>2. CASE TickWaits
    BY <1>2, FlagsKeep DEF TickWaits, TickDone, Quiet, Idle
<1>3. CASE GraceElapses
    BY <1>3, FlagsKeep DEF GraceElapses, Quiet, tasks
<1>4. CASE NextSent \/ Tick \/ Look
    BY <1>4 DEF NextSent, Tick, Look, Quiet, Agree, Idle
<1>5. CASE PrefetchStep
  <2>1. PICK f \in prefetches : PrefetchBegins(f) \/ PrefetchEnds(f)
    BY <1>5 DEF PrefetchStep
  <2> QED
    BY <2>1, PrefetchBeginsKeeps, PrefetchEndsKeeps DEF PrefetchBegins, PrefetchEnds, Quiet
<1>6. CASE EngineStep
    BY <1>6 DEF EngineStep, EngineCommand, HandlePlayStream, HandleStop, HandleNext,
                HandleSetStreamQueue, InstallStart, EndOfTrack, StepWithoutSession, tasks,
                Quiet, Agree
<1> QED
    BY <1>1, <1>2, <1>3, <1>4, <1>5, <1>6 DEF Next, HandleCommand, TickAdvances, StatusStep

\* While a track is loading, the task of the newest generation, or the tick that is
\* about to spawn it, is for the current one: it does not find itself superseded.
OnTrack ==
    rt.loading # 0 =>
        /\ \A p \in plays : p.generation = rt.generation => p.track = rt.current
        /\ loop.at = "reserve" /\ loop.generation = rt.generation => loop.track = rt.current

LoadInv == TypeInv /\ LoadingHasTask /\ OnTrack

LEMMA LoadsPlayStep ==
    ASSUME AgentAssumption, LoadInv, PlayStep
    PROVE  LoadingHasTask' /\ OnTrack'
<1>0. TypeInv /\ LoadingHasTask /\ OnTrack /\ plays \subseteq PlayState
    BY DEF LoadInv, TypeInv, TasksOK
<1>1. PICK p \in plays :
          TakePrefetched(p) \/ OpenStream(p) \/ CheckCurrent(p) \/ PlayStream(p) \/ PlayEnds(p)
    BY DEF PlayStep
<1>2. loop' = loop
    BY <1>1 DEF TakePrefetched, OpenStream, CheckCurrent, PlayStream, PlayEnds
<1>3. CASE \E at : Becomes(p, at) /\ Agree(rt, rt')
  <2>1. PICK at : plays' = (plays \ {p}) \cup {[p EXCEPT !.at = at]} /\ Agree(rt, rt')
    BY <1>3 DEF Becomes
  <2>2. /\ [p EXCEPT !.at = at].generation = p.generation
        /\ [p EXCEPT !.at = at].track = p.track
    BY <1>0 DEF PlayState
  <2>3. LoadingHasTask'
    BY <1>0, <1>2, <2>1, <2>2 DEF LoadingHasTask, Agree
  <2>4. OnTrack'
    BY <1>0, <1>2, <2>1, <2>2 DEF OnTrack, Agree
  <2> QED
    BY <2>3, <2>4
<1>4. CASE Ends(p) /\ Agree(rt, rt') /\ p.generation # rt.generation
  <2>1. LoadingHasTask'
    BY <1>0, <1>2, <1>4 DEF LoadingHasTask, Agree, Ends
  <2>2. OnTrack'
    BY <1>0, <1>2, <1>4 DEF OnTrack, Agree, Ends
  <2> QED
    BY <2>1, <2>2
<1>5. CASE rt'.loading = 0
    BY <1>5 DEF LoadingHasTask, OnTrack
<1>6. CASE TakePrefetched(p)
    BY <1>0, <1>3, <1>6, TakePrefetchedKeeps DEF TakePrefetched
<1>7. CASE OpenStream(p) \/ PlayStream(p)
    BY <1>3, <1>7 DEF OpenStream, PlayStream, Agree
<1>8. CASE CheckCurrent(p)
  <2>1. CASE StillCurrent(p)
    BY <1>3, <1>8, <2>1 DEF CheckCurrent, Agree
  <2>2. CASE rt.loading = 0
    BY <1>5, <1>8, <2>2 DEF CheckCurrent
  <2>3. CASE ~StillCurrent(p) /\ rt.loading # 0
    <3>1. p.generation # rt.generation
        BY <1>0, <2>3 DEF OnTrack, StillCurrent
    <3> QED
        BY <1>4, <1>8, <2>3, <3>1 DEF CheckCurrent, Agree
  <2> QED
    BY <2>1, <2>2, <2>3
<1>9. CASE PlayEnds(p)
    BY <1>0, <1>4, <1>5, <1>9, PlayEndsKeeps DEF PlayEnds, Agree
<1> QED
    BY <1>1, <1>6, <1>7, <1>8, <1>9

LEMMA LoadsStep ==
    ASSUME AgentAssumption, LoadInv, [Next]_vars
    PROVE  LoadInv'
<1>0. /\ TypeInv /\ LoadingHasTask /\ OnTrack /\ rt.generation \in Nat /\ RuntimeOK
      /\ \A p \in plays : p.generation \in 1..rt.generation
      /\ loop.at = "reserve" => loop.generation \in 1..rt.generation
    BY DEF LoadInv, TypeInv, RuntimeOK, Sound, Typed, Runtime, Numbered
<1>1. TypeInv'
    BY <1>0, TypeStep
<1>2. LoadingHasTask' /\ OnTrack'
  <2>1. CASE Quiet
    BY <1>0, <2>1 DEF Quiet, Agree, LoadingHasTask, OnTrack
  <2>2. CASE PlaySourceLocked
    <3>1. /\ rt'.generation = rt.generation + 1 /\ rt'.loading = rt.generation + 1
          /\ rt'.current = loop.track /\ loop' = Idle
        BY <1>0, <2>2, PlaySourceTurns DEF PlaySourceLocked
    <3> DEFINE task == PlayTask(rt.generation + 1, loop.track, loop.epoch)
    <3>2. plays' = plays \cup {task} /\ task.generation = rt.generation + 1 /\ task.track = loop.track
        BY <2>2 DEF PlaySourceLocked, Spawn, PlayTask
    <3> HIDE DEF task
    <3>3. task \in plays' /\ \A p \in plays : p.generation # rt.generation + 1
        BY <1>0, <3>2
    <3>4. LoadingHasTask'
        BY <3>1, <3>2, <3>3 DEF LoadingHasTask
    <3>5. OnTrack'
        BY <3>1, <3>2, <3>3 DEF OnTrack, Idle
    <3> QED
        BY <3>4, <3>5
  <2>3. CASE StopLocked
    BY <1>0, <2>3, StopForgets DEF LoadingHasTask, OnTrack
  <2>4. CASE TickSelects
    BY <1>0, <2>4, TickSelectsTurns DEF TickSelects, LoadingHasTask, OnTrack, Idle
  <2>5. CASE TickReserves
    <3> DEFINE task == PlayTask(loop.generation, loop.track, epoch + 1)
    <3>1. /\ plays' = plays \cup {task} /\ rt' = rt /\ loop' = Idle /\ loop.at = "reserve"
          /\ task.generation = loop.generation /\ task.track = loop.track
        BY <2>5 DEF TickReserves, PlayTask
    <3> HIDE DEF task
    <3>2. LoadingHasTask'
        BY <1>0, <3>1 DEF LoadingHasTask
    <3>3. OnTrack'
        BY <1>0, <3>1 DEF OnTrack, Idle
    <3> QED
        BY <3>2, <3>3
  <2>6. CASE PlayStep
    BY <2>6, LoadsPlayStep
  <2>7. CASE Synchronize
    BY <1>0, <2>7, SynchronizeTurns DEF Synchronize, Agree, LoadingHasTask, OnTrack
  <2>8. ASSUME NEW q \in Seq(Track), SetQueue(q)
        PROVE  LoadingHasTask' /\ OnTrack'
    BY <1>0, <2>8, SetQueueTurns DEF SetQueue, tasks, LoadingHasTask, OnTrack
  <2>9. CASE UNCHANGED vars
    BY <1>0, <2>9 DEF vars, tasks, LoadingHasTask, OnTrack
  <2> QED
    BY <1>0, <2>1, <2>2, <2>3, <2>4, <2>5, <2>6, <2>7, <2>8, <2>9, QuietSteps
<1> QED
    BY <1>1, <1>2 DEF LoadInv

(* While loading_generation is set there is something that will clear it: a task  *)
(* of that generation, or the tick that has still to spawn it (agent/control.rs,  *)
(* agent/prefetch.rs).                                                            *)
THEOREM LoadsHaveTasks ==
    ASSUME AgentAssumption
    PROVE  Spec => []LoadingHasTask
<1>1. Init => LoadInv
  <2>1. Init => LoadingHasTask /\ OnTrack
    BY DEF LoadingHasTask, OnTrack, Init
  <2> QED
    BY <2>1, TypeInit DEF LoadInv
<1>2. LoadInv /\ [Next]_vars => LoadInv'
    BY LoadsStep
<1>3. LoadInv => LoadingHasTask
    BY DEF LoadInv
<1> QED
    BY <1>1, <1>2, <1>3, PTL DEF Spec

(* Without a command the agent turns to the head of its queue and takes just     *)
(* that, whichever of the tick and the status task sees the advance.             *)
THEOREM QueueTakenInOrder ==
    ASSUME AgentAssumption
    PROVE  Spec => TakenInOrder
<1> DEFINE Taken ==
        rt'.current \notin {None, rt.current} /\ loop.at # "play"
            => rt.queue # <<>> /\ rt'.current = Head(rt.queue) /\ rt'.queue = Tail(rt.queue)
<1>1. TypeInv /\ [Next]_vars => [Taken]_vars
  <2>1. ASSUME TypeInv, Next
        PROVE  Taken
    <3>1. CASE rt'.current = rt.current
        BY <3>1
    <3>2. CASE PlaySourceLocked
        BY <3>2 DEF PlaySourceLocked
    <3>3. CASE StopLocked
        BY <2>1, <3>3, StopForgets
    <3>4. CASE TickSelects
        BY <2>1, <3>4, TickSelectsTurns
    <3>5. CASE Synchronize
        BY <2>1, <3>5, SynchronizeTurns DEF Agree
    <3>6. CASE PlayStep
      <4>1. PICK p \in plays : UNCHANGED rt \/ TakePrefetched(p) \/ PlayEnds(p)
        BY <3>6 DEF PlayStep, OpenStream, CheckCurrent, PlayStream
      <4> QED
        BY <2>1, <3>1, <4>1, TakePrefetchedKeeps, PlayEndsKeeps DEF Agree
    <3>7. ASSUME NEW q \in Seq(Track), SetQueue(q)
          PROVE  Taken
        BY <2>1, <3>7, SetQueueTurns
    <3> QED
        BY <2>1, <3>1, <3>2, <3>3, <3>4, <3>5, <3>6, <3>7, QuietSteps DEF Quiet, Agree, TickReserves
  <2> QED
    BY <2>1
<1>2. (Spec => [][Taken]_vars) => (Spec => TakenInOrder)
    BY DEF TakenInOrder
<1> QED
    BY <1>1, <1>2, TypeInvariant, PTL DEF Spec
-----------------------------------------------------------------------------
(* After a Stop. *)

LEMMA AppendSet ==
    ASSUME NEW q \in Seq(Command), NEW c
    PROVE  ToSet(Append(q, c)) = ToSet(q) \cup {c}
<1>1. DOMAIN q = 1..Len(q) /\ DOMAIN Append(q, c) = 1..(Len(q) + 1) /\ Len(q) \in Nat
    OBVIOUS
<1>2. /\ \A i \in 1..Len(q) : Append(q, c)[i] = q[i]
      /\ Append(q, c)[Len(q) + 1] = c
    OBVIOUS
<1> QED
    BY <1>1, <1>2 DEF ToSet

LEMMA TailSet ==
    ASSUME NEW q \in Seq(Command), q # <<>>
    PROVE  ToSet(q) = {Head(q)} \cup ToSet(Tail(q))
<1> DEFINE r == Tail(q)
           n == Len(q)
<1>1. DOMAIN q = 1..n /\ n \in Nat /\ n >= 1 /\ DOMAIN r = 1..(n - 1)
    OBVIOUS
<1>2. q[1] = Head(q) /\ \A i \in 1..(n - 1) : r[i] = q[i + 1]
    OBVIOUS
<1> HIDE DEF r, n
<1>3. \A i \in 1..n : i = 1 \/ (i - 1 \in 1..(n - 1) /\ q[i] = r[i - 1])
    BY <1>1, <1>2
<1>4. \A i \in 1..(n - 1) : i + 1 \in 1..n
    BY <1>1
<1>5. 1 \in 1..n
    BY <1>1
<1>6. ToSet(q) \subseteq {Head(q)} \cup ToSet(r)
    BY <1>1, <1>2, <1>3 DEF ToSet
<1>7. {Head(q)} \cup ToSet(r) \subseteq ToSet(q)
    BY <1>1, <1>2, <1>4, <1>5 DEF ToSet
<1> QED
    BY <1>6, <1>7 DEF r

LEMMA PairSet ==
    ASSUME NEW q \in Seq(Command), NEW c, NEW d
    PROVE  ToSet(q \o <<c, d>>) \subseteq ToSet(q) \cup {c, d}
<1>1. Len(q \o <<c, d>>) = Len(q) + 2 /\ Len(q) \in Nat
    OBVIOUS
<1>2. /\ \A i \in 1..Len(q) : (q \o <<c, d>>)[i] = q[i]
      /\ (q \o <<c, d>>)[Len(q) + 1] = c /\ (q \o <<c, d>>)[Len(q) + 2] = d
    OBVIOUS
<1>3. \A i \in 1..(Len(q) + 2) : i \in 1..Len(q) \/ i = Len(q) + 1 \/ i = Len(q) + 2
    BY <1>1
<1> DEFINE r == q \o <<c, d>>
<1>4. DOMAIN r = 1..(Len(q) + 2) /\ DOMAIN q = 1..Len(q)
    OBVIOUS
<1>5. /\ \A i \in 1..Len(q) : r[i] = q[i]
      /\ r[Len(q) + 1] = c /\ r[Len(q) + 2] = d
    BY <1>2
<1> HIDE DEF r
<1>6. ToSet(r) \subseteq ToSet(q) \cup {c, d}
    BY <1>1, <1>3, <1>4, <1>5 DEF ToSet
<1> QED
    BY <1>6 DEF r

\* No command is of an epoch to come.
ChannelNumbered == \A c \in ToSet(channel) : c.epoch <= epoch

Silent == ~engine.active /\ engine.session = 0 /\ engine.pending = None
StopSent == \E c \in ToSet(channel) : c.op = "Stop" /\ c.epoch = epoch

\* Since the Stop nothing was claimed: what was being opened is superseded, what is
\* sent of the newest epoch starts nothing, and its Stop is on its way or was heard.
Silenced ==
    stopped =>
        /\ loop.at \in {"idle", "stop", "tick"}
        /\ loop.at # "stop" => rt.current = None /\ rt.queue = <<>>
        /\ \A p \in plays : p.epoch # epoch
        /\ \A c \in ToSet(channel) : c.epoch = epoch => c.op \in {"Stop", "SetStreamQueue"}
        /\ StopSent \/ Silent

SilenceInv == TypeInv /\ ChannelNumbered /\ Silenced

LEMMA ChannelNumberedStep ==
    ASSUME AgentAssumption, SilenceInv, Next
    PROVE  ChannelNumbered'
<1>1. /\ TypeInv /\ ChannelNumbered /\ channel \in Seq(Command) /\ epoch \in Nat
      /\ epoch' \in {epoch, epoch + 1}
    BY ChannelGrows DEF SilenceInv, TypeInv, PlayerOK
<1>2. \A c \in ToSet(channel) : c \in Command /\ c.epoch \in Nat /\ c.epoch <= epoch'
  <2>1. ToSet(channel) \subseteq Command
    BY <1>1 DEF ToSet
  <2>2. \A c \in Command : c.epoch \in Nat
    BY DEF Command
  <2> QED
    BY <1>1, <2>1, <2>2 DEF ChannelNumbered
<1>3. CASE channel' = channel
    BY <1>2, <1>3 DEF ChannelNumbered
<1>4. CASE channel # <<>> /\ channel' = Tail(channel)
    BY <1>1, <1>2, <1>4, TailSet DEF ChannelNumbered
<1>5. ASSUME NEW c \in Sent(epoch'), channel' = Append(channel, c)
      PROVE  ChannelNumbered'
    BY <1>1, <1>2, <1>5, AppendSet DEF ChannelNumbered, Sent
<1>6. ASSUME NEW c \in Sent(epoch'), NEW d \in Sent(epoch'), channel' = channel \o <<c, d>>
      PROVE  ChannelNumbered'
    BY <1>1, <1>2, <1>6, PairSet DEF ChannelNumbered, Sent
<1> QED
    BY <1>1, <1>3, <1>4, <1>5, <1>6, ChannelGrows

LEMMA StopSilences ==
    ASSUME AgentAssumption, SilenceInv, Stop
    PROVE  Silenced'
<1>1. /\ channel \in Seq(Command) /\ epoch \in Nat /\ ChannelNumbered
      /\ \A p \in plays : p.epoch \in 1..epoch
    BY DEF SilenceInv, TypeInv, PlayerOK, Numbered
<1> DEFINE c == Cmd("Stop", epoch + 1, None, None)
<1>2. /\ epoch' = epoch + 1 /\ channel' = Append(channel, c) /\ loop' = [at |-> "stop"]
      /\ plays' = plays /\ c.op = "Stop" /\ c.epoch = epoch + 1
    BY DEF Stop, Claim, Send, Cmd
<1> HIDE DEF c
<1>3. ToSet(channel') = ToSet(channel) \cup {c}
    BY <1>1, <1>2, AppendSet
<1>4. StopSent'
    BY <1>2, <1>3 DEF StopSent
<1>5. \A d \in ToSet(channel') : d.epoch = epoch' => d.op \in {"Stop", "SetStreamQueue"}
  <2>1. \A d \in ToSet(channel) : d.epoch # epoch'
    BY <1>1, <1>2 DEF ChannelNumbered
  <2> QED
    BY <1>2, <1>3, <2>1
<1>6. \A p \in plays' : p.epoch # epoch'
    BY <1>1, <1>2
<1> QED
    BY <1>2, <1>4, <1>5, <1>6 DEF Silenced

\* The agent's own steps that leave the Stop the last command.
Heeds ==
    /\ epoch' = epoch /\ engine' = engine
    /\ \/ channel' = channel
       \/ \E c : c.op = "SetStreamQueue" /\ channel' = Append(channel, c)
    /\ \A p \in plays' : \E u \in plays : p.epoch = u.epoch
    /\ loop'.at \in {"idle", "stop", "tick"}
    /\ loop'.at # "stop" => rt'.current = None /\ rt'.queue = <<>>

LEMMA HeedsSilences ==
    ASSUME AgentAssumption, SilenceInv, stopped, Heeds
    PROVE  Silenced'
<1>1. /\ channel \in Seq(Command) /\ Silenced
      /\ \A p \in plays : p.epoch # epoch
      /\ \A c \in ToSet(channel) : c.epoch = epoch => c.op \in {"Stop", "SetStreamQueue"}
      /\ StopSent \/ Silent
    BY DEF SilenceInv, TypeInv, PlayerOK, Silenced
<1>2. /\ ToSet(channel) \subseteq ToSet(channel')
      /\ \A c \in ToSet(channel') : c \in ToSet(channel) \/ c.op = "SetStreamQueue"
  <2>1. ASSUME NEW c, c.op = "SetStreamQueue", channel' = Append(channel, c)
        PROVE  /\ ToSet(channel) \subseteq ToSet(channel')
               /\ \A d \in ToSet(channel') : d \in ToSet(channel) \/ d.op = "SetStreamQueue"
    BY <1>1, <2>1, AppendSet
  <2> QED
    BY <2>1 DEF Heeds
<1>3. StopSent' \/ Silent'
    BY <1>1, <1>2 DEF Heeds, StopSent, Silent
<1>4. \A c \in ToSet(channel') : c.epoch = epoch' => c.op \in {"Stop", "SetStreamQueue"}
    BY <1>1, <1>2 DEF Heeds
<1>5. \A p \in plays' : p.epoch # epoch'
    BY <1>1 DEF Heeds
<1> QED
    BY <1>3, <1>4, <1>5 DEF Silenced, Heeds

LEMMA EngineSilences ==
    ASSUME AgentAssumption, SilenceInv, stopped, EngineStep
    PROVE  Silenced'
<1>1. /\ channel \in Seq(Command) /\ engine \in Engine /\ epoch \in Nat
      /\ loop.at \in {"idle", "stop", "tick"}
      /\ loop.at # "stop" => rt.current = None /\ rt.queue = <<>>
      /\ \A p \in plays : p.epoch # epoch
      /\ \A c \in ToSet(channel) : c.epoch = epoch => c.op \in {"Stop", "SetStreamQueue"}
      /\ StopSent \/ Silent
    BY DEF SilenceInv, TypeInv, PlayerOK, Silenced
<1>2. UNCHANGED <<rt, loop, plays, epoch, stopped>>
    BY DEF EngineStep, EngineCommand, HandlePlayStream, HandleStop, HandleNext,
           HandleSetStreamQueue, InstallStart, EndOfTrack, StepWithoutSession, tasks, history
<1>3. ToSet(channel') \subseteq ToSet(channel) /\ (StopSent' \/ Silent')
  <2>1. CASE EngineCommand
    <3> DEFINE h == Head(channel)
    <3>1. /\ channel # <<>> /\ channel' = Tail(channel)
          /\ ToSet(channel) = {h} \cup ToSet(channel')
        BY <1>1, <2>1, TailSet DEF EngineCommand, HandlePlayStream, HandleStop, HandleNext,
                                   HandleSetStreamQueue, Handle
    <3>2. h.epoch = epoch => h.op \in {"Stop", "SetStreamQueue"}
        BY <1>1, <3>1
    <3>3. Silent => Silent'
      <4>1. CASE HandleStop
        BY <1>1, <4>1 DEF HandleStop, Silent, Engine
      <4>2. CASE HandlePlayStream \/ HandleNext
        <5>1. engine' = engine
            BY <3>2, <4>2 DEF HandlePlayStream, HandleNext, Handle, Fresh
        <5> QED
            BY <5>1 DEF Silent
      <4>3. CASE HandleSetStreamQueue
        BY <1>1, <4>3 DEF HandleSetStreamQueue, Silent, Engine
      <4> QED
        BY <2>1, <4>1, <4>2, <4>3 DEF EngineCommand
    <3>4. ASSUME h.op = "Stop", h.epoch = epoch
          PROVE  Silent'
        BY <1>1, <2>1, <3>4
           DEF EngineCommand, HandlePlayStream, HandleStop, HandleNext, HandleSetStreamQueue, Handle,
               Fresh, Silent, Engine
    <3>5. ASSUME ~(h.op = "Stop" /\ h.epoch = epoch)
          PROVE  StopSent' \/ Silent'
      <4>1. StopSent => StopSent'
        BY <1>2, <3>1, <3>5 DEF StopSent
      <4> QED
        BY <1>1, <3>3, <4>1
    <3> QED
        BY <3>1, <3>4, <3>5
  <2>2. CASE InstallStart \/ EndOfTrack \/ StepWithoutSession
    <3>1. channel' = channel
        BY <2>2 DEF InstallStart, EndOfTrack, StepWithoutSession
    <3>2. ~Silent
        BY <2>2 DEF InstallStart, EndOfTrack, StepWithoutSession, Silent
    <3> QED
        BY <1>1, <1>2, <3>1, <3>2 DEF StopSent
  <2> QED
    BY <2>1, <2>2 DEF EngineStep
<1> QED
    BY <1>1, <1>2, <1>3 DEF Silenced

LEMMA AgentSilences ==
    ASSUME AgentAssumption, SilenceInv, stopped, stopped', Next, ~Stop, ~EngineStep
    PROVE  Heeds
<1>0. /\ TypeInv /\ loop.at \in {"idle", "stop", "tick"}
      /\ loop.at # "stop" => rt.current = None /\ rt.queue = <<>>
      /\ \A p \in plays : p.epoch # epoch
      /\ plays \subseteq PlayState
    BY DEF SilenceInv, Silenced, TypeInv, TasksOK
<1>1. CASE ReceiveCommand
  <2>1. ASSUME NEW on \in BOOLEAN, SetLoopMode(on)
        PROVE  Heeds
    <3>1. Agree(rt, rt') /\ UNCHANGED <<plays, loop, epoch, engine>>
        BY <1>0, <2>1, SetLoopModeKeeps DEF SetLoopMode, tasks
    <3>2. \/ channel' = channel
          \/ \E c : c.op = "SetStreamQueue" /\ channel' = Append(channel, c)
        BY <2>1 DEF SetLoopMode, SendQueue, Send, Cmd
    <3> QED
        BY <1>0, <3>1, <3>2 DEF Heeds, Agree
  <2>2. ASSUME NEW t \in Track, PreFetch(t)
        PROVE  Heeds
    BY <1>0, <2>2 DEF PreFetch, player, Heeds
  <2>3. ASSUME NEW q, SetQueue(q)
        PROVE  FALSE
    BY <2>3 DEF SetQueue
  <2> QED
    BY <1>1, <2>1, <2>2, <2>3 DEF ReceiveCommand, PlaySource, NextLocked
<1>2. CASE StopLocked
    BY <1>0, <1>2, StopForgets DEF StopLocked, player, Heeds, Idle
<1>3. CASE Tick \/ Look
    BY <1>0, <1>3 DEF Tick, Look, player, Heeds, Idle
<1>4. CASE TickWaits
    BY <1>0, <1>4, FlagsKeep DEF TickWaits, TickDone, player, Heeds, Idle, Agree
<1>5. CASE GraceElapses
    BY <1>0, <1>5, FlagsKeep DEF GraceElapses, player, tasks, Heeds, Agree
<1>6. CASE PlayStep
  <2>1. PICK p \in plays :
            TakePrefetched(p) \/ OpenStream(p) \/ CheckCurrent(p) \/ PlayStream(p) \/ PlayEnds(p)
    BY <1>6 DEF PlayStep
  <2>2. \A at : [p EXCEPT !.at = at].epoch = p.epoch
    BY <1>0 DEF PlayState
  <2>3. rt'.current = rt.current /\ rt'.queue = rt.queue
    BY <1>0, <2>1, TakePrefetchedKeeps, PlayEndsKeeps
       DEF Agree, OpenStream, CheckCurrent, PlayStream
  <2>4. UNCHANGED <<loop, epoch, channel, engine>>
    BY <1>0, <2>1 DEF TakePrefetched, OpenStream, CheckCurrent, PlayStream, Holds, PlayEnds, player
  <2>5. plays' = plays \ {p} \/ \E at : plays' = (plays \ {p}) \cup {[p EXCEPT !.at = at]}
    BY <2>1 DEF TakePrefetched, OpenStream, CheckCurrent, PlayStream, PlayEnds, Becomes, Ends
  <2>6. \A v \in plays' : \E u \in plays : v.epoch = u.epoch
    BY <2>2, <2>5
  <2> QED
    BY <1>0, <2>3, <2>4, <2>6 DEF Heeds
<1>7. CASE PrefetchStep
  <2>1. PICK f \in prefetches : PrefetchBegins(f) \/ PrefetchEnds(f)
    BY <1>7 DEF PrefetchStep
  <2>2. Agree(rt, rt') /\ UNCHANGED <<loop, plays, epoch, engine>>
    BY <1>0, <2>1, PrefetchBeginsKeeps, PrefetchEndsKeeps DEF PrefetchBegins, PrefetchEnds, player
  <2>3. \/ channel' = channel
        \/ \E c : c.op = "SetStreamQueue" /\ channel' = Append(channel, c)
    BY <2>1 DEF PrefetchBegins, PrefetchEnds, SendQueue, Send, Cmd, player
  <2> QED
    BY <1>0, <2>2, <2>3 DEF Heeds, Agree
<1>8. CASE Synchronize
    BY <1>0, <1>8, SynchronizeTurns DEF Synchronize, player, Heeds, Agree
<1>9. CASE PlaySourceLocked \/ NextSent \/ TickSelects \/ TickReserves
    BY <1>0, <1>9 DEF PlaySourceLocked, NextSent, TickSelects, TickReserves
<1> QED
    BY <1>1, <1>2, <1>3, <1>4, <1>5, <1>6, <1>7, <1>8, <1>9
       DEF Next, HandleCommand, TickAdvances, StatusStep

LEMMA SilenceStep ==
    ASSUME AgentAssumption, SilenceInv, [Next]_vars
    PROVE  SilenceInv'
<1>1. TypeInv'
    BY TypeStep DEF SilenceInv
<1>2. CASE UNCHANGED vars
  <2>1. ChannelNumbered'
    BY <1>2 DEF SilenceInv, vars, player, ChannelNumbered
  <2>2. Silenced'
    BY <1>2 DEF SilenceInv, vars, tasks, player, history, Silenced, StopSent, Silent
  <2> QED
    BY <1>1, <2>1, <2>2 DEF SilenceInv
<1>3. CASE Next
  <2>1. ChannelNumbered'
    BY <1>3, ChannelNumberedStep
  <2>2. ASSUME ~stopped'
        PROVE  Silenced'
    BY <2>2 DEF Silenced
  <2>3. ASSUME Stop
        PROVE  Silenced'
    BY <2>3, StopSilences
  <2>4. ASSUME stopped', ~Stop
        PROVE  stopped
    <3>1. CASE UNCHANGED history
        BY <2>4, <3>1 DEF history
    <3>2. CASE ReceiveCommand
      <4>1. ASSUME NEW t, NEW q, PlaySource(t, q)
            PROVE  FALSE
        BY <2>4, <4>1 DEF PlaySource
      <4>2. ASSUME NEW q, SetQueue(q)
            PROVE  FALSE
        BY <2>4, <4>2 DEF SetQueue
      <4>3. ASSUME NEW t, PreFetch(t)
            PROVE  stopped
        BY <2>4, <4>3 DEF PreFetch
      <4>4. ASSUME NEW on, SetLoopMode(on)
            PROVE  stopped
        BY <2>4, <4>4 DEF SetLoopMode
      <4>5. CASE NextLocked
        BY <2>4, <4>5 DEF NextLocked
      <4> QED
        BY <2>4, <3>2, <4>1, <4>2, <4>3, <4>4, <4>5 DEF ReceiveCommand
    <3>3. UNCHANGED history \/ ReceiveCommand
        BY <1>3, OthersKeepHistory
    <3> QED
        BY <3>1, <3>2, <3>3
  <2>5. ASSUME stopped', ~Stop, EngineStep
        PROVE  Silenced'
    BY <2>4, <2>5, EngineSilences
  <2>6. ASSUME stopped', ~Stop, ~EngineStep
        PROVE  Silenced'
    BY <1>3, <2>4, <2>6, AgentSilences, HeedsSilences
  <2>7. Silenced'
    BY <2>2, <2>3, <2>5, <2>6
  <2> QED
    BY <1>1, <2>1, <2>7 DEF SilenceInv
<1> QED
    BY <1>2, <1>3

(* After a Stop nothing plays until the core sends something to play, whatever    *)
(* was being opened, prefetched or selected when it came (agent/control.rs).      *)
THEOREM StopIsHeard ==
    ASSUME AgentAssumption
    PROVE  Spec => []StopHolds
<1>1. Init => SilenceInv
  <2>1. Init => ChannelNumbered /\ Silenced
    BY DEF Init, ChannelNumbered, Silenced, ToSet
  <2> QED
    BY <2>1, TypeInit DEF SilenceInv
<1>2. SilenceInv /\ [Next]_vars => SilenceInv'
    BY SilenceStep
<1>3. SilenceInv => StopHolds
  <2>1. ToSet(<<>>) = {}
    BY DEF ToSet
  <2> QED
    BY <2>1 DEF SilenceInv, Silenced, StopSent, Silent, StopHolds
<1> QED
    BY <1>1, <1>2, <1>3, PTL DEF Spec
=============================================================================
