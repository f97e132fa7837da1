---------------------------- MODULE WorkerQueues ----------------------------
(***************************************************************************)
(* The worker's file and stream queues (audio/engine/queue_state.rs) as     *)
(* operators on one record:                                                 *)
(*   file, stream  the two VecDeques                                        *)
(*   len           the atomic stream_queue_len other threads read           *)
(*   advancing     the atomic stream_auto_advance_pending they also read    *)
(* Only the worker writes any of the four.  A track's content plays no part *)
(* here: None stands for "no track".                                        *)
(***************************************************************************)
EXTENDS Naturals, Sequences

CONSTANT None

EmptyQueues == [file |-> <<>>, stream |-> <<>>, len |-> 0, advancing |-> FALSE]

\* Seeded fault: the flag is never lowered.
KeepAdvancing(q) == q
ClearAdvancing(q) == [q EXCEPT !.advancing = FALSE]

\* Seeded fault: the files queued before stay queued beside the streams.
StreamQueueBeside(q, new) == [q EXCEPT !.stream = new, !.len = Len(new)]
ReplaceStreamQueue(q, new) ==
    [q EXCEPT !.file = <<>>, !.stream = new, !.len = Len(new)]

ReplaceFileQueue(q, new) == [EmptyQueues EXCEPT !.file = new]

ReplaceForFileStart(q, new) == ReplaceFileQueue(q, new)

ReplaceForStreamStart(q, new) == ClearAdvancing(ReplaceStreamQueue(q, new))

ClearAll(q) == EmptyQueues

\* pop_next_start: the stream queue goes first, and only a popped stream
\* raises the auto-advance flag.
PopTrack(q) ==
    CASE q.stream # <<>> -> Head(q.stream)
      [] q.stream = <<>> /\ q.file # <<>> -> Head(q.file)
      [] OTHER -> None

PopQueues(q) ==
    CASE q.stream # <<>> ->
           [q EXCEPT !.stream = Tail(@), !.len = Len(Tail(q.stream)),
                     !.advancing = TRUE]
      [] q.stream = <<>> /\ q.file # <<>> ->
           [q EXCEPT !.file = Tail(@), !.advancing = FALSE]
      [] OTHER -> ClearAdvancing(q)

\* eof_next_start: at the end of a track whose epoch is no longer current
\* nothing may follow; otherwise repeat-one replays the current file, and
\* everything else pops the queues.
Repeats(repeatOne, path) == repeatOne /\ path # None

EofTrack(q, canAdvance, repeatOne, path) ==
    CASE ~canAdvance -> None
      [] canAdvance /\ Repeats(repeatOne, path) -> path
      [] OTHER -> PopTrack(q)

EofQueues(q, canAdvance, repeatOne, path) ==
    CASE ~canAdvance -> ClearAll(q)
      [] canAdvance /\ Repeats(repeatOne, path) -> ClearAdvancing(q)
      [] OTHER -> PopQueues(q)
=============================================================================
