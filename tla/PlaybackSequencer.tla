------------------------- MODULE PlaybackSequencer -------------------------
(***************************************************************************)
(* The table that turns away a client's older play requests                 *)
(* (playback/sequencer.rs).  It is behind one mutex, so a call is a step.   *)
(* It has room for Slots clients, and forgets the one seen least recently.  *)
(***************************************************************************)
EXTENDS Naturals, FiniteSets

CONSTANTS
    Client,         \* browsers; each numbers its requests
    Slots,          \* MAX_PLAYBACK_SEQUENCE_CLIENTS
    MaxNumber,      \* bound: requests a client has numbered
    MaxAccepts      \* bound: requests accepted in a behaviour

Numbered == [client: Client, number: 1..MaxNumber]

VARIABLES
    sequences,      \* a client's newest number, and when it was seen
    clock,          \* Instant::now
    \* history: when a request was last accepted, and the clients ever thrown out
    heard, forgotten

vars == <<sequences, clock, heard, forgotten>>

Init == /\ sequences = [c \in {} |-> 0] /\ clock = 0
        /\ heard = [r \in Numbered |-> 0] /\ forgotten = {}
-----------------------------------------------------------------------------
Known == DOMAIN sequences

\* accept and is_stale refuse what is older than the newest number remembered;
\* is_current asks the same of a request accepted before.  Seeded fault: the
\* comparison is the wrong way round.
IsCurrentReversed(r) == r.client \in Known => sequences[r.client].latest >= r.number
IsCurrent(r) == r.client \in Known => sequences[r.client].latest <= r.number

\* Seeded fault: the number before the request's is stored.
RememberPrevious(r) ==
    [c \in Known \cup {r.client} |->
        IF c = r.client THEN [latest |-> r.number - 1, seen |-> clock + 1] ELSE sequences[c]]
Remember(r) ==
    [c \in Known \cup {r.client} |->
        IF c = r.client THEN [latest |-> r.number, seen |-> clock + 1] ELSE sequences[c]]

\* One client too many: the one seen least recently goes.  Seeded fault: the one seen
\* last does.
OldestReversed(t) == {c \in DOMAIN t : \A d \in DOMAIN t : t[d].seen <= t[c].seen}
Oldest(t) == {c \in DOMAIN t : \A d \in DOMAIN t : t[c].seen <= t[d].seen}
Evicted(t) == IF Cardinality(DOMAIN t) > Slots THEN Oldest(t) ELSE {}

Accept(r) ==
    /\ IsCurrent(r) /\ clock < MaxAccepts
    /\ sequences' = [c \in DOMAIN Remember(r) \ Evicted(Remember(r)) |-> Remember(r)[c]]
    /\ forgotten' = forgotten \cup Evicted(Remember(r))
    /\ clock' = clock + 1 /\ heard' = [heard EXCEPT ![r] = clock + 1]

Reject(r) == ~IsCurrent(r) /\ UNCHANGED vars

Next == \E r \in Numbered : Accept(r) \/ Reject(r)

Spec == Init /\ [][Next]_vars
-----------------------------------------------------------------------------
\* Every variable has its type.
TypeOK ==
    /\ Known \subseteq Client
    /\ sequences \in [Known -> [latest: 1..MaxNumber, seen: Nat]]
    /\ clock \in Nat /\ heard \in [Numbered -> Nat] /\ forgotten \subseteq Client

LastHeard(c) == CHOOSE t \in {heard[r] : r \in {q \in Numbered : q.client = c}} :
                    \A q \in Numbered : q.client = c => heard[q] <= t
HeardClients == {c \in Client : \E q \in Numbered : q.client = c /\ heard[q] # 0}

\* The table holds the clients heard most recently, as many as there are slots: a
\* client that keeps playing is never the one forgotten (sequencer.rs:45-53).
MostRecentKept ==
    Known = {c \in HeardClients :
                 Cardinality({d \in HeardClients : LastHeard(d) > LastHeard(c)}) < Slots}

\* While a client has not been forgotten, the table has the newest number it was
\* ever heard with, however its requests were reordered on the way.
NewestKnown ==
    \A r \in Numbered : heard[r] # 0 /\ r.client \notin forgotten =>
        r.client \in Known /\ sequences[r.client].latest >= r.number
=============================================================================
