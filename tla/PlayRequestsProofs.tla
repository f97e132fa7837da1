------------------------- MODULE PlayRequestsProofs -------------------------
(***************************************************************************)
(* What PlayRequests promises, for any number of clients, slots and         *)
(* requests: what the table of the sequencer keeps and whom it forgets, the *)
(* answers, the guard across the waits, and that of racing requests one     *)
(* wins.                                                                    *)
(***************************************************************************)
EXTENDS PlayRequests, FiniteSetTheorems, WellFoundedInduction, TLAPS

(* The sequencer. *)

\* accept leaves a table of clients and numbers (sequencer.rs:31-55).
LEMMA AcceptType ==
    ASSUME Sequencer!TypeOK, NEW r \in Sequencer!Numbered, Sequencer!Accept(r)
    PROVE  Sequencer!TypeOK'
<1>a. Sequencer!Accept(r)
    OBVIOUS
<1> DEFINE remembered == Sequencer!Remember(r)
           kept == DOMAIN remembered \ Sequencer!Evicted(remembered)
<1>1. r.client \in Client /\ r.number \in 1..MaxNumber
    BY DEF Sequencer!Numbered
<1>2. /\ DOMAIN remembered = Sequencer!Known \cup {r.client}
      /\ \A c \in DOMAIN remembered : remembered[c] \in [latest: 1..MaxNumber, seen: Nat]
    BY <1>1 DEF Sequencer!TypeOK, Sequencer!Remember, Sequencer!Known
<1>3. sequences' = [c \in kept |-> remembered[c]]
    BY <1>a DEF Sequencer!Accept
<1>4. Sequencer!Known' = kept /\ kept \subseteq Client
    BY <1>1, <1>2, <1>3 DEF Sequencer!TypeOK, Sequencer!Known
<1>5. sequences' \in [Sequencer!Known' -> [latest: 1..MaxNumber, seen: Nat]]
    BY <1>2, <1>3, <1>4
<1>6. Sequencer!Evicted(remembered) \subseteq Client
    BY <1>1, <1>2 DEF Sequencer!Evicted, Sequencer!Oldest, Sequencer!TypeOK
<1>7. forgotten' \subseteq Client
    BY <1>a, <1>6 DEF Sequencer!Accept, Sequencer!TypeOK
<1>8. clock' \in Nat /\ heard' \in [Sequencer!Numbered -> Nat]
    BY <1>a DEF Sequencer!Accept, Sequencer!TypeOK
<1> QED
    BY <1>4, <1>5, <1>7, <1>8 DEF Sequencer!TypeOK

\* While a client is not forgotten its number in the table only grows, whatever order
\* its requests arrive in (sequencer.rs:36-44).
LEMMA AcceptNewest ==
    ASSUME Sequencer!TypeOK, Sequencer!NewestKnown,
           NEW q \in Sequencer!Numbered, Sequencer!Accept(q)
    PROVE  Sequencer!NewestKnown'
<1>a. Sequencer!Accept(q)
    OBVIOUS
<1> DEFINE remembered == Sequencer!Remember(q)
           kept == DOMAIN remembered \ Sequencer!Evicted(remembered)
<1>1. /\ DOMAIN remembered = Sequencer!Known \cup {q.client}
      /\ remembered[q.client].latest = q.number
      /\ \A c \in Sequencer!Known \ {q.client} : remembered[c] = sequences[c]
    BY DEF Sequencer!Remember, Sequencer!Known
<1>2. sequences' = [c \in kept |-> remembered[c]] /\ Sequencer!Known' = kept
    BY <1>a DEF Sequencer!Accept, Sequencer!Known
<1>3. forgotten' = forgotten \cup Sequencer!Evicted(remembered)
    BY <1>a DEF Sequencer!Accept
<1>4. SUFFICES ASSUME NEW r \in Sequencer!Numbered, heard'[r] # 0, r.client \notin forgotten'
               PROVE  r.client \in Sequencer!Known' /\ sequences'[r.client].latest >= r.number
    BY DEF Sequencer!NewestKnown
<1>5. r.number \in Nat /\ q.number \in Nat
    BY DEF Sequencer!Numbered
<1>6. r = q \/ heard[r] # 0
    BY <1>a, <1>4 DEF Sequencer!Accept, Sequencer!TypeOK
<1>7. r.client \notin forgotten /\ r.client \notin Sequencer!Evicted(remembered)
    BY <1>3, <1>4
<1>8. CASE r = q
    BY <1>1, <1>2, <1>5, <1>7, <1>8
<1>9. CASE heard[r] # 0
    <2>1. r.client \in Sequencer!Known /\ sequences[r.client].latest >= r.number
        BY <1>7, <1>9 DEF Sequencer!NewestKnown
    <2>2. sequences[r.client].latest \in Nat
        BY <2>1 DEF Sequencer!TypeOK
    <2>3. CASE r.client = q.client
        <3>1. sequences[q.client].latest <= q.number
            BY <1>a, <2>1, <2>3 DEF Sequencer!Accept, Sequencer!IsCurrent
        <3>2. q.number >= r.number
            BY <1>5, <2>1, <2>2, <2>3, <3>1
        <3> QED
            BY <1>1, <1>2, <1>7, <2>3, <3>2
    <2>4. CASE r.client # q.client
        BY <1>1, <1>2, <1>7, <2>1, <2>4
    <2> QED
        BY <2>3, <2>4
<1> QED
    BY <1>6, <1>8, <1>9

(* Which clients the table has room for. *)

\* t is the last instant at which h has client c heard.
LastOf(c, t, h) ==
    /\ \E q \in Sequencer!Numbered : q.client = c /\ h[q] = t
    /\ \A q \in Sequencer!Numbered : q.client = c => h[q] <= t

\* No two clients were heard at one instant, and each has a last one.
Instants ==
    /\ \A r \in Sequencer!Numbered : heard[r] <= clock
    /\ \A q, r \in Sequencer!Numbered : heard[q] = heard[r] /\ heard[q] # 0 => q.client = r.client
    /\ \A c \in Sequencer!HeardClients : \E t \in Nat \ {0} : LastOf(c, t, heard)

\* The table has the last instant of the clients it knows.
Seen == \A c \in Sequencer!Known : sequences[c].seen # 0 /\ LastOf(c, sequences[c].seen, heard)

\* A client the table had no room for was heard before all those it has.
Room ==
    /\ IsFiniteSet(Sequencer!HeardClients) /\ Sequencer!Known \subseteq Sequencer!HeardClients
    /\ Cardinality(Sequencer!Known) <= Slots
    /\ \A c \in Sequencer!HeardClients \ Sequencer!Known :
           /\ Cardinality(Sequencer!Known) = Slots
           /\ \A d \in Sequencer!Known, q \in Sequencer!Numbered :
                  q.client = c => heard[q] < sequences[d].seen

Recent == Instants /\ Seen /\ Room

\* The table counts as its composition does.
LEMMA SameCount ==
    ASSUME NEW S
    PROVE  Sequencer!Cardinality(S) = Cardinality(S)
BY DEF Cardinality, Sequencer!Cardinality

\* Of some naturals one is the least.
LEMMA LeastOf ==
    ASSUME NEW S, S # {}, NEW f, \A x \in S : f[x] \in Nat
    PROVE  \E x \in S : \A y \in S : f[x] <= f[y]
<1> DEFINE T == {f[x] : x \in S}
           R == OpToRel(<, Nat)
<1>1. T \subseteq Nat /\ T # {}
    OBVIOUS
<1> HIDE DEF T
<1>2. \E m \in T : \A n \in T : ~ (<<n, m>> \in R)
    <2> HIDE DEF R
    <2>1. IsWellFoundedOn(R, Nat)
        BY NatLessThanWellFounded DEF R
    <2> QED
        BY <1>1, <2>1, WFMin
<1>3. PICK m \in T : \A n \in T : ~ (<<n, m>> \in R)
    BY <1>2
<1>4. \A n \in T : m <= n
    <2>1. \A n \in Nat : n < m => <<n, m>> \in R
        BY <1>1 DEF OpToRel
    <2> HIDE DEF R
    <2>2. \A n \in T : n \in Nat /\ m \in Nat /\ ~ (n < m)
        BY <1>1, <1>3, <2>1, Zenon
    <2> QED
        BY <2>2
<1> QED
    BY <1>4 DEF T

\* The last instant of a client is the one that bounds the others.
LEMMA LastHeardIs ==
    ASSUME Sequencer!TypeOK, NEW c \in Client, NEW t, LastOf(c, t, heard)
    PROVE  Sequencer!LastHeard(c) = t
<1> DEFINE H == {heard[r] : r \in {q \in Sequencer!Numbered : q.client = c}}
           Bounds(u) == \A q \in Sequencer!Numbered : q.client = c => heard[q] <= u
<1>1. H \subseteq Nat
    BY DEF Sequencer!TypeOK
<1>2. t \in H /\ Bounds(t)
    BY DEF LastOf
<1>3. \A u \in H : Bounds(u) => u = t
    <2> TAKE u \in H
    <2> HAVE Bounds(u)
    <2>1. t <= u
        BY DEF LastOf
    <2>2. u <= t
        BY DEF LastOf
    <2> QED
        BY <1>1, <1>2, <2>1, <2>2
<1> QED
    BY <1>2, <1>3 DEF Sequencer!LastHeard

\* What accept does to what was heard and when (sequencer.rs:36-44).
LEMMA AcceptHeard ==
    ASSUME Sequencer!TypeOK, Recent, NEW r \in Sequencer!Numbered, Sequencer!Accept(r)
    PROVE  /\ Instants'
           /\ Sequencer!HeardClients' = Sequencer!HeardClients \cup {r.client}
           /\ LastOf(r.client, clock + 1, heard')
           /\ \A c, t : c # r.client => (LastOf(c, t, heard') <=> LastOf(c, t, heard))
<1>a. Sequencer!Accept(r)
    OBVIOUS
<1>1. /\ clock' = clock + 1 /\ clock \in Nat /\ heard \in [Sequencer!Numbered -> Nat]
      /\ heard' = [heard EXCEPT ![r] = clock + 1]
    BY <1>a DEF Sequencer!Accept, Sequencer!TypeOK
<1>2. /\ heard'[r] = clock + 1
      /\ \A q \in Sequencer!Numbered : q # r => heard'[q] = heard[q]
      /\ \A q \in Sequencer!Numbered : heard[q] \in Nat /\ heard[q] <= clock
    BY <1>1 DEF Recent, Instants
<1>3. Sequencer!HeardClients' = Sequencer!HeardClients \cup {r.client}
    <2>1. r.client \in Client
        BY DEF Sequencer!Numbered
    <2> QED
        BY <1>1, <1>2, <2>1 DEF Sequencer!HeardClients
<1>4. LastOf(r.client, clock + 1, heard')
    BY <1>1, <1>2 DEF LastOf
<1>5. \A c, t : c # r.client => (LastOf(c, t, heard') <=> LastOf(c, t, heard))
    BY <1>2 DEF LastOf
<1>6. \A q \in Sequencer!Numbered : heard'[q] <= clock'
    BY <1>1, <1>2
<1>7. ASSUME NEW q \in Sequencer!Numbered, NEW p \in Sequencer!Numbered,
             heard'[q] = heard'[p], heard'[q] # 0
      PROVE  q.client = p.client
    BY <1>1, <1>2, <1>7 DEF Recent, Instants
<1>8. \A c \in Sequencer!HeardClients' : \E t \in Nat \ {0} : LastOf(c, t, heard')
    <2> TAKE c \in Sequencer!HeardClients'
    <2>1. CASE c = r.client
        BY <1>1, <1>4, <2>1
    <2>2. CASE c # r.client
        BY <1>3, <1>5, <2>2 DEF Recent, Instants
    <2> QED
        BY <2>1, <2>2
<1>9. Instants'
    BY <1>6, <1>7, <1>8 DEF Instants
<1> QED
    BY <1>3, <1>4, <1>5, <1>9

\* The client forgotten is one, and none that is kept was heard before it
\* (sequencer.rs:45-53).
LEMMA OneOldest ==
    ASSUME Sequencer!TypeOK, Recent, NEW r \in Sequencer!Numbered,
           r.client \notin Sequencer!Known, Cardinality(Sequencer!Known) = Slots
    PROVE  \E o \in Sequencer!Known :
               /\ Sequencer!Oldest(Sequencer!Remember(r)) = {o}
               /\ \A d \in Sequencer!Known : d # o => sequences[o].seen < sequences[d].seen
<1> DEFINE m == Sequencer!Remember(r)
           seen == [d \in Sequencer!Known |-> sequences[d].seen]
<1>1. /\ DOMAIN m = Sequencer!Known \cup {r.client} /\ m[r.client].seen = clock + 1
      /\ \A d \in Sequencer!Known : m[d] = sequences[d]
    BY DEF Sequencer!Remember, Sequencer!Known
<1>2. clock \in Nat /\ \A d \in Sequencer!Known : sequences[d].seen \in Nat
    BY DEF Sequencer!TypeOK
<1>3. \A d \in Sequencer!Known : sequences[d].seen < clock + 1
    BY <1>2 DEF Recent, Seen, LastOf, Instants
<1>4. Sequencer!Known # {}
    BY FS_EmptySet, RequestAssumption
<1>5. PICK o \in Sequencer!Known : \A d \in Sequencer!Known : seen[o] <= seen[d]
    <2> HIDE DEF seen
    <2>1. \A d \in Sequencer!Known : seen[d] \in Nat
        BY <1>2 DEF seen
    <2> QED
        BY <1>4, <2>1, LeastOf
<1>6. \A d \in Sequencer!Known : d # o => sequences[o].seen < sequences[d].seen
    <2> TAKE d \in Sequencer!Known
    <2> HAVE d # o
    <2>1. PICK p \in Sequencer!Numbered : p.client = o /\ heard[p] = sequences[o].seen
        BY DEF Recent, Seen, LastOf
    <2>2. PICK q \in Sequencer!Numbered : q.client = d /\ heard[q] = sequences[d].seen
        BY DEF Recent, Seen, LastOf
    <2>3. sequences[o].seen # sequences[d].seen
        BY <2>1, <2>2 DEF Recent, Instants, Seen
    <2> QED
        BY <1>2, <1>5, <2>3
<1>7. m[o].seen < m[r.client].seen
    BY <1>1, <1>3
<1>8. \A d \in DOMAIN m : m[d].seen \in Nat
    BY <1>1, <1>2
<1>9. \A d \in DOMAIN m : d # o => m[o].seen < m[d].seen
    BY <1>1, <1>6, <1>7
<1>10. {c \in DOMAIN m : \A d \in DOMAIN m : m[c].seen <= m[d].seen} = {o}
    <2> HIDE DEF m
    <2> QED
        BY <1>1, <1>8, <1>9
<1> QED
    BY <1>6, <1>10 DEF Sequencer!Oldest

\* accept leaves the clients heard last in the table.
LEMMA AcceptRecent ==
    ASSUME Sequencer!TypeOK, Recent, NEW r \in Sequencer!Numbered, Sequencer!Accept(r)
    PROVE  Recent'
<1>a. Sequencer!Accept(r)
    OBVIOUS
<1> DEFINE m == Sequencer!Remember(r)
           known == Sequencer!Known
           c0 == r.client
<1>1. /\ DOMAIN m = known \cup {c0} /\ m[c0].seen = clock + 1
      /\ \A d \in known \ {c0} : m[d] = sequences[d]
    BY DEF Sequencer!Remember, Sequencer!Known
<1>2. /\ sequences' = [c \in DOMAIN m \ Sequencer!Evicted(m) |-> m[c]]
      /\ Sequencer!Known' = DOMAIN m \ Sequencer!Evicted(m)
    BY <1>a DEF Sequencer!Accept, Sequencer!Known
<1>3. /\ Instants' /\ Sequencer!HeardClients' = Sequencer!HeardClients \cup {c0}
      /\ LastOf(c0, clock + 1, heard')
      /\ \A c, t : c # c0 => (LastOf(c, t, heard') <=> LastOf(c, t, heard))
    BY AcceptHeard
<1>4. IsFiniteSet(Sequencer!HeardClients') /\ Sequencer!Known' \subseteq Sequencer!HeardClients'
    BY <1>1, <1>2, <1>3, FS_AddElement DEF Recent, Room
<1>5. clock \in Nat /\ clock + 1 # 0 /\ \A d \in known : sequences[d].seen \in Nat
    BY DEF Sequencer!TypeOK
<1>6. Seen'
    <2> SUFFICES ASSUME NEW c \in Sequencer!Known'
                 PROVE  sequences'[c].seen # 0 /\ LastOf(c, sequences'[c].seen, heard')
        BY DEF Seen
    <2>1. sequences'[c] = m[c] /\ c \in known \cup {c0}
        BY <1>1, <1>2
    <2>2. CASE c = c0
        BY <1>1, <1>3, <1>5, <2>1, <2>2
    <2>3. CASE c # c0
        BY <1>1, <1>3, <2>1, <2>3 DEF Recent, Seen
    <2> QED
        BY <2>2, <2>3
<1>7. /\ IsFiniteSet(known) /\ Cardinality(known) \in Nat /\ Cardinality(known) <= Slots
      /\ IsFiniteSet(known \cup {c0})
      /\ Cardinality(known \cup {c0}) = IF c0 \in known THEN Cardinality(known)
                                       ELSE Cardinality(known) + 1
    BY FS_Subset, FS_AddElement, FS_CardinalityType DEF Recent, Room
<1>8. Slots \in Nat /\ \A q \in Sequencer!Numbered : heard[q] \in Nat /\ heard[q] <= clock
    BY RequestAssumption DEF Recent, Instants, Sequencer!TypeOK
\* A client outside both tables has not been heard since.
<1>9. ASSUME NEW q \in Sequencer!Numbered, q.client # c0
      PROVE  heard'[q] = heard[q]
    BY <1>a, <1>9 DEF Sequencer!Accept, Sequencer!TypeOK
<1>10. CASE Cardinality(known \cup {c0}) <= Slots
    <2>1. Sequencer!Known' = known \cup {c0} /\ sequences' = m
        <3>1. ~(Cardinality(DOMAIN m) > Slots)
            BY <1>1, <1>7, <1>8, <1>10
        <3>2. Sequencer!Evicted(m) = {}
            BY <3>1, SameCount DEF Sequencer!Evicted
        <3>3. m = [c \in DOMAIN m |-> m[c]]
            BY DEF Sequencer!Remember
        <3> HIDE DEF m
        <3> QED
            BY <1>1, <1>2, <3>2, <3>3
    <2>2. ASSUME NEW c \in Sequencer!HeardClients' \ Sequencer!Known'
          PROVE  /\ c # c0 /\ c \in Sequencer!HeardClients \ known /\ c0 \in known
                 /\ Cardinality(known) = Slots
        <3>1. c # c0 /\ c \in Sequencer!HeardClients \ known
            BY <1>3, <2>1
        <3>2. Cardinality(known) = Slots
            BY <3>1 DEF Recent, Room
        <3> QED
            BY <1>7, <1>8, <1>10, <3>1, <3>2
    <2>3. ASSUME NEW c \in Sequencer!HeardClients' \ Sequencer!Known',
                 NEW d \in Sequencer!Known', NEW q \in Sequencer!Numbered, q.client = c
          PROVE  heard'[q] < sequences'[d].seen
        <3>1. heard'[q] = heard[q] /\ heard[q] \in Nat /\ heard[q] <= clock
            BY <1>8, <1>9, <2>2, <2>3
        <3>2. CASE d = c0
            BY <1>1, <1>5, <2>1, <3>1, <3>2
        <3>3. CASE d # c0
            BY <1>1, <2>1, <2>2, <2>3, <3>1, <3>3 DEF Recent, Room
        <3> QED
            BY <3>2, <3>3
    <2>4. \A c \in Sequencer!HeardClients' \ Sequencer!Known' : Cardinality(Sequencer!Known') = Slots
        BY <1>7, <2>1, <2>2
    <2> QED
        BY <1>3, <1>4, <1>6, <1>10, <2>1, <2>3, <2>4 DEF Recent, Room
<1>11. CASE ~(Cardinality(known \cup {c0}) <= Slots)
    <2>1. c0 \notin known /\ Cardinality(known) = Slots /\ Cardinality(known \cup {c0}) > Slots
        BY <1>7, <1>8, <1>11
    <2>2. PICK o \in known : /\ Sequencer!Oldest(m) = {o}
                             /\ \A d \in known : d # o => sequences[o].seen < sequences[d].seen
        BY <2>1, OneOldest
    <2>3. Sequencer!Known' = (known \cup {c0}) \ {o} /\ o # c0
        <3>1. Sequencer!Evicted(m) = {o}
            BY <1>1, <2>1, <2>2, SameCount DEF Sequencer!Evicted
        <3> QED
            BY <1>1, <1>2, <2>1, <3>1
    <2>4. Cardinality(Sequencer!Known') = Slots
        <3>1. Cardinality((known \cup {c0}) \ {o}) = Cardinality(known \cup {c0}) - 1
            BY <1>7, FS_RemoveElement
        <3> QED
            BY <1>7, <1>8, <2>1, <2>3, <3>1
    <2>5. ASSUME NEW c \in Sequencer!HeardClients' \ Sequencer!Known',
                 NEW d \in Sequencer!Known', NEW q \in Sequencer!Numbered, q.client = c
          PROVE  heard'[q] < sequences'[d].seen
        <3>1. c # c0 /\ (c = o \/ c \in Sequencer!HeardClients \ known)
            BY <1>3, <2>3
        <3>2. heard'[q] = heard[q] /\ heard[q] \in Nat /\ heard[q] <= clock
            BY <1>8, <1>9, <2>5, <3>1
        <3>3. sequences'[d] = m[d]
            BY <1>2
        <3>4. CASE d = c0
            BY <1>1, <1>5, <3>2, <3>3, <3>4
        <3>5. CASE d # c0
            <4>1. d \in known /\ d # o /\ sequences'[d] = sequences[d]
                BY <1>1, <2>3, <3>3, <3>5
            <4>2. CASE c = o
                <5>1. heard[q] <= sequences[o].seen
                    BY <2>5, <4>2 DEF Recent, Seen, LastOf
                <5> QED
                    BY <1>5, <2>2, <3>2, <4>1, <5>1
            <4>3. CASE c \in Sequencer!HeardClients \ known
                BY <2>5, <3>2, <4>1, <4>3 DEF Recent, Room
            <4> QED
                BY <3>1, <4>2, <4>3
        <3> QED
            BY <3>4, <3>5
    <2> QED
        BY <1>3, <1>4, <1>6, <1>8, <2>4, <2>5 DEF Recent, Room
<1> QED
    BY <1>10, <1>11

\* So the table is the clients heard most recently, as many as there are slots.
LEMMA RecentAreKept ==
    ASSUME Sequencer!TypeOK, Recent
    PROVE  Sequencer!MostRecentKept
<1> DEFINE H == Sequencer!HeardClients
           K == Sequencer!Known
           L(c) == Sequencer!LastHeard(c)
           later(c) == {d \in H : L(d) > L(c)}
<1>1. IsFiniteSet(H) /\ K \subseteq H /\ Cardinality(K) <= Slots /\ H \subseteq Client
    BY DEF Recent, Room, Sequencer!HeardClients
<1>2. ASSUME NEW c \in H
      PROVE  L(c) \in Nat /\ \E q \in Sequencer!Numbered : q.client = c /\ heard[q] = L(c)
    <2>1. PICK t \in Nat \ {0} : LastOf(c, t, heard)
        BY DEF Recent, Instants
    <2>2. L(c) = t
        BY <1>1, <2>1, LastHeardIs
    <2> QED
        BY <2>1, <2>2 DEF LastOf
<1>3. ASSUME NEW c \in K PROVE L(c) = sequences[c].seen
    BY <1>1, <1>3, LastHeardIs DEF Recent, Seen
<1>4. ASSUME NEW c \in H \ K, NEW d \in K
      PROVE  L(c) < L(d) /\ Cardinality(K) = Slots
    <2>1. PICK q \in Sequencer!Numbered : q.client = c /\ heard[q] = L(c)
        BY <1>2
    <2>2. heard[q] < sequences[d].seen /\ Cardinality(K) = Slots
        BY <2>1 DEF Recent, Room
    <2> QED
        BY <1>3, <2>1, <2>2
<1>5. Slots \in Nat \ {0} /\ IsFiniteSet(K) /\ Cardinality(K) \in Nat
    BY <1>1, RequestAssumption, FS_Subset, FS_CardinalityType
<1>6. ASSUME NEW c \in K PROVE Cardinality(later(c)) < Slots
    <2>1. later(c) \subseteq K \ {c}
        <3> SUFFICES ASSUME NEW d \in H, L(d) > L(c) PROVE d \in K \ {c}
            OBVIOUS
        <3>1. L(c) \in Nat /\ L(d) \in Nat
            BY <1>1, <1>2
        <3>2. d \in K
            <4>1. d \notin K => L(d) < L(c)
                BY <1>4
            <4> HIDE DEF L
            <4> QED
                BY <3>1, <4>1
        <3>3. d # c
            <4> HIDE DEF L
            <4> QED
                BY <3>1
        <3> QED
            BY <3>2, <3>3
    <2>2. IsFiniteSet(K \ {c}) /\ Cardinality(K \ {c}) = Cardinality(K) - 1
        BY <1>5, <1>6, FS_RemoveElement
    <2>3. Cardinality(later(c)) <= Cardinality(K \ {c}) /\ Cardinality(later(c)) \in Nat
        <3> HIDE DEF later
        <3> QED
            BY <2>1, <2>2, FS_Subset, FS_CardinalityType
    <2> HIDE DEF later
    <2> QED
        BY <1>1, <1>5, <2>2, <2>3
<1>7. ASSUME NEW c \in H \ K PROVE ~(Cardinality(later(c)) < Slots)
    <2>1. K \subseteq later(c)
        BY <1>1, <1>2, <1>4
    <2>2. Cardinality(K) = Slots
        <3>1. Cardinality(K) = Slots
            BY <1>7 DEF Recent, Room
        <3> QED
            BY <3>1
    <2>3. IsFiniteSet(later(c)) /\ Cardinality(later(c)) \in Nat
        <3>1. later(c) \subseteq H
            OBVIOUS
        <3> HIDE DEF later
        <3> QED
            BY <1>1, <3>1, FS_Subset, FS_CardinalityType
    <2>4. Cardinality(K) <= Cardinality(later(c))
        <3> HIDE DEF later
        <3> QED
            BY <2>1, <2>3, FS_Subset
    <2> HIDE DEF later
    <2> QED
        BY <1>5, <2>2, <2>3, <2>4
<1>8. K = {c \in H : Cardinality(later(c)) < Slots}
    <2> HIDE DEF later
    <2> QED
        BY <1>1, <1>6, <1>7
<1> QED
    BY <1>8, SameCount DEF Sequencer!MostRecentKept

\* Only an accept touches the table.
LEMMA TableStep ==
    ASSUME TypeOK, NEW r \in Request, RequestStep(r)
    PROVE  \/ r \in Sequencer!Numbered /\ Sequencer!Accept(r) /\ Accept(r)
           \/ UNCHANGED table
BY DEF RequestStep, Accept, Reject, Wake, WakeFailed, Check, Reserve, Play, Refuse, Persist,
       StartListening, table, Request, Sequencer!Reject, Sequencer!vars

\* What a table that stays as it is keeps.
LEMMA TableKept ==
    ASSUME UNCHANGED table
    PROVE  /\ Sequencer!TypeOK => Sequencer!TypeOK'
           /\ Sequencer!NewestKnown => Sequencer!NewestKnown'
           /\ Recent => Recent'
<1>1. Recent => Recent'
    BY DEF table, Recent, Instants, Seen, Room, Sequencer!Known, Sequencer!HeardClients
<1> QED
    BY <1>1 DEF table, Sequencer!TypeOK, Sequencer!NewestKnown, Sequencer!Known

(* Types. *)

\* Nothing has arrived, nothing is known.
LEMMA InitType == Init => TypeOK
<1> SUFFICES ASSUME Init PROVE TypeOK
    OBVIOUS
<1>1. Sequencer!TypeOK
    BY DEF Init, Sequencer!Init, Sequencer!TypeOK, Sequencer!Known, Sequencer!Numbered
<1> QED
    BY <1>1 DEF Init, TypeOK, RequestPCs

\* Every step of a request keeps its type.
LEMMA RequestType ==
    ASSUME TypeOK, NEW r \in Request, RequestStep(r)
    PROVE  TypeOK'
<1>1. Sequencer!TypeOK'
    <2>1. Sequencer!TypeOK
        BY DEF TypeOK
    <2> QED
        BY <2>1, TableStep, TableKept, AcceptType
<1> USE <1>1 DEF TypeOK, RequestPCs, Goto
<1>2. CASE Accept(r)
    BY <1>2 DEF Accept, Arrive, player, stores
<1>3. CASE Reject(r)
    BY <1>3 DEF Reject, Arrive, player, stores
<1>4. CASE Wake(r)
    BY <1>4 DEF Wake, player, stores
<1>5. CASE WakeFailed(r)
    BY <1>5 DEF WakeFailed, player, stores
<1>6. CASE Check(r)
    BY <1>6 DEF Check, player, stores
<1>7. CASE Reserve(r)
    BY <1>7 DEF Reserve, stores
<1>8. CASE Play(r)
    BY <1>8 DEF Play, Spend, stores
<1>9. CASE Refuse(r)
    BY <1>9 DEF Refuse, Spend, player, stores
<1>10. CASE Persist(r)
    BY <1>10 DEF Persist, Stored, player
<1>11. CASE StartListening(r)
    BY <1>11 DEF StartListening, player
<1> QED
    BY <1>2, <1>3, <1>4, <1>5, <1>6, <1>7, <1>8, <1>9, <1>10, <1>11 DEF RequestStep

\* Stopping the zone changes no type (dispatcher.rs:145-152).
LEMMA StopType ==
    ASSUME TypeOK, StopPlayer \/ StopListening \/ UNCHANGED vars
    PROVE  TypeOK'
<1>1. UNCHANGED table
    BY DEF StopPlayer, StopListening, vars
<1>2. Sequencer!TypeOK'
    BY <1>1, TableKept DEF TypeOK
<1> QED
    BY <1>2 DEF TypeOK, StopPlayer, StopListening, vars, player, stores, own

(* The invariant. *)

\* A request is past its play exactly when the player took it.
Taken ==
    /\ storedQueue \in played \cup {None} /\ listening \in played \cup {None}
    /\ \A r \in Request : pc[r] \in {"storing", "stored", "completed"} <=> r \in played

\* The newest claim is the player's newest command, or that of a request that has yet
\* to ask whether its reservation holds.
Claimed ==
    /\ lead <= epoch
    /\ lead # epoch => \E r \in Request : pc[r] = "reserved" /\ reserved[r] = epoch

\* A request that woke to a newer one is before its guard or turned away, and the table
\* still knows the newer one.
Guarded ==
    \A r \in overtaken : r.client \notin forgotten =>
        pc[r] \in {"prepared", "opened", "refused"} /\ Newer(r) # {}

Inv == TypeOK /\ Sequencer!NewestKnown /\ Recent /\ Taken /\ Claimed /\ Guarded

\* The invariant holds before anything arrives.
LEMMA InitInv == Init => Inv
<1> SUFFICES ASSUME Init PROVE Inv
    OBVIOUS
<1>1. Sequencer!NewestKnown
    BY DEF Init, Sequencer!Init, Sequencer!NewestKnown, Sequencer!Known, Sequencer!Numbered
<1>2. Taken /\ Claimed /\ Guarded
    BY DEF Init, Taken, Claimed, Guarded
<1>3. Sequencer!Known = {} /\ Sequencer!HeardClients = {}
    BY DEF Init, Sequencer!Init, Sequencer!Known, Sequencer!HeardClients
<1>4. Instants /\ Seen
    BY <1>3 DEF Init, Sequencer!Init, Instants, Seen
<1>5. Room
    BY <1>3, FS_EmptySet, RequestAssumption DEF Room
<1> QED
    BY InitType, <1>1, <1>2, <1>4, <1>5 DEF Inv, Recent

\* What is stored was played (sinks/local.rs:215-238).
LEMMA TakenStep ==
    ASSUME TypeOK, Taken, NEW r \in Request, RequestStep(r)
    PROVE  Taken'
<1> USE DEF TypeOK, Taken, RequestPCs, Goto
<1>1. CASE Accept(r) \/ Reject(r)
    BY <1>1 DEF Accept, Reject, Arrive, player, stores
<1>2. CASE Wake(r) \/ WakeFailed(r) \/ Check(r)
    BY <1>2 DEF Wake, WakeFailed, Check, player, stores
<1>3. CASE Reserve(r) \/ Refuse(r)
    BY <1>3 DEF Reserve, Refuse, player, stores
<1>4. CASE Play(r)
    BY <1>4 DEF Play, stores
<1>5. CASE Persist(r) \/ StartListening(r)
    BY <1>5 DEF Persist, Stored, StartListening, player
<1> QED
    BY <1>1, <1>2, <1>3, <1>4, <1>5 DEF RequestStep

\* A reservation that loses leaves the one it lost to (player.rs:992-1068).
LEMMA ClaimedStep ==
    ASSUME TypeOK, Claimed, NEW r \in Request, RequestStep(r)
    PROVE  Claimed'
<1> USE DEF TypeOK, Claimed, Goto
<1>1. CASE Reserve(r)
    <2>1. pc'[r] = "reserved" /\ reserved'[r] = epoch'
        BY <1>1 DEF Reserve
    <2> QED
        BY <1>1, <2>1 DEF Reserve
<1>2. CASE Play(r)
    BY <1>2 DEF Play
<1>3. CASE Refuse(r)
    <2>1. \A q \in Request : q # r => pc'[q] = pc[q] /\ reserved'[q] = reserved[q]
        BY <1>3 DEF Refuse, Spend
    <2>2. reserved[r] # epoch /\ UNCHANGED <<epoch, lead>>
        BY <1>3 DEF Refuse, StillReserved, player
    <2> QED
        BY <2>1, <2>2
<1>4. ASSUME pc[r] # "reserved", \A q \in Request : q # r => pc'[q] = pc[q],
             UNCHANGED <<epoch, lead, reserved>>
      PROVE  Claimed'
    BY <1>4
<1>5. CASE Accept(r) \/ Reject(r) \/ Wake(r) \/ WakeFailed(r) \/ Check(r)
    BY <1>4, <1>5 DEF Accept, Reject, Arrive, Wake, WakeFailed, Check, player
<1>6. CASE Persist(r) \/ StartListening(r)
    BY <1>4, <1>6 DEF Persist, Stored, StartListening, player
<1> QED
    BY <1>1, <1>2, <1>3, <1>5, <1>6 DEF RequestStep

\* The guard turns away what the table has outgrown (request.rs:30-34).
LEMMA NotCurrent ==
    ASSUME TypeOK, Sequencer!NewestKnown,
           NEW r \in Request, Newer(r) # {}, r.client \notin forgotten
    PROVE  ~IsCurrent(r)
<1>1. PICK q \in Sequencer!Numbered : heard[q] # 0 /\ q.client = r.client /\ q.number > r.number
    BY DEF Newer
<1>2. r.client \in Sequencer!Known /\ sequences[r.client].latest >= q.number
    BY <1>1 DEF Sequencer!NewestKnown
<1>3. r.client \in Client /\ r # Unnumbered
    BY <1>1, RequestAssumption DEF Sequencer!Numbered, Unnumbered
<1>4. r.number \in Nat /\ q.number \in Nat /\ sequences[r.client].latest \in Nat
    BY <1>2, <1>3 DEF Request, Sequencer!Numbered, TypeOK, Sequencer!TypeOK
<1> QED
    BY <1>1, <1>2, <1>3, <1>4 DEF IsCurrent, Sequencer!IsCurrent

\* A newer request once heard stays heard.
LEMMA NewerKept ==
    ASSUME TypeOK, NEW q \in Request, RequestStep(q), NEW r, Newer(r) # {}
    PROVE  (Newer(r) # {})' /\ forgotten \subseteq forgotten'
<1>1. CASE UNCHANGED table
    BY <1>1 DEF table, Newer
<1>2. CASE q \in Sequencer!Numbered /\ Sequencer!Accept(q)
    BY <1>2 DEF Sequencer!Accept, Newer, TypeOK, Sequencer!TypeOK
<1> QED
    BY <1>1, <1>2, TableStep

\* Overtaken requests get no further than their guard.
LEMMA GuardedStep ==
    ASSUME TypeOK, Sequencer!NewestKnown, Guarded, NEW q \in Request, RequestStep(q)
    PROVE  Guarded'
<1> SUFFICES ASSUME NEW r \in overtaken', r.client \notin forgotten'
             PROVE  pc'[r] \in {"prepared", "opened", "refused"} /\ (Newer(r) # {})'
    BY DEF Guarded
<1>1. r \in Request
    BY RequestType DEF TypeOK
<1>2. CASE r \in overtaken
    <2>1. r.client \notin forgotten
        BY TableStep DEF table, Sequencer!Accept
    <2>2. pc[r] \in {"prepared", "opened", "refused"} /\ Newer(r) # {}
        BY <1>2, <2>1 DEF Guarded
    <2>3. ~IsCurrent(r)
        BY <1>1, <2>1, <2>2, NotCurrent
    <2>4. pc'[r] \in {"prepared", "opened", "refused"}
        <3> USE DEF TypeOK, Goto
        <3>1. CASE q # r
            BY <1>1, <2>2, <3>1 DEF RequestStep, Accept, Reject, Arrive, Wake, WakeFailed, Check, Reserve,
               Play, Refuse, Persist, Stored, StartListening
        <3>2. CASE q = r
            BY <1>1, <2>2, <2>3, <3>2 DEF RequestStep, Accept, Reject, Arrive, Wake, WakeFailed, Check,
               Passes, Reserve, Play, Refuse, Persist, Stored, StartListening
        <3> QED
            BY <3>1, <3>2
    <2> QED
        BY <2>2, <2>4, NewerKept
<1>3. CASE r \notin overtaken
    <2>1. Wake(q)
        BY <1>3 DEF RequestStep, Accept, Reject, WakeFailed, Check, Reserve, Play, Refuse,
           Persist, StartListening
    <2>2. q = r /\ Newer(r) # {}
        BY <1>3, <2>1 DEF Wake
    <2> QED
        BY <1>1, <2>1, <2>2, NewerKept DEF Wake, Goto, TypeOK
<1> QED
    BY <1>2, <1>3

\* Stopping the zone, and standing still, leave every request where it is.
LEMMA StopInv ==
    ASSUME Inv, StopPlayer \/ StopListening \/ UNCHANGED vars
    PROVE  Inv'
<1> USE DEF Inv
<1>1. UNCHANGED table /\ UNCHANGED <<own, played, storedQueue>>
    BY DEF StopPlayer, StopListening, vars, player, stores
<1>2. TypeOK' /\ Sequencer!NewestKnown' /\ Recent'
    BY <1>1, StopType, TableKept
<1>3. Taken'
    BY <1>1 DEF Taken, StopPlayer, StopListening, vars, stores, own
<1>4. Claimed'
    BY <1>1 DEF Claimed, TypeOK, StopPlayer, StopListening, vars, player, own
<1>5. Guarded'
    BY <1>1 DEF Guarded, Newer, own, table
<1> QED
    BY <1>2, <1>3, <1>4, <1>5

\* Every step keeps the invariant.
LEMMA StepInv == Inv /\ [Next]_vars => Inv'
<1> SUFFICES ASSUME Inv, [Next]_vars PROVE Inv'
    OBVIOUS
<1>1. ASSUME NEW r \in Request, RequestStep(r) PROVE Inv'
    <2> USE DEF Inv
    <2>1. TypeOK' /\ Taken' /\ Claimed' /\ Guarded'
        BY <1>1, RequestType, TakenStep, ClaimedStep, GuardedStep
    <2>2. Sequencer!NewestKnown' /\ Recent'
        BY <1>1, TableStep, TableKept, AcceptNewest, AcceptRecent DEF TypeOK
    <2> QED
        BY <2>1, <2>2
<1> QED
    BY <1>1, StopInv DEF Next

\* So it always holds.
LEMMA Invariant == Spec => []Inv
BY InitInv, StepInv, PTL DEF Spec

(* The properties. *)

\* The table, the epochs and the answers keep their types.
THEOREM TypeCorrect == Spec => []TypeOK
<1>1. Inv => TypeOK
    BY DEF Inv
<1> QED
    BY <1>1, Invariant, PTL

\* The table has the newest number of every client it has not had to forget
\* (sequencer.rs:36-44).
THEOREM NewestIsKnown == Spec => []NewestKnown
<1>1. Inv => NewestKnown
    BY DEF Inv, NewestKnown
<1> QED
    BY <1>1, Invariant, PTL

\* The table holds the clients heard most recently, as many as there are slots: one that
\* keeps playing is never the one forgotten (sequencer.rs:45-53).
THEOREM MostRecent == Spec => []MostRecentKept
<1>1. Inv => MostRecentKept
    BY RecentAreKept DEF Inv, MostRecentKept, TypeOK
<1> QED
    BY <1>1, Invariant, PTL

\* A request that woke to a newer one of its client is not played, unless the table had
\* to forget the client (sinks/local.rs:211, 268, 317).
THEOREM NoneOvertakes == Spec => []OvertakenNeverPlays
<1>1. Inv => OvertakenNeverPlays
    BY DEF Inv, OvertakenNeverPlays, Guarded, Taken, TypeOK
<1> QED
    BY <1>1, Invariant, PTL

\* What is stored was played, and the answers tell the truth about it.
THEOREM AnswersAreTrue == Spec => []AnswersHold
<1>1. Inv => AnswersHold
    BY DEF Inv, AnswersHold, Taken
<1> QED
    BY <1>1, Invariant, PTL

\* Requests that race do not all lose (player.rs:992-1068).
THEOREM OneWins == Spec => []SomeoneWins
<1>1. Inv => SomeoneWins
    BY DEF Inv, SomeoneWins, AtRest, Claimed
<1> QED
    BY <1>1, Invariant, PTL
=============================================================================
