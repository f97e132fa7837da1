------------------------- MODULE ZoneRegistryProofs -------------------------
(***************************************************************************)
(* What ZoneRegistry promises for any devices, networks, agents and outputs *)
(* and however many sockets come and go: the registry is well formed, an    *)
(* output belongs to the newest socket that registered it, and the active   *)
(* zone is one there is and that is shared.                                 *)
(***************************************************************************)
EXTENDS ZoneRegistry, TLAPS

Zone == Mine \cup Output
Rows == UNION {[zones -> BOOLEAN] : zones \in SUBSET Zone}
Registry ==
    [known : SUBSET Mine, enabled : SUBSET Zone, online : SUBSET Mine,
     agents : [Output -> Nat], counter : Nat,
     active : Mine \cup Shareable, preferred : Mine \cup Shareable]
SocketTask ==
    [outputs : SUBSET Output, at : {"read", "apply", "select", "open", "closed"}, rows : Rows]

\* A registry whose active zone is yet to be looked at, and one whose active zone was.
Formed(r) ==
    /\ r \in Registry /\ Local \in r.known /\ r.online \subseteq r.known
    /\ r.enabled \subseteq Known(r) /\ \A z \in Output : r.agents[z] <= r.counter
Settled(r) == Formed(r) /\ r.active \in Known(r)

RowsOK ==
    /\ saved \in Rows /\ saves \subseteq [call : Nat, zone : Zone, enabled : BOOLEAN]
    /\ refresh.rows \in Rows /\ refresh = [at |-> refresh.at, network |-> refresh.network, rows |-> refresh.rows]
WorldOK == busy \subseteq Mine /\ found \subseteq Device /\ events \in Nat
SocketsOK == sockets \in Seq(SocketTask) /\ registry.counter = Len(sockets)

\* ZonesFollowSockets with the newest socket named: that there is one has to be carried
\* along.
Newest(z, c) == c \in RegisteredBy(z) /\ \A d \in RegisteredBy(z) : d <= c
Followed ==
    \A z \in Output :
        \/ RegisteredBy(z) = {} /\ registry.agents[z] = 0
        \/ \E c \in RegisteredBy(z) :
               /\ Newest(z, c)
               /\ registry.agents[z] = IF sockets[c].at = "closed" THEN 0 ELSE c

IInv == Settled(registry) /\ RowsOK /\ WorldOK /\ SocketsOK /\ Followed
-----------------------------------------------------------------------------
(* The active zone. *)

LEMMA ControllableIsKnown ==
    ASSUME WorldOK, NEW r, Formed(r), NEW z \in Zone, Controllable(r, z)
    PROVE  z \in Known(r)
BY DEF Controllable, Usable, Formed, Known, Registry

LEMMA FirstEnabledOK ==
    ASSUME ZoneAssumption, NEW r, Formed(r), NEW z \in FirstEnabled(r)
    PROVE  z \in Known(r) /\ z \in Mine \cup Shareable
BY DEF FirstEnabled, Usable, Formed, Known, Registry, Mine, Shareable

LEMMA TurnedTo ==
    ASSUME NEW r, Formed(r), NEW z \in Known(r), z \in Mine \cup Shareable
    PROVE  /\ Settled([r EXCEPT !.active = z])
           /\ [r EXCEPT !.active = z].agents = r.agents
           /\ [r EXCEPT !.active = z].counter = r.counter
BY DEF Settled, Formed, Registry, Known

LEMMA FallBackSettles ==
    ASSUME ZoneAssumption, WorldOK, NEW r, Formed(r), NEW s \in FallBack(r)
    PROVE  Settled(s) /\ s.agents = r.agents /\ s.counter = r.counter
<1>1. CASE Controllable(r, r.active)
    <2>1. r.active \in Zone
        BY DEF Formed, Registry, Zone, Shareable
    <2>2. s = r
        BY <1>1 DEF FallBack
    <2> QED
        BY <1>1, <2>1, <2>2, ControllableIsKnown DEF Settled
<1>2. CASE ~Controllable(r, r.active)
    <2>1. PICK z \in FirstEnabled(r) : s = [r EXCEPT !.active = z]
        BY <1>2 DEF FallBack
    <2> QED
        BY <2>1, FirstEnabledOK, TurnedTo
<1> QED
    BY <1>1, <1>2

LEMMA RestoreSettles ==
    ASSUME ZoneAssumption, WorldOK, NEW r, Formed(r), NEW s \in RestorePreferredOrFallback(r)
    PROVE  Settled(s) /\ s.agents = r.agents /\ s.counter = r.counter
<1>1. CASE Controllable(r, r.preferred) /\ s = [r EXCEPT !.active = r.preferred]
    <2>1. r.preferred \in Mine \cup Shareable /\ r.preferred \in Zone
        BY DEF Formed, Registry, Zone, Shareable
    <2> QED
        BY <1>1, <2>1, ControllableIsKnown, TurnedTo
<1>2. CASE s \in FallBack(r)
    BY <1>2, FallBackSettles
<1> QED
    BY <1>1, <1>2 DEF RestorePreferredOrFallback

\* A step that leaves the outputs of agents and their sockets alone, and one that moves a
\* socket on without closing it.
LEMMA SocketsStay ==
    ASSUME IInv, registry'.agents = registry.agents, registry'.counter = registry.counter,
           sockets' = sockets
    PROVE  SocketsOK' /\ Followed'
BY DEF IInv, SocketsOK, Followed, Newest, RegisteredBy

Moves(c, next, rows) == sockets' = [sockets EXCEPT ![c].at = next, ![c].rows = rows]
LEMMA SocketMoves ==
    ASSUME IInv, registry'.agents = registry.agents, registry'.counter = registry.counter,
           NEW c \in DOMAIN sockets, NEW rows \in Rows, NEW next \in {"apply", "select", "open"},
           sockets[c].at # "closed",
           Moves(c, next, rows)
    PROVE  SocketsOK' /\ Followed'
<1>0. SocketsOK /\ Followed
    BY DEF IInv
<1>1. sockets[c] \in SocketTask
    BY <1>0 DEF SocketsOK
<1>2. [sockets[c] EXCEPT !.at = next, !.rows = rows] \in SocketTask
    BY <1>1 DEF SocketTask
<1>3. PICK s \in SocketTask :
          /\ sockets' = [sockets EXCEPT ![c] = s]
          /\ s.outputs = sockets[c].outputs /\ s.at = next
    BY <1>1, <1>2 DEF SocketTask, Moves
<1>4. SocketsOK' /\ DOMAIN sockets' = DOMAIN sockets
  <2>1. sockets \in Seq(SocketTask)
    BY <1>0 DEF SocketsOK
  <2>2. sockets' \in Seq(SocketTask) /\ Len(sockets') = Len(sockets)
    BY <1>3, <2>1
  <2> QED
    BY <1>0, <1>3, <2>1, <2>2 DEF SocketsOK
<1>5. ASSUME NEW d \in DOMAIN sockets
      PROVE  /\ sockets'[d].outputs = sockets[d].outputs
             /\ (sockets'[d].at = "closed") <=> (sockets[d].at = "closed")
    BY <1>1, <1>3, <1>5 DEF SocketTask
<1> QED
    <2>1. \A z \in Output : RegisteredBy(z)' = RegisteredBy(z)
        BY <1>4, <1>5 DEF RegisteredBy
    <2> QED
        BY <1>0, <1>4, <1>5, <2>1 DEF Followed, Newest, RegisteredBy
-----------------------------------------------------------------------------
(* The initial state, and what the invariant says. *)

LEMMA InitOK ==
    ASSUME ZoneAssumption, Init PROVE IInv
<1> USE DEF Init, Mine
<1>1. Settled(registry)
    BY DEF Settled, Formed, Registry, Known, Zone, ZoneAssumption
<1>2. [z \in {} |-> TRUE] \in Rows
  <2>1. [z \in {} |-> TRUE] \in [{} -> BOOLEAN]
    OBVIOUS
  <2> QED
    BY <2>1 DEF Rows
<1>3. RowsOK
    BY <1>2 DEF RowsOK
<1>4. WorldOK /\ SocketsOK
    BY DEF WorldOK, SocketsOK
<1>5. Followed
    BY DEF Followed, RegisteredBy
<1> QED
    BY <1>1, <1>3, <1>4, <1>5 DEF IInv

LEMMA IInvImplies ==
    ASSUME IInv PROVE TypeOK /\ ZonesFollowSockets /\ ActiveIsShared
<1>1. TypeOK
    BY DEF IInv, Settled, Formed, Registry, RowsOK, Rows, WorldOK, SocketsOK, TypeOK, Zone, Shareable
<1>2. ZonesFollowSockets
  <2> SUFFICES ASSUME NEW z \in Output, RegisteredBy(z) # {}
               PROVE  LET newest == CHOOSE c \in RegisteredBy(z) : \A d \in RegisteredBy(z) : d <= c
                      IN  registry.agents[z] = IF sockets[newest].at = "closed" THEN 0 ELSE newest
    BY DEF ZonesFollowSockets, IInv, Followed
  <2>1. PICK c \in RegisteredBy(z) :
            /\ Newest(z, c)
            /\ registry.agents[z] = IF sockets[c].at = "closed" THEN 0 ELSE c
    BY DEF IInv, Followed
  <2>2. RegisteredBy(z) \subseteq Nat
    BY DEF IInv, SocketsOK, RegisteredBy
  <2>3. \A e \in RegisteredBy(z) : (\A d \in RegisteredBy(z) : d <= e) => e = c
    BY <2>1, <2>2 DEF Newest
  <2>4. c = CHOOSE e \in RegisteredBy(z) : \A d \in RegisteredBy(z) : d <= e
    BY <2>1, <2>3 DEF Newest
  <2> QED
    BY <2>1, <2>4
<1>3. ActiveIsShared
    BY DEF IInv, Settled, Formed, Registry, ActiveIsShared
<1> QED
    BY <1>1, <1>2, <1>3
-----------------------------------------------------------------------------
(* A refresh. *)

LEMMA SyncLocalDevicesSettles ==
    ASSUME ZoneAssumption, WorldOK, NEW r, Formed(r), NEW listed \in SUBSET Device,
           NEW s \in SyncLocalDevices(r, listed)
    PROVE  Settled(s) /\ s.agents = r.agents /\ s.counter = r.counter
<1> DEFINE lost == {z \in r.known \ {Local} : LosesWithDevices(z)}
           synced == [r EXCEPT !.known = @ \cup listed,
                               !.online = (@ \ lost) \cup (lost \cap busy) \cup listed]
<1>1. Formed(synced) /\ synced.agents = r.agents /\ synced.counter = r.counter
    BY DEF Formed, Registry, Known, Mine
<1> QED
    BY <1>1, RestoreSettles DEF SyncLocalDevices

LEMMA SyncReceiversSettles ==
    ASSUME ZoneAssumption, WorldOK, NEW r, Formed(r), NEW kind,
           NEW s \in SyncReceivers(r, kind)
    PROVE  Settled(s) /\ s.agents = r.agents /\ s.counter = r.counter
<1> DEFINE listed == {z \in found : Kind[z] = kind}
           synced == [r EXCEPT !.known = @ \cup listed,
                               !.online = {z \in @ : z = Local \/ Kind[z] # kind} \cup listed]
<1>1. Formed(synced) /\ synced.agents = r.agents /\ synced.counter = r.counter
    BY DEF Formed, Registry, Known, Mine, WorldOK
<1> QED
    BY <1>1, RestoreSettles DEF SyncReceivers

LEMMA ApplySettles ==
    ASSUME ZoneAssumption, WorldOK, NEW r, Formed(r), NEW rows,
           NEW s \in ApplyDefinitions(r, rows)
    PROVE  Settled(s) /\ s.agents = r.agents /\ s.counter = r.counter
<1> DEFINE enabled == (r.enabled \ DOMAIN rows) \cup {z \in DOMAIN rows \cap Known(r) : rows[z]}
           applied == [r EXCEPT !.enabled = enabled]
<1>1. enabled \subseteq Known(r) /\ Known(r) \subseteq Zone
    BY DEF Formed, Registry, Known, Zone
<1> HIDE DEF enabled
<1>2. Formed(applied) /\ applied.agents = r.agents /\ applied.counter = r.counter
    BY <1>1 DEF Formed, Registry, Known
<1> USE DEF enabled
<1>3. s \in RestorePreferredOrFallback(applied)
    BY DEF ApplyDefinitions
<1> QED
    BY <1>2, <1>3, RestoreSettles

LEMMA ListedIsRows ==
    ASSUME IInv PROVE Listed \in Rows /\ Inserted(Listed) \in Rows
<1>1. Known(registry) \in SUBSET Zone
    BY DEF IInv, Settled, Formed, Registry, Known, Zone
<1>2. Listed \in [Known(registry) -> BOOLEAN]
    BY DEF Listed
<1>3. Listed \in Rows
    BY <1>1, <1>2 DEF Rows
<1>4. PICK zones \in SUBSET Zone : saved \in [zones -> BOOLEAN]
    BY DEF IInv, RowsOK, Rows
<1>5. Inserted(Listed) \in [zones \cup Known(registry) -> BOOLEAN]
    BY <1>2, <1>4 DEF Inserted
<1> QED
    BY <1>1, <1>3, <1>4, <1>5 DEF Rows

LEMMA NoRowsIsRows == NoRows \in Rows
<1>1. NoRows \in [{} -> BOOLEAN]
    BY DEF NoRows
<1> QED
    BY <1>1 DEF Rows

LEMMA RefreshKeeps ==
    ASSUME ZoneAssumption, IInv, RefreshStep PROVE IInv'
<1> SUFFICES Settled(registry)' /\ RowsOK' /\ WorldOK' /\ registry'.agents = registry.agents
             /\ registry'.counter = registry.counter /\ sockets' = sockets
    BY SocketsStay DEF IInv
<1> USE NoRowsIsRows
<1>1. CASE RefreshDevices
  <2>1. RowsOK' /\ WorldOK' /\ sockets' = sockets
    BY <1>1 DEF RefreshDevices, Refresh, World, IInv, RowsOK, WorldOK
  <2> DEFINE devices == {z \in found : Kind[z] = "local"}
  <2>2. CASE UNCHANGED registry
    BY <2>1, <2>2 DEF IInv, Settled, Formed, Known
  <2>3. CASE \E hogged \in SUBSET (busy \cap devices) :
                 Becomes(SyncLocalDevices(registry, devices \ hogged))
    <3>1. PICK hogged \in SUBSET (busy \cap devices) :
              registry' \in SyncLocalDevices(registry, devices \ hogged)
        BY <2>3 DEF Becomes
    <3>2. devices \ hogged \in SUBSET Device
        BY DEF IInv, WorldOK
    <3>3. /\ Settled(registry') /\ registry'.agents = registry.agents
          /\ registry'.counter = registry.counter
        BY <3>1, <3>2, SyncLocalDevicesSettles DEF IInv, Settled
    <3> QED
        BY <2>1, <3>3 DEF Settled, Formed, Known
  <2> QED
    BY <1>1, <2>2, <2>3 DEF RefreshDevices
<1>2. CASE RefreshReceivers
  <2>1. RowsOK' /\ WorldOK' /\ sockets' = sockets
    BY <1>2 DEF RefreshReceivers, World, IInv, RowsOK, WorldOK
  <2>2. registry' \in SyncReceivers(registry, Networks[refresh.network])
    BY <1>2 DEF RefreshReceivers, Becomes
  <2>3. /\ Settled(registry') /\ registry'.agents = registry.agents
        /\ registry'.counter = registry.counter
    BY <2>2, SyncReceiversSettles DEF IInv, Settled
  <2> QED
    BY <2>1, <2>3 DEF Settled, Formed, Known
<1>3. CASE PersistZoneDefinitions
  <2>1. RowsOK'
    BY <1>3, ListedIsRows DEF PersistZoneDefinitions, Refresh, World, IInv, RowsOK
  <2> QED
    BY <1>3, <2>1 DEF PersistZoneDefinitions, World, IInv, WorldOK, Settled, Formed, Known
<1>4. CASE ReadDefinitions
  <2>1. RowsOK'
    BY <1>4 DEF ReadDefinitions, Refresh, World, IInv, RowsOK
  <2> QED
    BY <1>4, <2>1 DEF ReadDefinitions, World, IInv, WorldOK, Settled, Formed, Known
<1>5. CASE RefreshApplies
  <2>1. RowsOK' /\ WorldOK' /\ sockets' = sockets
    BY <1>5 DEF RefreshApplies, Refresh, World, IInv, RowsOK, WorldOK
  <2>2. registry' \in ApplyDefinitions(registry, refresh.rows)
    BY <1>5 DEF RefreshApplies, Becomes
  <2>3. /\ Settled(registry') /\ registry'.agents = registry.agents
        /\ registry'.counter = registry.counter
    BY <2>2, ApplySettles DEF IInv, Settled
  <2> QED
    BY <2>1, <2>3 DEF Settled, Formed, Known
<1> QED
    BY <1>1, <1>2, <1>3, <1>4, <1>5 DEF RefreshStep
-----------------------------------------------------------------------------
(* Listeners and the world. *)

LEMMA ListenKeeps ==
    ASSUME ZoneAssumption, IInv, Listen \/ Save \/ Happen PROVE IInv'
<1> SUFFICES Settled(registry)' /\ RowsOK' /\ WorldOK' /\ registry'.agents = registry.agents
             /\ registry'.counter = registry.counter /\ sockets' = sockets
    BY SocketsStay DEF IInv
<1> USE DEF IInv
<1>0. events \in Nat /\ MaxEvents \in Nat
    BY DEF WorldOK, ZoneAssumption
<1>1. ASSUME NEW z \in Zone, SelectZone(z)
      PROVE  Settled(registry)' /\ RowsOK' /\ WorldOK' /\ registry'.agents = registry.agents
             /\ registry'.counter = registry.counter /\ sockets' = sockets
  <2>1. z \in Known(registry)
    BY <1>1, ControllableIsKnown DEF SelectZone, Settled
  <2>2. Settled(registry)' /\ registry'.agents = registry.agents /\ registry'.counter = registry.counter
    BY <1>1, <2>1 DEF SelectZone, Settled, Formed, Registry, Known
  <2> QED
    BY <1>0, <1>1, <2>2 DEF SelectZone, Call, Event, RowsOK, WorldOK
<1>2. ASSUME NEW z \in Zone, EnableZone(z)
      PROVE  Settled(registry)' /\ RowsOK' /\ WorldOK' /\ registry'.agents = registry.agents
             /\ registry'.counter = registry.counter /\ sockets' = sockets
  <2>1. Settled(registry)' /\ registry'.agents = registry.agents /\ registry'.counter = registry.counter
    <3>1. z \in Known(registry)
        BY <1>2 DEF EnableZone
    <3>2. CASE z \in Mine \cup Shareable
        <4>1. registry' = [registry EXCEPT !.enabled = @ \cup {z}, !.active = z, !.preferred = z]
            BY <1>2, <3>2 DEF EnableZone, Activated
        <4>2. registry \in Registry /\ Formed(registry)
            BY DEF Settled, Formed
        <4> HIDE DEF IInv
        <4>3. registry' \in Registry
            BY <3>2, <4>1, <4>2 DEF Registry
        <4>4. /\ registry'.active = z /\ registry'.agents = registry.agents
              /\ registry'.counter = registry.counter /\ registry'.known = registry.known
              /\ registry'.online = registry.online
              /\ registry'.enabled = registry.enabled \cup {z}
            BY <4>1, <4>2 DEF Registry
        <4> QED
            BY <3>1, <4>2, <4>3, <4>4 DEF Settled, Formed, Known
    <3>3. CASE z \notin Mine \cup Shareable
        <4>1. registry' = [registry EXCEPT !.enabled = @ \cup {z}]
            BY <1>2, <3>3 DEF EnableZone
        <4> QED
            BY <3>1, <4>1 DEF Settled, Formed, Registry, Known
    <3> QED
        BY <3>2, <3>3
  <2>8. events' \in Nat /\ WorldOK'
    BY <1>0, <1>2 DEF EnableZone, Call, Event, WorldOK
  <2>9. RowsOK'
    <3>1. saves' = saves \cup {[call |-> events', zone |-> z, enabled |-> TRUE]}
        BY <1>2 DEF EnableZone
    <3>2. [call |-> events', zone |-> z, enabled |-> TRUE] \in [call : Nat, zone : Zone, enabled : BOOLEAN]
        BY <2>8
    <3>3. UNCHANGED <<saved, refresh>>
        BY <1>2 DEF EnableZone
    <3> HIDE DEF IInv
    <3> QED
        BY <3>1, <3>2, <3>3 DEF IInv, RowsOK
  <2> QED
    BY <1>2, <2>1, <2>8, <2>9 DEF EnableZone
<1>3. ASSUME NEW z \in Zone, DisableZone(z)
      PROVE  Settled(registry)' /\ RowsOK' /\ WorldOK' /\ registry'.agents = registry.agents
             /\ registry'.counter = registry.counter /\ sockets' = sockets
  <2> DEFINE r == [registry EXCEPT !.enabled = @ \ {z}]
  <2>1. Formed(r) /\ r.active \in Known(r)
    BY DEF Settled, Formed, Registry, Known
  <2>2. PICK a \in (IF r.active = z THEN FirstEnabled(r) ELSE {r.active}) :
            registry' = [r EXCEPT !.active = a, !.preferred = IF @ = z THEN a ELSE @]
    BY <1>3 DEF DisableZone
  <2>3. a \in Known(r) /\ a \in Mine \cup Shareable
    <3>1. r.active \in Mine \cup Shareable
        BY <2>1 DEF Formed, Registry
    <3> QED
        BY <2>1, <2>2, <3>1, FirstEnabledOK
  <2>4. Settled(registry)' /\ registry'.agents = registry.agents /\ registry'.counter = registry.counter
    BY <2>1, <2>2, <2>3 DEF Settled, Formed, Registry, Known
  <2>8. events' \in Nat /\ WorldOK'
    BY <1>0, <1>3 DEF DisableZone, Call, Event, WorldOK
  <2>9. RowsOK'
    <3>1. saves' = saves \cup {[call |-> events', zone |-> z, enabled |-> FALSE]}
        BY <1>3 DEF DisableZone
    <3>2. [call |-> events', zone |-> z, enabled |-> FALSE] \in [call : Nat, zone : Zone, enabled : BOOLEAN]
        BY <2>8
    <3>3. UNCHANGED <<saved, refresh>>
        BY <1>3 DEF DisableZone
    <3> HIDE DEF IInv
    <3> QED
        BY <3>1, <3>2, <3>3 DEF IInv, RowsOK
  <2> QED
    BY <1>3, <2>4, <2>8, <2>9 DEF DisableZone
<1>4. ASSUME NEW z \in Mine, StartPlayer(z) \/ PlayerEnds(z)
      PROVE  Settled(registry)' /\ RowsOK' /\ WorldOK' /\ registry'.agents = registry.agents
             /\ registry'.counter = registry.counter /\ sockets' = sockets
  <2>1. WorldOK'
    BY <1>0, <1>4 DEF StartPlayer, PlayerEnds, Call, Event, WorldOK
  <2> QED
    BY <1>4, <2>1 DEF StartPlayer, PlayerEnds, RowsOK, Settled, Formed, Known
<1>5. ASSUME NEW z \in Device, Change(z)
      PROVE  Settled(registry)' /\ RowsOK' /\ WorldOK' /\ registry'.agents = registry.agents
             /\ registry'.counter = registry.counter /\ sockets' = sockets
  <2>1. WorldOK'
    BY <1>0, <1>5 DEF Change, Event, WorldOK
  <2> QED
    BY <1>5, <2>1 DEF Change, RowsOK, Settled, Formed, Known
<1>6. ASSUME NEW s \in saves, SetZoneEnabled(s)
      PROVE  Settled(registry)' /\ RowsOK' /\ WorldOK' /\ registry'.agents = registry.agents
             /\ registry'.counter = registry.counter /\ sockets' = sockets
  <2>1. saved' \in Rows
    <3>1. PICK zones \in SUBSET Zone : saved \in [zones -> BOOLEAN]
        BY DEF RowsOK, Rows
    <3>2. s.enabled \in BOOLEAN
        BY DEF RowsOK
    <3>3. saved' \in [zones -> BOOLEAN]
        BY <1>6, <3>1, <3>2 DEF SetZoneEnabled
    <3> QED
        BY <3>3 DEF Rows
  <2> QED
    BY <1>6, <2>1 DEF SetZoneEnabled, RowsOK, WorldOK, Settled, Formed, Known
<1>7. \A z \in Zone : StartPlayer(z) => z \in Mine
    BY DEF StartPlayer
<1> QED
    BY <1>1, <1>2, <1>3, <1>4, <1>5, <1>6, <1>7 DEF Listen, Save, Happen, Zone
-----------------------------------------------------------------------------
(* Sockets. *)

LEMMA SocketStepKeeps ==
    ASSUME ZoneAssumption, IInv, SocketStep PROVE IInv'
<1>1. PICK c \in DOMAIN sockets : SocketReads(c) \/ SocketApplies(c) \/ SocketSelects(c)
    BY DEF SocketStep
<1>2. sockets[c] \in SocketTask
    BY DEF IInv, SocketsOK
<1>3. RowsOK' /\ WorldOK'
    BY <1>1 DEF IInv, SocketReads, SocketApplies, SocketSelects, Socket, RowsOK, WorldOK
<1>4. \E next \in {"apply", "select", "open"}, rows \in Rows :
          Moves(c, next, rows) /\ sockets[c].at # "closed"
    BY <1>1, NoRowsIsRows DEF IInv, RowsOK, SocketReads, SocketApplies, SocketSelects, Socket, Moves
<1>5. /\ Settled(registry') /\ registry'.agents = registry.agents
      /\ registry'.counter = registry.counter
  <2>1. CASE SocketReads(c)
    BY <2>1 DEF IInv, SocketReads
  <2>2. CASE SocketApplies(c)
    <3>1. registry' \in ApplyDefinitions(registry, sockets[c].rows)
        BY <2>2 DEF SocketApplies, Becomes
    <3> QED
        BY <3>1, ApplySettles DEF IInv, Settled
  <2>3. CASE SocketSelects(c)
    <3>1. CASE UNCHANGED registry
        BY <3>1 DEF IInv
    <3>2. CASE registry' # registry
        <4>1. PICK z \in Shareable :
                  /\ Controllable(registry, z)
                  /\ registry' = [registry EXCEPT !.active = z, !.preferred = z]
            BY <2>3, <3>2 DEF SocketSelects
        <4>2. z \in Known(registry)
            BY <4>1, ControllableIsKnown DEF IInv, Settled, Zone, Shareable
        <4> QED
            BY <4>1, <4>2 DEF IInv, Settled, Formed, Registry, Known
    <3> QED
        BY <3>1, <3>2
  <2> QED
    BY <1>1, <2>1, <2>2, <2>3
<1>6. Settled(registry)'
    BY <1>5 DEF Settled, Formed, Known
<1>7. SocketsOK' /\ Followed'
    BY <1>4, <1>5, SocketMoves
<1> QED
    BY <1>3, <1>6, <1>7 DEF IInv

Replaced(r, c, agents, enabled) ==
    [r EXCEPT !.counter = c, !.agents = agents, !.enabled = enabled]
LEMMA ReplacedOK ==
    ASSUME NEW r \in Registry, NEW c \in Nat, NEW agents \in [Output -> Nat],
           NEW enabled \in SUBSET Zone
    PROVE  /\ Replaced(r, c, agents, enabled) \in Registry
           /\ Replaced(r, c, agents, enabled).agents = agents
           /\ Replaced(r, c, agents, enabled).counter = c
           /\ Replaced(r, c, agents, enabled).enabled = enabled
BY DEF Registry, Replaced

\* The connection that registers is newer than every other, and has all it registers.
LEMMA ConnectKeeps ==
    ASSUME ZoneAssumption, IInv, Connect PROVE IInv'
<1>1. PICK a \in Agent, outputs \in SUBSET Output :
          RegisterAgent(a, outputs)
    BY DEF Connect
<1> DEFINE c == registry.counter + 1
           agents == [z \in Output |-> IF z \in outputs THEN c ELSE registry.agents[z]]
           enabled == IF a \in Browser THEN registry.enabled \ outputs
                      ELSE registry.enabled \cup outputs
           r == Replaced(registry, c, agents, enabled)
           socket == [outputs |-> outputs, at |-> "read", rows |-> NoRows]
<1>2. sockets' = Append(sockets, socket) /\ registry' \in RestorePreferredOrFallback(r)
  <2>1. r = [registry EXCEPT !.counter = c,
                             !.agents = [z \in Output |-> IF z \in outputs THEN c ELSE @[z]],
                             !.enabled = IF a \in Browser THEN @ \ outputs ELSE @ \cup outputs]
    BY DEF Replaced
  <2>2. sockets' = Append(sockets, socket)
    BY <1>1 DEF RegisterAgent
  <2>3. Becomes(RestorePreferredOrFallback(
                  [registry EXCEPT !.counter = c,
                             !.agents = [z \in Output |-> IF z \in outputs THEN c ELSE @[z]],
                             !.enabled = IF a \in Browser THEN @ \ outputs ELSE @ \cup outputs]))
    BY <1>1 DEF RegisterAgent
  <2> QED
    BY <2>1, <2>2, <2>3 DEF Becomes
<1>3. registry.counter \in Nat /\ registry.agents \in [Output -> Nat]
    BY DEF IInv, Settled, Formed, Registry
<1>4. agents \in [Output -> Nat] /\ \A z \in Output : agents[z] <= c
    BY <1>3 DEF IInv, Settled, Formed
<1>5. enabled \subseteq Known([registry EXCEPT !.agents = agents]) /\ enabled \subseteq Zone
    BY <1>3 DEF IInv, Settled, Formed, Registry, Known, Zone
<1> HIDE DEF agents, enabled
<1>6. Formed(r) /\ r.agents = agents /\ r.counter = c
  <2>1. /\ registry \in Registry /\ registry.active \in Known(registry)
        /\ Local \in registry.known /\ registry.online \subseteq registry.known
    BY DEF IInv, Settled, Formed
  <2>2. r \in Registry /\ r.agents = agents /\ r.counter = c /\ r.enabled = enabled
    <3> HIDE DEF c
    <3>1. c \in Nat
        BY <1>3 DEF c
    <3>2. registry \in Registry /\ agents \in [Output -> Nat] /\ enabled \in SUBSET Zone
        BY <1>4, <1>5, <2>1
    <3> QED
        BY <3>1, <3>2, ReplacedOK
  <2>3. r.known = registry.known /\ r.online = registry.online
    BY <2>1 DEF Registry, Replaced
  <2>4. enabled \subseteq Known(r)
    BY <1>5, <2>1, <2>2, <2>3 DEF Known, Registry
  <2> QED
    BY <1>4, <2>1, <2>2, <2>3, <2>4 DEF Formed
<1> HIDE DEF r
<1>7. Settled(registry') /\ registry'.agents = agents /\ registry'.counter = c
    BY <1>2, <1>6, RestoreSettles DEF IInv
<1> USE DEF agents
<1>8. RowsOK' /\ WorldOK'
    BY <1>1 DEF IInv, RegisterAgent, Event, RowsOK, WorldOK
<1>9. socket \in SocketTask
    BY <1>1, NoRowsIsRows DEF SocketTask
<1>10. sockets \in Seq(SocketTask) /\ Len(sockets) = registry.counter
    BY DEF IInv, SocketsOK
<1>11. /\ SocketsOK' /\ DOMAIN sockets' = DOMAIN sockets \cup {c} /\ sockets'[c] = socket
       /\ \A d \in DOMAIN sockets : sockets'[d] = sockets[d] /\ d < c /\ d \in Nat
    BY <1>2, <1>7, <1>9, <1>10 DEF SocketsOK
<1>12. ASSUME NEW z \in Output
       PROVE  \/ RegisteredBy(z)' = {} /\ registry'.agents[z] = 0
              \/ \E d \in RegisteredBy(z)' :
                     /\ Newest(z, d)'
                     /\ registry'.agents[z] = IF sockets'[d].at = "closed" THEN 0 ELSE d
  <2>1. CASE z \in outputs
    <3>1. c \in DOMAIN sockets' /\ sockets'[c].outputs = outputs /\ sockets'[c].at = "read"
        BY <1>11
    <3>2. c \in RegisteredBy(z)'
        BY <2>1, <3>1 DEF RegisteredBy
    <3>3. \A d \in RegisteredBy(z)' : d <= c
        BY <1>3, <1>11 DEF RegisteredBy
    <3>4. registry'.agents[z] = c
        BY <1>7, <2>1
    <3> QED
        BY <3>1, <3>2, <3>3, <3>4 DEF Newest
  <2>2. CASE z \notin outputs
    <3>1. RegisteredBy(z)' = RegisteredBy(z)
        BY <1>11, <2>2 DEF RegisteredBy
    <3>2. registry'.agents[z] = registry.agents[z]
        BY <1>7, <2>2
    <3>3. \A d \in RegisteredBy(z) : sockets'[d] = sockets[d]
        BY <1>11 DEF RegisteredBy
    <3> QED
        BY <3>1, <3>2, <3>3 DEF IInv, Followed, Newest
  <2> QED
    BY <2>1, <2>2
<1>13. Settled(registry)' /\ Followed'
    BY <1>7, <1>12 DEF Settled, Formed, Known, Followed
<1> QED
    BY <1>8, <1>11, <1>13 DEF IInv

LEMMA DisconnectKeeps ==
    ASSUME ZoneAssumption, IInv, Disconnect PROVE IInv'
<1>1. PICK c \in DOMAIN sockets : SocketCloses(c)
    BY DEF Disconnect
<1> DEFINE agents == [z \in Output |-> IF Its(z, c) THEN 0 ELSE registry.agents[z]]
           enabled == {z \in registry.enabled : z \in Mine \/ ~Its(z, c)}
           r == [registry EXCEPT !.agents = agents, !.enabled = enabled]
<1>2. registry' \in FallBack(r)
  <2>1. r = [registry EXCEPT !.agents = [z \in Output |-> IF Its(z, c) THEN 0 ELSE @[z]],
                             !.enabled = {z \in @ : z \in Mine \/ ~Its(z, c)}]
    OBVIOUS
  <2> QED
    BY <1>1, <2>1 DEF SocketCloses, Becomes
<1>3. /\ registry.agents \in [Output -> Nat] /\ agents \in [Output -> Nat]
      /\ \A z \in Output : agents[z] <= registry.counter
    BY DEF IInv, Settled, Formed, Registry
<1>4. enabled \subseteq Known([registry EXCEPT !.agents = agents])
    BY <1>3, ZoneAssumption DEF IInv, Settled, Formed, Registry, Known, Its, Mine
<1> HIDE DEF agents, enabled
<1>5. Formed(r) /\ r.agents = agents /\ r.counter = registry.counter
    BY <1>3, <1>4 DEF IInv, Settled, Formed, Registry, Known, Zone
<1> HIDE DEF r
<1>6. Settled(registry') /\ registry'.agents = agents /\ registry'.counter = registry.counter
    BY <1>2, <1>5, FallBackSettles DEF IInv
<1>7. RowsOK' /\ WorldOK'
    BY <1>1 DEF IInv, SocketCloses, Socket, RowsOK, WorldOK
<1>8. sockets \in Seq(SocketTask) /\ Len(sockets) = registry.counter /\ sockets[c] \in SocketTask
    BY DEF IInv, SocketsOK
<1>9. [sockets[c] EXCEPT !.at = "closed", !.rows = NoRows] \in SocketTask
    BY <1>8, NoRowsIsRows DEF SocketTask
<1>10. PICK s \in SocketTask :
          /\ sockets' = [sockets EXCEPT ![c] = s]
          /\ s.outputs = sockets[c].outputs /\ s.at = "closed" /\ sockets[c].at = "open"
    BY <1>1, <1>8, <1>9 DEF SocketTask, SocketCloses, Socket
<1> HIDE DEF IInv
<1>11. /\ sockets' \in Seq(SocketTask) /\ Len(sockets') = Len(sockets)
       /\ DOMAIN sockets' = DOMAIN sockets
       /\ \A d \in DOMAIN sockets : sockets'[d] = IF d = c THEN s ELSE sockets[d]
    BY <1>8, <1>10
<1>12. SocketsOK'
    BY <1>6, <1>8, <1>11 DEF SocketsOK
<1>13. \A z \in Output : RegisteredBy(z)' = RegisteredBy(z)
    BY <1>10, <1>11 DEF RegisteredBy
<1>14. ASSUME NEW z \in Output
       PROVE  \/ RegisteredBy(z)' = {} /\ registry'.agents[z] = 0
              \/ \E d \in RegisteredBy(z)' :
                     /\ Newest(z, d)'
                     /\ registry'.agents[z] = IF sockets'[d].at = "closed" THEN 0 ELSE d
  <2>1. registry'.agents[z] = IF registry.agents[z] = c THEN 0 ELSE registry.agents[z]
    BY <1>6 DEF agents, Its
  <2>2. CASE RegisteredBy(z) = {} /\ registry.agents[z] = 0
    BY <1>13, <2>1, <2>2
  <2>3. ASSUME NEW d \in RegisteredBy(z), Newest(z, d),
               registry.agents[z] = IF sockets[d].at = "closed" THEN 0 ELSE d
        PROVE  Newest(z, d)' /\ registry'.agents[z] = IF sockets'[d].at = "closed" THEN 0 ELSE d
    <3>1. d \in DOMAIN sockets /\ c # 0
        BY <1>8, <2>3 DEF RegisteredBy
    <3>2. Newest(z, d)'
        BY <1>13, <2>3 DEF Newest
    <3> QED
        BY <1>10, <1>11, <2>1, <2>3, <3>1, <3>2
  <2> QED
    BY <1>13, <2>2, <2>3 DEF IInv, Followed
<1>15. Settled(registry)' /\ Followed'
    BY <1>6, <1>14 DEF Settled, Formed, Known, Followed
<1> QED
    BY <1>7, <1>12, <1>15 DEF IInv
-----------------------------------------------------------------------------
(* The theorems. *)

LEMMA StepKeeps ==
    ASSUME ZoneAssumption, IInv, [Next]_vars PROVE IInv'
<1>1. CASE UNCHANGED vars
  <2>1. Settled(registry)' /\ RowsOK' /\ WorldOK'
    BY <1>1 DEF vars, IInv, Settled, Formed, Known, RowsOK, WorldOK
  <2>2. SocketsOK' /\ Followed'
    BY <1>1, SocketsStay DEF vars
  <2> QED
    BY <2>1, <2>2 DEF IInv
<1> QED
    BY <1>1, RefreshKeeps, ListenKeeps, SocketStepKeeps, ConnectKeeps, DisconnectKeeps DEF Next

LEMMA Invariance == Spec => []IInv
<1> USE ZoneAssumption
<1> QED
    BY InitOK, StepKeeps, PTL DEF Spec

(* The registry is well formed whatever is found, lost, registered and enabled    *)
(* (zones/registry.rs).                                                            *)
THEOREM TypeCorrect == Spec => []TypeOK
    BY Invariance, IInvImplies, PTL

(* Each output belongs to the newest socket that registered it, until that one    *)
(* closes, however late the cleanup of older ones comes (zones/agent_bridge.rs).   *)
THEOREM OutputsFollowSockets == Spec => []ZonesFollowSockets
    BY Invariance, IInvImplies, PTL

(* The active zone is one there is, and neither it nor the preferred one is a     *)
(* browser's (zones/active_zone_policy.rs).                                        *)
THEOREM ActiveStaysShared == Spec => []ActiveIsShared
    BY Invariance, IInvImplies, PTL
=============================================================================
