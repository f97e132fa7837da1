---------------------------- MODULE ZoneRegistry ----------------------------
(***************************************************************************)
(* The zones a core can play on and which of them is active (src/zones):    *)
(* its own outputs, found again every 30 seconds and whenever somebody asks *)
(* for the list, and those of agents, which come and go with their sockets. *)
(*                                                                         *)
(* The registry is one mutex; one step is one lock of it, or one statement  *)
(* of the library, which remembers which zones are enabled.  A refresh, a   *)
(* registration and an enabling are several such steps, and interleave.     *)
(*                                                                         *)
(* Left out: names, capabilities, the output device a player is told to     *)
(* use, receivers that AirPlay cannot play to, the zone of a Hegel on       *)
(* standby, and the settings' copy of the preferred zone.                   *)
(***************************************************************************)
EXTENDS Naturals, Sequences, FiniteSets

CONSTANTS
    Local,              \* LOCAL_ZONE_ID
    Device,             \* the other zones of the core
    Kind,               \* what each of them is reached through
    Networks,           \* the kinds of receivers this build looks for, in its order
    Agent, Browser,     \* the agents; those that are browsers
    Output, Owner,      \* the zones of agents, and the agent of each
    MaxEvents           \* bound: sockets, requests of listeners, and outputs found or lost

ASSUME ZoneAssumption ==
    /\ Networks \in Seq({"airplay", "sonos", "upnp"})
    /\ Kind \in [Device -> {"local"} \cup {Networks[i] : i \in DOMAIN Networks}]
    /\ Owner \in [Output -> Agent] /\ Browser \subseteq Agent
    /\ Local \notin Device \cup Output /\ Device \cap Output = {}
    /\ MaxEvents \in Nat

VARIABLES
    registry,   \* ZoneRegistry
    saved,      \* the library: enabled, of every zone it has a row for
    refresh,    \* refresh_playback_zones: where it is, what it listed or read
    sockets,    \* run_agent_socket: one task for each connection
    saves,      \* set_zone_enabled, still to be called
    busy,       \* zones of the core whose player runs, or owns its output
    found,      \* what discovery and enumeration show
    events      \* how many of what the bound counts there were

vars == <<registry, saved, refresh, sockets, saves, busy, found, events>>
-----------------------------------------------------------------------------
Mine == Device \cup {Local}
Shareable == {z \in Output : Owner[z] \notin Browser}

\* The zones r has an entry for.
Known(r) == r.known \cup {z \in Output : r.agents[z] # 0}

Init ==
    /\ registry = [known |-> {Local}, enabled |-> {Local}, online |-> {Local},
                   agents |-> [z \in Output |-> 0], counter |-> 0,
                   active |-> Local, preferred |-> Local]
    /\ saved = [z \in {} |-> TRUE]
    /\ refresh = [at |-> "devices", network |-> 1, rows |-> [z \in {} |-> TRUE]]
    /\ sockets = <<>> /\ saves = {} /\ busy = {} /\ found = Device
    /\ events = 0

\* active_zone_policy.rs.
Usable(r, z) == z \in r.known \cap r.enabled \cap r.online
Controllable(r, z) ==
    \/ Usable(r, z)
    \/ z \in r.enabled \cap busy
    \/ z \in Output /\ r.agents[z] # 0 /\ z \in r.enabled

\* Both maps are hash maps: which zone is first is anybody's guess.  Seeded fault:
\* the output of a browser may be it.
FirstEnabledAny(r) ==
    LET mine == {z \in r.known : Usable(r, z)}
        theirs == {z \in Output : r.agents[z] # 0 /\ z \in r.enabled}
    IN  IF mine # {} THEN mine ELSE IF theirs # {} THEN theirs ELSE {Local}
FirstEnabled(r) ==
    LET mine == {z \in r.known : Usable(r, z)}
        theirs == {z \in Shareable : r.agents[z] # 0 /\ z \in r.enabled}
    IN  IF mine # {} THEN mine ELSE IF theirs # {} THEN theirs ELSE {Local}

\* What r may become when its active zone is looked at again.  Seeded fault: the
\* fallback is left out.
FallBackNever(r) == {r}
FallBack(r) ==
    IF Controllable(r, r.active) THEN {r}
    ELSE {[r EXCEPT !.active = z] : z \in FirstEnabled(r)}

RestorePreferredOrFallback(r) ==
    IF /\ ~Controllable(r, r.active) \/ r.active \in {Local, r.preferred}
       /\ Controllable(r, r.preferred)
    THEN {[r EXCEPT !.active = r.preferred]}
    ELSE FallBack(r)

\* Seeded fault: what is found on the network is lost with the local devices.
LosesAnything(z) == TRUE
LosesWithDevices(z) == Kind[z] \notin {"airplay", "sonos"}

SyncLocalDevices(r, listed) ==
    LET lost == {z \in r.known \ {Local} : LosesWithDevices(z)}
    IN  RestorePreferredOrFallback(
            [r EXCEPT !.known = @ \cup listed, !.online = (@ \ lost) \cup (lost \cap busy) \cup listed])

\* sync_airplay_receivers, sync_sonos_speakers, sync_upnp_renderers.
SyncReceivers(r, kind) ==
    LET listed == {z \in found : Kind[z] = kind}
    IN  RestorePreferredOrFallback(
            [r EXCEPT !.known = @ \cup listed,
                      !.online = {z \in @ : z = Local \/ Kind[z] # kind} \cup listed])

\* apply_definitions: what a row says of a zone there is.  Seeded faults: the zones
\* that are online keep what they have; a row enables a zone that is gone.
ApplyToOffline(r, rows) ==
    RestorePreferredOrFallback(
        [r EXCEPT !.enabled = {z \in @ : z \in r.online \/ z \notin DOMAIN rows}
                    \cup {z \in DOMAIN rows \cap Known(r) : rows[z] /\ z \notin r.online}])
ApplyToAll(r, rows) ==
    RestorePreferredOrFallback(
        [r EXCEPT !.enabled = (@ \ DOMAIN rows) \cup {z \in DOMAIN rows : rows[z]}])
ApplyDefinitions(r, rows) ==
    RestorePreferredOrFallback(
        [r EXCEPT !.enabled = (@ \ DOMAIN rows) \cup {z \in DOMAIN rows \cap Known(r) : rows[z]}])

Event == events < MaxEvents /\ events' = events + 1
Becomes(next) == \E r \in next : registry' = r
-----------------------------------------------------------------------------
(* refresh_playback_zones. *)

Refresh(at, next, rows) ==
    refresh.at = at /\ refresh' = [at |-> next, network |-> 1, rows |-> rows]
NoRows == [z \in {} |-> TRUE]
World == <<sockets, saves, busy, found, events>>

\* An output a player owns may be missing from the enumeration; while one is owned
\* in DoP nothing is enumerated.
RefreshDevices ==
    /\ Refresh("devices", "receivers", NoRows)
    /\ LET devices == {z \in found : Kind[z] = "local"}
       IN  \/ \E hogged \in SUBSET (busy \cap devices) :
                  Becomes(SyncLocalDevices(registry, devices \ hogged))
           \/ (\E z \in busy \cap Device : Kind[z] = "local") /\ UNCHANGED registry
    /\ UNCHANGED <<saved, World>>

\* The networks one after the other, each under a lock of its own.
RefreshReceivers ==
    /\ refresh.at = "receivers" /\ refresh.network \in DOMAIN Networks
    /\ refresh' = [refresh EXCEPT !.network = @ + 1]
    /\ Becomes(SyncReceivers(registry, Networks[refresh.network]))
    /\ UNCHANGED <<saved, World>>

\* list_zones and persist_zone_definitions, before the rows are read and after they
\* were applied: a row that is there keeps its enabled.
Listed == [z \in Known(registry) |-> z \in registry.enabled]
Inserted(rows) == [z \in DOMAIN saved \cup DOMAIN rows |->
                      IF z \in DOMAIN saved THEN saved[z] ELSE rows[z]]

PersistZoneDefinitions ==
    /\ \/ refresh.network \notin DOMAIN Networks /\ Refresh("receivers", "read", NoRows)
       \/ Refresh("again", "devices", NoRows)
    /\ saved' = Inserted(Listed)
    /\ UNCHANGED <<registry, World>>

ReadDefinitions ==
    /\ Refresh("read", "apply", saved)
    /\ UNCHANGED <<registry, saved, World>>

RefreshApplies ==
    /\ Refresh("apply", "again", NoRows)
    /\ Becomes(ApplyDefinitions(registry, refresh.rows))
    /\ UNCHANGED <<saved, World>>
-----------------------------------------------------------------------------
(* A listener.  A zone it names is one that was listed, and so has a row. *)

Call(z) == Event /\ z \in DOMAIN saved
Activated(z) == [registry EXCEPT !.enabled = @ \cup {z}, !.active = z, !.preferred = z]

SelectZone(z) ==
    /\ Call(z) /\ z \in Mine \cup Shareable /\ Controllable(registry, z)
    /\ registry' = [registry EXCEPT !.active = z, !.preferred = z]
    /\ UNCHANGED <<saved, refresh, sockets, saves, busy, found>>

\* An output of a browser is enabled and does not become active.
EnableZone(z) ==
    /\ Call(z) /\ z \in Known(registry)
    /\ z \in Mine => z \in registry.online
    /\ registry' = IF z \in Mine \cup Shareable THEN Activated(z)
                   ELSE [registry EXCEPT !.enabled = @ \cup {z}]
    /\ saves' = saves \cup {[call |-> events', zone |-> z, enabled |-> TRUE]}
    /\ UNCHANGED <<saved, refresh, sockets, busy, found>>

DisableZone(z) ==
    /\ Call(z) /\ z \in Known(registry)
    /\ LET r == [registry EXCEPT !.enabled = @ \ {z}]
           active == IF r.active = z THEN FirstEnabled(r) ELSE {r.active}
       IN  \E a \in active :
               registry' = [r EXCEPT !.active = a,
                                     !.preferred = IF @ = z THEN a ELSE @]
    /\ busy' = busy \ {z}
    /\ saves' = saves \cup {[call |-> events', zone |-> z, enabled |-> FALSE]}
    /\ UNCHANGED <<saved, refresh, sockets, found>>

SetZoneEnabled(s) ==
    /\ saves' = saves \ {s}
    /\ saved' = IF s.zone \in DOMAIN saved THEN [saved EXCEPT ![s.zone] = s.enabled] ELSE saved
    /\ UNCHANGED <<registry, refresh, sockets, busy, found, events>>

StartPlayer(z) ==
    /\ Call(z) /\ z \in Mine \ busy /\ Controllable(registry, z) /\ busy' = busy \cup {z}
    /\ UNCHANGED <<registry, saved, refresh, sockets, saves, found>>

PlayerEnds(z) ==
    /\ z \in busy /\ busy' = busy \ {z}
    /\ UNCHANGED <<registry, saved, refresh, sockets, saves, found, events>>

\* An output of the core appears or disappears.
Change(z) ==
    /\ Event
    /\ found' = IF z \in found THEN found \ {z} ELSE found \cup {z}
    /\ UNCHANGED <<registry, saved, refresh, sockets, saves, busy>>
-----------------------------------------------------------------------------
(* The socket of an agent. *)

\* register_agent takes over the zones the agent had, whichever socket they were
\* registered by.
RegisterAgent(a, outputs) ==
    /\ Event
    /\ LET c == registry.counter + 1
       IN  /\ Becomes(RestorePreferredOrFallback(
                  [registry EXCEPT
                      !.counter = c,
                      !.agents = [z \in Output |-> IF z \in outputs THEN c ELSE @[z]],
                      !.enabled = IF a \in Browser THEN @ \ outputs ELSE @ \cup outputs]))
           /\ sockets' = Append(sockets, [outputs |-> outputs, at |-> "read", rows |-> NoRows])
    /\ UNCHANGED <<saved, refresh, saves, busy, found>>

Socket(c, at, next, rows) ==
    /\ sockets[c].at = at
    /\ sockets' = [sockets EXCEPT ![c].at = next, ![c].rows = rows]
    /\ UNCHANGED <<saved, refresh, saves, busy, found, events>>

SocketReads(c) == Socket(c, "read", "apply", saved) /\ UNCHANGED registry

SocketApplies(c) ==
    /\ Socket(c, "apply", "select", NoRows)
    /\ Becomes(ApplyDefinitions(registry, sockets[c].rows))

\* maybe_select_remote_zone_for_unavailable_active_device: an agent may have the
\* device that the active zone of the core was set to, and has lost.
SocketSelects(c) ==
    /\ Socket(c, "select", "open", NoRows)
    /\ \/ UNCHANGED registry
       \/ /\ registry.active \in Mine /\ registry.active \notin found
          /\ \E z \in Shareable :
                 /\ Controllable(registry, z)
                 /\ registry' = [registry EXCEPT !.active = z, !.preferred = z]

\* unregister_agent: what the socket registered and no newer one has taken over.
\* Seeded fault: the zones of the agent, whoever registered them.
Theirs(z, c) == z \in sockets[c].outputs
Its(z, c) == registry.agents[z] = c

SocketCloses(c) ==
    /\ Socket(c, "open", "closed", NoRows)
    /\ Becomes(FallBack(
           [registry EXCEPT !.agents = [z \in Output |-> IF Its(z, c) THEN 0 ELSE @[z]],
                            !.enabled = {z \in @ : z \in Mine \/ ~Its(z, c)}]))
-----------------------------------------------------------------------------
RefreshStep ==
    \/ RefreshDevices \/ RefreshReceivers
    \/ PersistZoneDefinitions \/ ReadDefinitions \/ RefreshApplies
Listen == \E z \in Mine \cup Output :
    SelectZone(z) \/ EnableZone(z) \/ DisableZone(z) \/ StartPlayer(z)
Save == \E s \in saves : SetZoneEnabled(s)
SocketStep == \E c \in DOMAIN sockets : SocketReads(c) \/ SocketApplies(c) \/ SocketSelects(c)
Connect == \E a \in Agent : \E outputs \in SUBSET {z \in Output : Owner[z] = a} \ {{}} :
    RegisterAgent(a, outputs)
Disconnect == \E c \in DOMAIN sockets : SocketCloses(c)
Happen == (\E z \in Mine : PlayerEnds(z)) \/ (\E z \in Device : Change(z))

Next == RefreshStep \/ Listen \/ Save \/ SocketStep \/ Connect \/ Disconnect \/ Happen

Spec == Init /\ [][Next]_vars

(* The zones are refreshed every 30 seconds, and what was begun is finished. *)
FairSpec == Spec /\ WF_vars(RefreshStep) /\ WF_vars(Save) /\ WF_vars(SocketStep)
-----------------------------------------------------------------------------
(* The registry is well formed: an entry belongs to a connection there was, and  *)
(* what is enabled or online has an entry (zones/registry.rs).                    *)
TypeOK ==
    /\ Local \in registry.known /\ registry.known \subseteq Mine
    /\ registry.online \subseteq registry.known /\ registry.enabled \subseteq Known(registry)
    /\ registry.counter = Len(sockets) /\ registry.agents \in [Output -> 0..registry.counter]
    /\ registry.active \in Mine \cup Output /\ registry.preferred \in Mine \cup Output
    /\ DOMAIN saved \subseteq Mine \cup Output
    /\ busy \subseteq Mine /\ found \subseteq Device

(* Each zone of an agent belongs to the newest socket that registered it, until   *)
(* that one closes: the late cleanup of a dead socket takes nothing from the one  *)
(* that came after it, and leaves nothing behind (zones/agent_bridge.rs).         *)
RegisteredBy(z) == {c \in DOMAIN sockets : z \in sockets[c].outputs}
ZonesFollowSockets ==
    \A z \in Output :
        LET newest == CHOOSE c \in RegisteredBy(z) : \A d \in RegisteredBy(z) : d <= c
        IN  registry.agents[z] = IF RegisteredBy(z) = {} \/ sockets[newest].at = "closed"
                                 THEN 0 ELSE newest

(* The active zone has an entry, and neither it nor the one to return to belongs  *)
(* to a browser, whatever was registered, enabled, lost or disabled in between.   *)
ActiveIsShared ==
    /\ registry.active \in Known(registry)
    /\ {registry.active, registry.preferred} \subseteq Mine \cup Shareable

(* In the end the registry and the library agree on what is enabled, although     *)
(* every refresh writes back to the one what it read from the other.              *)
EnabledAgree == <>[](\A z \in DOMAIN Listed : z \in DOMAIN saved /\ saved[z] = Listed[z])

(* A zone that cannot be played on does not stay active when there is another.    *)
ActiveRecovers ==
    []<>(\/ Controllable(registry, registry.active)
         \/ \A z \in Known(registry) : z \in Mine => ~Usable(registry, z))

(* When nobody asks for anything, and nothing is found or lost, the active zone   *)
(* stays what it is: refreshing the zones alone does not move it.                 *)
ActiveRests == <>[][registry'.active = registry.active]_vars
=============================================================================
