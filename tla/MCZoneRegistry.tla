--------------------------- MODULE MCZoneRegistry ---------------------------
(* Instances of ZoneRegistry small enough for TLC. *)
EXTENDS ZoneRegistry

\* A sound card, a speaker on the network and the outputs of two agents, one a browser.
Kinds == [dac |-> "local", speaker |-> "airplay"]
Speakers == <<"airplay">>
Owners == [one |-> "agent", tab |-> "browser"]

\* A renderer and no agents.
Renderers == [renderer |-> "upnp"]
Upnp == <<"upnp">>
NoOwners == [z \in {} |-> "agent"]
=============================================================================
