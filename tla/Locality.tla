------------------------------ MODULE Locality ------------------------------
(***************************************************************************)
(* Sites, their networks, the agents placed on them and the agents that a  *)
(* network authorizes and prefers (locality.py, routers/sites.py,          *)
(* networks.py, subnets.py, agents.py, and the pool that scan_dispatch.py  *)
(* draws from them).  Names and address ranges, and the LAN subnet row     *)
(* that copies those of its network, are left out.                         *)
(*                                                                         *)
(* Bounds: one tenant; a request of an admin is one step.                  *)
(***************************************************************************)
EXTENDS Naturals, FiniteSets

CONSTANTS Sites, Networks, LanAgents, None

ASSUME LocalityAssumption == None \notin LanAgents /\ None \notin Sites

VARIABLES
    site,      \* Site rows: none, active, archived
    network,   \* Network rows with their NetworkAgent rows
    placed     \* Agent rows: the site and whether it was revoked

localityVars == <<site, network, placed>>

\* dispatch_mode is preferred_failover where preferred names an agent.
Network == [site : Sites \cup {None}, archived : BOOLEAN, agents : SUBSET LanAgents,
            preferred : LanAgents \cup {None}]
NoNetwork == [site |-> None, archived |-> FALSE, agents |-> {}, preferred |-> None]
Placed == [site : Sites \cup {None}, revoked : BOOLEAN]

LocalityTypeOK ==
    /\ site \in [Sites -> {"none", "active", "archived"}]
    /\ network \in [Networks -> Network]
    /\ placed \in [LanAgents -> Placed]

InitLocality ==
    /\ site = [s \in Sites |-> "none"]
    /\ network = [n \in Networks |-> NoNetwork]
    /\ placed = [a \in LanAgents |-> [site |-> None, revoked |-> FALSE]]

-----------------------------------------------------------------------------
(* Sites *)

CreateSite(s) ==
    /\ site[s] = "none"
    /\ site' = [site EXCEPT ![s] = "active"]
    /\ UNCHANGED <<network, placed>>

ArchiveSite(s) ==
    /\ site[s] = "active"
    /\ site' = [site EXCEPT ![s] = "archived"]
    /\ UNCHANGED <<network, placed>>

UnarchiveSite(s) ==
    /\ site[s] = "archived"
    /\ site' = [site EXCEPT ![s] = "active"]
    /\ UNCHANGED <<network, placed>>

-----------------------------------------------------------------------------
(* Networks *)

\* create_network, and create_subnet for a LAN.  A preferred agent cannot be
\* named yet: none is authorized.
CreateNetwork(n, s) ==
    /\ network[n] = NoNetwork
    /\ site[s] = "active"
    /\ network' = [network EXCEPT ![n].site = s]
    /\ UNCHANGED <<site, placed>>

\* set_dispatch: a preferred agent is of the site and authorized.
MayPrefer(n, a) == placed[a].site = network[n].site /\ a \in network[n].agents

\* update_network.  update_subnet changes a name and a range only.
UpdateNetwork(n, a) ==
    /\ network[n] # NoNetwork
    /\ a # None => MayPrefer(n, a)
    /\ network' = [network EXCEPT ![n].preferred = a]
    /\ UNCHANGED <<site, placed>>

ArchiveNetwork(n) ==
    /\ network[n] # NoNetwork /\ ~network[n].archived
    /\ network' = [network EXCEPT ![n].archived = TRUE]
    /\ UNCHANGED <<site, placed>>

UnarchiveNetwork(n) ==
    /\ network[n].archived
    /\ site[network[n].site] # "archived"
    /\ network' = [network EXCEPT ![n].archived = FALSE]
    /\ UNCHANGED <<site, placed>>

\* authorize_agent: an agent of another site is refused.
MayAuthorize(n, a) == placed[a].site = network[n].site

\* deauthorize_agent: the preferred agent goes with its authorization.
PreferredOf(row, agents) == IF row.preferred \in agents THEN row.preferred ELSE None

\* replace_authorized_agents: all the new agents are authorized, or nothing is changed.
ReplaceAuthorizedAgents(n, desired) ==
    /\ network[n] # NoNetwork
    /\ \A a \in desired \ network[n].agents : MayAuthorize(n, a)
    /\ network' = [network EXCEPT ![n].agents = desired, ![n].preferred = PreferredOf(network[n], desired)]
    /\ UNCHANGED <<site, placed>>

-----------------------------------------------------------------------------
(* Agents *)

\* _create_agent_row
CreateAgent(a, s) ==
    /\ placed[a].site = None
    /\ site[s] = "active"
    /\ placed' = [placed EXCEPT ![a].site = s]
    /\ UNCHANGED <<site, network>>

RevokePlaced(a) ==
    /\ placed[a].site # None /\ ~placed[a].revoked
    /\ placed' = [placed EXCEPT ![a].revoked = TRUE]
    /\ UNCHANGED <<site, network>>

\* Mutated form: a move keeps the preference for the agent that left.
Dropped_Preferred(row, a, s) ==
    IF row.site # s THEN [row EXCEPT !.agents = @ \ {a}] ELSE row

\* drop_cross_site_authorizations, for one network
Dropped(row, a, s) ==
    IF row.site # s
    THEN [row EXCEPT !.agents = @ \ {a}, !.preferred = PreferredOf(row, row.agents \ {a})]
    ELSE row

\* update_agent: a move to another active site
MoveAgent(a, s) ==
    /\ placed[a].site \notin {None, s}
    /\ site[s] = "active"
    /\ placed' = [placed EXCEPT ![a].site = s]
    /\ network' = [n \in Networks |-> Dropped(network[n], a, s)]
    /\ UNCHANGED site

NextLocality ==
    \/ \E s \in Sites : CreateSite(s) \/ ArchiveSite(s) \/ UnarchiveSite(s)
    \/ \E n \in Networks, s \in Sites : CreateNetwork(n, s)
    \/ \E n \in Networks, a \in LanAgents \cup {None} : UpdateNetwork(n, a)
    \/ \E n \in Networks : ArchiveNetwork(n) \/ UnarchiveNetwork(n)
    \/ \E n \in Networks, desired \in SUBSET LanAgents : ReplaceAuthorizedAgents(n, desired)
    \/ \E a \in LanAgents, s \in Sites : CreateAgent(a, s) \/ MoveAgent(a, s)
    \/ \E a \in LanAgents : RevokePlaced(a)

LocalitySpec == InitLocality /\ [][NextLocality]_localityVars

-----------------------------------------------------------------------------
(* Who may run a scan of some networks *)

\* common_eligible_agents; empty is its DispatchError.
CommonEligible(ns) ==
    {a \in LanAgents : \A n \in ns : /\ a \in network[n].agents
                                     /\ placed[a].site = network[n].site
                                     /\ ~placed[a].revoked}

\* resolve_dispatch_policy: the agents that the networks prefer, which must be one.
PreferredAmong(ns) == {network[n].preferred : n \in ns} \ {None}
DispatchResolves(ns) ==
    /\ CommonEligible(ns) # {}
    /\ Cardinality(PreferredAmong(ns)) <= 1
    /\ PreferredAmong(ns) \subseteq CommonEligible(ns)

-----------------------------------------------------------------------------
\* Whatever agents are moved, authorized and preferred in between, a scan of
\* one network is dispatched whenever some agent is eligible for it, unless
\* the agent that the network prefers was revoked: resolve_dispatch_policy
\* never meets a preference for an agent that left the pool.
PreferenceIsEligible ==
    \A n \in Networks :
        (/\ CommonEligible({n}) # {}
         /\ \A a \in PreferredAmong({n}) : ~placed[a].revoked) => DispatchResolves({n})
=============================================================================
