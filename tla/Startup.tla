------------------------------ MODULE Startup ------------------------------
(***************************************************************************)
(* From a configuration to a running router: what hyf_config asks of a     *)
(* configuration, GatewayCore::new, and then the executor that reports the *)
(* configured links up and down in any order.  The decisions are those of  *)
(* Router.                                                                 *)
(*                                                                         *)
(* Ids of nodes and communities are naturals, 0 is the id of zeros; a slot *)
(* of a table is an option.                                                *)
(***************************************************************************)
EXTENDS Bytes, FiniteSets

CONSTANTS
    RouterCommandCapacity,  \* ROUTER_COMMAND_CAPACITY
    Configs,            \* configurations that a host may start with
    ConfiguredLinks,    \* the link ids in them
    NoIngress,
    TableSlots,         \* MAX_LINKS
    SeenSlotCount,      \* MAX_SEEN
    StoreSlots,         \* STORE_CAPACITY
    Rooms               \* communities that messages are for

\* Links are an array, their ids are link ids; limits are unsigned.
ASSUME StartupAssumption ==
    /\ RouterCommandCapacity \in Nat /\ TableSlots \in Nat
    /\ \A c \in Configs :
          /\ Len(c.links) \in Nat /\ DOMAIN c.links = 1..Len(c.links)
          /\ c.router.max_links \in Nat

VARIABLES
    config,     \* the configuration, until it is refused
    started,    \* what GatewayCore::new and the link events returned, or "no"
    table       \* the router's link table

startupVars == <<config, started, table>>

-----------------------------------------------------------------------------
(* Validation of a configuration.                                          *)

\* ConfigError
ConfigErrors ==
    {"InvalidNodeId", "InvalidRouterLinkCapacity", "InvalidRouterDedupeCapacity",
     "InvalidStoreCapacity", "InvalidLocalCommunity", "DuplicateLocalCommunity",
     "InvalidLinkMtu", "DuplicateLinkId", "LinkCountExceedsRouter",
     "LinkCountExceedsRouterCommandCapacity"}

\* The error of the first slot that has one
FirstError(slots, ErrorAt(_)) ==
    LET wrong == {i \in DOMAIN slots : IsSome(slots[i]) /\ ErrorAt(i) /= "none"}
    IN  IF wrong = {} THEN "none"
        ELSE ErrorAt(CHOOSE i \in wrong : \A j \in wrong : i <= j)

\* LinkConfigSet::enabled_count
Enabled(slot) == IsSome(slot) /\ slot[1].enabled
EnabledSlots(links) == {i \in DOMAIN links : Enabled(links[i])}
EnabledCount(links) == Cardinality(EnabledSlots(links))

\* has_duplicate_enabled_link
DuplicateLink(links, i) ==
    \E j \in EnabledSlots(links) : j > i /\ links[j][1].link_id = links[i][1].link_id

\* LinkConfigSet::validate, with LinkConfig::validate
LinksError(links) ==
    FirstError(links, LAMBDA i :
        CASE ~Enabled(links[i]) -> "none"
          [] links[i][1].mtu = 0 -> "InvalidLinkMtu"
          [] DuplicateLink(links, i) -> "DuplicateLinkId"
          [] OTHER -> "none")

\* GatewayPolicyConfig::validate
PolicyError(communities) ==
    FirstError(communities, LAMBDA i :
        CASE communities[i][1] = 0 -> "InvalidLocalCommunity"
          [] \E j \in DOMAIN communities : j > i /\ communities[j] = communities[i] ->
                 "DuplicateLocalCommunity"
          [] OTHER -> "none")

\* RouterConfig::validate
RouterConfigError(router) ==
    CASE router.max_links = 0 -> "InvalidRouterLinkCapacity"
      [] router.max_seen_messages = 0 -> "InvalidRouterDedupeCapacity"
      [] OTHER -> "none"

\* Mutant: as many links as there are commands.
FanoutLinkMaxAll == RouterCommandCapacity

\* The commands that a fan-out leaves for links
FanoutLinkMax == RouterCommandCapacity - 2

\* GatewayConfig::validate
ConfigError(c) ==
    CASE c.node_id = 0 -> "InvalidNodeId"
      [] RouterConfigError(c.router) /= "none" -> RouterConfigError(c.router)
      [] c.store_capacity = 0 -> "InvalidStoreCapacity"
      [] PolicyError(c.local_communities) /= "none" ->
             PolicyError(c.local_communities)
      [] LinksError(c.links) /= "none" -> LinksError(c.links)
      [] EnabledCount(c.links) > c.router.max_links -> "LinkCountExceedsRouter"
      [] EnabledCount(c.links) > FanoutLinkMax ->
             "LinkCountExceedsRouterCommandCapacity"
      [] OTHER -> "none"

\* router_policy
PolicyCommunities(c) ==
    {c.local_communities[i][1] :
        i \in {j \in DOMAIN c.local_communities : IsSome(c.local_communities[j])}}

-----------------------------------------------------------------------------
(* The gateway starts.                                                     *)

\* validate_runtime_capacity, for each of the three
CapacityError(c) ==
    IF \/ c.router.max_links > TableSlots
       \/ c.router.max_seen_messages > SeenSlotCount
       \/ c.store_capacity > StoreSlots
    THEN "RuntimeCapacity" ELSE "none"

\* GatewayCore::new
NewCoreError(c) == IF ConfigError(c) /= "none" THEN ConfigError(c) ELSE CapacityError(c)

\* The router of a configuration with these communities, nothing seen yet
RouterOf(communities) ==
    INSTANCE Router WITH
        Names <- Rooms, LinkIds <- ConfiguredLinks, NoLink <- NoIngress, NoKey <- 0,
        LocalNode <- 0, LocalCommunities <- communities, MaxLinks <- TableSlots,
        MaxSeen <- 0, CommandCapacity <- RouterCommandCapacity,
        links <- table, seen <- <<>>, next_seen <- 0, now <- 0

Policies == {PolicyCommunities(c) : c \in Configs}

EnabledLinks(c) == {c.links[i][1].link_id : i \in EnabledSlots(c.links)}

Start ==
    /\ started = "no"
    /\ started' = NewCoreError(config)
    /\ UNCHANGED <<config, table>>

\* handle_link_event, with set_link_state
LinkEvent(l, up) ==
    /\ started = "none"
    /\ l \in EnabledLinks(config)
    /\ \E communities \in Policies :
          /\ communities = PolicyCommunities(config)
          /\ table' = RouterOf(communities)!SetLinkState(l, up)
          /\ started' = IF up /\ RouterOf(communities)!LinkTableFull(l)
                        THEN "TooManyLinks" ELSE "none"
    /\ UNCHANGED config

StartupInit == config \in Configs /\ started = "no" /\ table = <<>>
StartupNext ==
    \/ Start
    \/ \E l \in ConfiguredLinks, up \in BOOLEAN : LinkEvent(l, up)
StartupSpec == StartupInit /\ [][StartupNext]_startupVars

-----------------------------------------------------------------------------

\* A message to a room, fresh and with hops left
RoomEnvelope(room) ==
    [id |-> 1, dest |-> [kind |-> "community", name |-> room], created |-> 0,
     expires |-> 2, hop |-> 2, form |-> "ok"]

\* A configuration that is let through never makes the router refuse a message
\* for lack of commands, nor a link for lack of a slot, whichever of its links
\* are up and wherever the message comes from: submitted, received or stored
\* (GatewayConfig::validate against handle_community_envelope).
FanOutFits ==
    started \in ConfigErrors \cup {"no", "RuntimeCapacity"} \/
        /\ started = "none"
        /\ \A communities \in Policies, room \in Rooms :
              communities = PolicyCommunities(config) =>
              /\ RouterOf(communities)!ForwardStored(RoomEnvelope(room)).error = "Ok"
              /\ \A ingress \in EnabledLinks(config) \cup {NoIngress} :
                    RouterOf(communities)!HandleEnvelope(RoomEnvelope(room), ingress, 0).error
                        = "Ok"
              /\ RouterOf(communities)!UpLinks \subseteq EnabledLinks(config)
=============================================================================
