--------------------------- MODULE MCGatewayCore ----------------------------
(***************************************************************************)
(* Small instances of GatewayCore.  The names are this node, a remote node,*)
(* a community this node belongs to (room) and two it does not (hall,      *)
(* annex).                                                                 *)
(***************************************************************************)
EXTENDS GatewayCore, TLC

LinkSymmetry == Permutations(LinkIds)

\* The counters are not followed.
NoCounters == [c \in Counters |-> 0]

MCNames == {"self", "peer", "room", "hall", "annex"}
MCLocalCommunities == {"room"}

Node(n) == [kind |-> "node", name |-> n]
Room(n) == [kind |-> "community", name |-> n]
Env(id, dest, created, expires, hop, form) ==
  [id |-> id, dest |-> dest, created |-> created, expires |-> expires,
   hop |-> hop, form |-> form]

\* Unicast and community traffic that competes for the store and the window.
TrafficEnvelopes ==
  {Env(1, Node("peer"), 0, 2, 2, "ok"), Env(2, Room("hall"), 0, 1, 2, "ok"),
   Env(3, Room("room"), 0, 2, 2, "ok"), Env(4, Node("peer"), 0, 1, 1, "ok")}

\* Every way an envelope can be refused, next to some that are taken.
RefusedEnvelopes ==
  {Env(1, Node("peer"), 1, 2, 1, "ok"), Env(2, Node("peer"), 0, 2, 2, "oversize"),
   Env(3, Node("peer"), 0, 2, 2, "invalid"), Env(4, Node("self"), 1, 1, 2, "ok"),
   Env(5, Node("self"), 0, 1, 0, "ok"), Env(6, Room("hall"), 0, 2, 0, "ok"),
   Env(7, Room("annex"), 0, 1, 2, "oversize"),
   Env(8, [kind |-> "foreign", name |-> "peer"], 0, 1, 0, "ok"),
   Env(9, Room("hall"), 0, 2, 3, "ok")}

\* Transit unicast, and a community message without hops.
EchoEnvelopes == {Env(1, Node("peer"), 0, 2, 2, "ok")}
HopZeroEnvelopes == {Env(1, Room("hall"), 0, 2, 0, "ok")}

\* One id used in two communities.
SharedIdEnvelopes ==
  {Env(1, Room("hall"), 0, 2, 2, "ok"), Env(1, Room("annex"), 0, 2, 2, "ok")}
=============================================================================
