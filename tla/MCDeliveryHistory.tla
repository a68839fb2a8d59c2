-------------------------- MODULE MCDeliveryHistory -------------------------
(***************************************************************************)
(* Local deliveries of one id in a community and of a unicast, and transit *)
(* traffic that pushes them out of the ring, fills the store and has to be *)
(* worked through by the flush loop: one record it sends, one it drops.    *)
(***************************************************************************)
EXTENDS DeliveryHistory

\* Of the counters, those that expiry is about.
StoredAndExpired ==
  [c \in Counters |-> IF c \in {"stored", "expired"} THEN 3 ELSE 0]

MCNames == {"self", "peer", "room", "hall"}
MCLocalCommunities == {"room"}

Env(id, kind, name, expires, hop) ==
  [id |-> id, dest |-> [kind |-> kind, name |-> name], created |-> 0,
   expires |-> expires, hop |-> hop, form |-> "ok"]
MCEnvelopes ==
  {Env(1, "community", "room", 1, 2), Env(1, "node", "self", 1, 2),
   Env(2, "node", "peer", 1, 2), Env(3, "community", "hall", 2, 0)}
=============================================================================
