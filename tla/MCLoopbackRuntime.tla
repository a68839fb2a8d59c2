------------------------- MODULE MCLoopbackRuntime --------------------------
(***************************************************************************)
(* A small instance of LoopbackRuntime: a unicast and a community message, *)
(* and one whose frame the links cannot carry.                             *)
(***************************************************************************)
EXTENDS LoopbackRuntime

\* The counters are not followed.
NoCounters == [c \in Counters |-> 0]

MCNames == {"self", "peer", "hall"}
MCEnabled == <<"left", "right">>

Env(id, kind, name, expires, hop) ==
  [id |-> id, dest |-> [kind |-> kind, name |-> name], created |-> 0,
   expires |-> expires, hop |-> hop, form |-> "ok"]
MCEnvelopes ==
  {Env(1, "node", "peer", 1, 1), Env(2, "community", "hall", 2, 2),
   Env(3, "node", "peer", 1, 1)}
=============================================================================
