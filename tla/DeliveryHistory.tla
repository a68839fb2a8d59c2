--------------------------- MODULE DeliveryHistory --------------------------
(***************************************************************************)
(* GatewayCore with a history of local deliveries: for every key delivered *)
(* so far, the keys committed as seen after its last delivery.             *)
(***************************************************************************)
EXTENDS GatewayCore

VARIABLE since   \* history: delivered key -> keys committed since

historyVars == <<vars, since>>

Committed == Remembered' \ Remembered
DeliveredNow == {SeenKey(e) : e \in io'.local}

HistoryInit == Init /\ since = [k \in {} |-> {}]
HistoryNext ==
  /\ Next
  /\ since' = [k \in DOMAIN since \cup DeliveredNow |->
                 IF k \in DeliveredNow THEN {} ELSE since[k] \cup Committed]
HistorySpec == HistoryInit /\ [][HistoryNext]_historyVars /\ Fairness

\* A message is delivered again only after MaxSeen other messages have been
\* committed in between: within the reach of the seen ring, a repeat, a loop
\* in the mesh or a retry is not delivered twice (handle_envelope).
RedeliveryStep ==
  \A k \in DeliveredNow \cap DOMAIN since : Cardinality(since[k]) >= MaxSeen
DeliveredOnceInWindow == [][RedeliveryStep]_historyVars
=============================================================================
