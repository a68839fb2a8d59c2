------------------------------ MODULE Uplinks ------------------------------
(***************************************************************************)
(* The two uplinks of a gateway.  Each executor is built around a carrier  *)
(* of its own and a gateway drives one of them; which one is fixed at the  *)
(* start.                                                                  *)
(***************************************************************************)
EXTENDS NostrUplink, FipsUplink

VARIABLE carrier        \* "nostr" or "fips"

vars == <<carrier, nostrVars, fipsVars>>

Init ==
    /\ carrier \in {"nostr", "fips"}
    /\ NostrInit
    /\ FipsInit

Next ==
    /\ UNCHANGED carrier
    /\ \/ carrier = "nostr" /\ NostrNext /\ UNCHANGED fipsVars
       \/ carrier = "fips" /\ FipsNext /\ UNCHANGED nostrVars

Spec == Init /\ [][Next]_vars

ASSUME UplinkAssumption == NostrAssumption /\ FipsAssumption
=============================================================================
