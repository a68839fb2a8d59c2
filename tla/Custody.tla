------------------------------ MODULE Custody -------------------------------
(***************************************************************************)
(* What store-and-forward promises the network: once an envelope is held   *)
(* it stays held until its time is over or it is handed over, one envelope *)
(* at a time and in the order of the deadlines; nothing overdue is ever    *)
(* held; the clock never runs backwards, whatever times callers report.    *)
(***************************************************************************)
EXTENDS Store

VARIABLE clock

custodyVars == <<records, clock>>

CustodyInit == records = {} /\ clock = 0

\* Time is observed, what it makes overdue goes, and at most one envelope
\* that a store may take is taken.
Observe ==
  LET kept == Unexpired(records, clock')
  IN /\ clock' \in Nat /\ clock' >= clock
     /\ \/ records' = kept
        \/ \E e \in records' : /\ PutError(kept, e) = "Ok"
                               /\ e.expires > clock'
                               /\ records' = kept \cup {e}

\* The envelope with the nearest deadline is handed over.
HandOver ==
  /\ clock' = clock
  /\ \E e \in records : /\ \A f \in records \ {e} : Precedes(e, f)
                        /\ records' = records \ {e}

CustodyNext == Observe \/ HandOver
CustodySpec == CustodyInit /\ [][CustodyNext]_custodyVars
=============================================================================
