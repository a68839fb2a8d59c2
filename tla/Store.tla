-------------------------------- MODULE Store -------------------------------
(***************************************************************************)
(* What the store-and-forward store promises (hyf_store/src/store.rs): a   *)
(* bounded set of encoded envelopes, at most one per message id, listed by *)
(* expiry, then creation, then id.  SlotStore is the array of slots the    *)
(* code keeps; it implements this specification.                           *)
(***************************************************************************)
EXTENDS Envelope, FiniteSets

CONSTANTS StoreCapacity,      \* N, the number of slots
          RejectExpiredOnPut  \* policy.reject_expired_on_put

ASSUME StoreAssumption ==
  /\ StoreCapacity \in Nat
  /\ RejectExpiredOnPut \in BOOLEAN

VARIABLE records   \* the stored envelopes

StoredIds(recs) == {e.id : e \in recs}

\* Mutant: put_envelope without the duplicate check.
PutErrorNoDuplicate(recs, e) ==
  IF ~Valid(e) \/ ~Fits(e) THEN "InvalidEnvelope"
  ELSE IF Cardinality(recs) >= StoreCapacity THEN "Full" ELSE "Ok"

\* put_envelope on recs: the StoreError it returns, or "Ok".
PutError(recs, e) ==
  IF RejectExpiredOnPut /\ ~ExpiryOk(e) THEN "Expired"
  ELSE IF ~Valid(e) THEN "InvalidEnvelope"
  ELSE IF ~Fits(e) THEN "FrameTooLarge"
  ELSE IF e.id \in StoredIds(recs) THEN "Duplicate"
  ELSE IF Cardinality(recs) >= StoreCapacity THEN "Full"
  ELSE "Ok"
StoreErrors == {"Expired", "InvalidEnvelope", "FrameTooLarge", "Duplicate",
                "Full", "NotFound"}

Put(recs, e) == IF PutError(recs, e) = "Ok" THEN recs \cup {e} ELSE recs
\* Mutants: remove finds nothing to remove; expiry is off by one.
WithoutNone(recs, id) == recs
UnexpiredLate(recs, t) == {e \in recs : e.expires >= t}

Without(recs, id) == {e \in recs : e.id # id}
ExpiredAt(recs, t) == {e \in recs : e.expires <= t}
Unexpired(recs, t) == {e \in recs : e.expires > t}

\* record_precedes, frame_precedes
Precedes(a, b) ==
  \/ a.expires < b.expires
  \/ a.expires = b.expires /\ a.created < b.created
  \/ a.expires = b.expires /\ a.created = b.created /\ a.id < b.id

\* first_pending of a store that is not empty.
FirstPending(recs) ==
  CHOOSE e \in recs : \A f \in recs \ {e} : Precedes(e, f)
=============================================================================
