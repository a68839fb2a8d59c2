------------------------------ MODULE StoreSpec -----------------------------
(***************************************************************************)
(* The store's interface as its callers see it: the set of records and the *)
(* reply of the last call.                                                 *)
(***************************************************************************)
EXTENDS Store, Sequences

CONSTANTS Frames,     \* envelopes handed to put_envelope and put_frame
          MaxTime     \* bound on the times given to expire_before

VARIABLE reply        \* what the last call returned

storeVars == <<records, reply>>

\* The listing of a set of records: every record once, in pending order.
IsListing(seq, recs) ==
  /\ Len(seq) = Cardinality(recs)
  /\ recs = {seq[i] : i \in DOMAIN seq}
  /\ \A i \in 1..(Len(seq) - 1) : Precedes(seq[i], seq[i + 1])

\* A reply carries a status, a count of removed records or a listing.
Status(s) == [status |-> s, removed |-> 0, list |-> << >>]

\* put_frame decodes the bytes it is given, so the version is looked at before
\* the expiry; put_envelope looks at the expiry first.
PutFrameError(recs, e) ==
  IF e.form = "oversize" THEN "FrameTooLarge"
  ELSE IF e.form = "invalid" THEN "InvalidEnvelope"
  ELSE PutError(recs, e)

StoreInit == records = {} /\ reply = Status("Ok")

DoPut(e, error) ==
  /\ reply' = Status(error)
  /\ records' = IF error = "Ok" THEN records \cup {e} ELSE records
DoPutEnvelope(e) == DoPut(e, PutError(records, e))
DoPutFrame(e) == DoPut(e, PutFrameError(records, e))
DoRemove(id) ==
  /\ reply' = Status(IF id \in StoredIds(records) THEN "Ok" ELSE "NotFound")
  /\ records' = Without(records, id)
DoExpire(t) ==
  /\ reply' = [Status("Ok") EXCEPT !.removed = Cardinality(ExpiredAt(records, t))]
  /\ records' = Unexpired(records, t)
DoFirst ==
  /\ reply' = [Status("Ok") EXCEPT !.list =
                 IF records = {} THEN << >> ELSE <<FirstPending(records)>>]
  /\ UNCHANGED records
DoPending(room) ==
  /\ IF room < Cardinality(records) THEN reply' = Status("OutputTooSmall")
     ELSE /\ IsListing(reply'.list, records)
          /\ reply' = [Status("Ok") EXCEPT !.list = reply'.list]
  /\ UNCHANGED records

StoreNext ==
  \/ \E e \in Frames : DoPutEnvelope(e) \/ DoPutFrame(e)
  \/ \E id \in {e.id : e \in Frames} : DoRemove(id)
  \/ \E t \in 0..MaxTime : DoExpire(t)
  \/ DoFirst
  \/ \E room \in 0..StoreCapacity : DoPending(room)

StoreSpecification == StoreInit /\ [][StoreNext]_storeVars
=============================================================================
