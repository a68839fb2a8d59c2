------------------------------ MODULE SlotStore -----------------------------
(***************************************************************************)
(* The store as the code keeps it (hyf_store/src/store.rs): an array of    *)
(* optional records.  Records take the first free slot, are found by       *)
(* scanning, and are listed by insertion sort; first_pending is one scan.  *)
(* It implements StoreSpec.                                                *)
(***************************************************************************)
EXTENDS Envelope, Sequences, FiniteSets

CONSTANTS StoreCapacity, RejectExpiredOnPut,
          Frames,     \* envelopes handed to put_envelope and put_frame
          NoRecord,   \* an empty slot
          MaxTime     \* bound on the times given to expire_before

ASSUME SlotStoreAssumption ==
  /\ StoreCapacity \in Nat
  /\ RejectExpiredOnPut \in BOOLEAN
  /\ Frames \subseteq EnvelopeType
  /\ NoRecord \notin EnvelopeType

VARIABLES slots,      \* records: [Option<StoreRecord>; N]
          reply       \* what the last call returned

slotVars == <<slots, reply>>
Index == 1..StoreCapacity

Free == {i \in Index : slots[i] = NoRecord}
First(S) == CHOOSE i \in S : \A j \in S : i <= j
FindIndex(id) == {i \in Index \ Free : slots[i].id = id}
Count == Cardinality(Index \ Free)

Answer(s) == [status |-> s, removed |-> 0, list |-> << >>]

\* Mutant: the duplicate check is missing.
PutValidFrameUnchecked(e) ==
  IF Free = {} THEN reply' = Answer("Full") /\ UNCHANGED slots
  ELSE reply' = Answer("Ok") /\ slots' = [slots EXCEPT ![First(Free)] = e]

\* put_valid_frame
PutValidFrame(e) ==
  IF FindIndex(e.id) # {} THEN reply' = Answer("Duplicate") /\ UNCHANGED slots
  ELSE IF Free = {} THEN reply' = Answer("Full") /\ UNCHANGED slots
  ELSE /\ reply' = Answer("Ok")
       /\ slots' = [slots EXCEPT ![First(Free)] = e]

\* put_envelope: expiry policy, then envelope_encoded_len, then the buffer.
PutEnvelope(e) ==
  LET error == IF RejectExpiredOnPut /\ ~ExpiryOk(e) THEN "Expired"
               ELSE IF ~Valid(e) THEN "InvalidEnvelope"
               ELSE IF ~Fits(e) THEN "FrameTooLarge"
               ELSE "Ok"
  IN IF error = "Ok" THEN PutValidFrame(e)
     ELSE reply' = Answer(error) /\ UNCHANGED slots

\* put_frame: length, then decode_envelope (version before expiry).
PutFrame(e) ==
  LET error == IF e.form = "oversize" THEN "FrameTooLarge"
               ELSE IF ~VersionOk(e) THEN "InvalidEnvelope"
               ELSE IF ExpiryOk(e) THEN "Ok"
               ELSE IF RejectExpiredOnPut THEN "Expired" ELSE "InvalidEnvelope"
  IN IF error = "Ok" THEN PutValidFrame(e)
     ELSE reply' = Answer(error) /\ UNCHANGED slots

Remove(id) ==
  IF FindIndex(id) = {} THEN reply' = Answer("NotFound") /\ UNCHANGED slots
  ELSE /\ reply' = Answer("Ok")
       /\ slots' = [slots EXCEPT ![First(FindIndex(id))] = NoRecord]

\* expire_before: one pass over the slots.
ExpireBefore(t) ==
  LET gone == {i \in Index \ Free : slots[i].expires <= t}
  IN /\ slots' = [i \in Index |-> IF i \in gone THEN NoRecord ELSE slots[i]]
     /\ reply' = [Answer("Ok") EXCEPT !.removed = Cardinality(gone)]

\* Mutant: the creation time does not break ties.
RecordPrecedesByExpiry(a, b) ==
  a.expires < b.expires \/ (a.expires = b.expires /\ a.id < b.id)

\* record_precedes
RecordPrecedes(a, b) ==
  \/ a.expires < b.expires
  \/ a.expires = b.expires /\ a.created < b.created
  \/ a.expires = b.expires /\ a.created = b.created /\ a.id < b.id

\* first_pending: the slot selected after scanning slots 1..n, 0 for none.
FirstPendingSlot ==
  LET selected[n \in 0..StoreCapacity] ==
        IF n = 0 THEN 0
        ELSE IF slots[n] = NoRecord THEN selected[n - 1]
        ELSE IF /\ selected[n - 1] # 0
                /\ ~RecordPrecedes(slots[n], slots[selected[n - 1]])
             THEN selected[n - 1] ELSE n
  IN selected[StoreCapacity]

FirstPendingCall ==
  /\ reply' = [Answer("Ok") EXCEPT !.list =
       IF FirstPendingSlot = 0 THEN << >> ELSE <<slots[FirstPendingSlot]>>]
  /\ UNCHANGED slots

\* insert_pending: the record moves up past every entry it precedes.
InsertPending(out, e) ==
  LET at[n \in 0..Len(out)] ==
        IF n > 0 /\ RecordPrecedes(e, out[n]) THEN at[n - 1] ELSE n
      n == at[Len(out)]
  IN SubSeq(out, 1, n) \o <<e>> \o SubSeq(out, n + 1, Len(out))

\* pending: the occupied slots are inserted one after the other.
Listing ==
  LET listed[n \in 0..StoreCapacity] ==
        IF n = 0 THEN << >>
        ELSE IF slots[n] = NoRecord THEN listed[n - 1]
        ELSE InsertPending(listed[n - 1], slots[n])
  IN listed[StoreCapacity]

Pending(room) ==
  /\ reply' = IF room < Count THEN Answer("OutputTooSmall")
              ELSE [Answer("Ok") EXCEPT !.list = Listing]
  /\ UNCHANGED slots

Init == slots = [i \in Index |-> NoRecord] /\ reply = Answer("Ok")
Next ==
  \/ \E e \in Frames : PutEnvelope(e) \/ PutFrame(e)
  \/ \E id \in {e.id : e \in Frames} : Remove(id)
  \/ \E t \in 0..MaxTime : ExpireBefore(t)
  \/ FirstPendingCall
  \/ \E room \in 0..StoreCapacity : Pending(room)
Spec == Init /\ [][Next]_slotVars

-----------------------------------------------------------------------------

\* No id is in two slots, however puts, removals and expiry interleave
\* (put_valid_frame), so remove and the pending order are unambiguous.
IdsInOneSlot ==
  \A i, j \in Index \ Free : slots[i].id = slots[j].id => i = j

\* The slots behave like a bounded set of records: same replies, same
\* listing order, wherever in the array the records happen to be.
Contents == {slots[i] : i \in Index \ Free}
StoreSpec == INSTANCE StoreSpec WITH records <- Contents
ImplementsStoreSpec == StoreSpec!StoreSpecification
=============================================================================
