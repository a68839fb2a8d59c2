----------------------------- MODULE GatewayCore ----------------------------
(***************************************************************************)
(* GatewayCore (hyf_gateway/src/core.rs): the router, the store and the    *)
(* metrics composed over a link executor.  The core is synchronous and     *)
(* holds &mut self for a whole call, so calls do not overlap.  A call is   *)
(* one step up to the point where it starts flush_store; the iterations of *)
(* the flush loop are the steps that follow, and no other call can start   *)
(* before the loop returns (pc).  The executor is external: each send      *)
(* succeeds, fails recoverably (link down, backpressure, transient) or     *)
(* fails for good, independently of every other send.                      *)
(***************************************************************************)
EXTENDS Router, Store

CONSTANTS Envelopes,             \* envelopes clients submit and peers send
          MaxTime,               \* bound on the times callers report
          AllowStoreAndForward,  \* policy.allow_store_and_forward
          MetricMax              \* where each counter saturates, u64::MAX in the code

Counters == {"submitted", "received", "delivered", "sent", "stored",
             "expired", "dropped", "link_errors"}

ASSUME GatewayAssumption ==
  /\ Envelopes \subseteq EnvelopeType
  /\ MaxTime \in Nat
  /\ AllowStoreAndForward \in BOOLEAN
  /\ MetricMax \in [Counters -> Nat]

VARIABLES metrics,        \* GatewayMetrics
          lastDelivered,  \* last_delivered_message_id: {} or {id}
          pc,             \* "idle" between calls, "flush" in the flush loop
          result,         \* what the last call returned
          stop,           \* observed: why the last flush loop ended
          arrival,        \* observed: the frame whose ingest is being flushed
          io              \* observed: what the last step sent and delivered

observed == <<stop, arrival, io>>
vars == <<routerVars, records, metrics, lastDelivered, pc, result, observed>>

Times == 0..MaxTime

\* What send_link_bytes of an executor can report
\* (GatewayError::is_recoverable_send_failure).
Outcome == {"ok", "recoverable", "fatal"}

Errors == RouterErrors \cup StoreErrors \cup {"TooManyLinks", "Driver", "Wire"}
Stops == {"none", "drained", "noroute", "retry", "error"}
Transmission == [link: LinkIds, env: EnvelopeType]
NoIO == [sent |-> {}, local |-> {}]

-----------------------------------------------------------------------------
(* execute_commands_record on a batch d: every command is tried.           *)

\* Sends that succeed: the envelope encodes and the executor accepts it.
Succeeded(d, res) == {l \in d.sends : Fits(d.out) /\ res[l] = "ok"}
Refused(d, res) == {l \in d.sends : Fits(d.out) /\ res[l] # "ok"}
Stores(d, recs) ==
  d.put /\ AllowStoreAndForward /\ PutError(recs, d.out) = "Ok"

\* Mutants: commands commit when they are planned; a delivery does not commit.
CommitsPlanned(d, res, recs) == d.local # {} \/ d.sends # {} \/ d.put
CommitsNoDelivery(d, res, recs) == Succeeded(d, res) # {} \/ Stores(d, recs)

\* Send, Put and DeliverLocal commit the message as seen, once they succeed.
Commits(d, res, recs) == d.local # {} \/ Succeeded(d, res) # {} \/ Stores(d, recs)

\* execute_commands: an error only when commands were planned and all failed.
CallError(d, res, recs) ==
  IF d.error # "Ok" THEN d.error
  ELSE IF d.put /\ AllowStoreAndForward THEN PutError(recs, d.out)
  ELSE IF d.sends = {} \/ d.local # {} \/ Succeeded(d, res) # {} THEN "Ok"
  ELSE IF Fits(d.out) THEN "Driver" ELSE "Wire"

\* execute_commands_for_flush: a failure that is no recoverable send failure.
FlushError(d, res) ==
  IF d.sends = {} THEN "Ok"
  ELSE IF ~Fits(d.out) THEN "Wire"
  ELSE IF \E l \in d.sends : res[l] = "fatal" THEN "Driver"
  ELSE "Ok"

\* Mutants: one send that succeeded is enough; failed sends do not matter.
SomeSent(d, res) == d.sends = {} \/ Succeeded(d, res) # {}
NoneNeeded(d, res) == TRUE

\* A flushed record is handled once every planned send succeeded.
AllSent(d, res) == Succeeded(d, res) = d.sends

\* What a batch sent and delivered, and what it counted.
Effects(d, res) ==
  [sent |-> {[link |-> l, env |-> d.out] : l \in Succeeded(d, res)},
   local |-> d.local]

Bit(b) == IF b THEN 1 ELSE 0
Tally(d, res, recs) ==
  [c \in Counters |->
     CASE c = "delivered" -> Bit(d.local # {})
       [] c = "sent" -> Cardinality(Succeeded(d, res))
       [] c = "link_errors" -> Cardinality(Refused(d, res))
       [] c = "stored" -> Bit(Stores(d, recs))
       [] c = "dropped" -> Bit(d.drop # "none" \/ (d.put /\ ~AllowStoreAndForward))
       [] OTHER -> 0]

\* Mutant: counters do not saturate.
SaturateNot(c, n) == n

\* saturating_add of a tally and of the given extra counts.
Saturate(c, n) == IF n > MetricMax[c] THEN MetricMax[c] ELSE n
Count(tally, extra) ==
  metrics' = [c \in Counters |-> Saturate(c, metrics[c] + tally[c] +
                IF c \in DOMAIN extra THEN extra[c] ELSE 0)]

Execute(d, res, recs) ==
  /\ IF Commits(d, res, recs) THEN CommitSeen(d.out) ELSE UNCHANGED seenVars
  /\ lastDelivered' = IF d.local # {} THEN {e.id : e \in d.local} ELSE lastDelivered
  /\ io' = Effects(d, res)

-----------------------------------------------------------------------------
(* The calls.                                                              *)

\* The call returns without reaching the flush loop.
Return(error) ==
  /\ pc' = "idle"
  /\ result' = error
  /\ arrival' = {}
  /\ UNCHANGED stop

\* The call enters flush_store, which expires records first.
EnterFlush(recs, t, frame) ==
  /\ pc' = "flush"
  /\ records' = Unexpired(recs, t)
  /\ arrival' = frame
  /\ UNCHANGED <<result, stop>>

\* submit(envelope), when the executor answers the sends with res
SubmitWith(e, res) ==
  LET d == HandleEnvelope(e, NoLink, now)
      after == IF Stores(d, records) THEN Put(records, d.out) ELSE records
      error == CallError(d, res, records)
      gone == IF error = "Ok" THEN ExpiredAt(after, now) ELSE {}
  IN /\ pc = "idle"
     /\ Execute(d, res, records)
     /\ Count(Tally(d, res, records),
              [submitted |-> 1, expired |-> Cardinality(gone)])
     /\ IF error = "Ok" THEN EnterFlush(after, now, {})
        ELSE Return(error) /\ records' = after
     /\ UNCHANGED <<links, now>>

Submit(e) ==
  \E res \in [HandleEnvelope(e, NoLink, now).sends -> Outcome] : SubmitWith(e, res)

\* Mutant: any time that is reported is taken over.
ObservedTimeAny(t) == t

\* observe_time(t): an older time is ignored, a newer one expires records.
ObservedTime(t) == IF t > now THEN t ELSE now
ObservedRecords(t) == IF t > now THEN Unexpired(records, t) ELSE records

\* ingest_link_frame(frame) of a frame carrying e, received on l at time t
IngestWith(l, e, t, res) ==
  LET clock == ObservedTime(t)
      before == ObservedRecords(t)
      d == HandleFrame(e, l, clock)
      after == IF Stores(d, before) THEN Put(before, d.out) ELSE before
      error == CallError(d, res, before)
      gone == (records \ before) \cup
              (IF error = "Ok" THEN ExpiredAt(after, clock) ELSE {})
  IN /\ pc = "idle"
     /\ now' = clock
     /\ Execute(d, res, before)
     /\ Count(Tally(d, res, before),
              [received |-> 1, expired |-> Cardinality(gone)])
     /\ IF error = "Ok"
        THEN EnterFlush(after, clock, {[link |-> l, id |-> e.id]})
        ELSE Return(error) /\ records' = after
     /\ UNCHANGED links

Ingest(l, e, t) ==
  \E res \in [HandleFrame(e, l, ObservedTime(t)).sends -> Outcome] :
    IngestWith(l, e, t, res)

\* tick(t)
Tick(t) ==
  LET gone == ExpiredAt(records, ObservedTime(t))
  IN /\ pc = "idle"
     /\ now' = ObservedTime(t)
     /\ Count([c \in Counters |-> 0], [expired |-> Cardinality(gone)])
     /\ EnterFlush(ObservedRecords(t), now', {})
     /\ io' = NoIO
     /\ UNCHANGED <<links, seenVars, lastDelivered>>

\* Mutant: coming up does not flush.
LinkUpUnflushed(l) ==
  /\ pc = "idle"
  /\ io' = NoIO
  /\ links' = SetLinkState(l, TRUE)
  /\ Return(IF LinkTableFull(l) THEN "TooManyLinks" ELSE "Ok")
  /\ UNCHANGED <<records, metrics, seenVars, now, lastDelivered>>

\* handle_link_event(Up): the store is flushed over the recovered link.
LinkUp(l) ==
  /\ pc = "idle"
  /\ io' = NoIO
  /\ links' = SetLinkState(l, TRUE)
  /\ IF LinkTableFull(l)
     THEN Return("TooManyLinks") /\ UNCHANGED <<records, metrics>>
     ELSE /\ EnterFlush(records, now, {})
          /\ Count([c \in Counters |-> 0],
                   [expired |-> Cardinality(ExpiredAt(records, now))])
  /\ UNCHANGED <<seenVars, now, lastDelivered>>

\* handle_link_event(Down): nothing is flushed.
LinkDown(l) ==
  /\ pc = "idle"
  /\ io' = NoIO
  /\ links' = SetLinkState(l, FALSE)
  /\ Return("Ok")
  /\ UNCHANGED <<seenVars, now, records, metrics, lastDelivered>>

-----------------------------------------------------------------------------
(* The loop of flush_store.                                                *)

EndFlush(error, why) ==
  /\ pc' = "idle"
  /\ result' = error
  /\ stop' = why
  /\ arrival' = {}

\* first_pending finds no record.
FlushDrained ==
  /\ pc = "flush"
  /\ records = {}
  /\ EndFlush("Ok", "drained")
  /\ io' = NoIO
  /\ UNCHANGED <<routerVars, records, metrics, lastDelivered>>

\* forward_stored fails, or has nothing to do because no link is up.
FlushUnroutable ==
  LET d == ForwardStored(FirstPending(records))
  IN /\ pc = "flush"
     /\ records # {}
     /\ \/ d.error # "Ok" /\ EndFlush(d.error, "error")
        \/ d.error = "Ok" /\ IsEmpty(d) /\ EndFlush("Ok", "noroute")
     /\ io' = NoIO
     /\ UNCHANGED <<routerVars, records, metrics, lastDelivered>>

\* The commands are executed; the record goes once all of them succeeded.
FlushRecordWith(res) ==
  LET e == FirstPending(records)
      d == ForwardStored(e)
  IN /\ pc = "flush"
     /\ records # {}
     /\ d.error = "Ok" /\ ~IsEmpty(d)
     /\ Execute(d, res, records)
     /\ Count(Tally(d, res, records), << >>)
     /\ \/ /\ FlushError(d, res) # "Ok"
           /\ EndFlush(FlushError(d, res), "error")
           /\ UNCHANGED records
        \/ /\ FlushError(d, res) = "Ok"
           /\ ~AllSent(d, res)
           /\ EndFlush("Ok", "retry")
           /\ UNCHANGED records
        \/ /\ FlushError(d, res) = "Ok"
           /\ AllSent(d, res)
           /\ records' = Without(records, e.id)
           /\ UNCHANGED <<pc, result, stop, arrival>>
     /\ UNCHANGED <<links, now>>

FlushRecord ==
  /\ pc = "flush" /\ records # {}
  /\ \E res \in [ForwardStored(FirstPending(records)).sends -> Outcome] :
       FlushRecordWith(res)

FlushStep == FlushDrained \/ FlushUnroutable \/ FlushRecord

Init ==
  /\ RouterInit
  /\ records = {}
  /\ metrics = [c \in Counters |-> 0]
  /\ lastDelivered = {}
  /\ pc = "idle"
  /\ result = "Ok"
  /\ stop = "none"
  /\ arrival = {}
  /\ io = NoIO

\* The steps when clients submit and peers send the envelopes of traffic.
NextOn(traffic) ==
  \/ FlushStep
  \/ \E t \in Times : Tick(t)
  \/ \E l \in LinkIds : LinkUp(l) \/ LinkDown(l)
  \/ \E e \in traffic : Submit(e)
  \/ \E t \in Times, l \in LinkIds, e \in traffic : Ingest(l, e, t)
Next == NextOn(Envelopes)

\* A call runs to its end: the loop is not suspended.
Fairness == WF_vars(FlushStep)
Spec == Init /\ [][Next]_vars /\ Fairness

-----------------------------------------------------------------------------
(* What makes the gateway correct.                                         *)

Metrics == {m \in [Counters -> Nat] : \A c \in Counters : m[c] <= MetricMax[c]}

\* Every variable has its type.
TypeOK ==
  /\ RouterTypeOK
  /\ records \subseteq EnvelopeType
  /\ metrics \in Metrics
  /\ lastDelivered \subseteq Nat
  /\ pc \in {"idle", "flush"}
  /\ result \in Errors \cup {"Ok"}
  /\ stop \in Stops
  /\ arrival \subseteq [link: LinkIds, id: Nat]
  /\ io \in [sent: SUBSET Transmission, local: SUBSET EnvelopeType]

\* The store never holds two records with one id, more records than it has
\* slots, or a record whose time is over, also between the steps of a call:
\* put_envelope, Tick and flush_store keep this up together.
StoreSound ==
  /\ \A e, f \in records : e.id = f.id => e = f
  /\ IsFiniteSet(records) /\ Cardinality(records) <= StoreCapacity
  /\ \A e \in records : Valid(e) /\ Fits(e) /\ e.expires > now

\* The link table names each link once and stays within its slots, so a
\* fan-out sends at most one copy per link (set_link_state).
LinkTableSound ==
  /\ Len(links) <= MaxLinks
  /\ \A i, j \in DOMAIN links : links[i].id = links[j].id => i = j

\* A message addressed to this node, or to a community it belongs to, is
\* delivered and never put into the store (handle_envelope), so the local
\* branches of forward_stored are not taken.
LocalNeverStored ==
  \A e \in records : ~IsLocalNode(e) /\ ~IsLocalCommunity(e)

\* Between calls, a stored record waits while a link is up only because the
\* last flush ended with a failure: coming up flushes (handle_link_event).
StrandedOnlyByFailure ==
  pc = "idle" /\ records # {} /\ UpLinks # {} => stop \in {"retry", "error"}

\* "The gateway commits a message as seen only after successful send, store,
\* or local delivery execution" (docs/architecture/gateway_foundation.md).
CommitStep ==
  \A k \in Remembered' \ Remembered :
    \/ \E s \in io'.sent : SeenKey(s.env) = k
    \/ \E e \in io'.local : SeenKey(e) = k
    \/ \E e \in records' \ records : SeenKey(e) = k
CommitOnlyAfterSuccess == [][CommitStep]_vars

\* A record leaves the store when its time is over, when its hops are used
\* up, or once it has gone out on one link (node, foreign) or on every link
\* that is up (community): flush_store never forgets a record that a failed
\* send still owes.
HandledInFull(e) ==
  LET sentOn == {s.link : s \in {t \in io'.sent : t.env = e}}
  IN IF IsCommunity(e) THEN sentOn = UpLinks /\ UpLinks # {} ELSE sentOn # {}
ReleaseStep ==
  \A e \in records \ records' :
    e.expires <= now' \/ e.hop = 0 \/ HandledInFull(e)
ReleasedOnlyWhenHandled == [][ReleaseStep]_vars

\* The flush loop of a call always ends: every iteration removes a record or
\* leaves the loop.
FlushTerminates == pc = "flush" ~> pc = "idle"

\* While nothing saturates, a record is counted as expired at most once,
\* although both Tick and flush_store expire: stored records are still held,
\* counted as expired, or handed over.
ExpiredCountedOnce ==
  metrics["stored"] < MetricMax["stored"] =>
    metrics["expired"] + Cardinality(records) <= metrics["stored"]

\* A transit message is not sent back on the link it came in on, the rule of
\* first_up_link_except (test link_frame_decodes_and_routes_without_echoing_ingress).
EchoFreeStep ==
  \A s \in io'.sent, a \in arrival \cup arrival' :
    ~(s.link = a.link /\ s.env.id = a.id)
EchoFree == [][EchoFreeStep]_vars

\* An envelope that has no hops left is not put on a link (test
\* local_submit_drops_expired_hop_zero_and_duplicate_messages).
ExhaustedNeverSent == \A s \in io.sent : s.env.hop > 0

\* With a seen window wider than the traffic, a message the router takes for
\* new is not refused as a duplicate (test
\* same_message_id_in_different_communities_is_not_duplicate).
NewNotRefusedAsDuplicate == result # "Duplicate"

\* The store under the gateway's clock keeps custody of what it accepted.
Custody == INSTANCE Custody WITH clock <- now
CustodySpec == Custody!CustodySpec
=============================================================================
