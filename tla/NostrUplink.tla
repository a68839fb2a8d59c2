---------------------------- MODULE NostrUplink ----------------------------
(***************************************************************************)
(* NostrGatewayExecutor over a FakeNostrRelay.  The executor's owner       *)
(* reaches the relay too (relay_mut), which is how other clients publish,  *)
(* subscriptions are opened and the relay's own messages come about.       *)
(***************************************************************************)
EXTENDS NostrRelay

CONSTANTS
    Frames,             \* frames that the gateway sends
    SendTimes,          \* times of a send, in milliseconds
    AuthorSecret, RecipientKey,
    NostrMtu,
    FrameBuffer,        \* GATEWAY_FRAME_BUFFER_LEN
    PollBuffers,        \* lengths of the buffers that polls are given
    PeerPublishes,      \* <<event, profile>>: what other clients publish
    InjectedEvents,     \* events that the relay sends without having stored them
    Requests,           \* <<subscription id, filters>>
    Rejections,         \* statuses that the next publish may be refused with
    ControlKinds        \* "notice", "closed", "auth"

VARIABLES
    relay,
    nostr_up,           \* NostrGatewayExecutor.up
    acknowledged,       \* history: the frames whose send returned Ok
    poll                \* what the last poll returned, with the event it showed

nostrVars == <<relay, nostr_up, acknowledged, poll>>

NoPoll == [result |-> "none"]

\* map_relay_rejection
RejectionKind(prefix) ==
    CASE prefix \in {"rate-limited", "pow"} -> "Backpressure"
      [] prefix = "auth-required" -> "LinkDown"
      [] OTHER -> "Protocol"

\* map_nostr_send_error
SendErrorKind(error) ==
    CASE error \in {"RelayEventStoreFull", "RelayOutputFull"} -> "Backpressure"
      [] error \in {"ContentTooLarge", "EnvelopeTooLarge", "OutputTooSmall"} ->
             "FrameTooLarge"
      [] OTHER -> "Protocol"

\* Mutant of ReceiveErrorKind: a small buffer is like any bad event.
ReceiveErrorKindFlat(error) == "Protocol"

\* map_nostr_receive_error
ReceiveErrorKind(error) ==
    IF error = "OutputTooSmall" THEN "OutputTooSmall" ELSE "Protocol"

\* send_link_bytes up to the publish: the error that keeps a frame from it
SendRefusal(frame) ==
    CASE ~nostr_up -> "LinkDown"
      [] frame.len > NostrMtu -> "FrameTooLarge"
      [] OTHER -> "none"

\* Mutant of SendResult: an answer that found no room counts as given.
SendResultUnanswered(outcome) ==
    CASE outcome \in {"accepted", "accepted_duplicate", "RelayOutputFull"} -> "Ok"
      [] outcome \in StatusPrefixes -> RejectionKind(outcome)
      [] OTHER -> SendErrorKind(outcome)

\* The send's answer to an outcome of the publish.
SendResult(outcome) ==
    CASE outcome \in {"accepted", "accepted_duplicate"} -> "Ok"
      [] outcome \in StatusPrefixes -> RejectionKind(outcome)
      [] OTHER -> SendErrorKind(outcome)

\* send_link_bytes: the frame is signed as an event of this second and
\* published in the same call.
SendNostrBytes(frame, now_ms) ==
    LET made == HyfEvent(frame, AuthorSecret, RecipientKey, now_ms \div 1000)
        published == Publish(relay, made.event, FrameBuffer, EnvelopeKind)
    IN  /\ SendRefusal(frame) = "none"
        /\ made.error = "none"
        /\ relay' = published.relay
        /\ acknowledged' = IF SendResult(published.outcome) = "Ok"
                           THEN acknowledged \cup {frame} ELSE acknowledged
        /\ poll' = NoPoll
        /\ UNCHANGED nostr_up

\* decode_relay_event: the event's second has to be a time in milliseconds
DecodeRelayEvent(event, room) ==
    IF event.created_at * 1000 > MaxU64
    THEN [error |-> "Protocol"]
    ELSE LET decoded == VerifyAndDecode(event, room) IN
         IF decoded.error = "none" THEN decoded
         ELSE [error |-> ReceiveErrorKind(decoded.error)]

\* poll_relay_output with a control message at the head
PollControl ==
    /\ nostr_up /\ relay.outputs /= <<>> /\ ~IsEvent(Head(relay.outputs))
    /\ relay' = ConsumeOutput(relay)
    /\ poll' = [result |-> Head(relay.outputs).kind]
    /\ UNCHANGED <<nostr_up, acknowledged>>

\* poll_relay_output with an event at the head: it stays only where the
\* caller's buffer was too small for it
PollEvent(room) ==
    LET event == EventOf(relay, Head(relay.outputs))
        decoded == DecodeRelayEvent(event, room)
    IN  /\ nostr_up /\ relay.outputs /= <<>> /\ IsEvent(Head(relay.outputs))
        /\ relay' = IF decoded.error = "OutputTooSmall" THEN relay
                                                        ELSE ConsumeOutput(relay)
        /\ poll' = [result |-> IF decoded.error = "none" THEN "frame"
                                                         ELSE decoded.error,
                    event |-> event]
        /\ UNCHANGED <<nostr_up, acknowledged>>

\* set_up
SetNostrUp ==
    /\ nostr_up' = ~nostr_up
    /\ poll' = NoPoll
    /\ UNCHANGED <<relay, acknowledged>>

-----------------------------------------------------------------------------
(* The relay's side.  An operation that returns an error before it changes *)
(* anything is a step that changes nothing, and is left out.               *)

RelayStep(next) ==
    /\ relay' = next
    /\ poll' = NoPoll
    /\ UNCHANGED <<nostr_up, acknowledged>>

PeerPublish == \E p \in PeerPublishes :
    RelayStep(Publish(relay, p[1], FrameBuffer, p[2]).relay)
OpenSubscription == \E r \in Requests :
    /\ CanRemember(relay, r[1])
    /\ RelayStep(Subscribe(relay, r[1], r[2]))
RememberSubscription == \E r \in Requests :
    /\ CanRemember(relay, r[1])
    /\ RelayStep(Remember(relay, r[1], r[2]))
Close == \E sub \in DOMAIN relay.subscriptions :
    RelayStep(CloseSubscription(relay, sub))
Reject == \E status \in Rejections : RelayStep(RejectNextPublish(relay, status))
\* enqueue_notice, inject_closed, inject_auth_challenge and inject_eose
SendControl == \E kind \in ControlKinds :
    RelayStep(Enqueue(relay, ControlOutput(kind)).relay)
SendEose == \E r \in Requests : RelayStep(Enqueue(relay, EoseOutput(r[1])).relay)
SendEvent == \E event \in InjectedEvents, r \in Requests :
    RelayStep(EnqueueEventOutput(relay, r[1], event))
\* pop_next_output by a client that reads past the executor
PopOutput == relay.outputs /= <<>> /\ RelayStep(ConsumeOutput(relay))

\* NostrGatewayExecutor::new over FakeNostrRelay::new
NostrInit ==
    /\ relay = NewRelay
    /\ nostr_up = FALSE
    /\ acknowledged = {}
    /\ poll = NoPoll

NostrNext ==
    \/ \E frame \in Frames, now_ms \in SendTimes : SendNostrBytes(frame, now_ms)
    \/ PollControl
    \/ \E room \in PollBuffers : PollEvent(room)
    \/ SetNostrUp
    \/ PeerPublish
    \/ OpenSubscription
    \/ RememberSubscription
    \/ Close
    \/ Reject
    \/ SendControl
    \/ SendEose
    \/ SendEvent
    \/ PopOutput

\* What is published: the events of other clients and those that the uplink
\* makes of its frames.
Published ==
    {p[1] : p \in PeerPublishes} \cup
    {made.event : made \in
        {m \in {HyfEvent(frame, AuthorSecret, RecipientKey, now_ms \div 1000) :
                    frame \in Frames, now_ms \in SendTimes} : m.error = "none"}}

\* The array sizes, the unsigned fields of an event, the limits of filters
\* (-1: none given), and what the relay's own messages and refusals are.  No
\* two published events that differ have the same SHA-256.
NostrAssumption ==
    /\ {EventCapacity, SubscriptionCapacity, OutputCapacity} \subseteq Nat
    /\ MaxTags \in Nat \ {0} /\ MaxEnvelopeBytes \in Nat /\ MaxU64 \in Nat
    /\ PollBuffers \subseteq Nat
    /\ RecipientKey \in Keys
    /\ Rejections \subseteq StatusPrefixes
    /\ ControlKinds \subseteq {"notice", "closed", "auth"}
    /\ NoEvent \notin InjectedEvents
    /\ \A e \in Published \cup InjectedEvents :
          e.id \in Nat /\ e.created_at \in Nat /\ e.content.chars \in Nat
    /\ \A r \in Requests :
          /\ Len(r[2]) \in Nat /\ DOMAIN r[2] = 1..Len(r[2])
          /\ \A i \in DOMAIN r[2] : r[2][i].limit \in Nat \cup {-1}
    /\ \A d, e \in Published :
          Sha256(Unsigned(d)) = Sha256(Unsigned(e)) => Unsigned(d) = Unsigned(e)

-----------------------------------------------------------------------------
(* Properties.                                                             *)

\* A frame whose send returned Ok is in the relay, in an event of this
\* node's that the recipient can verify and decode: neither a full queue, a
\* refusal nor a repeated id lets send_link_bytes report success without it.
AcknowledgedIsStored ==
    \A frame \in acknowledged : \E i \in DOMAIN relay.events :
        LET event == relay.events[i] IN
        /\ VerifyAndDecode(event, FrameBuffer) = [error |-> "none", frame |-> frame]
        /\ event.pubkey = PublicKeyOf(AuthorSecret)
        /\ RecipientKey \in PTags(event, Keys)

\* Whatever was published, retried after a full queue and read in whatever
\* order: every queued event can be shown, the events that outputs own are
\* those of the occupied slots, one each, no stored event is there twice,
\* and the counters that are decremented count what is there.
RelaySound ==
    LET owned == {i \in DOMAIN relay.outputs : relay.outputs[i].kind = "owned"}
        occupied == {s \in 1..OutputCapacity : relay.output_events[s] /= NoEvent}
    IN  /\ {relay.outputs[i].slot : i \in owned} = occupied
        /\ Cardinality(owned) = Cardinality(occupied)
        /\ \A i \in DOMAIN relay.outputs :
              relay.outputs[i].kind = "stored" =>
                  relay.outputs[i].index \in DOMAIN relay.events
        /\ \A i, j \in DOMAIN relay.events :
              relay.events[i].id = relay.events[j].id => i = j
        /\ relay.queued = Len(relay.outputs)
        /\ relay.active = Cardinality(DOMAIN relay.subscriptions)

\* What a subscription is answered with, said without the loop: the stored
\* events that match, newest first and ties by id, cut at the limit.
Replay(events, filters) ==
    LET matching == {i \in DOMAIN events : MatchesAny(filters, events[i], Keys)}
        rank(i) == Cardinality({j \in matching : SortsBefore(events[j], events[i])})
        limit == ReplayLimit(filters)
        kept == {i \in matching : limit = -1 \/ rank(i) < limit}
    IN  [n \in 1..Cardinality(kept) |-> CHOOSE i \in kept : rank(i) = n - 1]

\* A subscription queues its replay and the end marker, in order, as far as
\* the queue has room: what the client misses is always the end.
ReplayIsPrefix ==
    [][OpenSubscription => \E r \in Requests :
          LET list == Replay(relay.events, r[2])
              whole == Append([n \in DOMAIN list |-> StoredEventOutput(r[1], list[n])],
                              EoseOutput(r[1]))
              room == OutputCapacity - Len(relay.outputs)
          IN  /\ relay'.outputs = relay.outputs \o
                    SubSeq(whole, 1, IF Len(whole) < room THEN Len(whole) ELSE room)
              /\ r[1] \in DOMAIN relay'.subscriptions]_nostrVars

\* An event leaves the queue without becoming a frame only if no buffer
\* would have made it one, and a poll never shows as a frame what the
\* relay could not have been sent: an unsigned, foreign-kind or malformed
\* event.
OnlyInvalidDropped ==
    poll.result \in {"frame", "Protocol"} =>
        (poll.result = "frame" <=>
            /\ VerifyAndDecode(poll.event, MaxEnvelopeBytes).error = "none"
            /\ poll.event.created_at * 1000 <= MaxU64)
=============================================================================
