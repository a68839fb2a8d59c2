----------------------------- MODULE NostrRelay -----------------------------
(***************************************************************************)
(* FakeNostrRelay: the bounded relay that the Nostr uplink publishes to.   *)
(*                                                                         *)
(* The relay is one record:                                                *)
(*   events         stored events, in the order of their slots: a slot is  *)
(*                  never freed, so the first free one is the next         *)
(*   subscriptions  what each open subscription asks for                   *)
(*   outputs        the queue of what the client has yet to read; only its *)
(*                  head is consumed, so the array has no holes            *)
(*   output_events  the events that queued outputs own, by slot            *)
(*   rejection      the status that the next publish is refused with       *)
(*   queued, active the counters of the metrics that are decremented       *)
(* An operation maps the relay to the relay after it and its outcome.      *)
(***************************************************************************)
EXTENDS NostrEvents

CONSTANTS
    EventCapacity, SubscriptionCapacity, OutputCapacity,
    NoEvent,            \* an empty slot of output_events
    Keys                \* the public keys that a p tag can spell

\* NostrRelayStatusPrefix
StatusPrefixes ==
    {"duplicate", "pow", "blocked", "rate-limited", "invalid", "restricted",
     "mute", "error", "auth-required", "unknown"}

\* NostrPublishOutcome, with the errors of publish
Outcomes == {"accepted", "accepted_duplicate"} \cup StatusPrefixes \cup NostrErrors

\* FakeNostrRelay::new
NewRelay ==
    [events |-> <<>>, subscriptions |-> <<>>, outputs |-> <<>>,
     output_events |-> [s \in 1..OutputCapacity |-> NoEvent],
     rejection |-> "none", queued |-> 0, active |-> 0]

\* FakeNostrRelayOutputRecord, one constructor for each kind
OkOutput(id, accepted, status) ==
    [kind |-> "ok", id |-> id, accepted |-> accepted, status |-> status]
StoredEventOutput(sub, index) ==
    [kind |-> "stored", sub |-> sub, index |-> index]
OwnedEventOutput(sub, slot) == [kind |-> "owned", sub |-> sub, slot |-> slot]
EoseOutput(sub) == [kind |-> "eose", sub |-> sub]
ControlOutput(kind) == [kind |-> kind]

-----------------------------------------------------------------------------
\* enqueue_output_record: `full` says that there was no free slot
Enqueue(relay, output) ==
    IF Len(relay.outputs) >= OutputCapacity
    THEN [relay |-> relay, full |-> TRUE]
    ELSE [relay |-> [relay EXCEPT !.outputs = Append(@, output),
                                  !.queued = @ + 1],
          full |-> FALSE]

\* enqueue_event_output: the event is copied into a slot of its own, which
\* the output names; the slot is taken after the output is queued
EnqueueEventOutput(relay, sub, event) ==
    LET free == {s \in 1..OutputCapacity : relay.output_events[s] = NoEvent}
        slot == CHOOSE s \in free : \A t \in free : s <= t
        queued == Enqueue(relay, OwnedEventOutput(sub, slot))
    IN  IF RecordError(event) /= "none" \/ free = {} \/ queued.full
        THEN relay
        ELSE [queued.relay EXCEPT !.output_events[slot] = event]

\* contains_event
ContainsEvent(relay, id) ==
    \E i \in DOMAIN relay.events : relay.events[i].id = id

\* store_event
StoreEventError(relay, event) ==
    CASE RecordError(event) /= "none" -> RecordError(event)
      [] Len(relay.events) >= EventCapacity -> "RelayEventStoreFull"
      [] OTHER -> "none"
StoreEvent(relay, event) == [relay EXCEPT !.events = Append(@, event)]

\* validate_publish_profile: a HYF publish is decoded, another one has to be
\* signed and of the kind it was announced as
ProfileError(event, room, profile) ==
    IF profile = EnvelopeKind THEN VerifyAndDecode(event, room).error
    ELSE IF VerifyError(event) /= "none" THEN VerifyError(event)
    ELSE IF event.kind /= profile THEN "UnexpectedKind"
    ELSE "none"

\* The answer to a publish goes through the output queue as well: where it
\* does not fit, the caller sees RelayOutputFull instead of the outcome.
Answer(relay, id, accepted, status, outcome) ==
    LET queued == Enqueue(relay, OkOutput(id, accepted, status)) IN
    [relay |-> queued.relay,
     outcome |-> IF queued.full THEN "RelayOutputFull" ELSE outcome]

\* publish_with_profile.  A rejection that was asked for is used up by the
\* first valid new event, answered or not; an event is stored before its
\* answer is queued.
Publish(relay, event, room, profile) ==
    IF ProfileError(event, room, profile) /= "none"
    THEN Answer(relay, event.id, FALSE, "invalid", "invalid")
    ELSE IF ContainsEvent(relay, event.id)
    THEN Answer(relay, event.id, TRUE, "duplicate", "accepted_duplicate")
    ELSE IF relay.rejection /= "none"
    THEN Answer([relay EXCEPT !.rejection = "none"],
                event.id, FALSE, relay.rejection, relay.rejection)
    ELSE IF StoreEventError(relay, event) /= "none"
    THEN [relay |-> relay, outcome |-> StoreEventError(relay, event)]
    ELSE Answer(StoreEvent(relay, event), event.id, TRUE, "unknown", "accepted")

-----------------------------------------------------------------------------
\* Mutant of NextReplayEvent: in the order of the slots.
NextReplayEventBySlot(relay, filters, emitted) ==
    LET matching == {i \in DOMAIN relay.events \ emitted :
                        MatchesAny(filters, relay.events[i], Keys)}
    IN  IF matching = {} THEN 0
        ELSE CHOOSE i \in matching : \A j \in matching : i <= j

\* next_replay_event: the event that sorts before all others among those
\* that match and were not emitted; 0 if there is none
NextReplayEvent(relay, filters, emitted) ==
    LET matching == {i \in DOMAIN relay.events \ emitted :
                        MatchesAny(filters, relay.events[i], Keys)}
    IN  IF matching = {} THEN 0
        ELSE CHOOSE i \in matching : \A j \in matching \ {i} :
                ~SortsBefore(relay.events[j], relay.events[i])

\* replay_subscription: one event at a time while the limit allows, then
\* the end marker; it stops where the queue is full, and what it queued
\* before stays.  `emitted` is the flag array of the loop.
ReplaySubscription(relay, sub, filters) ==
    LET limit == ReplayLimit(filters)
        step[n \in 0..EventCapacity] ==
            IF n = 0
            THEN [relay |-> relay, emitted |-> {}, state |-> "loop"]
            ELSE LET last == step[n - 1]
                     next == NextReplayEvent(relay, filters, last.emitted)
                     queued == Enqueue(last.relay, StoredEventOutput(sub, next))
                 IN  IF last.state /= "loop" THEN last
                     ELSE IF next = 0 \/ (limit /= -1 /\ Cardinality(last.emitted) >= limit)
                     THEN [last EXCEPT !.state = "end"]
                     ELSE IF queued.full THEN [last EXCEPT !.state = "full"]
                     ELSE [last EXCEPT !.relay = queued.relay,
                                       !.emitted = @ \cup {next}]
        done == step[EventCapacity]
    IN  IF done.state = "full" THEN done.relay
                               ELSE Enqueue(done.relay, EoseOutput(sub)).relay

\* remember_subscription: an open subscription is replaced, a new one needs
\* a free slot
CanRemember(relay, sub) ==
    \/ sub \in DOMAIN relay.subscriptions
    \/ Cardinality(DOMAIN relay.subscriptions) < SubscriptionCapacity
Remember(relay, sub, filters) ==
    [relay EXCEPT
        !.subscriptions = [s \in DOMAIN @ \cup {sub} |->
                              IF s = sub THEN filters ELSE @[s]],
        !.active = IF sub \in DOMAIN relay.subscriptions THEN @ ELSE @ + 1]

\* subscribe: the subscription is kept although its replay may fail
Subscribe(relay, sub, filters) ==
    ReplaySubscription(Remember(relay, sub, filters), sub, filters)

\* close_subscription: what is queued for it stays queued
CloseSubscription(relay, sub) ==
    [relay EXCEPT !.subscriptions = [s \in DOMAIN @ \ {sub} |-> @[s]],
                  !.active = @ - 1]

\* reject_next_publish
RejectNextPublish(relay, status) == [relay EXCEPT !.rejection = status]

\* with_view: the event that an output shows, of the store or its own slot
EventOf(relay, output) ==
    IF output.kind = "stored" THEN relay.events[output.index]
                              ELSE relay.output_events[output.slot]
IsEvent(output) == output.kind \in {"stored", "owned"}

\* Mutant of ConsumeOutput: the slot of the event stays taken.
ConsumeOutputKeepsSlot(relay) ==
    [relay EXCEPT !.outputs = Tail(@), !.queued = @ - 1]

\* consume_output: the head leaves, and the slot it owned is free again
ConsumeOutput(relay) ==
    LET head == Head(relay.outputs)
        freed == IF head.kind = "owned"
                 THEN [relay EXCEPT !.output_events[head.slot] = NoEvent]
                 ELSE relay
    IN  [freed EXCEPT !.outputs = Tail(@), !.queued = @ - 1]
=============================================================================
