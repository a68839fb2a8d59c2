--------------------------- MODULE LoopbackRuntime --------------------------
(***************************************************************************)
(* GatewayRuntime (hyf_gateway/src/runtime.rs): GatewayCore with the       *)
(* loopback driver (hyf_link_loopback/src/loopback.rs) as its executor.    *)
(* Two endpoints are wired to each other: what is sent on a link is queued *)
(* at the other one, where the host receives or polls it.  The answers the *)
(* core gets to its sends are no longer free: the state of the endpoints   *)
(* and their queues decides.                                               *)
(***************************************************************************)
EXTENDS GatewayCore

CONSTANTS Enabled,        \* enabled links of the configuration, in order
          QueueCapacity,  \* LOOPBACK_QUEUE, slots of an endpoint's queue
          TooLong         \* ids of messages whose frames exceed the mtu

ASSUME LoopbackAssumption ==
  /\ LinkIds = {"left", "right"}
  /\ Enabled \in Seq(LinkIds)
  /\ QueueCapacity \in Nat
  /\ TooLong \subseteq Nat

VARIABLES up,        \* LoopbackEndpoint.up
          queue,     \* LoopbackEndpoint.queue, which never has a gap
          starting,  \* links that new() has still to activate
          taken,     \* history: envelopes the gateway took over with hops left
          handed     \* history: envelopes that were taken out of a queue

loopbackVars == <<up, queue, starting>>
runtimeVars == <<vars, loopbackVars, taken, handed>>

Peer(l) == IF l = "left" THEN "right" ELSE "left"
Frame == [env: EnvelopeType, at: Nat]

\* Mutant: the capacity of the queue is not checked.
SendOutcomeUnbounded(q, l, e) ==
  IF ~up[l] THEN "recoverable"
  ELSE IF e.id \in TooLong THEN "fatal"
  ELSE IF ~up[Peer(l)] THEN "recoverable" ELSE "ok"

\* send_bytes_to with the queues q, as is_recoverable_send_failure classifies
\* its error.
SendOutcome(q, l, e) ==
  IF ~up[l] THEN "recoverable"
  ELSE IF e.id \in TooLong THEN "fatal"
  ELSE IF ~up[Peer(l)] \/ Len(q[Peer(l)]) = QueueCapacity THEN "recoverable"
  ELSE "ok"

Sends(d, q) == [l \in d.sends |-> SendOutcome(q, l, d.out)]

\* The queues after the sends of this step; q are those before it.  The first
\* empty slot is the end of a queue (enqueue).
Delivered(q) ==
  [l \in LinkIds |->
     LET arriving == {s \in io'.sent : s.link = Peer(l)}
     IN IF arriving = {} THEN q[l]
        ELSE Append(q[l], [env |-> (CHOOSE s \in arriving : TRUE).env,
                           at |-> now'])]

\* A message is taken over when it is put into the store or sent.
Take ==
  taken' = taken \cup
    {e \in (records' \ records) \cup {s.env : s \in io'.sent} : e.hop > 0}

Ready == starting = << >>

-----------------------------------------------------------------------------

\* submit
RuntimeSubmit(e) ==
  /\ Ready
  /\ SubmitWith(e, Sends(HandleEnvelope(e, NoLink, now), queue))
  /\ queue' = Delivered(queue)
  /\ Take
  /\ UNCHANGED <<up, starting, handed>>

\* ingest_link_frame of a frame from outside
RuntimeIngest(l, e, t) ==
  /\ Ready
  /\ IngestWith(l, e, t, Sends(HandleFrame(e, l, ObservedTime(t)), queue))
  /\ queue' = Delivered(queue)
  /\ Take
  /\ UNCHANGED <<up, starting, handed>>

\* poll_loopback: the frame leaves the queue before it is ingested, so a
\* forwarded copy finds its slot free.  With too small an output buffer
\* nothing happens at all (receive_into).
Poll(l) ==
  LET frame == Head(queue[l])
      d == HandleFrame(frame.env, l, ObservedTime(frame.at))
      popped == [queue EXCEPT ![l] = Tail(@)]
  IN /\ Ready
     /\ queue[l] # << >>
     /\ IngestWith(l, frame.env, frame.at, Sends(d, popped))
     /\ queue' = Delivered(popped)
     /\ Take
     /\ handed' = handed \cup {frame.env}
     /\ UNCHANGED <<up, starting>>

\* receive_loopback_frame: the host takes the frame itself.
Receive(l) ==
  /\ Ready /\ pc = "idle"
  /\ queue[l] # << >>
  /\ queue' = [queue EXCEPT ![l] = Tail(@)]
  /\ handed' = handed \cup {Head(queue[l]).env}
  /\ UNCHANGED <<vars, up, starting, taken>>

RuntimeTick(t) ==
  /\ Ready
  /\ Tick(t)
  /\ UNCHANGED <<loopbackVars, taken, handed>>

\* Mutants: the endpoint goes down without telling the core; the core's table
\* is changed without the flush that comes with it.
SetLinkUpSilent(l, state) ==
  /\ up' = [up EXCEPT ![l] = state]
  /\ IF state THEN LinkUp(l) ELSE pc = "idle" /\ UNCHANGED vars
  /\ UNCHANGED <<queue, taken, handed>>

SetLinkUpUnflushed(l, state) ==
  /\ up' = [up EXCEPT ![l] = state]
  /\ IF state THEN LinkUpUnflushed(l) ELSE LinkDown(l)
  /\ UNCHANGED <<queue, taken, handed>>

\* set_link_up: the endpoint changes first, then the core hears of it.
SetLinkUp(l, state) ==
  /\ up' = [up EXCEPT ![l] = state]
  /\ IF state THEN LinkUp(l) ELSE LinkDown(l)
  /\ UNCHANGED <<queue, taken, handed>>

HostSetLinkUp(l, state) == Ready /\ SetLinkUp(l, state) /\ UNCHANGED starting

\* activate_configured_links, one link after the other; TooManyLinks ends
\* new(), and there is no runtime.
Activate ==
  /\ ~Ready
  /\ ~LinkTableFull(Head(starting))
  /\ SetLinkUp(Head(starting), TRUE)
  /\ starting' = Tail(starting)

\* The flush loop of the call that is running.
RuntimeFlush ==
  /\ \/ FlushDrained \/ FlushUnroutable
     \/ /\ pc = "flush" /\ records # {}
        /\ FlushRecordWith(Sends(ForwardStored(FirstPending(records)), queue))
  /\ queue' = Delivered(queue)
  /\ Take
  /\ UNCHANGED <<up, starting, handed>>

RuntimeInit ==
  /\ Init
  /\ up = [l \in LinkIds |-> TRUE]
  /\ queue = [l \in LinkIds |-> << >>]
  /\ starting = Enabled
  /\ taken = {}
  /\ handed = {}

RuntimeNext ==
  \/ \E e \in Envelopes : RuntimeSubmit(e)
  \/ \E l \in LinkIds, e \in Envelopes, t \in Times : RuntimeIngest(l, e, t)
  \/ \E l \in LinkIds : Poll(l) \/ Receive(l)
  \/ \E t \in Times : RuntimeTick(t)
  \/ \E l \in LinkIds, state \in BOOLEAN : HostSetLinkUp(l, state)
  \/ Activate
  \/ RuntimeFlush

RuntimeSpec == RuntimeInit /\ [][RuntimeNext]_runtimeVars

-----------------------------------------------------------------------------
(* What makes the runtime correct.                                         *)

\* Queues stay within their slots and hold frames the endpoint may carry, in
\* the order of their times, none of them ahead of the core's clock: polling
\* never moves the clock (send_bytes_to, enqueue, receive_into).
FlightSound ==
  \A l \in LinkIds :
    /\ queue[l] \in Seq(Frame) /\ Len(queue[l]) <= QueueCapacity
    /\ \A i \in DOMAIN queue[l] :
         LET frame == queue[l][i]
         IN /\ Valid(frame.env) /\ frame.env.id \notin TooLong
            /\ frame.at <= now
            /\ \A j \in 1..i : queue[l][j].at <= frame.at

\* The core knows a link to be up exactly when its endpoint is, although
\* both keep the state themselves (set_link_up): no send is tried on an
\* endpoint that is down, and none is held back while it is up.
EndpointsMatchTable ==
  \A i \in DOMAIN links : links[i].up = up[links[i].id]

\* A message that was put into the store or sent is, until its time is over,
\* in the store, in a queue, or was taken out of one; only one without hops
\* is dropped.  Full queues, endpoints that go down and sends that fail on
\* one of two links lose nothing (flush_store over send_bytes_to).
InFlight == UNION {{queue[l][i].env : i \in DOMAIN queue[l]} : l \in LinkIds}
NothingLost ==
  \A e \in taken : e.expires <= now \/ e \in records \cup InFlight \cup handed

\* Every step of the runtime is a step of GatewayCore with an executor that
\* answers freely and traffic that has lost some hops on its way, so what is
\* checked and proved of the core holds here.
Lowered == UNION {{[e EXCEPT !.hop = h] : h \in 0..e.hop} : e \in Envelopes}
ImplementsCore == Init /\ [][NextOn(Lowered)]_vars
=============================================================================
