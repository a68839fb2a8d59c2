---------------------------- MODULE RuntimeProofs ---------------------------
(***************************************************************************)
(* Theorems about GatewayRuntime over the loopback driver, for every size  *)
(* of the queues, the tables and the store, every configuration of the two *)
(* links and all traffic: each step is one of GatewayCore, and what sits   *)
(* in queues, endpoints, link table and store stays in agreement.          *)
(***************************************************************************)
EXTENDS LoopbackRuntime, GatewayProofs

-----------------------------------------------------------------------------
(* The traffic.                                                            *)

\* Envelopes stay envelopes when hops are taken off.
LEMMA LoweredType == Lowered \subseteq EnvelopeType /\ Envelopes \subseteq Lowered
<1>1. ASSUME NEW e \in Envelopes, NEW h \in 0..e.hop
      PROVE  [e EXCEPT !.hop = h] \in EnvelopeType
  BY GatewayAssumption DEF EnvelopeType, HopLimits
<1>2. ASSUME NEW e \in Envelopes
      PROVE  e \in Lowered
  <2>1. e.hop \in 0..e.hop /\ [e EXCEPT !.hop = e.hop] = e
    BY GatewayAssumption DEF EnvelopeType, HopLimits
  <2>2. QED BY <2>1 DEF Lowered
<1>3. QED BY <1>1, <1>2 DEF Lowered

\* envelope_for_next_hop stays within the lowered traffic.
LEMMA NextHopLowered ==
  ASSUME NEW e \in Lowered, ~(e.hop <= 1)
  PROVE  NextHop(e) \in Lowered
<1>0. PICK f \in Envelopes : \E h \in 0..f.hop : e = [f EXCEPT !.hop = h]
  BY DEF Lowered
<1>1. PICK h \in 0..f.hop : e = [f EXCEPT !.hop = h]
  BY <1>0
<1>2. f \in EnvelopeType /\ f.hop \in 0..255
  BY GatewayAssumption DEF EnvelopeType, HopLimits
<1>3. e.hop = h
  BY <1>1, <1>2 DEF EnvelopeType
<1>4. h - 1 \in 0..f.hop
  BY <1>2, <1>3
<1>5. NextHop(e) = [f EXCEPT !.hop = h - 1]
  BY <1>1, <1>2, <1>3 DEF NextHop, EnvelopeType
<1>6. QED BY <1>4, <1>5 DEF Lowered

\* What a batch may put on a link or into the store.
OutSound(d) == d.out \in Lowered /\ (d.sends # {} => Valid(d.out))

\* Every decision of the router is about traffic, and sends what is valid.
LEMMA DecisionsOutSound ==
  ASSUME NEW e \in Lowered, NEW l, NEW t
  PROVE  OutSound(HandleEnvelope(e, l, t)) /\ OutSound(HandleFrame(e, l, t))
<1>0. e \in EnvelopeType
  BY LoweredType
<1>1. \A x : OutSound(Reject(e, x)) /\ OutSound(Drop(e, x)) /\ OutSound(StorePut(e))
  BY DEF OutSound, Reject, Drop, StorePut, Nothing
<1>2. ASSUME NEW out \in Lowered, Valid(out), NEW L, NEW S
      PROVE  /\ OutSound(FanOut(out, L, S)) /\ OutSound(Forward(out, L, S))
             /\ OutSound(StorePut(out))
  <2>1. OutSound(Forward(out, L, S)) /\ OutSound(Reject(out, "OutputTooSmall"))
    BY <1>2 DEF OutSound, Forward, Reject, Nothing
  <2>2. QED BY <2>1 DEF FanOut, OutSound, StorePut, Nothing
<1>3. ASSUME Valid(e), ~(e.hop <= 1)
      PROVE  NextHop(e) \in Lowered /\ Valid(NextHop(e))
  BY <1>0, <1>3, NextHopLowered, NextHopType
<1>4. ASSUME Valid(e) PROVE OutSound(HandleCommunity(e, l))
  <2>1. CASE l # NoLink /\ e.hop <= 1
    BY <1>1, <2>1 DEF HandleCommunity
  <2>2. CASE ~(l # NoLink /\ e.hop <= 1)
    <3> DEFINE out == IF l # NoLink THEN NextHop(e) ELSE e
    <3>1. out \in Lowered /\ Valid(out)
      BY <1>3, <1>4, <2>2
    <3>2. \A L, S : OutSound(FanOut(out, L, S))
      <4> HIDE DEF out
      <4>1. QED BY <1>2, <3>1
    <3>3. QED BY <1>1, <2>2, <3>2 DEF HandleCommunity, CommunityFallback
  <2>3. QED BY <2>1, <2>2
<1>5. ASSUME Valid(e) PROVE OutSound(HandleRemote(e, l))
  <2> DEFINE out == IF l # NoLink THEN NextHop(e) ELSE e
             exhausted == IF l # NoLink THEN e.hop <= 1 ELSE e.hop = 0
  <2>1. CASE exhausted
    BY <1>1, <2>1 DEF HandleRemote
  <2>2. CASE ~exhausted
    <3>1. out \in Lowered /\ Valid(out)
      BY <1>3, <1>5, <2>2
    <3>2. \A L, S : OutSound(Forward(out, L, S)) /\ OutSound(StorePut(out))
      <4> HIDE DEF out
      <4>1. QED BY <1>2, <3>1
    <3>3. QED BY <2>2, <3>2 DEF HandleRemote
  <2>3. QED BY <2>1, <2>2
<1>6. OutSound(HandleEnvelope(e, l, t))
  <2>1. CASE ~VersionOk(e) \/ ~ExpiryOk(e) \/ e.expires <= t
    BY <1>1, <2>1 DEF HandleEnvelope, RejectInvalidOrExpired
  <2>2. CASE VersionOk(e) /\ ExpiryOk(e) /\ ~(e.expires <= t)
    <3>1. Valid(e)
      BY <2>2 DEF Valid
    <3>2. OutSound(Forward(e, {e}, {}))
      BY <1>2, <3>1
    <3>3. QED BY <1>1, <1>4, <1>5, <2>2, <3>1, <3>2
              DEF HandleEnvelope, RejectInvalidOrExpired
  <2>3. QED BY <2>1, <2>2
<1>7. QED BY <1>1, <1>6 DEF HandleFrame

-----------------------------------------------------------------------------
(* The queues.  FlightOk is FlightSound of any queues at any clock, so that *)
(* it can be followed through a poll, which takes a frame out first.       *)

FlightOk(q, t) ==
  /\ q \in [LinkIds -> Seq(Frame)]
  /\ \A l \in LinkIds :
       /\ Len(q[l]) <= QueueCapacity
       /\ \A i \in DOMAIN q[l] :
            /\ Valid(q[l][i].env) /\ q[l][i].env.id \notin TooLong
            /\ q[l][i].env \in Lowered
            /\ q[l][i].at <= t
            /\ \A j \in 1..i : q[l][j].at <= q[l][i].at

InQueues(q) == UNION {{q[l][i].env : i \in DOMAIN q[l]} : l \in LinkIds}

\* A frame in a queue carries an envelope that is under way.
LEMMA InQueuesIntro ==
  ASSUME NEW q, NEW l \in LinkIds, NEW i \in DOMAIN q[l]
  PROVE  q[l][i].env \in InQueues(q)
BY DEF InQueues

\* A free slot is room for one more.
LEMMA OneMore ==
  ASSUME NEW a \in Nat, NEW b \in Nat, a <= b, a # b
  PROVE  a + 1 <= b
OBVIOUS

\* Two endpoints, each the other's peer.
LEMMA PeerOfPeer ==
  ASSUME NEW l \in LinkIds
  PROVE  Peer(l) \in LinkIds /\ Peer(Peer(l)) = l
BY LoopbackAssumption DEF Peer

\* What one step may have sent with the queues q in front of it.
SentSound(q) ==
  /\ \A s \in io'.sent : /\ s.link \in LinkIds
                         /\ s.env \in Lowered /\ Valid(s.env) /\ s.env.id \notin TooLong
                         /\ Len(q[Peer(s.link)]) # QueueCapacity
  /\ \A s, r \in io'.sent : s.env = r.env

\* execute_commands_record over send_bytes_to sends only what the endpoint may
\* carry, and only into a queue with a free slot.
LEMMA ExecutedSends ==
  ASSUME NEW d \in Decision, OutSound(d), NEW q, NEW recs,
         Execute(d, Sends(d, q), recs)
  PROVE  SentSound(q)
<1>1. io'.sent = {[link |-> l, env |-> d.out] : l \in Succeeded(d, Sends(d, q))}
  BY DEF Execute, Effects
<1>2. \A l \in Succeeded(d, Sends(d, q)) :
         /\ l \in d.sends /\ l \in LinkIds
         /\ SendOutcome(q, l, d.out) = "ok"
  BY DEF Succeeded, Sends, Decision
<1>3. \A l \in Succeeded(d, Sends(d, q)) :
         /\ l \in LinkIds /\ d.out.id \notin TooLong
         /\ Len(q[Peer(l)]) # QueueCapacity
         /\ d.out \in Lowered /\ Valid(d.out)
  BY <1>2 DEF SendOutcome, OutSound
<1> HIDE DEF OutSound
<1>4. \A s \in io'.sent : s.env = d.out /\ s.link \in Succeeded(d, Sends(d, q))
  BY <1>1
<1>5. QED BY <1>3, <1>4 DEF SentSound

\* The answers of the endpoints are outcomes.
LEMMA SendsType ==
  ASSUME NEW d, NEW q
  PROVE  Sends(d, q) \in [d.sends -> Outcome]
<1>1. \A l : SendOutcome(q, l, d.out) \in Outcome
  BY DEF SendOutcome, Outcome
<1>2. QED BY <1>1 DEF Sends

\* enqueue: the queue of an endpoint grows by at most one frame, of the clock
\* of the step, and only if something was sent on the other one.
LEMMA DeliveredAt ==
  ASSUME NEW q, SentSound(q), NEW l \in LinkIds
  PROVE  \/ Delivered(q)[l] = q[l] /\ \A s \in io'.sent : s.link # Peer(l)
         \/ \E s \in io'.sent :
              /\ s.link = Peer(l) /\ Len(q[l]) # QueueCapacity
              /\ Delivered(q)[l] = Append(q[l], [env |-> s.env, at |-> now'])
<1> DEFINE arriving == {s \in io'.sent : s.link = Peer(l)}
           s0 == CHOOSE s \in arriving : TRUE
<1>1. Delivered(q)[l] = IF arriving = {} THEN q[l]
                        ELSE Append(q[l], [env |-> s0.env, at |-> now'])
  BY DEF Delivered
<1>2. CASE arriving = {}
  BY <1>1, <1>2
<1>3. CASE arriving # {}
  <2>1. s0 \in arriving
    BY <1>3
  <2> HIDE DEF s0
  <2>2. Len(q[l]) # QueueCapacity
    BY <2>1, PeerOfPeer DEF SentSound
  <2>3. QED BY <1>1, <1>3, <2>1, <2>2
<1>4. QED BY <1>2, <1>3

\* One queue, in order and within its slots at clock t; n is s and then x.
InOrder(s, t) ==
  /\ s \in Seq(Frame) /\ Len(s) <= QueueCapacity
  /\ \A i \in DOMAIN s : s[i].at <= t /\ \A j \in 1..i : s[j].at <= s[i].at
Longer(n, s, x) ==
  /\ DOMAIN n = DOMAIN s \cup {Len(s) + 1}
  /\ \A i \in DOMAIN s : n[i] = s[i]
  /\ n[Len(s) + 1] = x

\* A frame of the current clock behind the others keeps a queue in order.
LEMMA AppendedFlight ==
  ASSUME NEW s, NEW t \in Nat, NEW u \in Nat, u >= t, InOrder(s, t),
         Len(s) # QueueCapacity, NEW x \in Frame, x.at = u,
         NEW n, n = Append(s, x)
  PROVE  InOrder(n, u) /\ Longer(n, s, x)
<1>0. /\ s \in Seq(Frame) /\ Len(s) <= QueueCapacity
      /\ \A i \in DOMAIN s : s[i].at <= t /\ \A j \in 1..i : s[j].at <= s[i].at
  BY DEF InOrder
<1>1. QueueCapacity \in Nat
  BY LoopbackAssumption
<1>2. /\ Len(s) \in Nat /\ DOMAIN s = 1..Len(s)
      /\ n \in Seq(Frame) /\ Len(n) = Len(s) + 1 /\ DOMAIN n = 1..(Len(s) + 1)
  BY <1>0
<1>3. \A i \in DOMAIN s : n[i] = s[i]
  BY <1>0, <1>2
<1>4. n[Len(s) + 1] = x
  BY <1>0, <1>2
<1>5. \A i \in DOMAIN s : s[i].at \in Nat
  <2>1. \A i \in DOMAIN s : s[i] \in Frame
    BY <1>0
  <2>2. QED BY <2>1 DEF Frame
<1>6. \A i \in DOMAIN s : n[i].at <= u
  BY <1>0, <1>3, <1>5
<1>7. ASSUME NEW i \in DOMAIN n
      PROVE  n[i].at <= u /\ \A j \in 1..i : n[j].at <= n[i].at
  <2>1. CASE i \in DOMAIN s
    <3>1. \A j \in 1..i : j \in DOMAIN s
      BY <1>2, <2>1
    <3>2. QED BY <1>0, <1>3, <1>6, <2>1, <3>1
  <2>2. CASE i = Len(s) + 1
    <3>1. n[i].at = u
      BY <1>4, <2>2
    <3>2. \A j \in 1..i : j \in DOMAIN s \/ j = Len(s) + 1
      BY <1>2, <2>2
    <3>3. QED BY <1>4, <1>6, <3>1, <3>2
  <2>3. QED BY <1>2, <2>1, <2>2
<1>8. Len(n) <= QueueCapacity
  <2>1. Len(s) + 1 <= QueueCapacity
    BY <1>0, <1>1, <1>2, OneMore
  <2>2. QED BY <1>2, <2>1
<1>9. DOMAIN n = DOMAIN s \cup {Len(s) + 1}
  BY <1>2
<1>10. QED BY <1>2, <1>3, <1>4, <1>7, <1>8, <1>9 DEF InOrder, Longer

\* The sends of a step keep every queue within its slots and in order, and
\* whatever was sent is in a queue afterwards.
LEMMA DeliveredFlight ==
  ASSUME NEW q, now \in Nat, now' \in Nat, now' >= now, FlightOk(q, now),
         SentSound(q), NEW n, n = Delivered(q)
  PROVE  /\ FlightOk(n, now')
         /\ InQueues(q) \cup {s.env : s \in io'.sent} \subseteq InQueues(n)
<1>1. ASSUME NEW l \in LinkIds
      PROVE  /\ n[l] \in Seq(Frame) /\ Len(n[l]) <= QueueCapacity
             /\ \A i \in DOMAIN n[l] :
                  /\ Valid(n[l][i].env) /\ n[l][i].env.id \notin TooLong
                  /\ n[l][i].env \in Lowered
                  /\ n[l][i].at <= now'
                  /\ \A j \in 1..i : n[l][j].at <= n[l][i].at
             /\ \A i \in DOMAIN q[l] : i \in DOMAIN n[l] /\ n[l][i] = q[l][i]
             /\ \A s \in io'.sent : s.link = Peer(l) =>
                  \E i \in DOMAIN n[l] : n[l][i].env = s.env
  <2>0. /\ q[l] \in Seq(Frame) /\ Len(q[l]) <= QueueCapacity
        /\ \A i \in DOMAIN q[l] : /\ q[l][i].at \in Nat
                                  /\ Valid(q[l][i].env) /\ q[l][i].env.id \notin TooLong
                                  /\ q[l][i].env \in Lowered
                                  /\ q[l][i].at <= now
                                  /\ \A j \in 1..i : q[l][j].at <= q[l][i].at
    <3>1. q[l] \in Seq(Frame)
      BY DEF FlightOk
    <3>2. \A i \in DOMAIN q[l] : q[l][i] \in Frame
      BY <3>1
    <3>3. QED BY <3>1, <3>2 DEF FlightOk, Frame
  <2>1. CASE n[l] = q[l] /\ \A s \in io'.sent : s.link # Peer(l)
    BY <2>0, <2>1
  <2>2. CASE \E s \in io'.sent :
               /\ s.link = Peer(l) /\ Len(q[l]) # QueueCapacity
               /\ n[l] = Append(q[l], [env |-> s.env, at |-> now'])
    <3>1. PICK s \in io'.sent :
               /\ s.link = Peer(l) /\ Len(q[l]) # QueueCapacity
               /\ n[l] = Append(q[l], [env |-> s.env, at |-> now'])
      BY <2>2
    <3>2. /\ s.env \in Lowered /\ Valid(s.env) /\ s.env.id \notin TooLong
          /\ \A r \in io'.sent : r.env = s.env
      BY DEF SentSound
    <3> DEFINE x == [env |-> s.env, at |-> now']
    <3>3. x \in Frame /\ x.at = now' /\ x.env = s.env
      BY <3>2, LoweredType DEF Frame
    <3> HIDE DEF x
    <3>4. /\ n[l] \in Seq(Frame) /\ Len(n[l]) <= QueueCapacity
          /\ DOMAIN n[l] = DOMAIN q[l] \cup {Len(q[l]) + 1}
          /\ \A i \in DOMAIN q[l] : n[l][i] = q[l][i]
          /\ n[l][Len(q[l]) + 1] = x
          /\ \A i \in DOMAIN n[l] :
               n[l][i].at <= now' /\ \A j \in 1..i : n[l][j].at <= n[l][i].at
      <4>1. InOrder(q[l], now) /\ Len(q[l]) # QueueCapacity /\ n[l] = Append(q[l], x)
        BY <2>0, <3>1 DEF InOrder, x
      <4>2. InOrder(n[l], now') /\ Longer(n[l], q[l], x)
        BY <3>3, <4>1, AppendedFlight
      <4>3. QED BY <4>2 DEF InOrder, Longer
    <3>5. n[l][Len(q[l]) + 1].env = s.env
      BY <3>3, <3>4
    <3>6. QED BY <2>0, <3>2, <3>4, <3>5
  <2>3. QED BY <2>1, <2>2, DeliveredAt
<1>2. n \in [LinkIds -> Seq(Frame)]
  <2>1. n = [l \in LinkIds |-> n[l]]
    BY DEF Delivered
  <2>2. QED BY <1>1, <2>1
<1>3. FlightOk(n, now')
  BY <1>1, <1>2 DEF FlightOk
<1>4. InQueues(q) \subseteq InQueues(n)
  BY <1>1 DEF InQueues
<1>5. ASSUME NEW s \in io'.sent PROVE s.env \in InQueues(n)
  <2>1. s.link \in LinkIds
    BY DEF SentSound
  <2>2. Peer(s.link) \in LinkIds /\ Peer(Peer(s.link)) = s.link
    BY <2>1, PeerOfPeer
  <2>3. QED BY <1>1, <2>2 DEF InQueues
<1>6. QED BY <1>3, <1>4, <1>5

\* shift_queue: a frame that leaves takes nothing with it.
LEMMA PoppedFlight ==
  ASSUME NEW t, FlightOk(queue, t), NEW l \in LinkIds, queue[l] # << >>,
         NEW popped, popped = [queue EXCEPT ![l] = Tail(@)]
  PROVE  /\ FlightOk(popped, t)
         /\ Head(queue[l]) \in Frame /\ Head(queue[l]).env \in Lowered
         /\ Head(queue[l]).at <= t
         /\ InQueues(queue) \subseteq InQueues(popped) \cup {Head(queue[l]).env}
<1>1. /\ queue \in [LinkIds -> Seq(Frame)] /\ queue[l] \in Seq(Frame)
      /\ \A k \in LinkIds : popped[k] = IF k = l THEN Tail(queue[l]) ELSE queue[k]
  BY DEF FlightOk
<1>2. /\ Len(queue[l]) \in Nat \ {0} /\ DOMAIN queue[l] = 1..Len(queue[l])
      /\ Head(queue[l]) = queue[l][1] /\ 1 \in DOMAIN queue[l]
  BY <1>1
<1>3. /\ Tail(queue[l]) \in Seq(Frame) /\ Len(Tail(queue[l])) = Len(queue[l]) - 1
      /\ DOMAIN Tail(queue[l]) = 1..(Len(queue[l]) - 1)
      /\ \A i \in 1..(Len(queue[l]) - 1) : Tail(queue[l])[i] = queue[l][i + 1]
  BY <1>1, <1>2
<1>4. \A i \in DOMAIN popped[l] : popped[l][i] = queue[l][i + 1] /\ i + 1 \in DOMAIN queue[l]
  BY <1>1, <1>2, <1>3
<1>5. popped \in [LinkIds -> Seq(Frame)]
  BY <1>1, <1>3
<1>6. ASSUME NEW i \in DOMAIN popped[l]
      PROVE  /\ Valid(popped[l][i].env) /\ popped[l][i].env.id \notin TooLong
             /\ popped[l][i].env \in Lowered
             /\ popped[l][i].at <= t
             /\ \A j \in 1..i : popped[l][j].at <= popped[l][i].at
  <2>1. \A j \in 1..i : j \in DOMAIN popped[l] /\ j + 1 \in 1..(i + 1)
    BY <1>1, <1>2, <1>3
  <2>2. QED BY <1>4, <2>1 DEF FlightOk
<1>7. Len(popped[l]) <= QueueCapacity
  BY <1>1, <1>2, <1>3, LoopbackAssumption DEF FlightOk
<1>8. FlightOk(popped, t)
  <2>1. ASSUME NEW k \in LinkIds, k # l PROVE popped[k] = queue[k]
    BY <1>1, <2>1
  <2>2. QED BY <1>5, <1>6, <1>7, <2>1 DEF FlightOk
<1>9. ASSUME NEW k \in LinkIds, NEW i \in DOMAIN queue[k]
      PROVE  queue[k][i].env \in InQueues(popped) \cup {Head(queue[l]).env}
  <2>1. CASE k # l
    BY <1>1, <2>1 DEF InQueues
  <2>2. CASE k = l /\ i = 1
    BY <1>2, <2>2
  <2>3. CASE k = l /\ i # 1
    <3>1. i - 1 \in DOMAIN popped[l] /\ i - 1 + 1 = i
      BY <1>1, <1>2, <1>3, <2>3
    <3>2. popped[l][i - 1] = queue[l][i]
      BY <1>4, <3>1
    <3>3. popped[l][i - 1].env \in InQueues(popped)
      BY <3>1, InQueuesIntro
    <3>4. queue[k][i].env = popped[l][i - 1].env
      BY <2>3, <3>2
    <3>5. QED BY <3>3, <3>4
  <2>4. QED BY <2>1, <2>2, <2>3
<1>10. Head(queue[l]) \in Frame
  BY <1>1, <1>2
<1>11. Head(queue[l]).env \in Lowered /\ Head(queue[l]).at <= t
  BY <1>2 DEF FlightOk
<1>12. QED BY <1>8, <1>9, <1>10, <1>11 DEF InQueues

-----------------------------------------------------------------------------
(* The invariant, and what every call of the core has in common.           *)

\* The types of the endpoints and of the histories; the clock is one a caller
\* reported, and the store holds traffic.
RuntimeTypeOK ==
  /\ up \in [LinkIds -> BOOLEAN]
  /\ starting \in Seq(LinkIds)
  /\ now \in Times
  /\ records \subseteq Lowered
  /\ \A e \in taken : e \in EnvelopeType /\ e.hop > 0

\* NothingLost needs the store of the core to be sound, the queues to be in
\* order, and the hops of what was taken over.
RInv ==
  /\ IInv /\ RuntimeTypeOK /\ FlightOk(queue, now)
  /\ EndpointsMatchTable /\ NothingLost

\* A call of the core over the endpoints, with the queues q in front of its
\* sends.
CoreStep(q) ==
  /\ NextOn(Lowered)
  /\ SentSound(q) /\ queue' = Delivered(q)
  /\ records' \subseteq records \cup Lowered
  /\ now' \in Times /\ now' >= now
  /\ taken' \subseteq taken \cup
       {e \in (records' \ records) \cup {s.env : s \in io'.sent} : e.hop > 0}

\* A call that sends nothing leaves the queues as they are.
LEMMA QuietDelivery ==
  ASSUME FlightOk(queue, now), io' = NoIO
  PROVE  SentSound(queue) /\ Delivered(queue) = queue
<1>1. io'.sent = {}
  BY DEF NoIO
<1>2. Delivered(queue) = [l \in LinkIds |-> queue[l]]
  BY <1>1 DEF Delivered
<1>3. QED BY <1>1, <1>2 DEF SentSound, FlightOk

\* The clock and the tables as numbers and sequences.
LEMMA RuntimeTypes ==
  ASSUME RInv
  PROVE  /\ now \in Times /\ now \in Nat /\ MaxTime \in Nat
         /\ links \in Seq(LinkState) /\ records \subseteq Lowered
         /\ records \subseteq EnvelopeType /\ FlightOk(queue, now)
BY GatewayAssumption DEF RInv, RuntimeTypeOK, IInv, TypeOK, RouterTypeOK

\* observe_time ends at a time some caller reported.
LEMMA ObservedIsReported ==
  ASSUME RInv, NEW t \in Times
  PROVE  ObservedTime(t) \in Times /\ ObservedTime(t) >= now /\ ObservedTime(t) \in Nat
BY RuntimeTypes DEF ObservedTime, Times

\* What submit and ingest_link_frame put into the store is the batch's envelope.
LEMMA StoredIsOut ==
  ASSUME NEW d, d.out \in Lowered, NEW before, before \subseteq records, NEW t, NEW after,
         after = IF Stores(d, before) THEN Put(before, d.out) ELSE before,
         records' = after \/ records' = Unexpired(after, t)
  PROVE  records' \subseteq records \cup Lowered
<1>1. after \subseteq before \cup {d.out}
  BY DEF Put
<1>2. records' \subseteq after
  BY DEF Unexpired
<1>3. QED BY <1>1, <1>2

-----------------------------------------------------------------------------
(* Each operation is a call of the core.                                   *)

\* submit
LEMMA RuntimeSubmitSteps ==
  ASSUME RInv, NEW e \in Envelopes, RuntimeSubmit(e)
  PROVE  CoreStep(queue) /\ handed' = handed /\ UNCHANGED <<links, up, starting>>
<1> DEFINE d == HandleEnvelope(e, NoLink, now)
           res == Sends(d, queue)
           after == IF Stores(d, records) THEN Put(records, d.out) ELSE records
<1>0. /\ now \in Nat /\ now \in Times /\ links \in Seq(LinkState)
      /\ e \in Lowered /\ e \in EnvelopeType
  BY RuntimeTypes, LoweredType
<1>1. SubmitWith(e, res) /\ queue' = Delivered(queue) /\ Take
      /\ UNCHANGED <<up, starting, handed>>
  BY DEF RuntimeSubmit
<1>2. d \in Decision /\ OutSound(d) /\ res \in [d.sends -> Outcome]
  BY <1>0, HandleEnvelopeSound, DecisionsOutSound, SendsType DEF DecisionSound
<1>3. NextOn(Lowered)
  BY <1>0, <1>1, <1>2 DEF Submit, NextOn
<1>4. /\ Execute(d, res, records) /\ now' = now /\ links' = links
      /\ records' = after \/ records' = Unexpired(after, now)
  BY <1>1 DEF SubmitWith, EnterFlush
<1> HIDE DEF d, res
<1>5. SentSound(queue)
  BY <1>2, <1>4, ExecutedSends DEF res
<1>6. records' \subseteq records \cup Lowered
  BY <1>2, <1>4, StoredIsOut DEF OutSound
<1>7. QED BY <1>0, <1>1, <1>3, <1>4, <1>5, <1>6 DEF CoreStep, Take

\* ingest_link_frame, of a frame from outside or from a queue
LEMMA RuntimeIngestSteps ==
  ASSUME RInv, NEW l \in LinkIds, NEW e \in Lowered, NEW t \in Times, NEW q,
         IngestWith(l, e, t, Sends(HandleFrame(e, l, ObservedTime(t)), q)),
         queue' = Delivered(q), Take
  PROVE  CoreStep(q) /\ links' = links
<1> DEFINE clock == ObservedTime(t)
           before == ObservedRecords(t)
           d == HandleFrame(e, l, clock)
           res == Sends(d, q)
           after == IF Stores(d, before) THEN Put(before, d.out) ELSE before
<1>0. /\ links \in Seq(LinkState) /\ e \in EnvelopeType
      /\ clock \in Times /\ clock >= now /\ clock \in Nat
  BY RuntimeTypes, LoweredType, ObservedIsReported
<1>2. d \in Decision /\ OutSound(d) /\ res \in [d.sends -> Outcome]
  BY <1>0, HandleEnvelopeSound, DecisionsOutSound, SendsType DEF DecisionSound
<1>3. NextOn(Lowered)
  <2>1. Ingest(l, e, t)
    BY <1>2 DEF Ingest
  <2>2. QED BY <2>1 DEF NextOn
<1>4. /\ Execute(d, res, before) /\ now' = clock /\ links' = links
      /\ records' = after \/ records' = Unexpired(after, clock)
  BY DEF IngestWith, EnterFlush
<1>5. before \subseteq records
  BY DEF ObservedRecords, Unexpired
<1> HIDE DEF d, res, before, clock
<1>6. SentSound(q)
  BY <1>2, <1>4, ExecutedSends DEF res
<1>7. records' \subseteq records \cup Lowered
  BY <1>2, <1>4, <1>5, StoredIsOut DEF OutSound
<1>8. QED BY <1>0, <1>3, <1>4, <1>6, <1>7 DEF CoreStep, Take

\* The flush loop of the call that is running.
LEMMA RuntimeFlushSteps ==
  ASSUME RInv, RuntimeFlush
  PROVE  CoreStep(queue) /\ handed' = handed /\ UNCHANGED <<links, up, starting>>
<1> DEFINE e == FirstPending(records)
           d == ForwardStored(e)
           res == Sends(d, queue)
<1>0. /\ now \in Nat /\ now \in Times /\ links \in Seq(LinkState)
      /\ records \subseteq Lowered /\ records \subseteq EnvelopeType
      /\ FlightOk(queue, now)
  BY RuntimeTypes
<1>1. /\ queue' = Delivered(queue) /\ Take
      /\ UNCHANGED <<up, starting, handed>>
  BY DEF RuntimeFlush
<1>2. CASE FlushDrained \/ FlushUnroutable
  <2>1. io' = NoIO /\ UNCHANGED <<links, now, records>>
    BY <1>2 DEF FlushDrained, FlushUnroutable, routerVars
  <2>2. NextOn(Lowered)
    BY <1>2 DEF NextOn, FlushStep
  <2>3. QED BY <1>0, <1>1, <2>1, <2>2, QuietDelivery DEF CoreStep, Take
<1>3. CASE pc = "flush" /\ records # {} /\ FlushRecordWith(res)
  <2>1. RecordsSound(records, now)
    BY InvariantRecords DEF RInv
  <2>2. e \in records
    BY <1>0, <1>3, <2>1, FirstPendingIsLeast DEF RecordsSound
  <2>3. Valid(e) /\ e \in Lowered /\ e \in EnvelopeType
    BY <1>0, <2>1, <2>2 DEF RecordsSound
  <2>4. d \in Decision /\ d.out = e /\ res \in [d.sends -> Outcome]
    BY <1>0, <2>3, ForwardStoredSound, SendsType DEF DecisionSound
  <2>5. NextOn(Lowered)
    BY <1>3, <2>4 DEF NextOn, FlushStep, FlushRecord
  <2>6. /\ Execute(d, res, records) /\ UNCHANGED <<links, now>>
        /\ records' \subseteq records
    BY <1>3 DEF FlushRecordWith, Without
  <2> HIDE DEF d, res, e
  <2>7. SentSound(queue)
    BY <2>3, <2>4, <2>6, ExecutedSends DEF OutSound, res
  <2>8. QED BY <1>0, <1>1, <2>5, <2>6, <2>7 DEF CoreStep, Take
<1>4. QED BY <1>2, <1>3 DEF RuntimeFlush

\* tick
LEMMA RuntimeTickSteps ==
  ASSUME RInv, NEW t \in Times, RuntimeTick(t)
  PROVE  CoreStep(queue) /\ handed' = handed /\ UNCHANGED <<links, up, starting>>
<1>1. /\ Tick(t) /\ UNCHANGED <<up, queue, starting, taken, handed>>
  BY DEF RuntimeTick, loopbackVars
<1>2. /\ io' = NoIO /\ now' = ObservedTime(t) /\ links' = links
      /\ records' \subseteq records
  BY <1>1 DEF Tick, EnterFlush, ObservedRecords, Unexpired
<1>3. NextOn(Lowered)
  BY <1>1 DEF NextOn
<1>4. QED BY <1>1, <1>2, <1>3, RuntimeTypes, ObservedIsReported, QuietDelivery
          DEF CoreStep

\* set_link_up
LEMMA SetLinkUpSteps ==
  ASSUME RInv, NEW l \in LinkIds, NEW state \in BOOLEAN, SetLinkUp(l, state)
  PROVE  CoreStep(queue) /\ handed' = handed /\ links' = SetLinkState(l, state)
<1>1. /\ LinkUp(l) \/ LinkDown(l)
      /\ links' = SetLinkState(l, state)
      /\ UNCHANGED <<queue, taken, handed>>
  BY DEF SetLinkUp, LinkUp, LinkDown
<1>2. io' = NoIO /\ now' = now /\ records' \subseteq records
  BY <1>1 DEF LinkUp, LinkDown, EnterFlush, Unexpired
<1>3. NextOn(Lowered)
  BY <1>1 DEF NextOn
<1>4. QED BY <1>1, <1>2, <1>3, RuntimeTypes, QuietDelivery DEF CoreStep, Times

-----------------------------------------------------------------------------
(* The steps keep the invariant.                                           *)

\* set_link_up changes the endpoint and the table together.
LEMMA SetLinkUpMatches ==
  ASSUME RInv, NEW l \in LinkIds, NEW state \in BOOLEAN,
         up' = [up EXCEPT ![l] = state], links' = SetLinkState(l, state)
  PROVE  up' \in [LinkIds -> BOOLEAN] /\ EndpointsMatchTable'
<1>0. /\ up \in [LinkIds -> BOOLEAN] /\ EndpointsMatchTable /\ links \in Seq(LinkState)
      /\ DOMAIN links = 1..Len(links) /\ Len(links) \in Nat
  BY RuntimeTypes DEF RInv, RuntimeTypeOK
<1>1. \A i \in DOMAIN links : links[i] \in LinkState
  BY <1>0
<1>2. \A i \in DOMAIN links : links[i].id \in LinkIds
  BY <1>1 DEF LinkState
<1>3. \A k \in LinkIds : up'[k] = IF k = l THEN state ELSE up[k]
  BY <1>0
<1>4. CASE LinkKnown(l)
  <2>1. /\ DOMAIN links' = DOMAIN links
        /\ \A i \in DOMAIN links :
             links'[i] = IF links[i].id = l THEN [id |-> l, up |-> state] ELSE links[i]
    BY <1>4 DEF SetLinkState
  <2>2. QED BY <1>0, <1>2, <1>3, <2>1 DEF EndpointsMatchTable
<1>5. CASE ~LinkKnown(l) /\ links' = links
  BY <1>0, <1>2, <1>3, <1>5 DEF EndpointsMatchTable, LinkKnown
<1>6. CASE ~LinkKnown(l) /\ state /\ links' = Append(links, [id |-> l, up |-> TRUE])
  <2> DEFINE row == [id |-> l, up |-> TRUE]
  <2>1. row.id = l /\ row.up = TRUE /\ row \in LinkState /\ links' = Append(links, row)
    BY <1>6 DEF LinkState
  <2> HIDE DEF row
  <2>2. /\ DOMAIN links' = 1..(Len(links) + 1)
        /\ \A i \in DOMAIN links : links'[i] = links[i]
        /\ links'[Len(links) + 1] = row
    BY <1>0, <2>1
  <2>3. \A i \in DOMAIN links' : i \in DOMAIN links \/ i = Len(links) + 1
    BY <1>0, <2>2
  <2>4. ASSUME NEW i \in DOMAIN links'
        PROVE  links'[i].up = up'[links'[i].id]
    <3>1. CASE i \in DOMAIN links
      BY <1>0, <1>2, <1>3, <1>6, <2>2, <3>1 DEF EndpointsMatchTable, LinkKnown
    <3>2. CASE i = Len(links) + 1
      BY <1>3, <1>6, <2>1, <2>2, <3>2
    <3>3. QED BY <2>3, <3>1, <3>2
  <2>5. QED BY <1>0, <2>4 DEF EndpointsMatchTable
<1>7. QED BY <1>0, <1>4, <1>5, <1>6 DEF SetLinkState

\* A call of the core keeps types, queues and custody, if what left the queues
\* before it was handed out.
LEMMA CoreStepKeeps ==
  ASSUME RInv, NEW q, CoreStep(q), FlightOk(q, now), handed \subseteq handed',
         InQueues(queue) \subseteq InQueues(q) \cup handed',
         up' \in [LinkIds -> BOOLEAN], starting' \in Seq(LinkIds), EndpointsMatchTable'
  PROVE  RInv'
<1>0. /\ now \in Nat /\ now' \in Nat /\ now' >= now /\ now' \in Times
      /\ records \subseteq EnvelopeType /\ records \subseteq Lowered
      /\ Lowered \subseteq EnvelopeType /\ IInv
      /\ \A e \in taken : e \in EnvelopeType /\ e.hop > 0
  BY RuntimeTypes, LoweredType DEF CoreStep, Times, RInv, RuntimeTypeOK
<1>1. IInv'
  BY <1>0, StepInvariant DEF CoreStep
<1>2. /\ FlightOk(queue', now')
      /\ InQueues(q) \cup {s.env : s \in io'.sent} \subseteq InQueues(queue')
  BY <1>0, DeliveredFlight DEF CoreStep
<1>3. records' \subseteq Lowered
  BY <1>0 DEF CoreStep
<1>4. \A s \in io'.sent : s.env \in Lowered
  BY DEF CoreStep, SentSound
<1>5. \A e \in taken' : e \in EnvelopeType /\ e.hop > 0
  BY <1>0, <1>3, <1>4 DEF CoreStep
<1>6. InFlight = InQueues(queue) /\ InFlight' = InQueues(queue')
  BY DEF InFlight, InQueues
<1>7. ASSUME NEW e \in taken'
      PROVE  e.expires <= now' \/ e \in records' \cup InFlight' \cup handed'
  <2>0. e.expires \in Nat /\ e.hop \in 0..255 /\ e.hop > 0
    <3>1. e \in EnvelopeType /\ e.hop > 0
      BY <1>5
    <3>2. e.expires \in Nat /\ e.hop \in 0..255
      BY <3>1 DEF EnvelopeType, HopLimits
    <3>3. QED BY <3>1, <3>2
  <2>1. CASE e \in records' \/ e \in {s.env : s \in io'.sent}
    BY <1>2, <1>6, <2>1
  <2>2. CASE e \in records /\ e \notin records'
    <3>1. ReleaseStep
      BY <1>0, <2>2, StepReleases DEF CoreStep, vars
    <3>2. e.expires <= now' \/ HandledInFull(e)
      BY <2>0, <2>2, <3>1 DEF ReleaseStep
    <3>3. ASSUME HandledInFull(e) PROVE e \in {s.env : s \in io'.sent}
      BY <3>3 DEF HandledInFull
    <3>4. QED BY <1>2, <1>6, <3>2, <3>3
  <2>3. CASE e \in InFlight \cup handed
    BY <1>2, <1>6, <2>3
  <2>4. CASE e.expires <= now
    BY <1>0, <2>0, <2>4
  <2>5. e \in taken \/ e \in records' \/ e \in {s.env : s \in io'.sent}
    BY DEF CoreStep
  <2>6. QED BY <2>1, <2>2, <2>3, <2>4, <2>5 DEF RInv, NothingLost
<1>8. NothingLost'
  BY <1>7 DEF NothingLost
<1>9. QED BY <1>0, <1>1, <1>2, <1>3, <1>5, <1>8 DEF RInv, RuntimeTypeOK

\* The endpoints and the table are as before.
LEMMA SameEndpoints ==
  ASSUME RInv, UNCHANGED <<links, up, starting>>
  PROVE  /\ up' \in [LinkIds -> BOOLEAN] /\ starting' \in Seq(LinkIds)
         /\ EndpointsMatchTable'
BY DEF RInv, RuntimeTypeOK, EndpointsMatchTable

\* Every step keeps the invariant and is a step of the core or leaves it alone.
LEMMA RuntimeStep ==
  ASSUME RInv, [RuntimeNext]_runtimeVars
  PROVE  RInv' /\ [NextOn(Lowered)]_vars
<1>0. FlightOk(queue, now) /\ InQueues(queue) \subseteq InQueues(queue) \cup handed'
  BY RuntimeTypes
<1>1. CASE \E e \in Envelopes : RuntimeSubmit(e)
  <2>1. CoreStep(queue) /\ handed' = handed /\ UNCHANGED <<links, up, starting>>
    BY <1>1, RuntimeSubmitSteps
  <2>2. QED BY <1>0, <2>1, SameEndpoints, CoreStepKeeps DEF CoreStep
<1>2. CASE \E l \in LinkIds, e \in Envelopes, t \in Times : RuntimeIngest(l, e, t)
  <2>1. CoreStep(queue) /\ handed' = handed /\ UNCHANGED <<links, up, starting>>
    BY <1>2, RuntimeIngestSteps, LoweredType DEF RuntimeIngest
  <2>2. QED BY <1>0, <2>1, SameEndpoints, CoreStepKeeps DEF CoreStep
<1>3. CASE \E l \in LinkIds : Poll(l)
  <2>1. PICK l \in LinkIds : Poll(l)
    BY <1>3
  <2> DEFINE frame == Head(queue[l])
             popped == [queue EXCEPT ![l] = Tail(@)]
  <2>2. /\ queue[l] # << >>
        /\ IngestWith(l, frame.env, frame.at,
             Sends(HandleFrame(frame.env, l, ObservedTime(frame.at)), popped))
        /\ queue' = Delivered(popped) /\ Take
        /\ handed' = handed \cup {frame.env} /\ UNCHANGED <<up, starting>>
    BY <2>1 DEF Poll
  <2>3. /\ FlightOk(popped, now) /\ frame \in Frame /\ frame.env \in Lowered
        /\ frame.at <= now
        /\ InQueues(queue) \subseteq InQueues(popped) \cup {frame.env}
    BY <1>0, <2>2, PoppedFlight
  <2>4. frame.at \in Times
    <3>1. frame.at \in Nat
      BY <2>3 DEF Frame
    <3>2. QED BY <2>3, <3>1, RuntimeTypes DEF Times
  <2> HIDE DEF frame, popped
  <2>5. CoreStep(popped) /\ links' = links
    BY <2>2, <2>3, <2>4, RuntimeIngestSteps
  <2>6. handed \subseteq handed' /\ InQueues(queue) \subseteq InQueues(popped) \cup handed'
    BY <2>2, <2>3
  <2>7. QED BY <2>2, <2>3, <2>5, <2>6, SameEndpoints, CoreStepKeeps DEF CoreStep
<1>4. CASE \E l \in LinkIds : Receive(l)
  <2>1. PICK l \in LinkIds : Receive(l)
    BY <1>4
  <2> DEFINE popped == [queue EXCEPT ![l] = Tail(@)]
  <2>2. /\ queue[l] # << >> /\ queue' = popped
        /\ handed' = handed \cup {Head(queue[l]).env}
        /\ UNCHANGED <<vars, up, starting, taken>>
    BY <2>1 DEF Receive
  <2>3. /\ FlightOk(popped, now)
        /\ InQueues(queue) \subseteq InQueues(popped) \cup {Head(queue[l]).env}
    BY <1>0, <2>2, PoppedFlight
  <2> HIDE DEF popped
  <2>4. IInv'
    BY <2>2, StepInvariant DEF RInv
  <2>5. UNCHANGED <<links, now, records>>
    BY <2>2 DEF vars, routerVars
  <2>6. InFlight = InQueues(queue) /\ InFlight' = InQueues(queue')
    BY DEF InFlight, InQueues
  <2>7. NothingLost'
    BY <2>2, <2>3, <2>5, <2>6 DEF NothingLost, RInv
  <2>8. RuntimeTypeOK' /\ EndpointsMatchTable'
    BY <2>2, <2>5 DEF RInv, RuntimeTypeOK, EndpointsMatchTable
  <2>9. QED BY <2>2, <2>3, <2>4, <2>5, <2>7, <2>8 DEF RInv
<1>5. CASE \E t \in Times : RuntimeTick(t)
  <2>1. CoreStep(queue) /\ handed' = handed /\ UNCHANGED <<links, up, starting>>
    BY <1>5, RuntimeTickSteps
  <2>2. QED BY <1>0, <2>1, SameEndpoints, CoreStepKeeps DEF CoreStep
<1>6. ASSUME NEW l \in LinkIds, NEW state \in BOOLEAN, SetLinkUp(l, state),
             starting' \in Seq(LinkIds)
      PROVE  RInv' /\ [NextOn(Lowered)]_vars
  <2>1. /\ CoreStep(queue) /\ handed' = handed /\ links' = SetLinkState(l, state)
        /\ up' = [up EXCEPT ![l] = state]
    BY <1>6, SetLinkUpSteps DEF SetLinkUp
  <2>2. up' \in [LinkIds -> BOOLEAN] /\ EndpointsMatchTable'
    BY <2>1, SetLinkUpMatches
  <2>3. QED BY <1>0, <1>6, <2>1, <2>2, CoreStepKeeps DEF CoreStep
<1>7. CASE \E l \in LinkIds, state \in BOOLEAN : HostSetLinkUp(l, state)
  BY <1>6, <1>7 DEF HostSetLinkUp, RInv, RuntimeTypeOK
<1>8. CASE Activate
  <2>1. starting \in Seq(LinkIds) /\ starting # << >>
    BY <1>8 DEF Activate, Ready, RInv, RuntimeTypeOK
  <2>2. Head(starting) \in LinkIds /\ Tail(starting) \in Seq(LinkIds)
    BY <2>1
  <2>3. QED BY <1>6, <1>8, <2>2 DEF Activate
<1>9. CASE RuntimeFlush
  <2>1. CoreStep(queue) /\ handed' = handed /\ UNCHANGED <<links, up, starting>>
    BY <1>9, RuntimeFlushSteps
  <2>2. QED BY <1>0, <2>1, SameEndpoints, CoreStepKeeps DEF CoreStep
<1>10. CASE UNCHANGED runtimeVars
  <2>1. UNCHANGED <<vars, up, queue, starting, taken, handed>>
    BY <1>10 DEF runtimeVars, loopbackVars
  <2>2. UNCHANGED <<links, now, records>>
    BY <2>1 DEF vars, routerVars
  <2>3. IInv'
    BY <2>1, StepInvariant DEF RInv
  <2>4. QED BY <2>1, <2>2, <2>3
            DEF RInv, RuntimeTypeOK, EndpointsMatchTable, NothingLost, InFlight
<1>11. QED BY <1>1, <1>2, <1>3, <1>4, <1>5, <1>7, <1>8, <1>9, <1>10 DEF RuntimeNext

\* new(): endpoints up, queues and store empty, no link activated.
LEMMA RuntimeInitInvariant == RuntimeInit => RInv
<1> SUFFICES ASSUME RuntimeInit PROVE RInv
  OBVIOUS
<1>1. IInv
  BY InitInvariant DEF RuntimeInit
<1>2. now = 0 /\ records = {} /\ links = << >>
  BY DEF RuntimeInit, Init, RouterInit
<1>3. RuntimeTypeOK /\ EndpointsMatchTable /\ NothingLost
  BY <1>2, LoopbackAssumption, GatewayAssumption
     DEF RuntimeInit, RuntimeTypeOK, EndpointsMatchTable, NothingLost, Times
<1>4. FlightOk(queue, now)
  BY <1>2, LoopbackAssumption DEF RuntimeInit, FlightOk
<1>5. QED BY <1>1, <1>3, <1>4 DEF RInv

-----------------------------------------------------------------------------
(* The theorems.                                                           *)

\* The invariant of the runtime holds in every state.
THEOREM RuntimeInvariant == RuntimeSpec => []RInv
<1>1. RInv /\ [RuntimeNext]_runtimeVars => RInv'
  BY RuntimeStep
<1>2. QED BY <1>1, RuntimeInitInvariant, PTL DEF RuntimeSpec

\* For every size of the queues, every link configuration and all traffic: the
\* frames in flight fit their queue, may be carried by it, are in the order of
\* their times and never ahead of the clock (send_bytes_to, enqueue, receive_into).
THEOREM FlightStaysSound == RuntimeSpec => []FlightSound
<1>1. RInv => FlightSound
  BY DEF RInv, FlightOk, FlightSound
<1>2. QED BY <1>1, RuntimeInvariant, PTL

\* The router's link table and the endpoints never disagree about a link
\* (set_link_up), full table and unknown links included.
THEOREM EndpointsStayMatched == RuntimeSpec => []EndpointsMatchTable
BY RuntimeInvariant, PTL DEF RInv

\* What the runtime took over with hops left is, until it expires, in the
\* store, in a queue or handed out, however sends fail (flush_store over
\* send_bytes_to).
THEOREM NothingIsLost == RuntimeSpec => []NothingLost
BY RuntimeInvariant, PTL DEF RInv

\* Every call of GatewayRuntime is a call of GatewayCore whose executor gave
\* the answers the endpoints gave.
THEOREM RuntimeIsGateway == RuntimeSpec => ImplementsCore
<1>1. RInv /\ [RuntimeNext]_runtimeVars => [NextOn(Lowered)]_vars
  BY RuntimeStep
<1>2. RuntimeInit => Init
  BY DEF RuntimeInit
<1>3. QED BY <1>1, <1>2, RuntimeInvariant, PTL DEF RuntimeSpec, ImplementsCore

\* So the runtime, too, lets a record go only when its time or its hops are
\* over or when it went out on every link it is owed to (flush_store).
THEOREM RuntimeOwedRecordsStay == RuntimeSpec => ReleasedOnlyWhenHandled
<1>1. RInv /\ [RuntimeNext]_runtimeVars => [ReleaseStep]_vars
  BY RuntimeStep, StepReleases, LoweredType DEF RInv
<1>2. QED BY <1>1, RuntimeInvariant, PTL DEF RuntimeSpec, ReleasedOnlyWhenHandled

\* It remembers a message only after it was sent, stored or delivered
\* (execute_commands_record, commit_seen), with the endpoints' own answers.
THEOREM RuntimeSeenOnlyAfterSuccess == RuntimeSpec => CommitOnlyAfterSuccess
<1>1. RInv /\ [RuntimeNext]_runtimeVars => [CommitStep]_vars
  BY RuntimeStep, StepCommits, LoweredType DEF RInv
<1>2. QED BY <1>1, RuntimeInvariant, PTL DEF RuntimeSpec, CommitOnlyAfterSuccess

\* And its store keeps custody under its clock (put_envelope, expire_before,
\* remove): the runtime implements Custody.
THEOREM RuntimeKeepsCustody == RuntimeSpec => CustodySpec
<1>1. RuntimeInit => Custody!CustodyInit
  BY DEF RuntimeInit, Init, RouterInit, Custody!CustodyInit
<1>2. RInv /\ [RuntimeNext]_runtimeVars => [Custody!CustodyNext]_(Custody!custodyVars)
  BY RuntimeStep, StepKeepsCustody, LoweredType
     DEF RInv, Custody!CustodyNext, Custody!custodyVars
<1>3. QED BY <1>1, <1>2, RuntimeInvariant, PTL
          DEF RuntimeSpec, CustodySpec, Custody!CustodySpec
=============================================================================
