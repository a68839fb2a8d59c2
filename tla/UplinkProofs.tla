---------------------------- MODULE UplinkProofs ----------------------------
(***************************************************************************)
(* What holds of the FIPS uplink for every set of peers, whatever          *)
(* addresses their keys hash to, and of the Nostr relay for every store    *)
(* size, filter and event: for every capacity and all traffic.             *)
(***************************************************************************)
EXTENDS Uplinks, LibraryProofs

Endpoints == {Endpoint(key) : key \in PublicKeys \cup {RemoteKey}}
Datagrams == [source : {Local}, destination : {Remote}, frame : FipsFrames]

PeersTypeOK == peers \in Seq(Endpoints)
SendTypeOK ==
    /\ outbound \in Seq(Datagrams)
    /\ taken \in Seq(FipsFrames)

-----------------------------------------------------------------------------
(* Peers.                                                                  *)

\* An appended element stands behind the others, which keep their places.
LEMMA AppendedAtEnd ==
    ASSUME NEW S, NEW seq \in Seq(S), NEW x \in S
    PROVE  /\ Append(seq, x) \in Seq(S)
           /\ DOMAIN Append(seq, x) = 1..(Len(seq) + 1)
           /\ DOMAIN seq = 1..Len(seq)
           /\ Len(seq) \in Nat
           /\ Append(seq, x)[Len(seq) + 1] = x
           /\ \A i \in 1..Len(seq) : Append(seq, x)[i] = seq[i]
BY AppendProperties, LenProperties

\* Endpoints overlap in either order: it does not matter which of two peers
\* came first (endpoints_overlap).
LEMMA OverlapSymmetric ==
    ASSUME NEW left, NEW right
    PROVE  Overlap(left, right) <=> Overlap(right, left)
BY DEF Overlap

\* Only a peer that overlaps neither the local endpoint nor a registered one
\* gets a slot (register_peer).
LEMMA RegisteredIsApart ==
    ASSUME NEW endpoint, RegisterError(endpoint) = "none"
    PROVE  /\ ~Overlap(Local, endpoint)
           /\ \A i \in DOMAIN peers : ~Overlap(peers[i], endpoint)
BY Zenon DEF RegisterError

\* Registration keeps the peers apart from each other and from the gateway.
LEMMA RegisterKeepsApart ==
    ASSUME PeersTypeOK, AddressesDistinct,
           NEW key \in PublicKeys, RegisterPeer(Endpoint(key))
    PROVE  PeersTypeOK' /\ AddressesDistinct'
<1> DEFINE new == Endpoint(key)
           n == Len(peers)
<1>1. new \in Endpoints
  BY DEF Endpoints
<1>2. peers' = Append(peers, new) /\ RegisterError(new) = "none"
  BY DEF RegisterPeer
<1> HIDE DEF new
<1>3. /\ peers' \in Seq(Endpoints)
      /\ DOMAIN peers' = 1..(n + 1) /\ DOMAIN peers = 1..n /\ n \in Nat
      /\ peers'[n + 1] = new
      /\ \A i \in 1..n : peers'[i] = peers[i]
  BY <1>1, <1>2, AppendedAtEnd DEF PeersTypeOK
<1>4. ~Overlap(Local, new) /\ \A i \in 1..n : ~Overlap(peers[i], new)
  BY <1>2, <1>3, RegisteredIsApart
<1> HIDE DEF n
<1>5. ASSUME NEW i \in 1..(n + 1), NEW j \in 1..(n + 1), i /= j
      PROVE  ~Overlap(peers'[i], peers'[j])
  <2>1. CASE i \in 1..n /\ j \in 1..n
    BY <2>1, <1>3, <1>5 DEF AddressesDistinct
  <2>2. CASE i = n + 1
    <3>1. j \in 1..n
      BY <2>2, <1>3, <1>5
    <3>2. ~Overlap(peers[j], new)
      BY <3>1, <1>4
    <3> QED
      BY <2>2, <3>1, <3>2, <1>3, OverlapSymmetric
  <2>3. CASE j = n + 1
    <3>1. i \in 1..n
      BY <2>3, <1>3, <1>5
    <3> QED
      BY <2>3, <3>1, <1>3, <1>4
  <2> QED
    BY <2>1, <2>2, <2>3, <1>3
<1>6. ASSUME NEW i \in 1..(n + 1)
      PROVE  ~Overlap(peers'[i], Local)
  <2>1. CASE i \in 1..n
    BY <2>1, <1>3 DEF AddressesDistinct
  <2>2. CASE i = n + 1
    BY <2>2, <1>3, <1>4, OverlapSymmetric
  <2> QED
    BY <2>1, <2>2, <1>3
<1>7. Local' = Local
  BY DEF Local, Endpoint
<1> QED
  BY <1>3, <1>5, <1>6, <1>7, Zenon DEF PeersTypeOK, AddressesDistinct, Overlap

\* No other step touches the peer table.
LEMMA OnlyRegisterChangesPeers ==
    ASSUME [Next]_vars
    PROVE  \/ UNCHANGED peers
           \/ \E key \in PublicKeys : RegisterPeer(Endpoint(key))
BY Zenon DEF Next, vars, fipsVars, FipsNext, SendFipsBytes, InjectFrom, PollOutbound,
   PollSidecarFrame, SetFipsUp, SetSidecarUp

\* Peers in whatever order and number: no two of them and the gateway share
\* a key or an address, so that a datagram names one endpoint
\* (FakeFipsSidecar::register_peer).
THEOREM PeersStayApart == Spec => []AddressesDistinct
<1> DEFINE Inv == PeersTypeOK /\ AddressesDistinct
<1>1. Init => Inv
  <2> SUFFICES ASSUME Init PROVE Inv
    OBVIOUS
  <2>1. peers = <<Remote>> /\ Remote \in Endpoints
    BY DEF Init, FipsInit, Remote, Endpoints
  <2>2. DOMAIN peers = {1} /\ peers[1] = Remote
    BY <2>1
  <2>3. ~Overlap(Remote, Local)
    BY UplinkAssumption, OverlapSymmetric DEF FipsAssumption
  <2>4. PeersTypeOK
    BY <2>1 DEF PeersTypeOK
  <2> QED
    BY <2>2, <2>3, <2>4 DEF AddressesDistinct
<1>2. Inv /\ [Next]_vars => Inv'
  <2> SUFFICES ASSUME Inv, [Next]_vars PROVE Inv'
    OBVIOUS
  <2>1. CASE UNCHANGED peers
    BY <2>1 DEF PeersTypeOK, AddressesDistinct, Overlap, Local, Endpoint, Endpoints
  <2>2. CASE \E key \in PublicKeys : RegisterPeer(Endpoint(key))
    BY <2>2, RegisterKeepsApart
  <2> QED
    BY <2>1, <2>2, OnlyRegisterChangesPeers
<1> QED
  BY <1>1, <1>2, PTL DEF Spec

-----------------------------------------------------------------------------
(* Datagrams to the network.                                               *)

\* The frames of a queue, in its order.
LEMMA FramesOfQueue ==
    ASSUME NEW queue \in Seq(Datagrams)
    PROVE  /\ FramesOf(queue) \in Seq(FipsFrames)
           /\ Len(FramesOf(queue)) = Len(queue)
           /\ \A i \in 1..Len(queue) : FramesOf(queue)[i] = queue[i].frame
<1>1. Len(queue) \in Nat /\ DOMAIN queue = 1..Len(queue)
  BY LenProperties
<1>2. \A i \in 1..Len(queue) : queue[i].frame \in FipsFrames
  <2>1. \A i \in 1..Len(queue) : queue[i] \in Datagrams
    BY ElementOfSeq
  <2> QED
    BY <2>1 DEF Datagrams
<1>3. FramesOf(queue) = [i \in 1..Len(queue) |-> queue[i].frame]
  BY <1>1 DEF FramesOf
<1>4. FramesOf(queue) \in [1..Len(queue) -> FipsFrames]
  BY <1>2, <1>3
<1>5. FramesOf(queue) \in Seq(FipsFrames)
  BY <1>1, <1>4, SeqDef
<1>6. DOMAIN FramesOf(queue) = 1..Len(queue)
  BY <1>3
<1>7. Len(FramesOf(queue)) = Len(queue)
  BY <1>1, <1>5, <1>6, LenProperties
<1> QED
  BY <1>3, <1>5, <1>7

\* A datagram at the end of the queue is a frame at the end of its frames.
LEMMA FramesOfAppend ==
    ASSUME NEW queue \in Seq(Datagrams), NEW d \in Datagrams
    PROVE  FramesOf(Append(queue, d)) = Append(FramesOf(queue), d.frame)
<1>1. d.frame \in FipsFrames
  BY DEF Datagrams
<1>2. Append(queue, d) \in Seq(Datagrams)
  BY AppendProperties
<1>3. Append(FramesOf(queue), d.frame) \in Seq(FipsFrames)
  BY <1>1, FramesOfQueue, AppendProperties
<1>4. /\ Len(Append(queue, d)) = Len(queue) + 1
      /\ Len(queue) \in Nat
      /\ Append(queue, d)[Len(queue) + 1] = d
      /\ \A i \in 1..Len(queue) : Append(queue, d)[i] = queue[i]
  BY AppendProperties, LenProperties
<1>5. /\ FramesOf(queue) \in Seq(FipsFrames)
      /\ Len(FramesOf(queue)) = Len(queue)
      /\ \A i \in 1..Len(queue) : FramesOf(queue)[i] = queue[i].frame
  BY FramesOfQueue
<1>6. /\ FramesOf(Append(queue, d)) \in Seq(FipsFrames)
      /\ Len(FramesOf(Append(queue, d))) = Len(queue) + 1
      /\ \A i \in 1..(Len(queue) + 1) :
            FramesOf(Append(queue, d))[i] = Append(queue, d)[i].frame
  BY <1>2, <1>4, FramesOfQueue
<1>7. /\ Len(Append(FramesOf(queue), d.frame)) = Len(queue) + 1
      /\ Append(FramesOf(queue), d.frame)[Len(queue) + 1] = d.frame
      /\ \A i \in 1..Len(queue) :
            Append(FramesOf(queue), d.frame)[i] = FramesOf(queue)[i]
  BY <1>1, <1>5, AppendProperties
<1>8. ASSUME NEW i \in 1..(Len(queue) + 1)
      PROVE  FramesOf(Append(queue, d))[i] = Append(FramesOf(queue), d.frame)[i]
  <2>1. CASE i \in 1..Len(queue)
    BY <2>1, <1>4, <1>5, <1>6, <1>7
  <2>2. CASE i = Len(queue) + 1
    BY <2>2, <1>4, <1>6, <1>7
  <2>3. i \in 1..Len(queue) \/ i = Len(queue) + 1
    BY <1>4
  <2> QED
    BY <2>1, <2>2, <2>3, Zenon
<1> QED
  BY <1>3, <1>6, <1>7, <1>8, SeqEqual

\* The head of the queue is the first of its frames.
LEMMA FramesOfTail ==
    ASSUME NEW queue \in Seq(Datagrams), queue /= <<>>
    PROVE  FramesOf(queue) = <<Head(queue).frame>> \o FramesOf(Tail(queue))
<1> DEFINE first == <<Head(queue).frame>>
<1>1. /\ Tail(queue) \in Seq(Datagrams) /\ Head(queue) \in Datagrams
      /\ Len(Tail(queue)) = Len(queue) - 1
      /\ Len(queue) \in Nat \ {0}
      /\ Head(queue) = queue[1]
      /\ \A i \in 1..Len(Tail(queue)) : Tail(queue)[i] = queue[i + 1]
  BY HeadTailProperties, EmptySeq, LenProperties
<1>2. first \in Seq(FipsFrames) /\ Len(first) = 1 /\ first[1] = Head(queue).frame
  BY <1>1 DEF Datagrams
<1> HIDE DEF first
<1> DEFINE rest == FramesOf(Tail(queue))
<1>3. /\ rest \in Seq(FipsFrames) /\ Len(rest) = Len(queue) - 1
      /\ \A i \in 1..(Len(queue) - 1) : rest[i] = Tail(queue)[i].frame
  BY <1>1, FramesOfQueue
<1>4. /\ FramesOf(queue) \in Seq(FipsFrames) /\ Len(FramesOf(queue)) = Len(queue)
      /\ \A i \in 1..Len(queue) : FramesOf(queue)[i] = queue[i].frame
  BY FramesOfQueue
<1> HIDE DEF rest
<1>5. /\ first \o rest \in Seq(FipsFrames)
      /\ Len(first \o rest) = Len(queue)
      /\ \A i \in 1..Len(queue) :
            (first \o rest)[i] = IF i <= 1 THEN first[i] ELSE rest[i - 1]
  <2>1. /\ first \o rest \in Seq(FipsFrames)
        /\ Len(first \o rest) = Len(first) + Len(rest)
        /\ \A i \in 1..(Len(first) + Len(rest)) :
              (first \o rest)[i] = IF i <= Len(first) THEN first[i] ELSE rest[i - Len(first)]
    BY <1>2, <1>3, ConcatProperties
  <2>2. Len(first) + Len(rest) = Len(queue)
    BY <1>1, <1>2, <1>3
  <2> QED
    BY <2>1, <2>2, <1>2
<1>6. ASSUME NEW i \in 1..Len(queue)
      PROVE  FramesOf(queue)[i] = (first \o rest)[i]
  <2>1. CASE i = 1
    BY <2>1, <1>1, <1>2, <1>4, <1>5
  <2>2. CASE i > 1
    <3>1. i - 1 \in 1..(Len(queue) - 1) /\ (i - 1) + 1 = i
      BY <2>2, <1>1
    <3>2. rest[i - 1] = queue[i].frame
      BY <3>1, <1>1, <1>3
    <3> QED
      BY <2>2, <3>2, <1>4, <1>5
  <2>3. i = 1 \/ i > 1
    BY <1>1
  <2> QED
    BY <2>1, <2>2, <2>3, Zenon
<1>7. FramesOf(queue) = first \o rest
  BY <1>4, <1>5, <1>6, SeqEqual
<1> QED
  BY <1>7 DEF first, rest

\* A frame that was accepted goes to the end of the queue.
LEMMA SendKeepsOrder ==
    ASSUME SendTypeOK, SentInOrder, NEW frame \in FipsFrames, SendFipsBytes(frame)
    PROVE  SendTypeOK' /\ SentInOrder'
<1> DEFINE d == Datagram(Local, Remote, frame)
<1>1. d \in Datagrams /\ d.frame = frame
  BY DEF Datagram, Datagrams
<1>2. /\ outbound' = Append(outbound, d) /\ taken' = taken
      /\ accepted' = Append(accepted, frame)
  BY DEF SendFipsBytes
<1> HIDE DEF d
<1>3. outbound' \in Seq(Datagrams)
  BY <1>1, <1>2, AppendProperties DEF SendTypeOK
<1>4. FramesOf(outbound') = FramesOf(outbound) \o <<frame>>
  BY <1>1, <1>2, FramesOfAppend, FramesOfQueue, AppendIsConcat DEF SendTypeOK
<1>5. <<frame>> \in Seq(FipsFrames)
  OBVIOUS
<1>6. FramesOf(outbound) \in Seq(FipsFrames) /\ taken \in Seq(FipsFrames)
  BY FramesOfQueue DEF SendTypeOK
<1>7. taken \o FramesOf(outbound') = (taken \o FramesOf(outbound)) \o <<frame>>
  BY <1>4, <1>5, <1>6, ConcatAssociative
<1>8. accepted \in Seq(FipsFrames)
  BY <1>6, ConcatProperties DEF SentInOrder
<1>9. accepted' = accepted \o <<frame>>
  BY <1>2, <1>8, AppendIsConcat
<1>10. taken' \o FramesOf(outbound') = accepted'
  BY <1>2, <1>7, <1>9 DEF SentInOrder
<1> QED
  BY <1>2, <1>3, <1>6, <1>10 DEF SendTypeOK, SentInOrder, Datagrams, FramesOf

\* The network takes the oldest datagram.
LEMMA PollKeepsOrder ==
    ASSUME SendTypeOK, SentInOrder, NEW room, PollOutbound(room)
    PROVE  SendTypeOK' /\ SentInOrder'
<1> DEFINE frame == Head(outbound).frame
<1>1. /\ outbound /= <<>> /\ outbound' = Tail(outbound)
      /\ taken' = Append(taken, frame) /\ accepted' = accepted
  BY DEF PollOutbound, CanPoll
<1>2. outbound' \in Seq(Datagrams) /\ frame \in FipsFrames
  <2>1. outbound' \in Seq(Datagrams) /\ Head(outbound) \in Datagrams
    BY <1>1, HeadTailProperties DEF SendTypeOK
  <2> QED
    BY <2>1 DEF Datagrams
<1>3. FramesOf(outbound) = <<frame>> \o FramesOf(outbound')
  BY <1>1, FramesOfTail DEF SendTypeOK
<1> HIDE DEF frame
<1>4. taken' = taken \o <<frame>> /\ taken' \in Seq(FipsFrames)
  BY <1>1, <1>2, AppendIsConcat, AppendProperties DEF SendTypeOK
<1>5. <<frame>> \in Seq(FipsFrames) /\ FramesOf(outbound') \in Seq(FipsFrames)
  BY <1>2, FramesOfQueue
<1>6. taken' \o FramesOf(outbound') = taken \o (<<frame>> \o FramesOf(outbound'))
  BY <1>4, <1>5, ConcatAssociative DEF SendTypeOK
<1> QED
  BY <1>1, <1>2, <1>3, <1>4, <1>6 DEF SendTypeOK, SentInOrder, Datagrams, FramesOf

\* No other step touches the queue to the network or what was taken from it.
LEMMA OnlySendsChangeOutbound ==
    ASSUME [Next]_vars
    PROVE  \/ UNCHANGED <<outbound, taken, accepted>>
           \/ \E frame \in FipsFrames : SendFipsBytes(frame)
           \/ \E room \in FipsBuffers : PollOutbound(room)
BY Zenon DEF Next, vars, fipsVars, FipsNext, RegisterPeer, InjectFrom,
   PollSidecarFrame, SetFipsUp, SetSidecarUp

\* Every frame that the gateway was told it had sent reaches the network
\* once, in the order of the sends, or still waits for it, whatever the
\* flags of executor and sidecar, the capacity of the queue and the buffers
\* it is read with (send_link_bytes, FakeFipsSidecar::send_to and
\* poll_outbound).
THEOREM SentStaysInOrder == Spec => []SentInOrder
<1> DEFINE Inv == SendTypeOK /\ SentInOrder
<1>1. Init => Inv
  <2> SUFFICES ASSUME Init PROVE Inv
    OBVIOUS
  <2>1. outbound = <<>> /\ taken = <<>> /\ accepted = <<>>
    BY DEF Init, FipsInit
  <2>2. FramesOf(outbound) = <<>>
    BY <2>1, FramesOfQueue, EmptySeq
  <2> QED
    BY <2>1, <2>2 DEF SendTypeOK, SentInOrder
<1>2. Inv /\ [Next]_vars => Inv'
  <2> SUFFICES ASSUME Inv, [Next]_vars PROVE Inv'
    OBVIOUS
  <2>1. CASE UNCHANGED <<outbound, taken, accepted>>
    BY <2>1 DEF SendTypeOK, SentInOrder, FramesOf, Datagrams
  <2>2. CASE \E frame \in FipsFrames : SendFipsBytes(frame)
    BY <2>2, SendKeepsOrder
  <2>3. CASE \E room \in FipsBuffers : PollOutbound(room)
    BY <2>3, PollKeepsOrder
  <2> QED
    BY <2>1, <2>2, <2>3, OnlySendsChangeOutbound
<1> QED
  BY <1>1, <1>2, PTL DEF Spec
-----------------------------------------------------------------------------
(* Datagrams from the network.                                             *)

Arrivals == [source : Endpoints, destination : {Local}, frame : FipsFrames]
Entries == [source : Endpoints, frame : FipsFrames]
ReceiveTypeOK ==
    /\ inbound \in Seq(Arrivals)
    /\ injected \in Seq(Entries)
    /\ arrived \in Seq(FipsFrames)

\* One entry more of FromRemote: its frame counts if the remote peer sent it.
KeepRemote(entry, kept) ==
    IF entry.source = Remote THEN Append(kept, entry.frame) ELSE kept

\* What FromRemote computes, step by step.
Filters(queue, f) ==
    /\ f[0] = <<>>
    /\ \A n \in 1..Len(queue) : f[n] = KeepRemote(queue[n], f[n - 1])
    /\ \A n \in 0..Len(queue) : f[n] \in Seq(FipsFrames)

\* FromRemote is that recursion over the entries.
LEMMA FromRemoteIsRecursive ==
    ASSUME NEW S, \A e \in S : e.frame \in FipsFrames, NEW queue \in Seq(S)
    PROVE  \E f : FromRemote(queue) = f[Len(queue)] /\ Filters(queue, f)
<1> DEFINE K == Len(queue)
           V == Seq(FipsFrames)
           Rec(f) == f = [n \in 0..K |->
             IF n = 0 THEN <<>>
             ELSE IF queue[n].source = Remote
                  THEN Append(f[n - 1], queue[n].frame) ELSE f[n - 1]]
           step == [n \in 1..K |-> [v \in V |-> KeepRemote(queue[n], v)]]
<1>0. K \in Nat /\ \A n \in 1..K : queue[n] \in S
  BY LenProperties, ElementOfSeq
<1>1. <<>> \in V /\ IsStep(step, K, V)
  <2>1. ASSUME NEW n \in 1..K, NEW v \in V PROVE KeepRemote(queue[n], v) \in V
    <3>1. queue[n].frame \in FipsFrames
      BY <1>0
    <3> QED
      BY <3>1, AppendProperties DEF KeepRemote
  <2>2. <<>> \in V
    OBVIOUS
  <2> HIDE DEF V
  <2> QED
    BY <2>1, <2>2 DEF IsStep
<1>2. PICK f : FollowsStep(f, K, V, <<>>, step)
  <2> HIDE DEF step, V, K
  <2> QED
    BY <1>0, <1>1, RecursionUpTo
<1> HIDE DEF V
<1>3. f \in [0..K -> V] /\ f[0] = <<>> /\ \A n \in 1..K : f[n] = step[n][f[n - 1]]
  BY <1>2 DEF FollowsStep
<1>4. ASSUME NEW n \in 1..K PROVE f[n] = KeepRemote(queue[n], f[n - 1])
  <2>1. f[n - 1] \in V
    BY <1>0, <1>3
  <2>2. step[n][f[n - 1]] = KeepRemote(queue[n], f[n - 1])
    BY <2>1
  <2> QED
    BY <1>3, <2>2
<1>5. Rec(f)
  <2>1. \A n \in 0..K : f[n] = IF n = 0 THEN <<>> ELSE KeepRemote(queue[n], f[n - 1])
    BY <1>0, <1>3, <1>4
  <2> QED
    BY <1>3, <2>1 DEF KeepRemote
<1> DEFINE g == CHOOSE h : Rec(h)
<1>6. Rec(g)
  <2> HIDE DEF Rec
  <2> QED
    BY <1>5
<1>7. FromRemote(queue) = g[K]
  BY DEF FromRemote
<1> HIDE DEF g
<1>8. \A n \in 0..K : g[n] = IF n = 0 THEN <<>>
                             ELSE IF queue[n].source = Remote
                                  THEN Append(g[n - 1], queue[n].frame) ELSE g[n - 1]
  BY <1>6
<1> HIDE DEF Rec
<1>9. 0 \in 0..K /\ \A n \in 1..K : n \in 0..K /\ n /= 0
  BY <1>0
<1>10. g[0] = <<>> /\ \A n \in 1..K : g[n] = KeepRemote(queue[n], g[n - 1])
  BY <1>8, <1>9 DEF KeepRemote
<1> DEFINE P == {n \in 0..K : g[n] \in V}
<1>11. 0 \in P
  BY <1>1, <1>9, <1>10
<1>12. ASSUME NEW n \in 0..(K - 1), n \in P PROVE n + 1 \in P
  <2>1. n + 1 \in 1..K /\ n + 1 \in 0..K /\ (n + 1) - 1 = n
    BY <1>0
  <2>2. g[n + 1] = KeepRemote(queue[n + 1], g[n]) /\ queue[n + 1].frame \in FipsFrames
    BY <1>0, <1>10, <2>1
  <2>3. KeepRemote(queue[n + 1], g[n]) \in V
    BY <1>12, <2>2, AppendProperties DEF KeepRemote, V
  <2> QED
    BY <2>1, <2>2, <2>3
<1> HIDE DEF P
<1>13. \A n \in 0..K : n \in P
  <2> HIDE DEF K
  <2> QED
    BY <1>0, <1>11, <1>12, UpTo
<1>14. \A n \in 0..K : g[n] \in V
  BY <1>13 DEF P
<1> QED
  BY <1>7, <1>10, <1>14 DEF Filters, V

\* The recursion has one result: what the two compute up to an index that
\* they share is the same.
LEMMA FiltersAgree ==
    ASSUME NEW S, NEW queue \in Seq(S), NEW longer \in Seq(S),
           Len(queue) <= Len(longer),
           \A i \in 1..Len(queue) : longer[i] = queue[i],
           NEW f, NEW g, Filters(queue, f), Filters(longer, g)
    PROVE  \A n \in 0..Len(queue) : g[n] = f[n]
<1> DEFINE K == Len(queue)
           P == {n \in 0..K : g[n] = f[n]}
<1>0. K \in Nat /\ Len(longer) \in Nat
  BY LenProperties
<1>1. 0 \in P
  BY <1>0 DEF Filters
<1>2. ASSUME NEW n \in 0..(K - 1), n \in P PROVE n + 1 \in P
  <2>1. /\ n + 1 \in 1..K /\ n + 1 \in 0..K /\ (n + 1) - 1 = n
        /\ n + 1 \in 1..Len(longer)
    BY <1>0
  <2>2. g[n + 1] = KeepRemote(longer[n + 1], g[n]) /\ f[n + 1] = KeepRemote(queue[n + 1], f[n])
    BY <2>1 DEF Filters
  <2> QED
    BY <1>2, <2>1, <2>2
<1> HIDE DEF P
<1>3. \A n \in 0..K : n \in P
  <2> HIDE DEF K
  <2> QED
    BY <1>0, <1>1, <1>2, UpTo
<1> QED
  BY <1>3 DEF P

\* An entry at the end is kept behind what was kept of the others.
LEMMA FromRemoteAppend ==
    ASSUME NEW S, \A e \in S : e.frame \in FipsFrames, NEW queue \in Seq(S), NEW d \in S
    PROVE  /\ FromRemote(Append(queue, d)) = KeepRemote(d, FromRemote(queue))
           /\ FromRemote(queue) \in Seq(FipsFrames)
<1> DEFINE longer == Append(queue, d)
           n == Len(queue)
<1>1. /\ longer \in Seq(S) /\ Len(longer) = n + 1 /\ n \in Nat
      /\ longer[n + 1] = d /\ \A i \in 1..n : longer[i] = queue[i]
  BY AppendProperties, LenProperties
<1> HIDE DEF longer
<1>2. PICK f : FromRemote(queue) = f[n] /\ Filters(queue, f)
  BY FromRemoteIsRecursive
<1>3. PICK g : FromRemote(longer) = g[n + 1] /\ Filters(longer, g)
  BY <1>1, FromRemoteIsRecursive
<1>4. n <= Len(longer) /\ n \in 0..n /\ n + 1 \in 1..Len(longer) /\ (n + 1) - 1 = n
  BY <1>1
<1>5. g[n] = f[n]
  BY <1>1, <1>2, <1>3, <1>4, FiltersAgree
<1>6. g[n + 1] = KeepRemote(d, g[n])
  BY <1>1, <1>3, <1>4 DEF Filters
<1>7. f[n] \in Seq(FipsFrames)
  BY <1>2, <1>4 DEF Filters
<1> QED
  BY <1>2, <1>3, <1>5, <1>6, <1>7 DEF longer

\* What is kept of an entry alone.
Kept(entry) == KeepRemote(entry, <<>>)

\* The entry at the head is kept before what is kept of the others.
LEMMA FromRemoteTail ==
    ASSUME NEW S, \A e \in S : e.frame \in FipsFrames, NEW queue \in Seq(S), queue /= <<>>
    PROVE  /\ FromRemote(queue) = Kept(Head(queue)) \o FromRemote(Tail(queue))
           /\ Kept(Head(queue)) \in Seq(FipsFrames)
           /\ FromRemote(Tail(queue)) \in Seq(FipsFrames)
<1> DEFINE rest == Tail(queue)
           first == Kept(Head(queue))
           K == Len(rest)
<1>1. /\ rest \in Seq(S) /\ Len(queue) = K + 1 /\ K \in Nat
      /\ Head(queue) = queue[1] /\ Head(queue) \in S
      /\ \A i \in 1..K : rest[i] = queue[i + 1]
  BY HeadTailProperties, EmptySeq, LenProperties
<1> HIDE DEF rest
<1>2. first \in Seq(FipsFrames)
  <2>1. Head(queue).frame \in FipsFrames
    BY <1>1
  <2> QED
    BY <2>1 DEF Kept, KeepRemote
<1>3. PICK f : FromRemote(rest) = f[K] /\ Filters(rest, f)
  BY <1>1, FromRemoteIsRecursive
<1>4. PICK g : FromRemote(queue) = g[K + 1] /\ Filters(queue, g)
  BY <1>1, FromRemoteIsRecursive
<1> DEFINE P == {n \in 0..K : g[n + 1] = first \o f[n]}
<1>5. 0 \in P
  <2>1. 1 \in 1..Len(queue) /\ 1 - 1 = 0 /\ 0 \in 0..K
    BY <1>1
  <2>2. g[1] = KeepRemote(queue[1], g[0]) /\ g[0] = <<>> /\ f[0] = <<>>
    BY <1>3, <1>4, <2>1 DEF Filters
  <2>3. g[1] = first
    BY <1>1, <2>2 DEF Kept
  <2> HIDE DEF first
  <2>4. first \o <<>> = first
    BY <1>2, ConcatEmptySeq
  <2>5. 0 + 1 = 1 /\ g[1] = first \o f[0]
    BY <2>2, <2>3, <2>4
  <2> QED
    BY <2>1, <2>5
<1> HIDE DEF first
<1>6. ASSUME NEW n \in 0..(K - 1), n \in P PROVE n + 1 \in P
  <2>1. /\ n + 1 \in 1..K /\ n + 1 \in 0..K /\ (n + 1) - 1 = n
        /\ (n + 1) + 1 \in 1..Len(queue) /\ ((n + 1) + 1) - 1 = n + 1
        /\ n \in 0..K
    BY <1>1
  <2> DEFINE e == rest[n + 1]
  <2>2. e \in S /\ e = queue[(n + 1) + 1]
    BY <1>1, <2>1, ElementOfSeq
  <2>3. e.frame \in FipsFrames
    BY <2>2
  <2>4. f[n + 1] = KeepRemote(e, f[n]) /\ f[n] \in Seq(FipsFrames)
    BY <1>3, <2>1 DEF Filters
  <2>5. g[(n + 1) + 1] = KeepRemote(e, g[n + 1])
    BY <1>4, <2>1, <2>2 DEF Filters
  <2>6. g[n + 1] = first \o f[n]
    BY <1>6
  <2> HIDE DEF e
  <2>7. KeepRemote(e, first \o f[n]) = first \o KeepRemote(e, f[n])
    <3>1. CASE e.source = Remote
      <4> DEFINE h == f[n]
                 x == e.frame
      <4>1. h \in Seq(FipsFrames) /\ x \in FipsFrames
        BY <2>3, <2>4
      <4> HIDE DEF h, x
      <4>2. first \o h \in Seq(FipsFrames) /\ <<x>> \in Seq(FipsFrames)
        BY <1>2, <4>1, ConcatProperties
      <4>3. Append(first \o h, x) = (first \o h) \o <<x>>
        BY <4>1, <4>2, AppendIsConcat
      <4>4. Append(h, x) = h \o <<x>>
        BY <4>1, AppendIsConcat
      <4>5. (first \o h) \o <<x>> = first \o (h \o <<x>>)
        BY <1>2, <4>1, <4>2, ConcatAssociative
      <4>6. Append(first \o h, x) = first \o Append(h, x)
        BY <4>3, <4>4, <4>5
      <4> QED
        BY <3>1, <4>6 DEF KeepRemote, h, x
    <3>2. CASE e.source /= Remote
      BY <3>2 DEF KeepRemote
    <3> QED
      BY <3>1, <3>2
  <2> QED
    BY <2>1, <2>4, <2>5, <2>6, <2>7
<1> HIDE DEF P
<1>7. \A n \in 0..K : n \in P
  <2> HIDE DEF K
  <2> QED
    BY <1>1, <1>5, <1>6, UpTo
<1>8. g[K + 1] = first \o f[K] /\ f[K] \in Seq(FipsFrames)
  BY <1>1, <1>3, <1>7 DEF P, Filters
<1> QED
  BY <1>2, <1>3, <1>4, <1>8 DEF rest, first
\* A datagram that the network brings goes to the end of the queue.
LEMMA InjectKeepsOrder ==
    ASSUME ReceiveTypeOK, ReceivedInOrder,
           NEW key \in PublicKeys, NEW frame \in FipsFrames, InjectFrom(Endpoint(key), frame)
    PROVE  /\ inbound' \in Seq(Arrivals) /\ injected' \in Seq(Entries)
           /\ arrived' \in Seq(FipsFrames)
           /\ arrived' \o FromRemote(inbound') = FromRemote(injected')
<1> DEFINE source == Endpoint(key)
           d == Datagram(source, Local, frame)
           e == [source |-> source, frame |-> frame]
           old == FromRemote(inbound)
           all == FromRemote(injected)
<1>1. source \in Endpoints
  BY DEF Endpoints
<1>2. /\ d \in Arrivals /\ d.source = source /\ d.frame = frame
      /\ e \in Entries /\ e.source = source /\ e.frame = frame
  BY <1>1, Zenon DEF Arrivals, Entries, Datagram
<1>3. inbound' = Append(inbound, d) /\ injected' = Append(injected, e) /\ arrived' = arrived
  BY DEF InjectFrom
<1>4. KeepRemote(d, old) = IF source = Remote THEN Append(old, frame) ELSE old
  BY <1>2 DEF KeepRemote
<1>5. KeepRemote(e, all) = IF source = Remote THEN Append(all, frame) ELSE all
  BY <1>2 DEF KeepRemote
<1> HIDE DEF d, e, source
<1>6. \A a \in Arrivals : a.frame \in FipsFrames
  BY DEF Arrivals
<1>7. \A a \in Entries : a.frame \in FipsFrames
  BY DEF Entries
<1>8. FromRemote(inbound') = KeepRemote(d, old) /\ old \in Seq(FipsFrames)
  BY <1>2, <1>3, <1>6, FromRemoteAppend DEF ReceiveTypeOK
<1>9. FromRemote(injected') = KeepRemote(e, all) /\ all \in Seq(FipsFrames)
  BY <1>2, <1>3, <1>7, FromRemoteAppend DEF ReceiveTypeOK
<1>10. arrived \o old = all /\ arrived \in Seq(FipsFrames)
  BY DEF ReceivedInOrder, ReceiveTypeOK
<1> HIDE DEF old, all
<1>11. arrived \o Append(old, frame) = Append(all, frame)
  <2>1. Append(old, frame) = old \o <<frame>> /\ Append(all, frame) = all \o <<frame>>
    BY <1>8, <1>9, AppendIsConcat
  <2>2. <<frame>> \in Seq(FipsFrames)
    OBVIOUS
  <2>3. arrived \o (old \o <<frame>>) = (arrived \o old) \o <<frame>>
    BY <1>8, <1>10, <2>2, ConcatAssociative
  <2> QED
    BY <1>10, <2>1, <2>3
<1>12. arrived \o KeepRemote(d, old) = KeepRemote(e, all)
  BY <1>4, <1>5, <1>10, <1>11
<1>13. inbound' \in Seq(Arrivals) /\ injected' \in Seq(Entries)
  BY <1>2, <1>3, AppendProperties DEF ReceiveTypeOK
<1> QED
  BY <1>3, <1>8, <1>9, <1>10, <1>12, <1>13

\* A poll takes the oldest datagram, and drops it only if it is another
\* peer's.
LEMMA PollKeepsArrivals ==
    ASSUME ReceiveTypeOK, ReceivedInOrder, NEW room, PollSidecarFrame(room)
    PROVE  /\ inbound' \in Seq(Arrivals) /\ injected' \in Seq(Entries)
           /\ arrived' \in Seq(FipsFrames)
           /\ arrived' \o FromRemote(inbound') = FromRemote(injected')
<1> DEFINE d == Head(inbound)
           rest == FromRemote(Tail(inbound))
<1>1. /\ inbound /= <<>> /\ inbound' = Tail(inbound) /\ injected' = injected
      /\ arrived' = IF d.source /= Remote \/ d.destination /= Local
                    THEN arrived ELSE Append(arrived, d.frame)
  BY DEF PollSidecarFrame, CanPoll
<1>2. inbound' \in Seq(Arrivals) /\ d \in Arrivals
  BY <1>1, HeadTailProperties DEF ReceiveTypeOK
<1>3. d.destination = Local /\ d.frame \in FipsFrames
  BY <1>2 DEF Arrivals
<1>4. \A a \in Arrivals : a.frame \in FipsFrames
  BY DEF Arrivals
<1>5. /\ FromRemote(inbound) = Kept(d) \o rest
      /\ Kept(d) \in Seq(FipsFrames) /\ rest \in Seq(FipsFrames)
  BY <1>1, <1>4, FromRemoteTail DEF ReceiveTypeOK
<1>6. arrived \in Seq(FipsFrames) /\ arrived \o FromRemote(inbound) = FromRemote(injected)
  BY DEF ReceiveTypeOK, ReceivedInOrder
<1> HIDE DEF d, rest
<1>7. arrived' = arrived \o Kept(d) /\ arrived' \in Seq(FipsFrames)
  <2>1. CASE d.source = Remote
    <3>1. arrived' = Append(arrived, d.frame)
      BY <1>1, <1>3, <2>1
    <3>2. Kept(d) = <<d.frame>>
      BY <2>1 DEF Kept, KeepRemote
    <3> QED
      BY <1>3, <1>6, <3>1, <3>2, AppendIsConcat, AppendProperties
  <2>2. CASE d.source /= Remote
    <3>1. arrived' = arrived /\ Kept(d) = <<>>
      BY <1>1, <2>2 DEF Kept, KeepRemote
    <3> QED
      BY <1>6, <3>1, ConcatEmptySeq
  <2> QED
    BY <2>1, <2>2
<1>8. (arrived \o Kept(d)) \o rest = arrived \o (Kept(d) \o rest)
  <2> DEFINE k == Kept(d)
  <2>1. k \in Seq(FipsFrames) /\ rest \in Seq(FipsFrames) /\ arrived \in Seq(FipsFrames)
    BY <1>5, <1>6
  <2> HIDE DEF k
  <2>2. (arrived \o k) \o rest = arrived \o (k \o rest)
    BY <2>1, ConcatAssociative
  <2> QED
    BY <2>2 DEF k
<1>9. arrived' \o rest = FromRemote(injected)
  BY <1>5, <1>6, <1>7, <1>8
<1>10. FromRemote(inbound') = rest /\ FromRemote(injected') = FromRemote(injected)
  BY <1>1 DEF rest
<1> QED
  BY <1>1, <1>2, <1>7, <1>9, <1>10 DEF ReceiveTypeOK

\* No other step touches the queue from the network or what was read of it.
LEMMA OnlyPollsChangeInbound ==
    ASSUME [Next]_vars
    PROVE  \/ UNCHANGED <<inbound, injected, arrived>>
           \/ \E key \in PublicKeys, frame \in FipsFrames : InjectFrom(Endpoint(key), frame)
           \/ \E room \in FipsBuffers : PollSidecarFrame(room)
BY Zenon DEF Next, vars, fipsVars, FipsNext, RegisterPeer, SendFipsBytes,
   PollOutbound, SetFipsUp, SetSidecarUp

\* Primed, FromRemote filters the new queue against the same peer.
LEMMA ReceivedNext ==
    ASSUME inbound' \in Seq(Arrivals), injected' \in Seq(Entries),
           arrived' \in Seq(FipsFrames),
           arrived' \o FromRemote(inbound') = FromRemote(injected')
    PROVE  (ReceiveTypeOK /\ ReceivedInOrder)'
<1>1. Endpoints' = Endpoints /\ Local' = Local /\ Remote' = Remote
  BY DEF Endpoints, Endpoint, Local, Remote
<1>2. ReceiveTypeOK'
  BY <1>1 DEF ReceiveTypeOK, Arrivals, Entries
<1> QED
  BY <1>1, <1>2 DEF ReceivedInOrder

\* Every frame that the network brought from the peer reaches the gateway
\* once, in order, or still waits for it, however many of other peers came
\* between and whatever buffers it is read with (inject_from,
\* poll_sidecar_frame).
THEOREM ReceivedStaysInOrder == Spec => []ReceivedInOrder
<1> DEFINE Inv == ReceiveTypeOK /\ ReceivedInOrder
<1>1. Init => Inv
  <2> SUFFICES ASSUME Init PROVE Inv
    OBVIOUS
  <2>1. inbound = <<>> /\ injected = <<>> /\ arrived = <<>>
    BY DEF Init, FipsInit
  <2>2. FromRemote(<<>>) = <<>>
    <3>1. <<>> \in Seq(Entries) /\ Len(<<>>) = 0 /\ \A e \in Entries : e.frame \in FipsFrames
      BY DEF Entries
    <3>2. PICK f : FromRemote(<<>>) = f[Len(<<>>)] /\ Filters(<<>>, f)
      BY <3>1, FromRemoteIsRecursive
    <3> QED
      BY <3>1, <3>2 DEF Filters
  <2> QED
    BY <2>1, <2>2 DEF ReceiveTypeOK, ReceivedInOrder
<1>2. Inv /\ [Next]_vars => Inv'
  <2> SUFFICES ASSUME Inv, [Next]_vars PROVE Inv'
    OBVIOUS
  <2>1. CASE UNCHANGED <<inbound, injected, arrived>>
    <3>1. inbound' = inbound /\ injected' = injected /\ arrived' = arrived
      BY <2>1
    <3> QED
      BY <3>1, ReceivedNext DEF ReceiveTypeOK, ReceivedInOrder
  <2>2. CASE \E key \in PublicKeys, frame \in FipsFrames : InjectFrom(Endpoint(key), frame)
    BY <2>2, InjectKeepsOrder, ReceivedNext
  <2>3. CASE \E room \in FipsBuffers : PollSidecarFrame(room)
    BY <2>3, PollKeepsArrivals, ReceivedNext
  <2> QED
    BY <2>1, <2>2, <2>3, OnlyPollsChangeInbound
<1> QED
  BY <1>1, <1>2, PTL DEF Spec

\* Both directions: the FIPS carrier loses, repeats and reorders nothing.
THEOREM FipsLosesNothing == Spec => []NothingLostOnFips
<1>1. ReceivedInOrder /\ SentInOrder => NothingLostOnFips
  BY DEF NothingLostOnFips
<1> QED
  BY <1>1, ReceivedStaysInOrder, SentStaysInOrder, PTL
-----------------------------------------------------------------------------
(* The relay of the Nostr uplink.                                          *)

Subs == {r[1] : r \in Requests}
Subscriptions == UNION {[ids -> {r[2] : r \in Requests}] : ids \in SUBSET Subs}
OkOutputs ==
    {OkOutput(e.id, accept, status) :
        e \in Published, accept \in BOOLEAN, status \in StatusPrefixes}
StoredOutputs == {StoredEventOutput(sub, index) : sub \in Subs, index \in Nat}
OwnedOutputs ==
    {OwnedEventOutput(sub, slot) : sub \in Subs, slot \in 1..OutputCapacity}
EoseOutputs == {EoseOutput(sub) : sub \in Subs}
ControlOutputs == {ControlOutput(kind) : kind \in ControlKinds}
Outputs == OkOutputs \cup StoredOutputs \cup OwnedOutputs \cup EoseOutputs
            \cup ControlOutputs
OwnedEvents == [1..OutputCapacity -> InjectedEvents \cup {NoEvent}]
Refusals == Rejections \cup {"none"}
Relays ==
    [events : Seq(Published), subscriptions : Subscriptions, outputs : Seq(Outputs),
     output_events : OwnedEvents, rejection : Refusals, queued : Int, active : Int]

Owns(output, slot) == output.kind = "owned" /\ output.slot = slot
Showable(output, events) == output.kind = "stored" => output.index \in DOMAIN events

\* What holds of the relay after every operation.  Each of these is about
\* two of its parts, so that an operation disturbs only a few of them.
OutputsShowable(r) == \A i \in DOMAIN r.outputs : Showable(r.outputs[i], r.events)
SlotsOwned(r) ==
    /\ \A s \in 1..OutputCapacity :
          r.output_events[s] /= NoEvent <=> \E i \in DOMAIN r.outputs : Owns(r.outputs[i], s)
    /\ \A s \in 1..OutputCapacity : \A i, j \in DOMAIN r.outputs :
          Owns(r.outputs[i], s) /\ Owns(r.outputs[j], s) => i = j
IdsDistinct(r) ==
    \A i, j \in DOMAIN r.events : r.events[i].id = r.events[j].id => i = j
EventsVerified(r) == \A i \in DOMAIN r.events : VerifyError(r.events[i]) = "none"
SubscriptionsCounted(r) ==
    /\ IsFiniteSet(DOMAIN r.subscriptions)
    /\ r.active = Cardinality(DOMAIN r.subscriptions)
Bounded(r) == Len(r.events) <= EventCapacity /\ Len(r.outputs) <= OutputCapacity
RelayOK(r) ==
    /\ r \in Relays
    /\ OutputsShowable(r) /\ SlotsOwned(r) /\ r.queued = Len(r.outputs)
    /\ IdsDistinct(r) /\ EventsVerified(r)
    /\ SubscriptionsCounted(r)
    /\ Bounded(r)

\* What is in the relay stays where it is.
KeepsEvents(r, next) ==
    \A i \in DOMAIN r.events : i \in DOMAIN next.events /\ next.events[i] = r.events[i]

\* Outputs are told apart by their kinds.
LEMMA OutputKinds ==
    ASSUME NEW output \in Outputs
    PROVE  /\ output.kind \in {"ok", "stored", "owned", "eose", "notice", "closed", "auth"}
           /\ output.kind = "owned" => output.slot \in 1..OutputCapacity
<1>1. CASE output \in OkOutputs
  BY <1>1 DEF OkOutputs, OkOutput
<1>2. CASE output \in StoredOutputs
  BY <1>2 DEF StoredOutputs, StoredEventOutput
<1>3. CASE output \in OwnedOutputs
  BY <1>3 DEF OwnedOutputs, OwnedEventOutput
<1>4. CASE output \in EoseOutputs
  BY <1>4 DEF EoseOutputs, EoseOutput
<1>5. CASE output \in ControlOutputs
  <2>1. PICK kind \in ControlKinds : output = [kind |-> kind]
    BY <1>5 DEF ControlOutputs, ControlOutput
  <2>2. output.kind = kind
    BY <2>1
  <2>3. kind \in {"notice", "closed", "auth"}
    BY <2>1, UplinkAssumption DEF NostrAssumption
  <2> QED
    BY <2>2, <2>3
<1> QED
  BY <1>1, <1>2, <1>3, <1>4, <1>5 DEF Outputs

\* The constructors make outputs.
LEMMA OutputsMade ==
    /\ \A e \in Published, accept \in BOOLEAN, status \in StatusPrefixes :
          /\ OkOutput(e.id, accept, status) \in Outputs
          /\ OkOutput(e.id, accept, status).kind = "ok"
    /\ \A sub \in Subs, index \in Nat :
          /\ StoredEventOutput(sub, index) \in Outputs
          /\ StoredEventOutput(sub, index).kind = "stored"
          /\ StoredEventOutput(sub, index).index = index
    /\ \A sub \in Subs, slot \in 1..OutputCapacity :
          /\ OwnedEventOutput(sub, slot) \in Outputs
          /\ \A s : Owns(OwnedEventOutput(sub, slot), s) <=> s = slot
          /\ OwnedEventOutput(sub, slot).kind = "owned"
    /\ \A sub \in Subs : EoseOutput(sub) \in Outputs /\ EoseOutput(sub).kind = "eose"
    /\ \A kind \in ControlKinds :
          ControlOutput(kind) \in Outputs /\ ControlOutput(kind).kind = kind
<1>1. ASSUME NEW e \in Published, NEW accept \in BOOLEAN, NEW status \in StatusPrefixes
      PROVE  /\ OkOutput(e.id, accept, status) \in Outputs
             /\ OkOutput(e.id, accept, status).kind = "ok"
  <2>1. OkOutput(e.id, accept, status) \in OkOutputs
    BY DEF OkOutputs
  <2>2. OkOutput(e.id, accept, status).kind = "ok"
    BY Zenon DEF OkOutput
  <2> QED
    BY <2>1, <2>2 DEF Outputs
<1>2. ASSUME NEW sub \in Subs, NEW index \in Nat
      PROVE  /\ StoredEventOutput(sub, index) \in Outputs
             /\ StoredEventOutput(sub, index).kind = "stored"
             /\ StoredEventOutput(sub, index).index = index
  <2>1. StoredEventOutput(sub, index) \in StoredOutputs
    BY DEF StoredOutputs
  <2> QED
    BY <2>1 DEF Outputs, StoredEventOutput
<1>3. ASSUME NEW sub \in Subs, NEW slot \in 1..OutputCapacity
      PROVE  /\ OwnedEventOutput(sub, slot) \in Outputs
             /\ \A s : Owns(OwnedEventOutput(sub, slot), s) <=> s = slot
             /\ OwnedEventOutput(sub, slot).kind = "owned"
  <2>1. OwnedEventOutput(sub, slot) \in OwnedOutputs
    BY DEF OwnedOutputs
  <2> QED
    BY <2>1 DEF Outputs, OwnedEventOutput, Owns
<1>4. ASSUME NEW sub \in Subs
      PROVE  EoseOutput(sub) \in Outputs /\ EoseOutput(sub).kind = "eose"
  <2>1. EoseOutput(sub) \in EoseOutputs
    BY Zenon DEF EoseOutputs
  <2> QED
    BY <2>1 DEF Outputs, EoseOutput
<1>5. ASSUME NEW kind \in ControlKinds
      PROVE  ControlOutput(kind) \in Outputs /\ ControlOutput(kind).kind = kind
  <2>1. ControlOutput(kind) \in ControlOutputs
    BY Zenon DEF ControlOutputs
  <2> QED
    BY <2>1 DEF Outputs, ControlOutput
<1> QED
  BY <1>1, <1>2, <1>3, <1>4, <1>5

\* The fields of a relay are set one by one.
LEMMA SetOutputs ==
    ASSUME NEW r \in Relays, NEW new \in Seq(Outputs), NEW q \in Int
    PROVE  [r EXCEPT !.outputs = new, !.queued = q] \in Relays
<1> DEFINE next == [r EXCEPT !.outputs = new, !.queued = q]
<1>1. next.events \in Seq(Published) /\ next.subscriptions \in Subscriptions
  BY DEF Relays
<1>2. next.outputs \in Seq(Outputs) /\ next.output_events \in OwnedEvents
  BY DEF Relays
<1>3. next.rejection \in Refusals /\ next.queued \in Int /\ next.active \in Int
  BY DEF Relays
<1> QED
  BY <1>1, <1>2, <1>3 DEF Relays

\* An output goes to the end of the queue or, where that is full, nowhere;
\* one that owns no slot and can be shown disturbs nothing
\* (enqueue_output_record).
LEMMA EnqueueKeeps ==
    ASSUME NEW r, RelayOK(r), NEW output \in Outputs,
           output.kind /= "owned", Showable(output, r.events)
    PROVE  /\ RelayOK(Enqueue(r, output).relay)
           /\ Enqueue(r, output).relay.events = r.events
<1> DEFINE next == Enqueue(r, output).relay
<1>1. CASE Len(r.outputs) >= OutputCapacity
  BY <1>1 DEF Enqueue
<1>2. CASE ~(Len(r.outputs) >= OutputCapacity)
  <2> DEFINE n == Len(r.outputs)
             new == Append(r.outputs, output)
  <2>1. r \in Relays
    BY DEF RelayOK
  <2>2. r.outputs \in Seq(Outputs) /\ r.queued \in Int /\ r.queued = n
    BY <2>1 DEF Relays, RelayOK
  <2>3. next = [r EXCEPT !.outputs = new, !.queued = r.queued + 1]
    BY <1>2 DEF Enqueue
  <2>4. /\ new \in Seq(Outputs) /\ DOMAIN new = 1..(n + 1) /\ DOMAIN r.outputs = 1..n
        /\ n \in Nat /\ new[n + 1] = output /\ \A i \in 1..n : new[i] = r.outputs[i]
    BY <2>2, AppendedAtEnd
  <2>5. Len(new) = n + 1
    BY <2>2, AppendProperties
  <2> HIDE DEF new, next, n
  <2>6. /\ next.outputs = new /\ next.queued = n + 1 /\ next.events = r.events
        /\ next.output_events = r.output_events /\ next.subscriptions = r.subscriptions
        /\ next.active = r.active
    BY <2>1, <2>2, <2>3 DEF Relays
  <2>7. next \in Relays
    <3> DEFINE q == r.queued + 1
    <3>1. q \in Int /\ next = [r EXCEPT !.outputs = new, !.queued = q]
      BY <2>2, <2>3
    <3> HIDE DEF q
    <3> QED
      BY <2>1, <2>4, <3>1, SetOutputs
  <2>8. OutputsShowable(next)
    <3>1. ASSUME NEW i \in 1..(n + 1) PROVE Showable(new[i], r.events)
      <4>1. CASE i = n + 1
        BY <2>4, <4>1
      <4>2. CASE i \in 1..n
        BY <2>4, <4>2 DEF RelayOK, OutputsShowable
      <4> QED
        BY <2>4, <4>1, <4>2
    <3> QED
      BY <2>4, <2>6, <3>1 DEF OutputsShowable
  <2>9. SlotsOwned(next)
    <3>1. \A s : ~Owns(output, s)
      BY DEF Owns
    <3>2. ASSUME NEW s
          PROVE  /\ \A i \in 1..(n + 1) : Owns(new[i], s) => i \in 1..n /\ Owns(r.outputs[i], s)
                 /\ \A i \in 1..n : i \in 1..(n + 1) /\ (Owns(r.outputs[i], s) => Owns(new[i], s))
      <4>1. ASSUME NEW i \in 1..(n + 1), Owns(new[i], s)
            PROVE  i \in 1..n /\ Owns(r.outputs[i], s)
        <5>1. i /= n + 1
          BY <2>4, <3>1, <4>1
        <5>2. i \in 1..n
          BY <2>4, <5>1
        <5> QED
          BY <2>4, <4>1, <5>2
      <4>2. ASSUME NEW i \in 1..n PROVE i \in 1..(n + 1) /\ (Owns(r.outputs[i], s) => Owns(new[i], s))
        BY <2>4
      <4> QED
        BY <4>1, <4>2
    <3>3. SlotsOwned(r)
      BY DEF RelayOK
    <3> QED
      BY <2>4, <2>6, <3>2, <3>3, Zenon DEF SlotsOwned
  <2>10. IdsDistinct(next) /\ EventsVerified(next) /\ SubscriptionsCounted(next)
    BY <2>6 DEF RelayOK, IdsDistinct, EventsVerified, SubscriptionsCounted
  <2>11. next.queued = Len(next.outputs)
    BY <2>5, <2>6
  <2>12. Bounded(next)
    <3>1. OutputCapacity \in Nat /\ Bounded(r)
      BY UplinkAssumption DEF NostrAssumption, RelayOK
    <3> QED
      BY <1>2, <2>4, <2>5, <2>6, <3>1 DEF Bounded, n
  <2>13. RelayOK(next)
    BY <2>7, <2>8, <2>9, <2>10, <2>11, <2>12 DEF RelayOK
  <2> QED
    BY <2>6, <2>13 DEF next
<1> QED
  BY <1>1, <1>2
\* Answers to a publish are outputs.
IsOk(output) == output \in Outputs /\ output.kind = "ok"
LEMMA OkMade ==
    ASSUME NEW e \in Published, NEW status \in StatusPrefixes
    PROVE  IsOk(OkOutput(e.id, TRUE, status)) /\ IsOk(OkOutput(e.id, FALSE, status))
<1>1. TRUE \in BOOLEAN /\ FALSE \in BOOLEAN
  OBVIOUS
<1> QED
  BY <1>1, OutputsMade, Zenon DEF IsOk

\* An answer changes the queue alone, and the outcome is lost only where it
\* found no room (publish_with_profile).
Answered(r, answer, outcome) ==
    /\ RelayOK(answer.relay) /\ answer.relay.events = r.events
    /\ answer.outcome \in {outcome, "RelayOutputFull"}
LEMMA AnswerKeeps ==
    ASSUME NEW r, RelayOK(r), NEW id, NEW accept, NEW status, NEW outcome,
           IsOk(OkOutput(id, accept, status))
    PROVE  Answered(r, Answer(r, id, accept, status, outcome), outcome)
<1> DEFINE output == OkOutput(id, accept, status)
           queued == Enqueue(r, output)
           answer == Answer(r, id, accept, status, outcome)
<1>1. /\ answer.relay = queued.relay
      /\ answer.outcome = IF queued.full THEN "RelayOutputFull" ELSE outcome
  BY DEF Answer
<1>2. output \in Outputs /\ output.kind /= "owned" /\ Showable(output, r.events)
  BY DEF Showable, IsOk
<1> HIDE DEF output, answer
<1>3. RelayOK(queued.relay) /\ queued.relay.events = r.events
  BY <1>2, EnqueueKeeps
<1> HIDE DEF queued
<1>4. Answered(r, answer, outcome)
  BY <1>1, <1>3 DEF Answered
<1> QED
  BY <1>4 DEF answer

\* A verified event with a new id gets the next slot (store_event).
LEMMA StoreKeeps ==
    ASSUME NEW r, RelayOK(r), NEW event \in Published,
           VerifyError(event) = "none", ~ContainsEvent(r, event.id),
           StoreEventError(r, event) = "none"
    PROVE  /\ RelayOK(StoreEvent(r, event))
           /\ KeepsEvents(r, StoreEvent(r, event))
           /\ \E i \in DOMAIN StoreEvent(r, event).events :
                 StoreEvent(r, event).events[i].id = event.id
<1> DEFINE next == StoreEvent(r, event)
           n == Len(r.events)
           new == Append(r.events, event)
<1>1. r \in Relays /\ r.events \in Seq(Published)
  BY DEF RelayOK, Relays
<1>2. /\ new \in Seq(Published) /\ DOMAIN new = 1..(n + 1) /\ DOMAIN r.events = 1..n
      /\ n \in Nat /\ new[n + 1] = event /\ \A i \in 1..n : new[i] = r.events[i]
  BY <1>1, AppendedAtEnd
<1>3. next = [r EXCEPT !.events = new]
  BY DEF StoreEvent
<1> HIDE DEF next, n, new
<1>4. /\ next.events = new /\ next.outputs = r.outputs /\ next.queued = r.queued
      /\ next.output_events = r.output_events /\ next.subscriptions = r.subscriptions
      /\ next.active = r.active /\ next.rejection = r.rejection
  BY <1>1, <1>3 DEF Relays
<1>5. next \in Relays
  BY <1>1, <1>2, <1>3 DEF Relays
<1>6. KeepsEvents(r, next)
  BY <1>2, <1>4 DEF KeepsEvents
<1>7. OutputsShowable(next)
  <2>1. ASSUME NEW i \in DOMAIN r.outputs PROVE Showable(r.outputs[i], new)
    <3>1. Showable(r.outputs[i], r.events)
      BY DEF RelayOK, OutputsShowable
    <3> QED
      BY <1>2, <3>1 DEF Showable
  <2> QED
    BY <1>4, <2>1 DEF OutputsShowable
<1>8. IdsDistinct(next)
  <2>1. \A i \in 1..n : r.events[i].id /= event.id
    BY <1>2 DEF ContainsEvent
  <2>2. \A i, j \in 1..n : r.events[i].id = r.events[j].id => i = j
    BY <1>2 DEF RelayOK, IdsDistinct
  <2>3. ASSUME NEW i \in 1..(n + 1), NEW j \in 1..(n + 1), new[i].id = new[j].id
        PROVE  i = j
    <3>1. (i \in 1..n \/ i = n + 1) /\ (j \in 1..n \/ j = n + 1)
      BY <1>2
    <3> QED
      BY <1>2, <2>1, <2>2, <2>3, <3>1
  <2> QED
    BY <1>2, <1>4, <2>3 DEF IdsDistinct
<1>9. EventsVerified(next)
  <2>1. ASSUME NEW i \in 1..(n + 1) PROVE VerifyError(new[i]) = "none"
    <3>1. CASE i = n + 1
      BY <1>2, <3>1
    <3>2. CASE i \in 1..n
      BY <1>2, <3>2 DEF RelayOK, EventsVerified
    <3> QED
      BY <1>2, <3>1, <3>2
  <2> QED
    BY <1>2, <1>4, <2>1 DEF EventsVerified
<1>10. SlotsOwned(next) /\ SubscriptionsCounted(next) /\ next.queued = Len(next.outputs)
  BY <1>4 DEF RelayOK, SlotsOwned, SubscriptionsCounted
<1>11. Bounded(next)
  <2>1. EventCapacity \in Nat /\ Bounded(r)
    BY UplinkAssumption DEF NostrAssumption, RelayOK
  <2>2. ~(n >= EventCapacity)
    BY DEF StoreEventError, n
  <2>3. Len(new) = n + 1
    BY <1>2, LenProperties
  <2> QED
    BY <1>2, <1>4, <2>1, <2>2, <2>3 DEF Bounded
<1>12. RelayOK(next)
  BY <1>5, <1>7, <1>8, <1>9, <1>10, <1>11 DEF RelayOK
<1>13. n + 1 \in DOMAIN next.events /\ next.events[n + 1].id = event.id
  BY <1>2, <1>4
<1> QED
  BY <1>6, <1>12, <1>13 DEF next

\* A refusal is used up without another trace.
LEMMA RejectionKeeps ==
    ASSUME NEW r, RelayOK(r), NEW status \in Refusals
    PROVE  /\ RelayOK([r EXCEPT !.rejection = status])
           /\ [r EXCEPT !.rejection = status].events = r.events
<1> DEFINE next == [r EXCEPT !.rejection = status]
<1>1. r \in Relays
  BY DEF RelayOK
<1>2. /\ next.events = r.events /\ next.outputs = r.outputs /\ next.queued = r.queued
      /\ next.output_events = r.output_events /\ next.subscriptions = r.subscriptions
      /\ next.active = r.active
  BY <1>1 DEF Relays
<1>3. next \in Relays
  BY <1>1 DEF Relays
<1> HIDE DEF next
<1>4. RelayOK(next)
  BY <1>2, <1>3 DEF RelayOK, OutputsShowable, SlotsOwned, IdsDistinct, EventsVerified,
     SubscriptionsCounted, Bounded
<1> QED
  BY <1>2, <1>4 DEF next

\* A publish that passes the checks of its profile is of a verified event.
LEMMA ProfileVerifies ==
    ASSUME NEW event, NEW room, NEW profile, ProfileError(event, room, profile) = "none"
    PROVE  VerifyError(event) = "none"
BY DEF ProfileError, VerifyAndDecode

\* Whatever becomes of a publish, the relay stays sound and loses no event;
\* and where the outcome says that the event was accepted, an event of its
\* id is there and the event passed the checks (publish_with_profile).
PublishSound(r, event, room, profile, q) ==
    /\ RelayOK(q.relay)
    /\ KeepsEvents(r, q.relay)
    /\ q.outcome \in {"accepted", "accepted_duplicate"} =>
          /\ ProfileError(event, room, profile) = "none"
          /\ \E i \in DOMAIN q.relay.events : q.relay.events[i].id = event.id
LEMMA PublishKeeps ==
    ASSUME NEW r, RelayOK(r), NEW event \in Published, NEW room, NEW profile
    PROVE  PublishSound(r, event, room, profile, Publish(r, event, room, profile))
<1> DEFINE p == Publish(r, event, room, profile)
           Good(q) == PublishSound(r, event, room, profile, q)
<1> SUFFICES Good(p)
  OBVIOUS
<1>0. {"invalid", "duplicate", "unknown"} \subseteq StatusPrefixes
  BY DEF StatusPrefixes
<1>1. CASE ProfileError(event, room, profile) /= "none"
  <2> DEFINE q == Answer(r, event.id, FALSE, "invalid", "invalid")
  <2>1. Answered(r, q, "invalid")
    <3>1. IsOk(OkOutput(event.id, FALSE, "invalid"))
      BY <1>0, OkMade, Zenon
    <3> QED
      BY <3>1, AnswerKeeps, Zenon
  <2>2. p = q
    BY <1>1, Zenon DEF Publish
  <2> HIDE DEF q, p
  <2>3. Good(q)
    BY <2>1 DEF PublishSound, KeepsEvents, Answered
  <2> QED
    BY <2>2, <2>3 DEF p
<1>2. CASE ProfileError(event, room, profile) = "none" /\ ContainsEvent(r, event.id)
  <2> DEFINE q == Answer(r, event.id, TRUE, "duplicate", "accepted_duplicate")
  <2>1. Answered(r, q, "accepted_duplicate")
    <3>1. IsOk(OkOutput(event.id, TRUE, "duplicate"))
      BY <1>0, OkMade, Zenon
    <3> QED
      BY <3>1, AnswerKeeps, Zenon
  <2>2. p = q
    BY <1>2, Zenon DEF Publish
  <2> HIDE DEF q, p
  <2>3. Good(q)
    BY <1>2, <2>1 DEF PublishSound, KeepsEvents, Answered, ContainsEvent
  <2> QED
    BY <2>2, <2>3 DEF p
<1>3. CASE /\ ProfileError(event, room, profile) = "none" /\ ~ContainsEvent(r, event.id)
           /\ r.rejection /= "none"
  <2> DEFINE freed == [r EXCEPT !.rejection = "none"]
             q == Answer(freed, event.id, FALSE, r.rejection, r.rejection)
  <2>1. RelayOK(freed) /\ freed.events = r.events
    BY RejectionKeeps DEF Refusals
  <2>2. r.rejection \in Refusals
    BY DEF RelayOK, Relays
  <2>3. r.rejection \in StatusPrefixes
    BY <1>3, <2>2, UplinkAssumption DEF Refusals, NostrAssumption
  <2>4. p = q
    BY <1>3, Zenon DEF Publish
  <2> HIDE DEF freed
  <2>5. Answered(freed, q, r.rejection)
    <3>1. IsOk(OkOutput(event.id, FALSE, r.rejection))
      BY <2>3, OkMade, Zenon
    <3> QED
      BY <2>1, <3>1, AnswerKeeps, Zenon
  <2> HIDE DEF q, p
  <2>6. r.rejection \notin {"accepted", "accepted_duplicate"}
    BY <2>3 DEF StatusPrefixes
  <2>7. Good(q)
    BY <2>1, <2>5, <2>6 DEF PublishSound, KeepsEvents, Answered
  <2> QED
    BY <2>4, <2>7 DEF p
<1>4. CASE /\ ProfileError(event, room, profile) = "none" /\ ~ContainsEvent(r, event.id)
           /\ r.rejection = "none" /\ StoreEventError(r, event) /= "none"
  <2> DEFINE q == [relay |-> r, outcome |-> StoreEventError(r, event)]
  <2>1. p = q
    BY <1>4 DEF Publish
  <2>2. q.relay = r /\ q.outcome = StoreEventError(r, event)
    OBVIOUS
  <2>3. StoreEventError(r, event) \notin {"accepted", "accepted_duplicate"}
    BY DEF StoreEventError, RecordError, TagsError
  <2> HIDE DEF q, p
  <2>4. Good(q)
    BY <2>2, <2>3 DEF PublishSound, KeepsEvents
  <2> QED
    BY <2>1, <2>4 DEF p
<1>5. CASE /\ ProfileError(event, room, profile) = "none" /\ ~ContainsEvent(r, event.id)
           /\ r.rejection = "none" /\ StoreEventError(r, event) = "none"
  <2> DEFINE kept == StoreEvent(r, event)
             q == Answer(kept, event.id, TRUE, "unknown", "accepted")
  <2>1. VerifyError(event) = "none"
    BY <1>5, ProfileVerifies
  <2>2. /\ RelayOK(kept) /\ KeepsEvents(r, kept)
        /\ \E i \in DOMAIN kept.events : kept.events[i].id = event.id
    BY <1>5, <2>1, StoreKeeps
  <2>3. p = q
    BY <1>5, Zenon DEF Publish
  <2> HIDE DEF kept
  <2>4. Answered(kept, q, "accepted")
    <3>1. IsOk(OkOutput(event.id, TRUE, "unknown"))
      BY <1>0, OkMade, Zenon
    <3> QED
      BY <2>2, <3>1, AnswerKeeps, Zenon
  <2> HIDE DEF q, p
  <2>5. Good(q)
    BY <1>5, <2>2, <2>4 DEF PublishSound, KeepsEvents, Answered
  <2> QED
    BY <2>3, <2>5 DEF p
<1> HIDE DEF p, Good
<1> QED
  BY <1>1, <1>2, <1>3, <1>4, <1>5, Zenon
\* Subscriptions come and go without a trace in the rest of the relay.
SetSubscriptions(r, subs, count) == [r EXCEPT !.subscriptions = subs, !.active = count]
Counted(subs, count) == IsFiniteSet(DOMAIN subs) /\ count = Cardinality(DOMAIN subs)
LEMMA SubscriptionsKeep ==
    ASSUME NEW r, RelayOK(r), NEW subs \in Subscriptions, NEW count \in Int,
           Counted(subs, count)
    PROVE  /\ RelayOK(SetSubscriptions(r, subs, count))
           /\ SetSubscriptions(r, subs, count).events = r.events
<1> DEFINE next == SetSubscriptions(r, subs, count)
<1>0. next = [r EXCEPT !.subscriptions = subs, !.active = count]
  BY DEF SetSubscriptions
<1>1. r \in Relays
  BY DEF RelayOK
<1> HIDE DEF next
<1>2. /\ next.events = r.events /\ next.outputs = r.outputs /\ next.queued = r.queued
      /\ next.output_events = r.output_events /\ next.subscriptions = subs
      /\ next.active = count
  BY <1>0, <1>1 DEF Relays
<1>3. next \in Relays
  BY <1>0, <1>1 DEF Relays
<1>4. RelayOK(next)
  BY <1>2, <1>3 DEF RelayOK, OutputsShowable, SlotsOwned, IdsDistinct, EventsVerified,
     SubscriptionsCounted, Counted, Bounded
<1> QED
  BY <1>2, <1>4 DEF next

\* A subscription is replaced or added (remember_subscription).
LEMMA RememberKeeps ==
    ASSUME NEW r, RelayOK(r), NEW req \in Requests
    PROVE  /\ RelayOK(Remember(r, req[1], req[2]))
           /\ Remember(r, req[1], req[2]).events = r.events
<1> DEFINE sub == req[1]
           filters == req[2]
           ids == DOMAIN r.subscriptions
           subs == [s \in ids \cup {sub} |-> IF s = sub THEN filters ELSE r.subscriptions[s]]
           count == IF sub \in ids THEN r.active ELSE r.active + 1
<1>1. Remember(r, sub, filters) = [r EXCEPT !.subscriptions = subs, !.active = count]
  BY DEF Remember
<1>2. r.subscriptions \in Subscriptions /\ r.active \in Int
  BY DEF RelayOK, Relays
<1>3. /\ ids \in SUBSET Subs /\ \A s \in ids : r.subscriptions[s] \in {q[2] : q \in Requests}
      /\ sub \in Subs /\ filters \in {q[2] : q \in Requests}
  BY <1>2 DEF Subscriptions, Subs
<1>4. subs \in Subscriptions
  <2>1. ids \cup {sub} \in SUBSET Subs
    BY <1>3
  <2>2. subs \in [ids \cup {sub} -> {q[2] : q \in Requests}]
    BY <1>3
  <2> HIDE DEF subs
  <2> QED
    BY <2>1, <2>2 DEF Subscriptions
<1>5. IsFiniteSet(ids) /\ r.active = Cardinality(ids)
  BY DEF RelayOK, SubscriptionsCounted
<1>6. DOMAIN subs = ids \cup {sub}
  OBVIOUS
<1>7. IsFiniteSet(DOMAIN subs) /\ count = Cardinality(DOMAIN subs) /\ count \in Int
  <2>1. CASE sub \in ids
    <3>1. ids \cup {sub} = ids
      BY <2>1
    <3> QED
      BY <1>2, <1>5, <1>6, <2>1, <3>1
  <2>2. CASE sub \notin ids
    <3> HIDE DEF ids, sub, subs
    <3>1. IsFiniteSet(ids \cup {sub}) /\ Cardinality(ids \cup {sub}) = Cardinality(ids) + 1
      BY <1>5, <2>2, FS_AddElement
    <3> QED
      BY <1>2, <1>5, <1>6, <2>2, <3>1
  <2> QED
    BY <2>1, <2>2
<1> DEFINE next == Remember(r, sub, filters)
<1> HIDE DEF subs, count, next, ids
<1>8. next = SetSubscriptions(r, subs, count) /\ Counted(subs, count)
  BY <1>1, <1>7 DEF next, SetSubscriptions, Counted
<1>9. RelayOK(next) /\ next.events = r.events
  BY <1>4, <1>7, <1>8, SubscriptionsKeep
<1> QED
  BY <1>9 DEF next

\* A subscription is closed (close_subscription).
LEMMA CloseKeeps ==
    ASSUME NEW r, RelayOK(r), NEW sub \in DOMAIN r.subscriptions
    PROVE  /\ RelayOK(CloseSubscription(r, sub))
           /\ CloseSubscription(r, sub).events = r.events
<1> DEFINE ids == DOMAIN r.subscriptions
           subs == [s \in ids \ {sub} |-> r.subscriptions[s]]
           count == r.active - 1
<1>1. CloseSubscription(r, sub) = [r EXCEPT !.subscriptions = subs, !.active = count]
  BY DEF CloseSubscription
<1>2. r.subscriptions \in Subscriptions /\ r.active \in Int
  BY DEF RelayOK, Relays
<1>3. ids \in SUBSET Subs /\ \A s \in ids : r.subscriptions[s] \in {q[2] : q \in Requests}
  BY <1>2 DEF Subscriptions, Subs
<1>4. subs \in Subscriptions
  <2>1. ids \ {sub} \in SUBSET Subs
    BY <1>3
  <2>2. subs \in [ids \ {sub} -> {q[2] : q \in Requests}]
    BY <1>3
  <2> HIDE DEF subs
  <2> QED
    BY <2>1, <2>2 DEF Subscriptions
<1>5. IsFiniteSet(ids) /\ r.active = Cardinality(ids)
  BY DEF RelayOK, SubscriptionsCounted
<1>6. DOMAIN subs = ids \ {sub}
  OBVIOUS
<1>7. IsFiniteSet(ids \ {sub}) /\ Cardinality(ids \ {sub}) = Cardinality(ids) - 1
  <2> HIDE DEF ids
  <2>1. sub \in ids
    BY DEF ids
  <2> QED
    BY <1>5, <2>1, FS_RemoveElement
<1>8. IsFiniteSet(DOMAIN subs) /\ count = Cardinality(DOMAIN subs) /\ count \in Int
  BY <1>2, <1>5, <1>6, <1>7
<1> DEFINE next == CloseSubscription(r, sub)
<1> HIDE DEF subs, count, next, ids
<1>9. next = SetSubscriptions(r, subs, count) /\ Counted(subs, count)
  BY <1>1, <1>8 DEF next, SetSubscriptions, Counted
<1>10. RelayOK(next) /\ next.events = r.events
  BY <1>4, <1>8, <1>9, SubscriptionsKeep
<1> QED
  BY <1>10 DEF next

\* The first free slot (enqueue_event_output).
LEMMA FreeSlot ==
    ASSUME NEW free, free \subseteq 1..OutputCapacity, free /= {}
    PROVE  (CHOOSE s \in free : \A t \in free : s <= t) \in free
<1>1. free \in SUBSET Nat
  BY UplinkAssumption DEF NostrAssumption
<1>2. \E s \in free : \A t \in free : s <= t
  BY <1>1, LeastNatural
<1> QED
  BY <1>2

\* An injected event is put in a slot that nothing owned and its output
\* goes to the end of the queue: both or neither (enqueue_event_output).
LEMMA EventOutputKeeps ==
    ASSUME NEW r, RelayOK(r), NEW sub \in Subs, NEW event \in InjectedEvents
    PROVE  /\ RelayOK(EnqueueEventOutput(r, sub, event))
           /\ EnqueueEventOutput(r, sub, event).events = r.events
<1> DEFINE free == {s \in 1..OutputCapacity : r.output_events[s] = NoEvent}
           slot == CHOOSE s \in free : \A t \in free : s <= t
           output == OwnedEventOutput(sub, slot)
           queued == Enqueue(r, output)
           next == EnqueueEventOutput(r, sub, event)
<1>1. CASE RecordError(event) /= "none" \/ free = {} \/ queued.full
  BY <1>1 DEF EnqueueEventOutput
<1>2. CASE ~(RecordError(event) /= "none" \/ free = {} \/ queued.full)
  <2> DEFINE n == Len(r.outputs)
             new == Append(r.outputs, output)
             q == r.queued + 1
             mid == [r EXCEPT !.outputs = new, !.queued = q]
             slots == [r.output_events EXCEPT ![slot] = event]
  <2>0. ~(n >= OutputCapacity)
    BY <1>2 DEF Enqueue
  <2>1. r \in Relays
    BY DEF RelayOK
  <2>2. /\ r.outputs \in Seq(Outputs) /\ r.queued \in Int /\ r.queued = n
        /\ r.output_events \in OwnedEvents
    BY <2>1 DEF Relays, RelayOK
  <2>3. queued.relay = mid
    BY <1>2 DEF Enqueue
  <2>4. next = [mid EXCEPT !.output_events[slot] = event]
    BY <1>2, <2>3 DEF EnqueueEventOutput
  <2>5. slot \in free
    <3>1. free \subseteq 1..OutputCapacity /\ free /= {}
      BY <1>2
    <3> HIDE DEF free
    <3> QED
      BY <3>1, FreeSlot
  <2>6. slot \in 1..OutputCapacity /\ r.output_events[slot] = NoEvent
    BY <2>5
  <2> HIDE DEF slot, queued
  <2>7. output \in Outputs /\ output.kind = "owned" /\ \A s : Owns(output, s) <=> s = slot
    BY <2>6, OutputsMade
  <2> HIDE DEF output
  <2>8. /\ new \in Seq(Outputs) /\ DOMAIN new = 1..(n + 1) /\ DOMAIN r.outputs = 1..n
        /\ n \in Nat /\ new[n + 1] = output /\ \A i \in 1..n : new[i] = r.outputs[i]
        /\ Len(new) = n + 1
    BY <2>2, <2>7, AppendedAtEnd, AppendProperties
  <2>9. q \in Int /\ q = n + 1
    BY <2>2
  <2> HIDE DEF new, n, q
  <2>10. mid \in Relays
    BY <2>1, <2>8, <2>9, SetOutputs
  <2>11. /\ mid.outputs = new /\ mid.queued = q /\ mid.events = r.events
         /\ mid.output_events = r.output_events /\ mid.subscriptions = r.subscriptions
         /\ mid.active = r.active
    BY <2>1 DEF Relays
  <2> HIDE DEF mid
  <2>12. next = [mid EXCEPT !.output_events = slots]
    BY <2>4, <2>11
  <2>13. slots \in OwnedEvents
    BY <2>2 DEF OwnedEvents
  <2>14. \A s \in 1..OutputCapacity : slots[s] = IF s = slot THEN event ELSE r.output_events[s]
    BY <2>2 DEF OwnedEvents
  <2> HIDE DEF slots, next
  <2>15. next \in Relays
    BY <2>10, <2>12, <2>13 DEF Relays
  <2>16. /\ next.outputs = new /\ next.queued = q /\ next.events = r.events
         /\ next.output_events = slots /\ next.subscriptions = r.subscriptions
         /\ next.active = r.active
    BY <2>10, <2>11, <2>12 DEF Relays
  <2>17. OutputsShowable(next)
    <3>1. ASSUME NEW i \in 1..(n + 1) PROVE Showable(new[i], r.events)
      <4>1. CASE i = n + 1
        BY <2>7, <2>8, <4>1 DEF Showable
      <4>2. CASE i \in 1..n
        BY <2>8, <4>2 DEF RelayOK, OutputsShowable
      <4> QED
        BY <2>8, <4>1, <4>2
    <3> QED
      BY <2>8, <2>16, <3>1 DEF OutputsShowable
  <2>18. SlotsOwned(next)
    <3>1. \A i \in 1..n : ~Owns(r.outputs[i], slot)
      BY <2>6, <2>8 DEF RelayOK, SlotsOwned
    <3>2. ASSUME NEW s \in 1..OutputCapacity, NEW i \in 1..(n + 1)
          PROVE  Owns(new[i], s) <=> \/ i \in 1..n /\ s /= slot /\ Owns(r.outputs[i], s)
                                     \/ i = n + 1 /\ s = slot
      <4>1. CASE i = n + 1
        <5>1. i \notin 1..n
          BY <2>8, <4>1
        <5> QED
          BY <2>7, <2>8, <4>1, <5>1
      <4>2. CASE i \in 1..n
        <5>1. i /= n + 1 /\ new[i] = r.outputs[i]
          BY <2>8, <4>2
        <5> QED
          BY <3>1, <4>2, <5>1
      <4> QED
        BY <2>8, <4>1, <4>2
    <3>3. event /= NoEvent
      BY UplinkAssumption DEF NostrAssumption
    <3>4. SlotsOwned(r)
      BY DEF RelayOK
    <3>5. ASSUME NEW s \in 1..OutputCapacity
          PROVE  slots[s] /= NoEvent <=> \E i \in 1..(n + 1) : Owns(new[i], s)
      <4>1. CASE s = slot
        <5>1. n + 1 \in 1..(n + 1) /\ Owns(new[n + 1], s)
          BY <2>7, <2>8, <4>1
        <5> QED
          BY <2>14, <3>3, <4>1, <5>1
      <4>2. CASE s /= slot
        <5>1. slots[s] /= NoEvent <=> \E i \in 1..n : Owns(r.outputs[i], s)
          BY <2>8, <2>14, <3>4, <4>2 DEF SlotsOwned
        <5>2. \A i \in 1..n : i \in 1..(n + 1)
          BY <2>8
        <5> QED
          BY <3>2, <4>2, <5>1, <5>2
      <4> QED
        BY <4>1, <4>2
    <3>6. ASSUME NEW s \in 1..OutputCapacity, NEW i \in 1..(n + 1), NEW j \in 1..(n + 1),
                 Owns(new[i], s), Owns(new[j], s)
          PROVE  i = j
      BY <2>8, <3>2, <3>4, <3>6 DEF SlotsOwned
    <3> QED
      BY <2>8, <2>16, <3>5, <3>6 DEF SlotsOwned
  <2>19. IdsDistinct(next) /\ EventsVerified(next) /\ SubscriptionsCounted(next)
    BY <2>16 DEF RelayOK, IdsDistinct, EventsVerified, SubscriptionsCounted
  <2>20. next.queued = Len(next.outputs)
    BY <2>8, <2>9, <2>16
  <2>21. Bounded(next)
    <3>1. OutputCapacity \in Nat /\ Bounded(r)
      BY UplinkAssumption DEF NostrAssumption, RelayOK
    <3> QED
      BY <2>0, <2>8, <2>16, <3>1 DEF Bounded
  <2>22. RelayOK(next)
    BY <2>15, <2>17, <2>18, <2>19, <2>20, <2>21 DEF RelayOK
  <2> QED
    BY <2>16, <2>22 DEF next
<1> QED
  BY <1>1, <1>2

\* The head of the queue leaves, and frees the slot it owned and no other
\* (consume_output).
LEMMA ConsumeKeeps ==
    ASSUME NEW r, RelayOK(r), r.outputs /= <<>>
    PROVE  RelayOK(ConsumeOutput(r)) /\ ConsumeOutput(r).events = r.events
<1> DEFINE head == Head(r.outputs)
           rest == Tail(r.outputs)
           n == Len(rest)
           q == r.queued - 1
           slots == IF head.kind = "owned"
                    THEN [r.output_events EXCEPT ![head.slot] = NoEvent] ELSE r.output_events
           freed == [r EXCEPT !.output_events = slots]
           next == ConsumeOutput(r)
<1>1. r \in Relays
  BY DEF RelayOK
<1>2. /\ r.outputs \in Seq(Outputs) /\ r.queued \in Int /\ r.queued = Len(r.outputs)
      /\ r.output_events \in OwnedEvents
  BY <1>1 DEF Relays, RelayOK
<1>3. /\ rest \in Seq(Outputs) /\ Len(r.outputs) = n + 1 /\ n \in Nat
      /\ head = r.outputs[1] /\ head \in Outputs
      /\ \A i \in 1..n : rest[i] = r.outputs[i + 1]
  BY <1>2, HeadTailProperties, EmptySeq, LenProperties
<1>4. DOMAIN r.outputs = 1..(n + 1) /\ DOMAIN rest = 1..n
  BY <1>2, <1>3, LenProperties
<1>5. head.kind = "owned" => head.slot \in 1..OutputCapacity
  BY <1>3, OutputKinds
<1>6. freed = IF head.kind = "owned"
              THEN [r EXCEPT !.output_events[head.slot] = NoEvent] ELSE r
  BY <1>1 DEF Relays
<1>7. next = [freed EXCEPT !.outputs = rest, !.queued = q]
  <2>1. next = [freed EXCEPT !.outputs = Tail(@), !.queued = @ - 1]
    BY <1>6 DEF ConsumeOutput
  <2>2. freed.outputs = r.outputs /\ freed.queued = r.queued
    BY <1>1 DEF Relays
  <2> HIDE DEF freed
  <2> QED
    BY <2>1, <2>2
<1> HIDE DEF next, head, rest, n
<1>8. slots \in OwnedEvents
  BY <1>2, <1>5 DEF OwnedEvents
<1>9. \A s \in 1..OutputCapacity :
         slots[s] = IF Owns(head, s) THEN NoEvent ELSE r.output_events[s]
  BY <1>2, <1>5 DEF OwnedEvents, Owns
<1> HIDE DEF slots
<1>10. freed \in Relays
  BY <1>1, <1>8 DEF Relays
<1>11. /\ freed.events = r.events /\ freed.output_events = slots
       /\ freed.subscriptions = r.subscriptions /\ freed.active = r.active
  BY <1>1 DEF Relays
<1> HIDE DEF freed
<1>12. q \in Int /\ q = n
  BY <1>2, <1>3
<1> HIDE DEF q
<1>13. next \in Relays
  BY <1>3, <1>7, <1>10, <1>12, SetOutputs
<1>14. /\ next.outputs = rest /\ next.queued = q /\ next.events = r.events
       /\ next.output_events = slots /\ next.subscriptions = r.subscriptions
       /\ next.active = r.active
  BY <1>7, <1>10, <1>11 DEF Relays
<1>15. \A i \in 1..n : i + 1 \in 1..(n + 1)
  BY <1>3
<1>16. OutputsShowable(next)
  <2>1. ASSUME NEW i \in 1..n PROVE Showable(rest[i], r.events)
    <3>1. Showable(r.outputs[i + 1], r.events)
      BY <1>4, <1>15 DEF RelayOK, OutputsShowable
    <3> QED
      BY <1>3, <3>1
  <2> QED
    BY <1>4, <1>14, <2>1 DEF OutputsShowable
<1>17. SlotsOwned(next)
  <2>1. SlotsOwned(r)
    BY DEF RelayOK
  <2>2. \A s \in 1..OutputCapacity :
           r.output_events[s] /= NoEvent <=> \E i \in 1..(n + 1) : Owns(r.outputs[i], s)
    BY <1>4, <2>1 DEF SlotsOwned
  <2>3. \A s \in 1..OutputCapacity : \A i, j \in 1..(n + 1) :
           Owns(r.outputs[i], s) /\ Owns(r.outputs[j], s) => i = j
    BY <1>4, <2>1 DEF SlotsOwned
  <2>4. 1 \in 1..(n + 1)
    BY <1>3
  <2>5. ASSUME NEW s \in 1..OutputCapacity
        PROVE  slots[s] /= NoEvent <=> \E i \in 1..n : Owns(rest[i], s)
    <3>1. CASE Owns(head, s)
      <4>1. slots[s] = NoEvent
        BY <1>9, <3>1
      <4>2. ASSUME NEW i \in 1..n, Owns(rest[i], s) PROVE FALSE
        <5>1. i + 1 \in 1..(n + 1) /\ Owns(r.outputs[i + 1], s) /\ Owns(r.outputs[1], s)
          BY <1>3, <1>15, <3>1, <4>2
        <5>2. i + 1 = 1
          BY <2>3, <2>4, <5>1
        <5> QED
          BY <1>3, <5>2
      <4> QED
        BY <4>1, <4>2
    <3>2. CASE ~Owns(head, s)
      <4>1. slots[s] = r.output_events[s]
        BY <1>9, <3>2
      <4>2. ASSUME NEW i \in 1..(n + 1), Owns(r.outputs[i], s)
            PROVE  i - 1 \in 1..n /\ Owns(rest[i - 1], s)
        <5>1. i /= 1
          BY <1>3, <3>2, <4>2
        <5>2. i - 1 \in 1..n /\ (i - 1) + 1 = i
          BY <1>3, <5>1
        <5>3. rest[i - 1] = r.outputs[i]
          BY <1>3, <5>2
        <5> QED
          BY <4>2, <5>2, <5>3
      <4>3. ASSUME NEW i \in 1..n, Owns(rest[i], s)
            PROVE  i + 1 \in 1..(n + 1) /\ Owns(r.outputs[i + 1], s)
        BY <1>3, <1>15, <4>3
      <4>4. (\E i \in 1..(n + 1) : Owns(r.outputs[i], s)) <=> \E i \in 1..n : Owns(rest[i], s)
        BY <4>2, <4>3
      <4> QED
        BY <2>2, <4>1, <4>4
    <3> QED
      BY <3>1, <3>2
  <2>6. ASSUME NEW s \in 1..OutputCapacity, NEW i \in 1..n, NEW j \in 1..n,
               Owns(rest[i], s), Owns(rest[j], s)
        PROVE  i = j
    <3>1. i + 1 = j + 1
      BY <1>3, <1>15, <2>3, <2>6
    <3> QED
      BY <3>1
  <2> QED
    BY <1>4, <1>14, <2>5, <2>6 DEF SlotsOwned
<1>18. IdsDistinct(next) /\ EventsVerified(next) /\ SubscriptionsCounted(next)
  BY <1>14 DEF RelayOK, IdsDistinct, EventsVerified, SubscriptionsCounted
<1>19. next.queued = Len(next.outputs)
  BY <1>12, <1>14 DEF n
<1>20. Bounded(next)
  <2>1. OutputCapacity \in Nat /\ Bounded(r)
    BY UplinkAssumption DEF NostrAssumption, RelayOK
  <2>2. Len(next.outputs) = n /\ next.events = r.events
    BY <1>14 DEF n
  <2> QED
    BY <1>3, <2>1, <2>2 DEF Bounded
<1>21. RelayOK(next)
  BY <1>13, <1>16, <1>17, <1>18, <1>19, <1>20 DEF RelayOK
<1> QED
  BY <1>14, <1>21 DEF next
-----------------------------------------------------------------------------
(* The replay of a subscription.                                           *)

\* Newest first and ties by id is an order.
LEMMA SortsBeforeOrders ==
    ASSUME NEW a \in Published, NEW b \in Published, NEW c \in Published
    PROVE  /\ SortsBefore(a, b) /\ SortsBefore(b, c) => SortsBefore(a, c)
           /\ ~(SortsBefore(a, b) /\ SortsBefore(b, a))
           /\ a.id /= b.id => SortsBefore(a, b) \/ SortsBefore(b, a)
<1>1. /\ a.created_at \in Nat /\ b.created_at \in Nat /\ c.created_at \in Nat
      /\ a.id \in Nat /\ b.id \in Nat /\ c.id \in Nat
  BY UplinkAssumption DEF NostrAssumption
<1> QED
  BY <1>1 DEF SortsBefore

\* Some of the events comes first.
ComesFirst(events, M, i) == \A j \in M \ {i} : ~SortsBefore(events[j], events[i])
LEMMA SomeComesFirst ==
    ASSUME NEW events \in Seq(Published), NEW M, M \subseteq DOMAIN events, M /= {}
    PROVE  \E i \in M : ComesFirst(events, M, i)
<1> DEFINE K == Len(events)
           Upto(n) == {i \in M : i <= n}
           P == {n \in 0..K : Upto(n) = {} \/ \E i \in Upto(n) : ComesFirst(events, Upto(n), i)}
<1>0. K \in Nat /\ DOMAIN events = 1..K /\ \A i \in 1..K : events[i] \in Published
  BY LenProperties, ElementOfSeq
<1>1. 0 \in P
  <2>1. Upto(0) = {}
    BY <1>0
  <2> QED
    BY <1>0, <2>1
<1>2. ASSUME NEW n \in 0..(K - 1), n \in P PROVE n + 1 \in P
  <2> DEFINE m == n + 1
  <2>0. m \in 1..K /\ m \in 0..K /\ n \in Nat
    BY <1>0
  <2>1. CASE m \notin M
    <3>1. Upto(m) = Upto(n)
      BY <1>0, <2>0, <2>1
    <3> QED
      BY <1>2, <2>0, <3>1
  <2>2. CASE m \in M
    <3>1. Upto(m) = Upto(n) \cup {m} /\ m \notin Upto(n)
      BY <1>0, <2>0, <2>2
    <3>2. CASE Upto(n) = {}
      <4>1. m \in Upto(m) /\ ComesFirst(events, Upto(m), m)
        BY <3>1, <3>2 DEF ComesFirst
      <4> QED
        BY <2>0, <4>1
    <3>3. CASE Upto(n) /= {}
      <4>1. PICK i \in Upto(n) : ComesFirst(events, Upto(n), i)
        BY <1>2, <3>3
      <4>2. i \in 1..K /\ events[i] \in Published /\ events[m] \in Published
        BY <1>0, <2>0
      <4>3. \A j \in Upto(n) : events[j] \in Published
        BY <1>0
      <4> DEFINE A == Upto(n)
                 B == Upto(m)
      <4>4. B = A \cup {m} /\ i \in A /\ m \notin A
        BY <3>1
      <4> HIDE DEF A, B, m
      <4>5. CASE SortsBefore(events[m], events[i])
        <5>1. ASSUME NEW j \in A PROVE ~SortsBefore(events[j], events[m])
          <6>1. CASE j = i
            BY <4>2, <4>5, <6>1, SortsBeforeOrders
          <6>2. CASE j /= i
            <7>1. ~SortsBefore(events[j], events[i]) /\ events[j] \in Published
              BY <4>1, <4>3, <6>2 DEF ComesFirst, A
            <7> QED
              BY <4>2, <4>5, <7>1, SortsBeforeOrders
          <6> QED
            BY <6>1, <6>2
        <5>2. m \in B /\ ComesFirst(events, B, m)
          BY <4>4, <5>1 DEF ComesFirst
        <5> QED
          BY <2>0, <5>2 DEF m, B
      <4>6. CASE ~SortsBefore(events[m], events[i])
        <5>1. i \in B /\ ComesFirst(events, B, i)
          BY <4>1, <4>4, <4>6 DEF ComesFirst, A
        <5> QED
          BY <2>0, <5>1 DEF m, B
      <4> QED
        BY <4>5, <4>6
    <3> QED
      BY <3>2, <3>3
  <2> QED
    BY <2>1, <2>2
<1>3. Upto(K) = M
  BY <1>0
<1> HIDE DEF P
<1>4. \A n \in 0..K : n \in P
  <2> HIDE DEF K
  <2> QED
    BY <1>0, <1>1, <1>2, UpTo
<1>5. K \in P
  BY <1>0, <1>4
<1> QED
  BY <1>3, <1>5 DEF P

\* The scan finds the first of the events that match and were not emitted
\* (next_replay_event).
Matching(events, filters) == {i \in DOMAIN events : MatchesAny(filters, events[i], Keys)}
LEMMA ScanFindsFirst ==
    ASSUME NEW r, r.events \in Seq(Published), NEW filters, NEW emitted
    PROVE  LET left == Matching(r.events, filters) \ emitted
               next == NextReplayEvent(r, filters, emitted)
           IN  \/ left = {} /\ next = 0
               \/ next \in left /\ ComesFirst(r.events, left, next)
<1> DEFINE left == Matching(r.events, filters) \ emitted
           next == NextReplayEvent(r, filters, emitted)
<1> DEFINE raw == {i \in DOMAIN r.events \ emitted : MatchesAny(filters, r.events[i], Keys)}
<1>1. next = IF raw = {} THEN 0
             ELSE CHOOSE i \in raw : \A j \in raw \ {i} : ~SortsBefore(r.events[j], r.events[i])
  BY DEF NextReplayEvent
<1>2. left = raw
  BY DEF Matching
<1>3. raw \subseteq DOMAIN r.events
  OBVIOUS
<1> HIDE DEF left, next, raw
<1>4. CASE raw = {}
  BY <1>1, <1>2, <1>4 DEF left, next
<1>5. CASE raw /= {}
  <2>1. \E i \in raw : ComesFirst(r.events, raw, i)
    BY <1>3, <1>5, SomeComesFirst
  <2>2. next \in raw /\ ComesFirst(r.events, raw, next)
    BY <1>1, <1>5, <2>1 DEF ComesFirst
  <2> QED
    BY <1>2, <2>2 DEF left, next
<1> QED
  BY <1>4, <1>5

\* One round of the replay loop.
ReplayStep(r, sub, filters, last) ==
    LET next == NextReplayEvent(r, filters, last.emitted)
        queued == Enqueue(last.relay, StoredEventOutput(sub, next))
    IN  IF last.state /= "loop" THEN last
        ELSE IF next = 0 \/ (/\ ReplayLimit(filters) /= -1
                             /\ Cardinality(last.emitted) >= ReplayLimit(filters))
        THEN [last EXCEPT !.state = "end"]
        ELSE IF queued.full THEN [last EXCEPT !.state = "full"]
        ELSE [last EXCEPT !.relay = queued.relay, !.emitted = last.emitted \cup {next}]
ReplayStart(r) == [relay |-> r, emitted |-> {}, state |-> "loop"]
ReplayEnd(sub, done) ==
    IF done.state = "full" THEN done.relay ELSE Enqueue(done.relay, EoseOutput(sub)).relay
Rounds == [relay : Relays, emitted : SUBSET Nat, state : {"loop", "end", "full"}]
Replays(r, sub, filters, f) ==
    /\ f[0] = ReplayStart(r)
    /\ \A n \in 1..EventCapacity : f[n] = ReplayStep(r, sub, filters, f[n - 1])

\* A queued output keeps the relay a relay.
LEMMA EnqueueTypes ==
    ASSUME NEW r \in Relays, NEW output \in Outputs
    PROVE  Enqueue(r, output).relay \in Relays
<1>1. CASE Len(r.outputs) >= OutputCapacity
  BY <1>1 DEF Enqueue
<1>2. CASE ~(Len(r.outputs) >= OutputCapacity)
  <2> DEFINE q == r.queued + 1
             new == Append(r.outputs, output)
  <2>1. Enqueue(r, output).relay = [r EXCEPT !.outputs = new, !.queued = q]
    BY <1>2 DEF Enqueue
  <2>2. q \in Int /\ r.outputs \in Seq(Outputs)
    BY DEF Relays
  <2>3. new \in Seq(Outputs)
    BY <2>2, AppendProperties
  <2> HIDE DEF q, new
  <2> QED
    BY <2>1, <2>2, <2>3, SetOutputs, ZenonT(40)
<1> QED
  BY <1>1, <1>2

\* A round leads to a round.
LEMMA ReplayStepTypes ==
    ASSUME NEW r, r.events \in Seq(Published), NEW sub \in Subs, NEW filters,
           NEW last \in Rounds
    PROVE  ReplayStep(r, sub, filters, last) \in Rounds
<1> DEFINE next == NextReplayEvent(r, filters, last.emitted)
           queued == Enqueue(last.relay, StoredEventOutput(sub, next))
<1>1. DOMAIN r.events \subseteq Nat
  BY LenProperties
<1>2. next \in Nat
  <2>1. next = 0 \/ next \in Matching(r.events, filters)
    BY ScanFindsFirst
  <2> QED
    BY <1>1, <2>1 DEF Matching
<1>3. last.relay \in Relays /\ last.emitted \in SUBSET Nat
  BY DEF Rounds
<1> HIDE DEF next
<1>4. queued.relay \in Relays
  BY <1>2, <1>3, OutputsMade, EnqueueTypes
<1> HIDE DEF queued
<1>5. [last EXCEPT !.state = "end"] \in Rounds /\ [last EXCEPT !.state = "full"] \in Rounds
  BY DEF Rounds
<1>6. [last EXCEPT !.relay = queued.relay, !.emitted = last.emitted \cup {next}] \in Rounds
  BY <1>2, <1>3, <1>4 DEF Rounds
<1> QED
  BY <1>5, <1>6 DEF ReplayStep, next, queued

\* The replay is that loop.
LEMMA ReplayIsRecursive ==
    ASSUME NEW r \in Relays, NEW sub \in Subs, NEW filters
    PROVE  \E f : /\ ReplaySubscription(r, sub, filters) = ReplayEnd(sub, f[EventCapacity])
                  /\ Replays(r, sub, filters, f)
<1> DEFINE K == EventCapacity
           Rec(f) == f = [n \in 0..K |->
             IF n = 0 THEN [relay |-> r, emitted |-> {}, state |-> "loop"]
             ELSE LET last == f[n - 1]
                      next == NextReplayEvent(r, filters, last.emitted)
                      queued == Enqueue(last.relay, StoredEventOutput(sub, next))
                  IN  IF last.state /= "loop" THEN last
                      ELSE IF next = 0 \/ (/\ ReplayLimit(filters) /= -1
                                           /\ Cardinality(last.emitted) >= ReplayLimit(filters))
                      THEN [last EXCEPT !.state = "end"]
                      ELSE IF queued.full THEN [last EXCEPT !.state = "full"]
                      ELSE [last EXCEPT !.relay = queued.relay,
                                        !.emitted = @ \cup {next}]]
           Loops(f) == f = [n \in 0..K |-> IF n = 0 THEN ReplayStart(r)
                                           ELSE ReplayStep(r, sub, filters, f[n - 1])]
           step == [n \in 1..K |-> [v \in Rounds |-> ReplayStep(r, sub, filters, v)]]
<1>0. K \in Nat /\ r.events \in Seq(Published)
  BY UplinkAssumption DEF NostrAssumption, Relays
<1>1. ReplayStart(r) \in Rounds /\ IsStep(step, K, Rounds)
  <2>1. ReplayStart(r) \in Rounds
    BY DEF ReplayStart, Rounds
  <2>2. \A v \in Rounds : ReplayStep(r, sub, filters, v) \in Rounds
    BY <1>0, ReplayStepTypes
  <2> QED
    BY <2>1, <2>2 DEF IsStep
<1>2. PICK f : FollowsStep(f, K, Rounds, ReplayStart(r), step)
  <2> HIDE DEF step, K
  <2> QED
    BY <1>0, <1>1, RecursionUpTo
<1>3. /\ f \in [0..K -> Rounds] /\ f[0] = ReplayStart(r)
      /\ \A n \in 1..K : f[n] = step[n][f[n - 1]]
  BY <1>2 DEF FollowsStep
<1>4. ASSUME NEW n \in 1..K PROVE f[n] = ReplayStep(r, sub, filters, f[n - 1])
  <2>1. f[n - 1] \in Rounds
    BY <1>0, <1>3
  <2>2. step[n][f[n - 1]] = ReplayStep(r, sub, filters, f[n - 1])
    BY <2>1
  <2> QED
    BY <1>3, <2>2
<1>5. Loops(f)
  <2>1. \A n \in 0..K : f[n] = IF n = 0 THEN ReplayStart(r)
                               ELSE ReplayStep(r, sub, filters, f[n - 1])
    BY <1>0, <1>3, <1>4
  <2> QED
    BY <1>3, <2>1
<1>6. \A g : Rec(g) <=> Loops(g)
  BY DEF ReplayStart, ReplayStep
<1> DEFINE g == CHOOSE h : Rec(h)
<1>7. Loops(g)
  <2> HIDE DEF Rec, Loops
  <2> QED
    BY <1>5, <1>6
<1>8. ReplaySubscription(r, sub, filters) = ReplayEnd(sub, g[K])
  BY DEF ReplaySubscription, ReplayEnd
<1> HIDE DEF g, Rec
<1>9. 0 \in 0..K /\ \A n \in 1..K : n \in 0..K /\ n /= 0
  BY <1>0
<1>10. \A n \in 0..K : g[n] = IF n = 0 THEN ReplayStart(r)
                              ELSE ReplayStep(r, sub, filters, g[n - 1])
  BY <1>7
<1> HIDE DEF Loops
<1>11. Replays(r, sub, filters, g)
  BY <1>9, <1>10 DEF Replays
<1> QED
  BY <1>8, <1>11

\* The rounds of a replay keep the relay sound: they queue stored events
\* alone.
LEMMA RoundsKeep ==
    ASSUME NEW r, RelayOK(r), NEW sub \in Subs, NEW filters, NEW f,
           Replays(r, sub, filters, f)
    PROVE  \A n \in 0..EventCapacity :
              f[n] \in Rounds /\ RelayOK(f[n].relay) /\ f[n].relay.events = r.events
<1> DEFINE K == EventCapacity
           P == {n \in 0..K : /\ f[n] \in Rounds
                              /\ RelayOK(f[n].relay) /\ f[n].relay.events = r.events}
<1>0. K \in Nat /\ r.events \in Seq(Published)
  BY UplinkAssumption DEF NostrAssumption, RelayOK, Relays
<1>1. 0 \in P
  <2>1. f[0] = ReplayStart(r) /\ f[0].relay = r
    BY DEF Replays, ReplayStart
  <2>2. f[0] \in Rounds
    BY <2>1 DEF RelayOK, ReplayStart, Rounds
  <2> QED
    BY <1>0, <2>1, <2>2
<1>2. ASSUME NEW n \in 0..(K - 1), n \in P PROVE n + 1 \in P
  <2> DEFINE last == f[n]
             next == NextReplayEvent(r, filters, last.emitted)
             output == StoredEventOutput(sub, next)
             queued == Enqueue(last.relay, output)
  <2>0. n + 1 \in 1..K /\ n + 1 \in 0..K /\ (n + 1) - 1 = n
    BY <1>0
  <2>1. f[n + 1] = ReplayStep(r, sub, filters, last)
    BY <2>0 DEF Replays
  <2>2. last \in Rounds /\ RelayOK(last.relay) /\ last.relay.events = r.events
    BY <1>2
  <2>3. next = 0 \/ next \in DOMAIN r.events
    BY <1>0, ScanFindsFirst DEF Matching
  <2>4. DOMAIN r.events \subseteq Nat
    BY <1>0, LenProperties
  <2> HIDE DEF next, last
  <2>5. next /= 0 => RelayOK(queued.relay) /\ queued.relay.events = r.events
    <3> SUFFICES ASSUME next /= 0 PROVE RelayOK(queued.relay) /\ queued.relay.events = r.events
      OBVIOUS
    <3>1. output \in Outputs /\ output.kind = "stored" /\ output.index = next
      BY <2>3, <2>4, OutputsMade
    <3> HIDE DEF output
    <3>2. output.kind /= "owned" /\ Showable(output, last.relay.events)
      BY <2>2, <2>3, <3>1 DEF Showable
    <3> QED
      BY <2>2, <3>1, <3>2, EnqueueKeeps
  <2>6. \/ f[n + 1].relay = last.relay
        \/ next /= 0 /\ f[n + 1].relay = queued.relay
    BY <2>1, <2>2 DEF ReplayStep, Rounds, next
  <2>7. f[n + 1] \in Rounds
    BY <1>0, <2>1, <2>2, ReplayStepTypes
  <2> QED
    BY <2>0, <2>2, <2>5, <2>6, <2>7
<1> HIDE DEF P
<1>3. \A n \in 0..K : n \in P
  <2> HIDE DEF K
  <2> QED
    BY <1>0, <1>1, <1>2, UpTo
<1> QED
  BY <1>3 DEF P

\* A subscription queues its replay and leaves the relay sound
\* (replay_subscription).
LEMMA ReplayKeeps ==
    ASSUME NEW r, RelayOK(r), NEW sub \in Subs, NEW filters
    PROVE  /\ RelayOK(ReplaySubscription(r, sub, filters))
           /\ ReplaySubscription(r, sub, filters).events = r.events
<1>1. r \in Relays /\ EventCapacity \in 0..EventCapacity
  BY UplinkAssumption DEF NostrAssumption, RelayOK
<1>2. PICK f : /\ ReplaySubscription(r, sub, filters) = ReplayEnd(sub, f[EventCapacity])
               /\ Replays(r, sub, filters, f)
  BY <1>1, ReplayIsRecursive
<1> DEFINE done == f[EventCapacity]
           output == EoseOutput(sub)
           queued == Enqueue(done.relay, output)
<1>3. RelayOK(done.relay) /\ done.relay.events = r.events
  BY <1>1, <1>2, RoundsKeep
<1>4. output \in Outputs /\ output.kind /= "owned" /\ Showable(output, done.relay.events)
  BY OutputsMade DEF Showable
<1> HIDE DEF done, output
<1>5. RelayOK(queued.relay) /\ queued.relay.events = r.events
  BY <1>3, <1>4, EnqueueKeeps
<1> QED
  BY <1>2, <1>3, <1>5 DEF ReplayEnd, done, output

-----------------------------------------------------------------------------
(* The uplink.                                                             *)

\* The event that the uplink makes of a frame is a published one, and says
\* what it carries (with_signed_hyf_nostr_event).
IsMade(event, frame) ==
    /\ event \in Published
    /\ event.pubkey = PublicKeyOf(AuthorSecret)
    /\ event.content.of = frame
    /\ event.tags = HyfTags(RecipientKey)
Made(frame, now_ms) == HyfEvent(frame, AuthorSecret, RecipientKey, now_ms \div 1000)
LEMMA MadeEvents ==
    ASSUME NEW frame \in Frames, NEW now_ms \in SendTimes,
           Made(frame, now_ms).error = "none"
    PROVE  IsMade(Made(frame, now_ms).event, frame)
<1> DEFINE made == Made(frame, now_ms)
<1>1. made.event \in Published
  <2> HIDE DEF made
  <2>1. made \in {HyfEvent(fr, AuthorSecret, RecipientKey, t \div 1000) :
                     fr \in Frames, t \in SendTimes}
    BY DEF made, Made
  <2> QED
    BY <2>1 DEF Published, made
<1>2. /\ made.event.pubkey = PublicKeyOf(AuthorSecret)
      /\ made.event.content = EncodeContent(frame).content
      /\ made.event.tags = HyfTags(RecipientKey)
      /\ EncodeContent(frame).error = "none"
  BY DEF HyfEvent, SignEvent, Made
<1>3. EncodeContent(frame) = EncodeHex(frame, MaxContentChars)
  BY <1>2 DEF EncodeContent
<1>4. EncodeHex(frame, MaxContentChars).content.of = frame
  <2>1. EncodeHex(frame, MaxContentChars).error = "none"
    BY <1>2, <1>3
  <2> QED
    BY <2>1 DEF EncodeHex
<1> HIDE DEF made
<1>5. IsMade(made.event, frame)
  BY <1>1, <1>2, <1>3, <1>4 DEF IsMade
<1> QED
  BY <1>5 DEF made

\* The recipient's key is the first p tag of such an event.
LEMMA FirstTag ==
    /\ DOMAIN HyfTags(RecipientKey) = 1..3
    /\ HyfTags(RecipientKey)[1] = <<"p", RecipientKey>>
BY DEF HyfTags

\* So the event is addressed to the recipient.
LEMMA RecipientIsTagged ==
    ASSUME NEW event, event.tags = HyfTags(RecipientKey)
    PROVE  RecipientKey \in PTags(event, Keys)
<1> DEFINE tags == event.tags
           named == {i \in DOMAIN tags :
                        tags[i][1] = "p" /\ Len(tags[i]) > 1 /\ tags[i][2] \in Keys}
           first == {j \in named : j <= 1}
<1>1. RecipientKey \in Keys /\ MaxTags \in Nat /\ MaxTags >= 1
  BY UplinkAssumption DEF NostrAssumption
<1>2. DOMAIN tags = 1..3 /\ tags[1] = <<"p", RecipientKey>>
  BY FirstTag
<1> HIDE DEF tags
<1>3. tags[1][1] = "p" /\ Len(tags[1]) = 2 /\ tags[1][2] = RecipientKey
  BY <1>2
<1>4. 1 \in named
  BY <1>1, <1>2, <1>3
<1>5. \A j \in named : j \in 1..3
  BY <1>2
<1>6. first = {1}
  <2> HIDE DEF named
  <2> QED
    BY <1>4, <1>5
<1>7. Cardinality(first) = 1
  BY <1>6, FS_Singleton
<1> HIDE DEF first
<1>8. Cardinality({j \in named : j <= 1}) <= MaxTags
  BY <1>1, <1>7 DEF first
<1> QED
  BY <1>3, <1>4, <1>8 DEF PTags, tags

\* What the recipient reads in an event.
Carries(event, frame) ==
    /\ VerifyAndDecode(event, FrameBuffer) = [error |-> "none", frame |-> frame]
    /\ event.pubkey = PublicKeyOf(AuthorSecret)
    /\ RecipientKey \in PTags(event, Keys)
Stored(r, frame) == \E i \in DOMAIN r.events : Carries(r.events[i], frame)

\* An event that decodes carries the frame that it spells.
Spells(event, room) ==
    /\ VerifyAndDecode(event, room) = [error |-> "none", frame |-> event.content.of]
    /\ VerifyError(event) = "none"
LEMMA DecodedIsSpelled ==
    ASSUME NEW event, NEW room, VerifyAndDecode(event, room).error = "none"
    PROVE  Spells(event, room)
<1> DEFINE decoded == DecodeContent(event.content, room)
<1>1. VerifyError(event) = "none"
  BY DEF VerifyAndDecode
<1>2. decoded.error = "none"
  BY DEF VerifyAndDecode
<1>3. VerifyAndDecode(event, room) = decoded
  BY DEF VerifyAndDecode
<1>4. decoded = DecodeHex(event.content, room)
  BY <1>2 DEF DecodeContent
<1>5. DecodeHex(event.content, room) = [error |-> "none", frame |-> event.content.of]
  BY <1>2, <1>4 DEF DecodeHex
<1> QED
  BY <1>1, <1>3, <1>4, <1>5 DEF Spells

\* Two verified events with the same unsigned part decode alike.
Alike(d, e, room) ==
    /\ VerifyAndDecode(d, room) = VerifyAndDecode(e, room)
    /\ d.pubkey = e.pubkey /\ d.tags = e.tags /\ d.content = e.content
LEMMA DecodesAlike ==
    ASSUME NEW d, NEW e, NEW room, VerifyError(d) = "none", VerifyError(e) = "none",
           Unsigned(d) = Unsigned(e)
    PROVE  Alike(d, e, room)
<1>1. /\ d.pubkey = e.pubkey /\ d.tags = e.tags /\ d.content = e.content
      /\ d.kind = e.kind
  BY DEF Unsigned
<1> QED
  BY <1>1 DEF VerifyAndDecode, Alike

\* An id stands for what it is the hash of.
LEMMA SameIdSameEvent ==
    ASSUME NEW d \in Published, NEW e \in Published, d.id = e.id,
           VerifyError(d) = "none", VerifyError(e) = "none"
    PROVE  Unsigned(d) = Unsigned(e)
<1>1. d.id = Sha256(Unsigned(d)) /\ e.id = Sha256(Unsigned(e))
  BY DEF VerifyError, EventId
<1>2. \A x, y \in Published :
         Sha256(Unsigned(x)) = Sha256(Unsigned(y)) => Unsigned(x) = Unsigned(y)
  BY UplinkAssumption, Zenon DEF NostrAssumption
<1> QED
  BY <1>1, <1>2, Zenon

\* A send that is answered Ok has its frame in the relay, be it by the event
\* just stored or by one that has the same id (send_link_bytes).
SendSound(r, frame, p) ==
    /\ RelayOK(p.relay) /\ KeepsEvents(r, p.relay)
    /\ SendResult(p.outcome) = "Ok" => Stored(p.relay, frame)
LEMMA SentIsStored ==
    ASSUME NEW r, RelayOK(r), NEW frame \in Frames, NEW now_ms \in SendTimes,
           Made(frame, now_ms).error = "none"
    PROVE  SendSound(r, frame,
                     Publish(r, Made(frame, now_ms).event, FrameBuffer, EnvelopeKind))
<1> DEFINE event == Made(frame, now_ms).event
           p == Publish(r, event, FrameBuffer, EnvelopeKind)
<1>1. IsMade(event, frame)
  BY MadeEvents
<1> HIDE DEF event
<1>2. /\ event \in Published /\ event.pubkey = PublicKeyOf(AuthorSecret)
      /\ event.content.of = frame /\ event.tags = HyfTags(RecipientKey)
  BY <1>1 DEF IsMade
<1>3. PublishSound(r, event, FrameBuffer, EnvelopeKind, p)
  BY <1>2, PublishKeeps
<1> HIDE DEF p
<1>4. RelayOK(p.relay) /\ KeepsEvents(r, p.relay)
  BY <1>3 DEF PublishSound
<1>5. ASSUME SendResult(p.outcome) = "Ok" PROVE Stored(p.relay, frame)
  <2>1. p.outcome \in {"accepted", "accepted_duplicate"}
    BY <1>5 DEF SendResult, RejectionKind, SendErrorKind
  <2>2. PICK i \in DOMAIN p.relay.events : p.relay.events[i].id = event.id
    BY <1>3, <2>1 DEF PublishSound
  <2> DEFINE e == p.relay.events[i]
  <2>3. VerifyAndDecode(event, FrameBuffer).error = "none"
    BY <1>3, <2>1 DEF ProfileError, PublishSound
  <2>4. Spells(event, FrameBuffer)
    BY <2>3, DecodedIsSpelled
  <2>5. e \in Published /\ VerifyError(e) = "none" /\ e.id = event.id
    <3>1. p.relay.events \in Seq(Published) /\ EventsVerified(p.relay)
      BY <1>4 DEF RelayOK, Relays
    <3> QED
      BY <2>2, <3>1, ElementOfSeq, LenProperties DEF EventsVerified
  <2> HIDE DEF e
  <2>6. VerifyError(event) = "none"
    BY <2>4 DEF Spells
  <2>7. Unsigned(e) = Unsigned(event)
    BY <1>2, <2>5, <2>6, SameIdSameEvent, Zenon
  <2>8. Alike(e, event, FrameBuffer)
    BY <2>5, <2>6, <2>7, DecodesAlike, Zenon
  <2>9. e.tags = HyfTags(RecipientKey) /\ e.pubkey = PublicKeyOf(AuthorSecret)
    BY <1>2, <2>8 DEF Alike
  <2>10. RecipientKey \in PTags(e, Keys)
    BY <2>9, RecipientIsTagged
  <2>11. VerifyAndDecode(e, FrameBuffer) = [error |-> "none", frame |-> frame]
    BY <1>2, <2>4, <2>8 DEF Alike, Spells
  <2>12. Carries(e, frame)
    BY <2>9, <2>10, <2>11 DEF Carries
  <2> QED
    BY <2>2, <2>12 DEF Stored, e
<1>6. SendSound(r, frame, p)
  BY <1>4, <1>5 DEF SendSound
<1> QED
  BY <1>6 DEF p, event
\* What the relay keeps, it keeps for the recipient.
LEMMA StoredStays ==
    ASSUME NEW r, NEW next, KeepsEvents(r, next), NEW frame, Stored(r, frame)
    PROVE  Stored(next, frame)
<1>1. PICK i \in DOMAIN r.events : Carries(r.events[i], frame)
  BY DEF Stored
<1>2. i \in DOMAIN next.events /\ next.events[i] = r.events[i]
  BY DEF KeepsEvents
<1> QED
  BY <1>1, <1>2 DEF Stored

\* What every step of the uplink does to the relay: it stays sound, and no
\* stored event leaves it.
Keeps(r, next) == RelayOK(next) /\ KeepsEvents(r, next)
LEMMA SameEventsKeep ==
    ASSUME NEW r, NEW next, RelayOK(next), next.events = r.events
    PROVE  Keeps(r, next)
BY DEF Keeps, KeepsEvents

\* Opening a subscription is remembering it and replaying to it (subscribe).
LEMMA SubscribeKeeps ==
    ASSUME NEW r, RelayOK(r), NEW req \in Requests
    PROVE  Keeps(r, Subscribe(r, req[1], req[2]))
<1> DEFINE kept == Remember(r, req[1], req[2])
           next == Subscribe(r, req[1], req[2])
<1>1. RelayOK(kept) /\ kept.events = r.events
  BY RememberKeeps
<1>2. next = ReplaySubscription(kept, req[1], req[2]) /\ req[1] \in Subs
  BY DEF Subscribe, Subs
<1> HIDE DEF kept, next
<1>3. RelayOK(next) /\ next.events = kept.events
  BY <1>1, <1>2, ReplayKeeps
<1>4. Keeps(r, next)
  BY <1>1, <1>3, SameEventsKeep
<1> QED
  BY <1>4 DEF next

\* The relay's own messages (enqueue_notice, inject_closed, inject_auth_challenge,
\* inject_eose).
LEMMA MessageKeeps ==
    ASSUME NEW r, RelayOK(r), NEW output \in Outputs,
           output.kind \in {"eose"} \cup ControlKinds
    PROVE  Keeps(r, Enqueue(r, output).relay)
<1>1. output.kind /= "owned" /\ output.kind /= "stored"
  BY UplinkAssumption DEF NostrAssumption
<1>2. RelayOK(Enqueue(r, output).relay) /\ Enqueue(r, output).relay.events = r.events
  BY <1>1, EnqueueKeeps DEF Showable
<1> QED
  BY <1>2, SameEventsKeep

\* A step of the relay's side.
LEMMA RelayStepsKeep ==
    ASSUME RelayOK(relay)
    PROVE  \/ PeerPublish \/ OpenSubscription \/ RememberSubscription \/ Close
           \/ Reject \/ SendControl \/ SendEose \/ SendEvent \/ PopOutput
           => Keeps(relay, relay')
<1>1. ASSUME PeerPublish PROVE Keeps(relay, relay')
  <2>1. PICK p \in PeerPublishes : relay' = Publish(relay, p[1], FrameBuffer, p[2]).relay
    BY <1>1 DEF PeerPublish, RelayStep
  <2>2. p[1] \in Published
    BY DEF Published
  <2> DEFINE q == Publish(relay, p[1], FrameBuffer, p[2])
  <2>3. PublishSound(relay, p[1], FrameBuffer, p[2], q)
    BY <2>2, PublishKeeps
  <2> QED
    BY <2>1, <2>3 DEF PublishSound, Keeps
<1>2. ASSUME OpenSubscription PROVE Keeps(relay, relay')
  BY <1>2, SubscribeKeeps DEF OpenSubscription, RelayStep
<1>3. ASSUME RememberSubscription PROVE Keeps(relay, relay')
  <2>1. PICK r \in Requests : relay' = Remember(relay, r[1], r[2])
    BY <1>3 DEF RememberSubscription, RelayStep
  <2>2. RelayOK(Remember(relay, r[1], r[2])) /\ Remember(relay, r[1], r[2]).events = relay.events
    BY RememberKeeps
  <2> QED
    BY <2>1, <2>2, SameEventsKeep
<1>4. ASSUME Close PROVE Keeps(relay, relay')
  <2>1. PICK sub \in DOMAIN relay.subscriptions : relay' = CloseSubscription(relay, sub)
    BY <1>4 DEF Close, RelayStep
  <2>2. RelayOK(CloseSubscription(relay, sub)) /\ CloseSubscription(relay, sub).events = relay.events
    BY CloseKeeps
  <2> QED
    BY <2>1, <2>2, SameEventsKeep
<1>5. ASSUME Reject PROVE Keeps(relay, relay')
  <2>1. PICK status \in Rejections : relay' = [relay EXCEPT !.rejection = status]
    BY <1>5 DEF Reject, RelayStep, RejectNextPublish
  <2>2. status \in Refusals
    BY DEF Refusals
  <2> DEFINE next == [relay EXCEPT !.rejection = status]
  <2>3. RelayOK(next) /\ next.events = relay.events
    BY <2>2, RejectionKeeps
  <2> HIDE DEF next
  <2>4. relay' = next
    BY <2>1 DEF next
  <2> QED
    BY <2>3, <2>4, SameEventsKeep
<1>6. ASSUME SendControl PROVE Keeps(relay, relay')
  <2>1. PICK kind \in ControlKinds : relay' = Enqueue(relay, ControlOutput(kind)).relay
    BY <1>6 DEF SendControl, RelayStep
  <2> DEFINE output == ControlOutput(kind)
  <2>2. output \in Outputs /\ output.kind \in {"eose"} \cup ControlKinds
    BY OutputsMade
  <2> HIDE DEF output
  <2>3. Keeps(relay, Enqueue(relay, output).relay)
    BY <2>2, MessageKeeps
  <2> QED
    BY <2>1, <2>3 DEF output
<1>7. ASSUME SendEose PROVE Keeps(relay, relay')
  <2>1. PICK r \in Requests : relay' = Enqueue(relay, EoseOutput(r[1])).relay
    BY <1>7 DEF SendEose, RelayStep
  <2> DEFINE output == EoseOutput(r[1])
  <2>2. r[1] \in Subs
    BY DEF Subs
  <2>3. output \in Outputs /\ output.kind \in {"eose"} \cup ControlKinds
    BY <2>2, OutputsMade
  <2> HIDE DEF output
  <2>4. Keeps(relay, Enqueue(relay, output).relay)
    BY <2>3, MessageKeeps
  <2> QED
    BY <2>1, <2>4 DEF output
<1>8. ASSUME SendEvent PROVE Keeps(relay, relay')
  <2>1. PICK event \in InjectedEvents, r \in Requests :
           relay' = EnqueueEventOutput(relay, r[1], event)
    BY <1>8 DEF SendEvent, RelayStep
  <2>2. r[1] \in Subs
    BY DEF Subs
  <2> DEFINE next == EnqueueEventOutput(relay, r[1], event)
  <2>3. RelayOK(next) /\ next.events = relay.events
    BY <2>2, EventOutputKeeps
  <2> QED
    BY <2>1, <2>3, SameEventsKeep
<1>9. ASSUME PopOutput PROVE Keeps(relay, relay')
  <2>1. relay.outputs /= <<>> /\ relay' = ConsumeOutput(relay)
    BY <1>9 DEF PopOutput, RelayStep
  <2>2. RelayOK(ConsumeOutput(relay)) /\ ConsumeOutput(relay).events = relay.events
    BY <2>1, ConsumeKeeps
  <2> QED
    BY <2>1, <2>2, SameEventsKeep
<1> QED
  BY <1>1, <1>2, <1>3, <1>4, <1>5, <1>6, <1>7, <1>8, <1>9, Zenon

\* A poll takes the head away or leaves everything as it was.
LEMMA PollsKeep ==
    ASSUME RelayOK(relay), PollControl \/ \E room \in PollBuffers : PollEvent(room)
    PROVE  Keeps(relay, relay')
<1>1. relay.outputs /= <<>> /\ (relay' = relay \/ relay' = ConsumeOutput(relay))
  BY DEF PollControl, PollEvent
<1>2. RelayOK(ConsumeOutput(relay)) /\ ConsumeOutput(relay).events = relay.events
  BY <1>1, ConsumeKeeps
<1> QED
  BY <1>1, <1>2, SameEventsKeep

\* A send keeps the relay sound, and acknowledges only what is stored.
LEMMA SendKeeps ==
    ASSUME RelayOK(relay), NEW frame \in Frames, NEW now_ms \in SendTimes,
           SendNostrBytes(frame, now_ms)
    PROVE  /\ Keeps(relay, relay')
           /\ \/ acknowledged' = acknowledged
              \/ acknowledged' = acknowledged \cup {frame} /\ Stored(relay', frame)
<1> DEFINE p == Publish(relay, Made(frame, now_ms).event, FrameBuffer, EnvelopeKind)
<1>1. /\ Made(frame, now_ms).error = "none" /\ relay' = p.relay
      /\ acknowledged' = IF SendResult(p.outcome) = "Ok"
                         THEN acknowledged \cup {frame} ELSE acknowledged
  BY DEF SendNostrBytes, Made
<1>2. SendSound(relay, frame, p)
  BY <1>1, SentIsStored
<1> HIDE DEF p
<1> QED
  BY <1>1, <1>2 DEF SendSound, Keeps

\* Every step.
NostrOK == RelayOK(relay) /\ \A frame \in acknowledged : Stored(relay, frame)
LEMMA NostrStep ==
    ASSUME NostrOK, [Next]_vars
    PROVE  NostrOK'
<1>0. RelayOK(relay) /\ \A frame \in acknowledged : Stored(relay, frame)
  BY DEF NostrOK
<1>1. CASE relay' = relay /\ acknowledged' = acknowledged
  <2>1. RelayOK(relay') /\ \A frame \in acknowledged' : Stored(relay', frame)
    BY <1>0, <1>1
  <2> QED
    BY <2>1 DEF NostrOK
<1>2. CASE Keeps(relay, relay') /\ acknowledged' = acknowledged
  BY <1>0, <1>2, StoredStays DEF Keeps, NostrOK
<1>3. CASE \E frame \in Frames, now_ms \in SendTimes : SendNostrBytes(frame, now_ms)
  <2>1. PICK frame \in Frames, now_ms \in SendTimes : SendNostrBytes(frame, now_ms)
    BY <1>3
  <2>2. /\ Keeps(relay, relay')
        /\ \/ acknowledged' = acknowledged
           \/ acknowledged' = acknowledged \cup {frame} /\ Stored(relay', frame)
    BY <1>0, <2>1, SendKeeps
  <2>3. RelayOK(relay') /\ \A f \in acknowledged : Stored(relay', f)
    BY <1>0, <2>2, StoredStays DEF Keeps
  <2> QED
    BY <2>2, <2>3 DEF NostrOK
<1>4. CASE /\ UNCHANGED acknowledged
           /\ PollControl \/ \E room \in PollBuffers : PollEvent(room)
  BY <1>0, <1>2, <1>4, PollsKeep
<1>5. CASE /\ UNCHANGED acknowledged
           /\ \/ PeerPublish \/ OpenSubscription \/ RememberSubscription \/ Close
              \/ Reject \/ SendControl \/ SendEose \/ SendEvent \/ PopOutput
  BY <1>0, <1>2, <1>5, RelayStepsKeep
<1>6. CASE SetNostrUp
  BY <1>1, <1>6 DEF SetNostrUp
<1>7. CASE UNCHANGED nostrVars
  BY <1>1, <1>7 DEF nostrVars
<1>8. NostrNext \/ UNCHANGED nostrVars
  BY DEF Next, vars
<1>9. ASSUME PollControl \/ \E room \in PollBuffers : PollEvent(room)
      PROVE  UNCHANGED acknowledged
  BY <1>9 DEF PollControl, PollEvent
<1>10. ASSUME \/ PeerPublish \/ OpenSubscription \/ RememberSubscription \/ Close
              \/ Reject \/ SendControl \/ SendEose \/ SendEvent \/ PopOutput
       PROVE  UNCHANGED acknowledged
  BY <1>10, Zenon DEF PeerPublish, OpenSubscription, RememberSubscription, Close, Reject,
     SendControl, SendEose, SendEvent, PopOutput, RelayStep
<1> QED
  BY <1>3, <1>4, <1>5, <1>6, <1>7, <1>8, <1>9, <1>10, Zenon DEF NostrNext

\* The empty relay (FakeNostrRelay::new).
LEMMA NewRelayOK == RelayOK(NewRelay)
<1> DEFINE r == NewRelay
<1>1. /\ r.events = <<>> /\ r.outputs = <<>> /\ r.subscriptions = <<>>
      /\ r.output_events = [s \in 1..OutputCapacity |-> NoEvent]
      /\ r.rejection = "none" /\ r.queued = 0 /\ r.active = 0
  BY DEF NewRelay
<1>2. r = [events |-> r.events, subscriptions |-> r.subscriptions, outputs |-> r.outputs,
           output_events |-> r.output_events, rejection |-> r.rejection,
           queued |-> r.queued, active |-> r.active]
  BY DEF NewRelay
<1> HIDE DEF r
<1>3. r.subscriptions \in Subscriptions /\ DOMAIN r.subscriptions = {}
  <2>1. DOMAIN r.subscriptions = {}
    BY <1>1
  <2>2. r.subscriptions = [s \in {} |-> {}]
    BY <1>1, <2>1
  <2>3. r.subscriptions \in [{} -> {q[2] : q \in Requests}]
    BY <2>2
  <2> QED
    BY <2>1, <2>3 DEF Subscriptions
<1>4. r \in Relays
  <2>1. r.events \in Seq(Published) /\ r.outputs \in Seq(Outputs)
    BY <1>1
  <2>2. r.output_events \in OwnedEvents /\ r.rejection \in Refusals
    BY <1>1 DEF OwnedEvents, Refusals
  <2>3. r.queued \in Int /\ r.active \in Int
    BY <1>1
  <2> QED
    BY <1>2, <1>3, <2>1, <2>2, <2>3 DEF Relays
<1>5. OutputsShowable(r) /\ SlotsOwned(r) /\ r.queued = Len(r.outputs)
  BY <1>1 DEF OutputsShowable, SlotsOwned
<1>6. IdsDistinct(r) /\ EventsVerified(r)
  BY <1>1 DEF IdsDistinct, EventsVerified
<1>7. SubscriptionsCounted(r)
  BY <1>1, <1>3, FS_EmptySet DEF SubscriptionsCounted
<1>8. Bounded(r)
  BY <1>1, UplinkAssumption DEF Bounded, NostrAssumption
<1>9. RelayOK(r)
  BY <1>4, <1>5, <1>6, <1>7, <1>8 DEF RelayOK
<1> QED
  BY <1>9 DEF r

\* The relay stays sound and what was acknowledged stays stored.
LEMMA NostrStaysOK == Spec => []NostrOK
<1>1. Init => NostrOK
  BY NewRelayOK DEF Init, NostrInit, NostrOK
<1>2. NostrOK /\ [Next]_vars => NostrOK'
  BY NostrStep
<1> QED
  BY <1>1, <1>2, PTL DEF Spec

\* A frame whose send returned Ok is in the relay for the recipient to
\* verify and decode, whatever was refused, repeated or did not fit
\* (send_link_bytes).
THEOREM AcknowledgedStaysStored == Spec => []AcknowledgedIsStored
<1>1. NostrOK => AcknowledgedIsStored
  BY DEF NostrOK, Stored, Carries, AcknowledgedIsStored
<1> QED
  BY <1>1, NostrStaysOK, PTL
\* The outputs that own a slot are as many as the slots that are occupied:
\* each names one, and no two the same.
LEMMA OwnedAreOccupied ==
    ASSUME NEW r, RelayOK(r)
    PROVE  LET owned == {i \in DOMAIN r.outputs : r.outputs[i].kind = "owned"}
               occupied == {s \in 1..OutputCapacity : r.output_events[s] /= NoEvent}
           IN  /\ {r.outputs[i].slot : i \in owned} = occupied
               /\ Cardinality(owned) = Cardinality(occupied)
<1> DEFINE owned == {i \in DOMAIN r.outputs : r.outputs[i].kind = "owned"}
           occupied == {s \in 1..OutputCapacity : r.output_events[s] /= NoEvent}
           slot == [i \in owned |-> r.outputs[i].slot]
<1> SUFFICES {r.outputs[i].slot : i \in owned} = occupied
             /\ Cardinality(owned) = Cardinality(occupied)
  OBVIOUS
<1>1. r.outputs \in Seq(Outputs) /\ SlotsOwned(r)
  BY DEF RelayOK, Relays
<1>2. DOMAIN r.outputs = 1..Len(r.outputs) /\ Len(r.outputs) \in Nat
      /\ \A i \in DOMAIN r.outputs : r.outputs[i] \in Outputs
  BY <1>1, LenProperties, ElementOfSeq
<1>3. \A i \in owned : Owns(r.outputs[i], r.outputs[i].slot)
                       /\ r.outputs[i].slot \in 1..OutputCapacity /\ i \in DOMAIN r.outputs
  BY <1>2, OutputKinds DEF Owns
<1>4. \A i \in owned : r.outputs[i].slot \in occupied
  BY <1>1, <1>3 DEF SlotsOwned
<1>5. \A s \in occupied : \E i \in owned : r.outputs[i].slot = s
  <2> TAKE s \in occupied
  <2>1. PICK i \in DOMAIN r.outputs : Owns(r.outputs[i], s)
    BY <1>1 DEF SlotsOwned
  <2> QED
    BY <2>1 DEF Owns
<1>6. \A i, j \in owned : r.outputs[i].slot = r.outputs[j].slot => i = j
  BY <1>1, <1>3 DEF SlotsOwned
<1>7. IsFiniteSet(owned)
  <2>1. IsFiniteSet(1..Len(r.outputs))
    BY <1>2, FS_Interval
  <2> QED
    BY <1>2, <2>1, FS_Subset
<1> HIDE DEF owned, occupied
<1>8. slot \in Bijection(owned, occupied)
  <2>1. slot \in [owned -> occupied]
    BY <1>4
  <2>2. slot \in Injection(owned, occupied)
    BY <1>6, <2>1 DEF Injection, IsInjective
  <2>3. slot \in Surjection(owned, occupied)
    BY <1>5, <2>1 DEF Surjection
  <2> QED
    BY <2>2, <2>3 DEF Bijection
<1>9. Cardinality(owned) = Cardinality(occupied)
  BY <1>7, <1>8, FS_Bijection DEF ExistsBijection
<1>10. {r.outputs[i].slot : i \in owned} = occupied
  BY <1>4, <1>5
<1> QED
  BY <1>9, <1>10

\* Whatever was published, retried, injected and read: the queue, the slots
\* that it owns, the stored events and the counters agree (FakeNostrRelay).
THEOREM RelayStaysSound == Spec => []RelaySound
<1>1. NostrOK => RelaySound
  <2> SUFFICES ASSUME NostrOK PROVE RelaySound
    OBVIOUS
  <2>1. RelayOK(relay)
    BY DEF NostrOK
  <2> DEFINE owned == {i \in DOMAIN relay.outputs : relay.outputs[i].kind = "owned"}
             occupied == {s \in 1..OutputCapacity : relay.output_events[s] /= NoEvent}
  <2>2. /\ {relay.outputs[i].slot : i \in owned} = occupied
        /\ Cardinality(owned) = Cardinality(occupied)
    BY <2>1, OwnedAreOccupied
  <2>3. /\ \A i \in DOMAIN relay.outputs :
              relay.outputs[i].kind = "stored" =>
                  relay.outputs[i].index \in DOMAIN relay.events
        /\ \A i, j \in DOMAIN relay.events :
              relay.events[i].id = relay.events[j].id => i = j
        /\ relay.queued = Len(relay.outputs)
        /\ relay.active = Cardinality(DOMAIN relay.subscriptions)
    BY <2>1 DEF RelayOK, OutputsShowable, Showable, IdsDistinct, SubscriptionsCounted
  <2> QED
    BY <2>2, <2>3 DEF RelaySound
<1> QED
  BY <1>1, NostrStaysOK, PTL

\* What an event says does not depend on the buffer it is read into: one
\* that decodes does so in the largest, and one that fails for another
\* reason than the buffer fails in the largest too (decode_relay_event).
LEMMA LargestBufferDecides ==
    ASSUME NEW event, event.content.chars \in Nat, NEW room \in Nat
    PROVE  LET small == VerifyAndDecode(event, room)
               large == VerifyAndDecode(event, MaxEnvelopeBytes)
           IN  /\ small.error = "none" => large.error = "none"
               /\ small.error \notin {"none", "OutputTooSmall"} => large.error /= "none"
<1> DEFINE content == event.content
           d(n) == DecodeContent(content, n)
           v(n) == VerifyAndDecode(event, n)
           max == MaxEnvelopeBytes
           Passes == /\ VerifyError(event) = "none" /\ event.kind = EnvelopeKind
                     /\ HasPTag(event.tags)
<1> SUFFICES /\ v(room).error = "none" => v(max).error = "none"
             /\ v(room).error \notin {"none", "OutputTooSmall"} => v(max).error /= "none"
  OBVIOUS
<1>0. max \in Nat /\ content.chars \in Nat
  BY UplinkAssumption DEF NostrAssumption
<1>1. ~Passes => v(max).error /= "none" /\ v(room).error /= "none"
  BY DEF VerifyAndDecode
<1>2. ASSUME NEW n, Passes
      PROVE  v(n) = IF d(n).error /= "none" THEN d(n)
                    ELSE IF ~d(n).frame.envelope THEN [error |-> "MalformedEnvelope"]
                    ELSE d(n)
  BY <1>2 DEF VerifyAndDecode
<1>3. ASSUME ContentFits(content)
      PROVE  content.chars \div 2 <= max
  BY <1>0, <1>3 DEF ContentFits, MaxContentChars
<1>4. d(room).error = "none" => d(max) = d(room)
  <2> SUFFICES ASSUME d(room).error = "none" PROVE d(max) = d(room)
    OBVIOUS
  <2>1. ContentFits(content)
    BY DEF DecodeContent
  <2>2. d(room) = DecodeHex(content, room) /\ d(max) = DecodeHex(content, max)
    BY <2>1 DEF DecodeContent
  <2>3. content.chars % 2 = 0 /\ content.hex = "lower"
    BY <2>2 DEF DecodeHex
  <2>4. ~(room < content.chars \div 2)
    BY <2>2 DEF DecodeHex
  <2>5. ~(max < content.chars \div 2)
    BY <1>0, <1>3, <2>1
  <2> QED
    BY <2>2, <2>3, <2>4, <2>5 DEF DecodeHex
<1>5. d(room).error \notin {"none", "OutputTooSmall"} => d(max).error /= "none"
  <2> SUFFICES ASSUME d(room).error \notin {"none", "OutputTooSmall"}
               PROVE  d(max).error /= "none"
    OBVIOUS
  <2>1. CASE ~ContentFits(content)
    BY <2>1 DEF DecodeContent
  <2>2. CASE ContentFits(content)
    <3>1. d(room) = DecodeHex(content, room) /\ d(max) = DecodeHex(content, max)
      BY <2>2 DEF DecodeContent
    <3>2. content.chars % 2 /= 0 \/ content.hex /= "lower"
      BY <3>1 DEF DecodeHex
    <3> QED
      BY <3>1, <3>2 DEF DecodeHex
  <2> QED
    BY <2>1, <2>2
<1> HIDE DEF d, v, Passes
<1>6. CASE ~Passes
  BY <1>1, <1>6
<1>7. CASE Passes
  <2>1. /\ v(room) = IF d(room).error /= "none" THEN d(room)
                     ELSE IF ~d(room).frame.envelope THEN [error |-> "MalformedEnvelope"]
                     ELSE d(room)
        /\ v(max) = IF d(max).error /= "none" THEN d(max)
                    ELSE IF ~d(max).frame.envelope THEN [error |-> "MalformedEnvelope"]
                    ELSE d(max)
    BY <1>2, <1>7
  <2>2. CASE d(room).error = "none"
    BY <1>4, <2>1, <2>2
  <2>3. CASE d(room).error /= "none"
    BY <1>5, <2>1, <2>3
  <2> QED
    BY <2>2, <2>3
<1> QED
  BY <1>6, <1>7

\* The event at the head of the queue is one that was published or injected.
LEMMA HeadIsEvent ==
    ASSUME NEW r, RelayOK(r), r.outputs /= <<>>, IsEvent(Head(r.outputs))
    PROVE  /\ EventOf(r, Head(r.outputs)).content.chars \in Nat
           /\ EventOf(r, Head(r.outputs)).created_at \in Nat
<1> DEFINE head == Head(r.outputs)
           event == EventOf(r, head)
<1>1. r.outputs \in Seq(Outputs) /\ r.events \in Seq(Published) /\ r.output_events \in OwnedEvents
  BY DEF RelayOK, Relays
<1>2. 1 \in DOMAIN r.outputs /\ head = r.outputs[1] /\ head \in Outputs
  BY <1>1
<1> HIDE DEF head
<1>3. CASE head.kind = "stored"
  <2>1. event = r.events[head.index] /\ head.index \in DOMAIN r.events
    BY <1>2, <1>3 DEF EventOf, RelayOK, OutputsShowable, Showable
  <2>2. event \in Published
    BY <1>1, <2>1, ElementOfSeq, LenProperties
  <2> HIDE DEF event
  <2>3. \A e \in Published \cup InjectedEvents : e.created_at \in Nat /\ e.content.chars \in Nat
    BY UplinkAssumption, Zenon DEF NostrAssumption
  <2>4. event.content.chars \in Nat /\ event.created_at \in Nat
    BY <2>2, <2>3
  <2> QED
    BY <2>4 DEF event, head
<1>4. CASE head.kind = "owned"
  <2>1. event = r.output_events[head.slot] /\ head.slot \in 1..OutputCapacity
    BY <1>2, <1>4, OutputKinds DEF EventOf
  <2>2. event /= NoEvent
    BY <1>2, <1>4, <2>1 DEF RelayOK, SlotsOwned, Owns
  <2>3. event \in InjectedEvents
    BY <1>1, <2>1, <2>2 DEF OwnedEvents
  <2> HIDE DEF event
  <2>4. \A e \in Published \cup InjectedEvents : e.created_at \in Nat /\ e.content.chars \in Nat
    BY UplinkAssumption, Zenon DEF NostrAssumption
  <2>5. event.content.chars \in Nat /\ event.created_at \in Nat
    BY <2>3, <2>4
  <2> QED
    BY <2>5 DEF event, head
<1> QED
  BY <1>3, <1>4 DEF IsEvent, head

\* What a poll shows of an event.
Judged(shown) ==
    shown.result \in {"frame", "Protocol"} =>
        (shown.result = "frame" <=>
            /\ VerifyAndDecode(shown.event, MaxEnvelopeBytes).error = "none"
            /\ shown.event.created_at * 1000 <= MaxU64)
LEMMA PollJudges ==
    ASSUME RelayOK(relay), NEW room \in PollBuffers, PollEvent(room)
    PROVE  Judged(poll')
<1> DEFINE event == EventOf(relay, Head(relay.outputs))
           decoded == DecodeRelayEvent(event, room)
           small == VerifyAndDecode(event, room)
           large == VerifyAndDecode(event, MaxEnvelopeBytes)
<1>1. /\ poll'.event = event
      /\ poll'.result = IF decoded.error = "none" THEN "frame" ELSE decoded.error
      /\ relay.outputs /= <<>> /\ IsEvent(Head(relay.outputs))
  BY DEF PollEvent
<1>2. room \in Nat /\ MaxU64 \in Nat
  BY UplinkAssumption DEF NostrAssumption
<1>3. event.content.chars \in Nat /\ event.created_at \in Nat
  BY <1>1, HeadIsEvent
<1> HIDE DEF event
<1>4. /\ small.error = "none" => large.error = "none"
      /\ small.error \notin {"none", "OutputTooSmall"} => large.error /= "none"
  BY <1>2, <1>3, LargestBufferDecides
<1>5. CASE event.created_at * 1000 > MaxU64
  <2>1. decoded.error = "Protocol"
    BY <1>5 DEF DecodeRelayEvent
  <2>2. ~(event.created_at * 1000 <= MaxU64)
    BY <1>2, <1>3, <1>5
  <2> QED
    BY <1>1, <2>1, <2>2 DEF Judged
<1>6. CASE ~(event.created_at * 1000 > MaxU64)
  <2>0. event.created_at * 1000 <= MaxU64
    BY <1>2, <1>3, <1>6
  <2>1. decoded.error = IF small.error = "none" THEN "none" ELSE ReceiveErrorKind(small.error)
    BY <1>6 DEF DecodeRelayEvent
  <2> HIDE DEF decoded, small, large
  <2>2. CASE small.error = "none"
    <3>1. poll'.result = "frame" /\ large.error = "none"
      BY <1>1, <1>4, <2>1, <2>2
    <3> QED
      BY <1>1, <2>0, <3>1 DEF Judged, large
  <2>3. CASE small.error = "OutputTooSmall"
    <3>1. poll'.result = "OutputTooSmall"
      BY <1>1, <2>1, <2>3 DEF ReceiveErrorKind
    <3> QED
      BY <3>1 DEF Judged
  <2>4. CASE small.error \notin {"none", "OutputTooSmall"}
    <3>1. poll'.result = "Protocol" /\ large.error /= "none"
      BY <1>1, <1>4, <2>1, <2>4 DEF ReceiveErrorKind
    <3> QED
      BY <1>1, <3>1 DEF Judged, large
  <2> QED
    BY <2>2, <2>3, <2>4
<1> QED
  BY <1>5, <1>6

\* A control message is never mistaken for an event.
LEMMA ControlJudges ==
    ASSUME RelayOK(relay), PollControl
    PROVE  Judged(poll')
<1>1. relay.outputs \in Seq(Outputs) /\ relay.outputs /= <<>>
      /\ poll'.result = Head(relay.outputs).kind
  BY DEF RelayOK, Relays, PollControl
<1>2. Head(relay.outputs) \in Outputs
  BY <1>1
<1>3. Head(relay.outputs).kind \in {"ok", "stored", "owned", "eose", "notice", "closed", "auth"}
  BY <1>2, OutputKinds
<1> QED
  BY <1>1, <1>3 DEF Judged

\* An event leaves the queue without becoming a frame only if no buffer
\* would have made it one, and nothing else is shown as a frame
\* (poll_relay_output).
THEOREM DroppedWasInvalid == Spec => []OnlyInvalidDropped
<1> DEFINE Inv == NostrOK /\ Judged(poll)
<1>1. Init => Inv
  <2>1. Init => NostrOK
    BY NewRelayOK DEF Init, NostrInit, NostrOK
  <2>2. Init => Judged(poll)
    BY DEF Init, NostrInit, NoPoll, Judged
  <2> QED
    BY <2>1, <2>2
<1>2. Inv /\ [Next]_vars => Inv'
  <2> SUFFICES ASSUME Inv, [Next]_vars PROVE Inv'
    OBVIOUS
  <2>1. NostrOK'
    BY NostrStep
  <2>2. RelayOK(relay)
    BY DEF NostrOK
  <2>3. ASSUME poll' = NoPoll PROVE Judged(poll')
    BY <2>3 DEF NoPoll, Judged
  <2>4. \/ poll' = poll \/ poll' = NoPoll \/ PollControl
        \/ \E room \in PollBuffers : PollEvent(room)
    BY ZenonT(40) DEF Next, vars, nostrVars, NostrNext, SendNostrBytes, SetNostrUp, PeerPublish,
       OpenSubscription, RememberSubscription, Close, Reject, SendControl, SendEose,
       SendEvent, PopOutput, RelayStep
  <2>5. Judged(poll')
    BY <2>2, <2>3, <2>4, PollJudges, ControlJudges, Zenon
  <2>6. Judged(poll)'
    BY <2>5 DEF Judged
  <2> QED
    BY <2>1, <2>6
<1>3. Inv => OnlyInvalidDropped
  BY DEF Judged, OnlyInvalidDropped
<1> QED
  BY <1>1, <1>2, <1>3, PTL DEF Spec

-----------------------------------------------------------------------------
(* What a subscription is answered with.                                   *)

\* The limits of the filters add up to a number (replay_limit).
LEMMA LimitIsNumber ==
    ASSUME NEW req \in Requests
    PROVE  ReplayLimit(req[2]) \in Int
<1> DEFINE filters == req[2]
           K == Len(filters)
<1>0. K \in Nat /\ \A n \in 1..K : filters[n].limit \in Int
  BY UplinkAssumption DEF NostrAssumption
<1> HIDE DEF filters
<1> DEFINE Rec(f) == f = [n \in 0..K |-> IF n = 0 THEN 0 ELSE f[n - 1] + filters[n].limit]
           step == [n \in 1..K |-> [v \in Int |-> v + filters[n].limit]]
<1>1. IsStep(step, K, Int)
  BY <1>0 DEF IsStep
<1>2. PICK f : FollowsStep(f, K, Int, 0, step)
  <2> DEFINE V == Int
             base == 0
  <2>1. base \in V /\ K \in Nat /\ IsStep(step, K, V)
    BY <1>0, <1>1
  <2> HIDE DEF step, K, V, base
  <2>2. \E f : FollowsStep(f, K, V, base, step)
    BY <2>1, RecursionUpTo
  <2> QED
    BY <2>2 DEF V, base
<1>3. f \in [0..K -> Int] /\ f[0] = 0 /\ \A n \in 1..K : f[n] = step[n][f[n - 1]]
  BY <1>2 DEF FollowsStep
<1>4. ASSUME NEW n \in 1..K PROVE f[n] = f[n - 1] + filters[n].limit
  <2>1. f[n - 1] \in Int
    BY <1>0, <1>3
  <2> QED
    BY <1>3, <2>1
<1>5. Rec(f)
  <2>1. \A n \in 0..K : f[n] = IF n = 0 THEN 0 ELSE f[n - 1] + filters[n].limit
    BY <1>0, <1>3, <1>4
  <2> QED
    BY <1>3, <2>1
<1> DEFINE g == CHOOSE h : Rec(h)
<1>6. Rec(g)
  <2> HIDE DEF Rec
  <2> QED
    BY <1>5
<1>7. ReplayLimit(filters) = -1 \/ ReplayLimit(filters) = g[K]
  BY DEF ReplayLimit
<1> HIDE DEF g
<1>8. \A n \in 0..K : g[n] = IF n = 0 THEN 0 ELSE g[n - 1] + filters[n].limit
  BY <1>6
<1> HIDE DEF Rec
<1> DEFINE P == {n \in 0..K : g[n] \in Int}
<1>9. 0 \in P
  BY <1>0, <1>8
<1>10. ASSUME NEW n \in 0..(K - 1), n \in P PROVE n + 1 \in P
  <2>1. n + 1 \in 1..K /\ n + 1 \in 0..K /\ (n + 1) - 1 = n /\ n + 1 /= 0
    BY <1>0
  <2>2. g[n + 1] = g[n] + filters[n + 1].limit
    BY <1>8, <2>1
  <2> QED
    BY <1>0, <1>10, <2>1, <2>2
<1> HIDE DEF P
<1>11. K \in P
  <2>1. \A n \in 0..K : n \in P
    <3> HIDE DEF K
    <3> QED
      BY <1>0, <1>9, <1>10, UpTo
  <2> QED
    BY <1>0, <2>1
<1>12. ReplayLimit(filters) \in Int
  BY <1>7, <1>11 DEF P
<1> QED
  BY <1>12 DEF filters

\* The rank of an event among those of M, and the events of the first ranks.
Rank(events, M, i) == Cardinality({j \in M : SortsBefore(events[j], events[i])})
FirstRanks(events, M, n) == {i \in M : Rank(events, M, i) < n}
\* Events with an id each, and the positions of some of them.
Ranked(events, M) ==
    /\ events \in Seq(Published)
    /\ \A i, j \in DOMAIN events : events[i].id = events[j].id => i = j
    /\ M \subseteq DOMAIN events

\* What sorts before has the smaller rank; no two have the same.
LEMMA RanksOrder ==
    ASSUME NEW events, NEW M, Ranked(events, M), NEW i \in M, NEW j \in M
    PROVE  /\ Rank(events, M, i) \in Nat /\ Rank(events, M, i) < Cardinality(M)
           /\ Cardinality(M) \in Nat /\ Cardinality(M) <= Len(events)
           /\ SortsBefore(events[i], events[j]) => Rank(events, M, i) < Rank(events, M, j)
           /\ Rank(events, M, i) = Rank(events, M, j) => i = j
<1> DEFINE Below(k) == {l \in M : SortsBefore(events[l], events[k])}
<1>1. DOMAIN events = 1..Len(events) /\ Len(events) \in Nat
      /\ \A k \in M : k \in DOMAIN events /\ events[k] \in Published
  BY LenProperties, ElementOfSeq DEF Ranked
<1>2. IsFiniteSet(M) /\ Cardinality(M) <= Len(events)
  <2>1. M \in SUBSET (1..Len(events))
    BY <1>1
  <2>2. IsFiniteSet(1..Len(events)) /\ Cardinality(1..Len(events)) = Len(events)
    <3> DEFINE a == 1
               b == Len(events)
    <3>1. a \in Int /\ b \in Int
      BY <1>1
    <3> HIDE DEF a, b
    <3>2. IsFiniteSet(a..b) /\ Cardinality(a..b) = IF a > b THEN 0 ELSE b - a + 1
      BY <3>1, FS_Interval
    <3> QED
      BY <1>1, <3>2 DEF a, b
  <2> QED
    BY <2>1, <2>2, FS_Subset
<1>3. \A k \in M : IsFiniteSet(Below(k)) /\ Cardinality(Below(k)) \in Nat
  <2> TAKE k \in M
  <2>1. Below(k) \in SUBSET M
    OBVIOUS
  <2> HIDE DEF Below
  <2> QED
    BY <1>2, <2>1, FS_Subset, FS_CardinalityType
<1>4. ASSUME NEW k \in M, NEW l \in M, SortsBefore(events[k], events[l])
      PROVE  Cardinality(Below(k)) < Cardinality(Below(l))
  <2>1. events[k] \in Published /\ events[l] \in Published
    BY <1>1
  <2>2. k \notin Below(k)
    BY <2>1, SortsBeforeOrders
  <2>3. Below(k) \cup {k} \in SUBSET Below(l)
    <3>1. ASSUME NEW m \in Below(k) PROVE m \in Below(l)
      <4>1. events[m] \in Published /\ SortsBefore(events[m], events[k])
        BY <1>1
      <4>2. SortsBefore(events[m], events[l])
        BY <1>4, <2>1, <4>1, SortsBeforeOrders
      <4> QED
        BY <4>2
    <3>2. k \in Below(l)
      BY <1>4
    <3> QED
      BY <3>1, <3>2
  <2> DEFINE A == Below(k)
             B == Below(l)
  <2>4. k \notin A /\ A \cup {k} \in SUBSET B /\ IsFiniteSet(A) /\ IsFiniteSet(B)
        /\ Cardinality(A) \in Nat /\ Cardinality(B) \in Nat
    BY <1>3, <2>2, <2>3
  <2> HIDE DEF A, B
  <2>5. Cardinality(A \cup {k}) = Cardinality(A) + 1
    BY <2>4, FS_AddElement
  <2>6. Cardinality(A \cup {k}) <= Cardinality(B)
    BY <2>4, FS_Subset
  <2>7. Cardinality(A) < Cardinality(B)
    BY <2>4, <2>5, <2>6
  <2> QED
    BY <2>7 DEF A, B
<1>5. Cardinality(Below(i)) < Cardinality(M) /\ Cardinality(M) \in Nat
  <2> DEFINE A == Below(i)
  <2>1. i \notin A
    BY <1>1, SortsBeforeOrders
  <2>2. A \in SUBSET M /\ A /= M /\ Cardinality(A) \in Nat
    BY <1>3, <2>1
  <2> HIDE DEF A
  <2>3. Cardinality(A) <= Cardinality(M) /\ Cardinality(A) /= Cardinality(M)
    BY <1>2, <2>2, FS_Subset
  <2>4. Cardinality(M) \in Nat
    BY <1>2, FS_CardinalityType
  <2>5. Cardinality(A) < Cardinality(M)
    BY <2>2, <2>3, <2>4
  <2> QED
    BY <2>4, <2>5 DEF A
<1>6. ASSUME i /= j PROVE Cardinality(Below(i)) /= Cardinality(Below(j))
  <2>1. events[i].id /= events[j].id /\ events[i] \in Published /\ events[j] \in Published
    BY <1>1, <1>6 DEF Ranked
  <2>2. SortsBefore(events[i], events[j]) \/ SortsBefore(events[j], events[i])
    BY <2>1, SortsBeforeOrders
  <2> HIDE DEF Below
  <2> QED
    BY <1>3, <1>4, <2>2
<1>7. Rank(events, M, i) = Cardinality(Below(i)) /\ Rank(events, M, j) = Cardinality(Below(j))
  BY DEF Rank
<1> HIDE DEF Below
<1> QED
  BY <1>2, <1>3, <1>4, <1>5, <1>6, <1>7

\* The first of the events that have not had their turn has the next rank.
NextInTurn(events, M, n, next) ==
    /\ Rank(events, M, next) = n
    /\ FirstRanks(events, M, n + 1) = FirstRanks(events, M, n) \cup {next}
    /\ Cardinality(FirstRanks(events, M, n + 1)) = n + 1
LEMMA FirstIsNext ==
    ASSUME NEW events, NEW M, Ranked(events, M), NEW n \in Nat,
           Cardinality(FirstRanks(events, M, n)) = n,
           NEW next \in M \ FirstRanks(events, M, n),
           ComesFirst(events, M \ FirstRanks(events, M, n), next)
    PROVE  NextInTurn(events, M, n, next)
<1> DEFINE F == FirstRanks(events, M, n)
           R(i) == Rank(events, M, i)
           Below == {j \in M : SortsBefore(events[j], events[next])}
<1>0. /\ \A i \in M : R(i) \in Nat
      /\ \A i, j \in M : SortsBefore(events[i], events[j]) => R(i) < R(j)
      /\ \A i, j \in M : R(i) = R(j) => i = j
  BY RanksOrder
<1>1. \A i \in M : events[i] \in Published /\ i \in DOMAIN events
  BY ElementOfSeq, LenProperties DEF Ranked
<1>2. F = {i \in M : R(i) < n} /\ next \in M /\ next \notin F
  BY DEF FirstRanks
<1>3. R(next) = Cardinality(Below)
  BY DEF Rank
<1> HIDE DEF F, R
<1>4. R(next) >= n
  BY <1>0, <1>2
<1>5. Below = F
  <2>1. ASSUME NEW j \in F PROVE j \in Below
    <3>1. j \in M /\ R(j) < n /\ j /= next
      BY <1>2
    <3>2. events[j].id /= events[next].id
      BY <1>1, <1>2, <3>1 DEF Ranked
    <3>3. SortsBefore(events[j], events[next]) \/ SortsBefore(events[next], events[j])
      BY <1>1, <1>2, <3>1, <3>2, SortsBeforeOrders
    <3>4. ~SortsBefore(events[next], events[j])
      <4>1. SortsBefore(events[next], events[j]) => R(next) < R(j)
        BY <1>0, <1>2, <3>1
      <4> QED
        BY <1>0, <1>2, <1>4, <3>1, <4>1
    <3> QED
      BY <3>1, <3>3, <3>4
  <2>2. ASSUME NEW j \in Below PROVE j \in F
    <3>1. j \in M /\ SortsBefore(events[j], events[next])
      OBVIOUS
    <3>2. j /= next
      BY <1>1, <1>2, <3>1, SortsBeforeOrders
    <3>3. CASE j \notin F
      BY <3>1, <3>2, <3>3 DEF ComesFirst, F
    <3> QED
      BY <3>3
  <2> QED
    BY <2>1, <2>2
<1>6. R(next) = n
  BY <1>3, <1>5 DEF F
<1>7. FirstRanks(events, M, n + 1) = F \cup {next}
  <2>1. ASSUME NEW i \in M PROVE R(i) < n + 1 <=> i \in F \cup {next}
    <3>1. R(i) = n => i = next
      BY <1>0, <1>2, <1>6
    <3> QED
      BY <1>0, <1>2, <1>6, <3>1
  <2>2. F \cup {next} \subseteq M
    BY <1>2
  <2> QED
    BY <2>1, <2>2 DEF FirstRanks, R
<1>8. IsFiniteSet(F)
  <2>1. F \in SUBSET (1..Len(events)) /\ Len(events) \in Nat
    BY <1>1, <1>2, LenProperties DEF Ranked
  <2>2. IsFiniteSet(1..Len(events))
    BY <2>1, FS_Interval
  <2> QED
    BY <2>1, <2>2, FS_Subset
<1>9. Cardinality(F \cup {next}) = n + 1
  BY <1>2, <1>8, FS_AddElement DEF F
<1> QED
  BY <1>6, <1>7, <1>9 DEF NextInTurn, F, R

\* After k events: those of the first ranks were emitted, each in its turn, and
\* the limit was kept.
Emitted(events, M, limit, k, emitted) ==
    /\ k \in Nat /\ emitted = FirstRanks(events, M, k) /\ Cardinality(emitted) = k
    /\ k = 0 \/ limit = -1 \/ k - 1 < limit
\* The queue has grown by them.
Shown(events, M, sub, output, rank) ==
    \E i \in M : Rank(events, M, i) = rank /\ output = StoredEventOutput(sub, i)
InTurn(events, M, sub, old, outputs, k) ==
    /\ Len(outputs) = Len(old) + k
    /\ \A m \in 1..Len(old) : outputs[m] = old[m]
    /\ \A m \in 1..k : Shown(events, M, sub, outputs[Len(old) + m], m - 1)
\* Why the loop ended: nothing was left, the limit was met, or the queue was
\* full before that.
AllEmitted(events, M, limit, k) ==
    M = FirstRanks(events, M, k) \/ (limit /= -1 /\ k >= limit)
Stuck(limit, outputs, k) ==
    Len(outputs) >= OutputCapacity /\ (limit = -1 \/ k < limit)
Round(r, sub, filters, n, k, round) ==
    LET M == Matching(r.events, filters)
        limit == ReplayLimit(filters)
    IN  /\ Emitted(r.events, M, limit, k, round.emitted)
        /\ InTurn(r.events, M, sub, r.outputs, round.relay.outputs, k)
        /\ round.relay.subscriptions = r.subscriptions
        /\ round.state = "loop" => k = n
        /\ round.state = "end" => AllEmitted(r.events, M, limit, k)
        /\ round.state = "full" => Stuck(limit, round.relay.outputs, k)

\* One more event in its turn.
LEMMA OneMore ==
    ASSUME NEW events, NEW M, NEW limit \in Int, NEW k, NEW emitted, NEW sub \in Subs,
           Ranked(events, M), NEW old \in Seq(Outputs), NEW outputs \in Seq(Outputs),
           Emitted(events, M, limit, k, emitted),
           InTurn(events, M, sub, old, outputs, k),
           NEW next \in M \ emitted, ComesFirst(events, M \ emitted, next),
           limit = -1 \/ k < limit
    PROVE  /\ Emitted(events, M, limit, k + 1, emitted \cup {next})
           /\ InTurn(events, M, sub, old, Append(outputs, StoredEventOutput(sub, next)), k + 1)
<1>1. k \in Nat /\ emitted = FirstRanks(events, M, k) /\ Cardinality(emitted) = k
  BY DEF Emitted
<1>2. NextInTurn(events, M, k, next)
  BY <1>1, FirstIsNext
<1>3. next \in Nat
  <2>1. next \in DOMAIN events
    BY DEF Ranked
  <2> QED
    BY <2>1, LenProperties DEF Ranked
<1> DEFINE output == StoredEventOutput(sub, next)
           new == Append(outputs, output)
           L == Len(old)
<1>4. output \in Outputs
  BY <1>3, OutputsMade
<1>5. Shown(events, M, sub, output, k)
  BY <1>2 DEF Shown, NextInTurn
<1> HIDE DEF output
<1>6. /\ Len(new) = Len(outputs) + 1 /\ new[Len(outputs) + 1] = output
      /\ \A i \in 1..Len(outputs) : new[i] = outputs[i]
  BY <1>4, AppendProperties
<1> HIDE DEF new
<1>7. L \in Nat /\ Len(outputs) = L + k
  BY LenProperties DEF InTurn
<1>8. Emitted(events, M, limit, k + 1, emitted \cup {next})
  <2>1. k + 1 \in Nat /\ (k + 1) - 1 = k
    BY <1>1
  <2>2. /\ FirstRanks(events, M, k + 1) = emitted \cup {next}
        /\ Cardinality(emitted \cup {next}) = k + 1
    BY <1>1, <1>2 DEF NextInTurn
  <2> QED
    BY <2>1, <2>2 DEF Emitted
<1>9. \A m \in 1..L : new[m] = old[m]
  <2>1. \A m \in 1..L : m \in 1..Len(outputs) /\ outputs[m] = old[m]
    BY <1>1, <1>7 DEF InTurn
  <2> QED
    BY <1>6, <2>1
<1>10. ASSUME NEW m \in 1..(k + 1) PROVE Shown(events, M, sub, new[L + m], m - 1)
  <2>1. CASE m = k + 1
    <3>1. L + m = Len(outputs) + 1 /\ m - 1 = k
      BY <1>1, <1>7, <2>1
    <3> QED
      BY <1>5, <1>6, <3>1
  <2>2. CASE m \in 1..k
    <3>1. L + m \in 1..Len(outputs)
      BY <1>1, <1>7, <2>2
    <3>2. new[L + m] = outputs[L + m]
      BY <1>6, <3>1
    <3>3. Shown(events, M, sub, outputs[L + m], m - 1)
      BY <2>2 DEF InTurn
    <3> QED
      BY <3>2, <3>3
  <2> QED
    BY <1>1, <2>1, <2>2
<1>11. Len(new) = L + (k + 1)
  BY <1>1, <1>6, <1>7
<1>12. InTurn(events, M, sub, old, new, k + 1)
  BY <1>9, <1>10, <1>11 DEF InTurn
<1> QED
  BY <1>8, <1>12 DEF new, output

\* The loop emits in turn, round by round (replay_subscription).
LEMMA RoundsEmit ==
    ASSUME NEW r, RelayOK(r), NEW req \in Requests, NEW f,
           Replays(r, req[1], req[2], f)
    PROVE  \E k \in 0..EventCapacity :
              Round(r, req[1], req[2], EventCapacity, k, f[EventCapacity])
<1> DEFINE K == EventCapacity
           sub == req[1]
           filters == req[2]
           events == r.events
           M == Matching(events, filters)
           limit == ReplayLimit(filters)
           P == {n \in 0..K : \E k \in 0..n : Round(r, sub, filters, n, k, f[n])}
<1>0. K \in Nat /\ sub \in Subs /\ limit \in Int
  BY UplinkAssumption, LimitIsNumber DEF NostrAssumption, Subs
<1>1. Ranked(events, M) /\ events \in Seq(Published) /\ r.outputs \in Seq(Outputs)
  BY DEF RelayOK, Relays, Ranked, IdsDistinct, Matching
<1>2. \A n \in 0..K : f[n] \in Rounds /\ f[n].relay.outputs \in Seq(Outputs)
  <2>1. \A n \in 0..K : f[n] \in Rounds
    BY <1>0, RoundsKeep
  <2> QED
    BY <2>1 DEF Rounds, Relays
<1>3. 0 \in P
  <2>1. f[0] = ReplayStart(r)
    BY DEF Replays
  <2>2. f[0].relay = r /\ f[0].emitted = {} /\ f[0].state = "loop"
    BY <2>1 DEF ReplayStart
  <2>3. FirstRanks(events, M, 0) = {}
    BY <1>1, RanksOrder DEF FirstRanks
  <2>4. Emitted(events, M, limit, 0, {})
    BY <2>3, FS_EmptySet DEF Emitted
  <2>5. InTurn(events, M, sub, r.outputs, r.outputs, 0)
    BY <1>1, LenProperties DEF InTurn
  <2>6. Round(r, sub, filters, 0, 0, f[0])
    BY <2>2, <2>4, <2>5 DEF Round
  <2> QED
    BY <1>0, <2>6
<1>4. ASSUME NEW n \in 0..(K - 1), n \in P PROVE n + 1 \in P
  <2> DEFINE last == f[n]
             next == NextReplayEvent(r, filters, last.emitted)
             output == StoredEventOutput(sub, next)
             queued == Enqueue(last.relay, output)
             left == M \ last.emitted
             new == f[n + 1]
  <2>0. n + 1 \in 1..K /\ n + 1 \in 0..K /\ (n + 1) - 1 = n /\ n \in 0..K /\ n \in Nat
    BY <1>0
  <2>1. new = ReplayStep(r, sub, filters, last)
    BY <2>0 DEF Replays
  <2>2. PICK k \in 0..n : Round(r, sub, filters, n, k, last)
    BY <1>4
  <2>3. /\ Emitted(events, M, limit, k, last.emitted)
        /\ InTurn(events, M, sub, r.outputs, last.relay.outputs, k)
        /\ last.relay.subscriptions = r.subscriptions
    BY <2>2 DEF Round
  <2>4. \/ left = {} /\ next = 0
        \/ next \in left /\ ComesFirst(events, left, next)
    BY <1>1, ScanFindsFirst
  <2>5. 0 \notin M
    BY <1>1, LenProperties DEF Matching
  <2>6. last \in Rounds /\ last.relay \in Relays /\ last.relay.outputs \in Seq(Outputs)
    BY <1>2, <2>0 DEF Rounds
  <2>7. k \in Nat /\ Cardinality(last.emitted) = k /\ last.emitted = FirstRanks(events, M, k)
        /\ k \in 0..(n + 1) /\ k + 1 \in 0..(n + 1)
    BY <2>0, <2>3 DEF Emitted
  <2>8. CASE last.state /= "loop"
    <3>1. new = last
      BY <2>1, <2>8 DEF ReplayStep
    <3>2. Round(r, sub, filters, n + 1, k, new)
      BY <2>2, <2>8, <3>1 DEF Round
    <3> QED
      BY <2>0, <2>7, <3>2
  <2>9. CASE last.state = "loop" /\ (next = 0 \/ (limit /= -1 /\ k >= limit))
    <3>1. new = [last EXCEPT !.state = "end"]
      BY <2>1, <2>7, <2>9 DEF ReplayStep
    <3>2. new.relay = last.relay /\ new.emitted = last.emitted /\ new.state = "end"
      BY <2>6, <3>1 DEF Rounds
    <3>3. AllEmitted(events, M, limit, k)
      <4>1. CASE limit /= -1 /\ k >= limit
        BY <4>1 DEF AllEmitted
      <4>2. CASE next = 0
        <5>1. left = {}
          BY <2>4, <2>5, <4>2
        <5>2. M \subseteq FirstRanks(events, M, k)
          BY <2>7, <5>1
        <5> QED
          BY <5>2 DEF AllEmitted, FirstRanks
      <4> QED
        BY <2>9, <4>1, <4>2
    <3>4. Round(r, sub, filters, n + 1, k, new)
      BY <2>3, <3>2, <3>3 DEF Round
    <3> QED
      BY <2>0, <2>7, <3>4
  <2>10. CASE last.state = "loop" /\ ~(next = 0 \/ (limit /= -1 /\ k >= limit)) /\ queued.full
    <3>1. new = [last EXCEPT !.state = "full"]
      BY <2>1, <2>7, <2>10 DEF ReplayStep
    <3>2. new.relay = last.relay /\ new.emitted = last.emitted /\ new.state = "full"
      BY <2>6, <3>1 DEF Rounds
    <3>3. Len(last.relay.outputs) >= OutputCapacity
      BY <2>10 DEF Enqueue
    <3>4. limit = -1 \/ k < limit
      BY <1>0, <2>7, <2>10
    <3>5. Stuck(limit, new.relay.outputs, k)
      BY <3>2, <3>3, <3>4 DEF Stuck
    <3>6. Round(r, sub, filters, n + 1, k, new)
      BY <2>3, <3>2, <3>5 DEF Round
    <3> QED
      BY <2>0, <2>7, <3>6
  <2>11. CASE last.state = "loop" /\ ~(next = 0 \/ (limit /= -1 /\ k >= limit)) /\ ~queued.full
    <3>1. new = [last EXCEPT !.relay = queued.relay, !.emitted = last.emitted \cup {next}]
      BY <2>1, <2>7, <2>11 DEF ReplayStep
    <3>2. /\ new.relay = queued.relay /\ new.emitted = last.emitted \cup {next}
          /\ new.state = "loop"
      BY <2>6, <2>11, <3>1 DEF Rounds
    <3>3. queued.relay = [last.relay EXCEPT !.outputs = Append(last.relay.outputs, output),
                                            !.queued = last.relay.queued + 1]
      BY <2>11 DEF Enqueue
    <3>4. /\ new.relay.outputs = Append(last.relay.outputs, output)
          /\ new.relay.subscriptions = r.subscriptions
      BY <2>3, <2>6, <3>2, <3>3 DEF Relays
    <3>5. limit = -1 \/ k < limit
      BY <1>0, <2>7, <2>11
    <3>6. next \in left /\ ComesFirst(events, left, next)
      BY <2>4, <2>11
    <3>7. k = n
      BY <2>2, <2>11 DEF Round
    <3> HIDE DEF new, last, next, M, limit, events, queued
    <3>8. /\ Emitted(events, M, limit, k + 1, last.emitted \cup {next})
          /\ InTurn(events, M, sub, r.outputs, Append(last.relay.outputs, output), k + 1)
      BY <1>0, <1>1, <2>3, <2>6, <3>5, <3>6, OneMore
    <3>9. Round(r, sub, filters, n + 1, k + 1, new)
      BY <3>2, <3>4, <3>7, <3>8 DEF Round, M, limit, events
    <3> QED
      BY <2>0, <2>7, <3>9 DEF new
  <2> QED
    BY <2>8, <2>9, <2>10, <2>11
<1> HIDE DEF P
<1>5. \A n \in 0..K : n \in P
  <2> HIDE DEF K
  <2> QED
    BY <1>0, <1>3, <1>4, UpTo
<1> QED
  BY <1>0, <1>5 DEF P

\* The events that a replay is to show, and those that it has shown when the
\* loop ended for another reason than a full queue.
WithinLimit(events, M, limit) == {i \in M : limit = -1 \/ Rank(events, M, i) < limit}
LEMMA KeptIsEmitted ==
    ASSUME NEW events, NEW M, NEW limit \in Int, NEW k, NEW emitted,
           Ranked(events, M), Emitted(events, M, limit, k, emitted)
    PROVE  /\ \A i \in emitted : i \in WithinLimit(events, M, limit)
           /\ AllEmitted(events, M, limit, k) => WithinLimit(events, M, limit) = emitted
<1> DEFINE kept == WithinLimit(events, M, limit)
<1>1. k \in Nat /\ emitted = FirstRanks(events, M, k) /\ (k = 0 \/ limit = -1 \/ k - 1 < limit)
  BY DEF Emitted
<1>2. \A i \in M : Rank(events, M, i) \in Nat
  BY RanksOrder
<1>3. ASSUME NEW i \in emitted PROVE i \in kept
  <2>1. i \in M /\ Rank(events, M, i) < k
    BY <1>1 DEF FirstRanks
  <2>2. limit = -1 \/ Rank(events, M, i) < limit
    BY <1>1, <1>2, <2>1
  <2> QED
    BY <2>1, <2>2 DEF WithinLimit
<1>4. ASSUME AllEmitted(events, M, limit, k), NEW i \in kept PROVE i \in emitted
  <2>1. i \in M /\ (limit = -1 \/ Rank(events, M, i) < limit)
    BY DEF WithinLimit
  <2>2. CASE M = FirstRanks(events, M, k)
    BY <1>1, <2>1, <2>2
  <2>3. CASE limit /= -1 /\ k >= limit
    <3>1. Rank(events, M, i) < k
      BY <1>1, <1>2, <2>1, <2>3
    <3> QED
      BY <1>1, <2>1, <3>1 DEF FirstRanks
  <2> QED
    BY <1>4, <2>2, <2>3 DEF AllEmitted
<1> HIDE DEF kept
<1>5. AllEmitted(events, M, limit, k) => kept = emitted
  BY <1>3, <1>4
<1> QED
  BY <1>3, <1>5 DEF kept

\* A loop that ran out has shown everything: there are no more events than
\* rounds.
LEMMA RanOut ==
    ASSUME NEW events, NEW M, Ranked(events, M), NEW k \in Nat, Len(events) <= k
    PROVE  M = FirstRanks(events, M, k)
<1>1. ASSUME NEW i \in M PROVE Rank(events, M, i) < k
  <2>1. /\ Rank(events, M, i) \in Nat /\ Rank(events, M, i) < Cardinality(M)
        /\ Cardinality(M) \in Nat /\ Cardinality(M) <= Len(events)
    BY RanksOrder
  <2>2. Len(events) \in Nat
    BY LenProperties DEF Ranked
  <2> QED
    BY <2>1, <2>2
<1> QED
  BY <1>1 DEF FirstRanks

\* The replay lists each event in the place of its rank.
LEMMA ReplayLists ==
    ASSUME NEW events, NEW filters, NEW sub, NEW output, NEW m \in Nat,
           Ranked(events, Matching(events, filters)),
           m \in 1..Cardinality(WithinLimit(events, Matching(events, filters), ReplayLimit(filters))),
           Shown(events, Matching(events, filters), sub, output, m - 1),
           \A i \in Matching(events, filters) :
              Rank(events, Matching(events, filters), i) = m - 1 =>
                 i \in WithinLimit(events, Matching(events, filters), ReplayLimit(filters))
    PROVE  m \in DOMAIN Replay(events, filters) /\ output = StoredEventOutput(sub, Replay(events, filters)[m])
<1> DEFINE M == Matching(events, filters)
           limit == ReplayLimit(filters)
           kept == WithinLimit(events, M, limit)
           list == Replay(events, filters)
<1>1. list = [n \in 1..Cardinality(kept) |-> CHOOSE i \in kept : Rank(events, M, i) = n - 1]
  BY DEF Replay, WithinLimit, Rank, Matching
<1>2. PICK i \in M : Rank(events, M, i) = m - 1 /\ output = StoredEventOutput(sub, i)
  BY DEF Shown
<1>3. i \in kept /\ kept \subseteq M
  BY <1>2 DEF WithinLimit
<1>4. \A j \in kept : Rank(events, M, j) = m - 1 => j = i
  BY <1>2, <1>3, RanksOrder
<1> HIDE DEF list, kept, M
<1>5. (CHOOSE j \in kept : Rank(events, M, j) = m - 1) = i
  BY <1>2, <1>3, <1>4
<1>6. m \in 1..Cardinality(kept)
  BY DEF kept, M
<1>7. m \in DOMAIN list /\ list[m] = i
  BY <1>1, <1>5, <1>6
<1> QED
  BY <1>2, <1>7 DEF list

\* A sequence that goes on from another one as a third begins.
Continues(new, old, whole, p) ==
    /\ p \in 0..Len(whole) /\ Len(new) = Len(old) + p
    /\ \A m \in 1..Len(old) : new[m] = old[m]
    /\ \A m \in 1..p : new[Len(old) + m] = whole[m]
LEMMA GoesOn ==
    ASSUME NEW S, NEW old \in Seq(S), NEW whole \in Seq(S), NEW new \in Seq(S),
           NEW p, Continues(new, old, whole, p)
    PROVE  new = old \o SubSeq(whole, 1, p)
<1> DEFINE part == SubSeq(whole, 1, p)
           cat == old \o part
           L == Len(old)
<1>0. L \in Nat /\ Len(whole) \in Nat /\ p \in Nat /\ p <= Len(whole)
  BY LenProperties DEF Continues
<1>1. /\ part \in Seq(S) /\ Len(part) = p
      /\ \A m \in 1..p : part[m] = whole[m]
  <2> DEFINE one == 1
  <2>1. one \in Int /\ p \in Int /\ \A i \in one..p : whole[i] \in S
    BY <1>0, LenProperties, ElementOfSeq
  <2> HIDE DEF one
  <2>2. /\ SubSeq(whole, one, p) \in Seq(S)
        /\ Len(SubSeq(whole, one, p)) = IF one <= p THEN p - one + 1 ELSE 0
        /\ \A i \in 1 .. p - one + 1 : SubSeq(whole, one, p)[i] = whole[one + i - 1]
    BY <2>1, SubSeqProperties
  <2> QED
    BY <1>0, <2>2 DEF one
<1> HIDE DEF part
<1>2. /\ cat \in Seq(S) /\ Len(cat) = L + p
      /\ \A i \in 1..(L + p) : cat[i] = IF i <= L THEN old[i] ELSE part[i - L]
  BY <1>1, ConcatProperties
<1> HIDE DEF cat
<1>3. ASSUME NEW i \in 1..(L + p) PROVE new[i] = cat[i]
  <2>1. CASE i <= L
    <3>1. i \in 1..L
      BY <1>0, <2>1
    <3> QED
      BY <1>2, <2>1, <3>1 DEF Continues
  <2>2. CASE ~(i <= L)
    <3>1. i - L \in 1..p /\ L + (i - L) = i
      BY <1>0, <2>2
    <3>2. cat[i] = part[i - L]
      BY <1>2, <2>2
    <3>3. new[L + (i - L)] = whole[i - L]
      BY <3>1 DEF Continues
    <3> QED
      BY <1>1, <3>1, <3>2, <3>3
  <2> QED
    BY <2>1, <2>2
<1>4. Len(new) = L + p
  BY DEF Continues
<1>5. new = cat
  BY <1>2, <1>3, <1>4, SeqEqual
<1> QED
  BY <1>5 DEF cat, part

\* Sequences over a set are sequences over a larger one.
LEMMA SeqGrows ==
    ASSUME NEW S, NEW T, S \subseteq T, NEW seq \in Seq(S)
    PROVE  seq \in Seq(T)
<1>1. Len(seq) \in Nat /\ seq \in [1..Len(seq) -> S]
  BY LenProperties
<1>2. seq \in [1..Len(seq) -> T]
  BY <1>1
<1> QED
  BY <1>1, <1>2

\* What a client that subscribes would get from an endless queue.
Whole(events, req) ==
    LET list == Replay(events, req[2])
    IN  Append([n \in DOMAIN list |-> StoredEventOutput(req[1], list[n])], EoseOutput(req[1]))
\* What it gets.
Answers(events, old, req, next) ==
    LET whole == Whole(events, req)
        room == OutputCapacity - Len(old)
    IN  /\ next.outputs = old \o SubSeq(whole, 1, IF Len(whole) < room THEN Len(whole) ELSE room)
        /\ req[1] \in DOMAIN next.subscriptions

\* That is one entry for each event that is to be shown, and one more.
LEMMA WholeEntries ==
    ASSUME NEW events, NEW req \in Requests,
           Ranked(events, Matching(events, req[2])), NEW c,
           c = Cardinality(WithinLimit(events, Matching(events, req[2]), ReplayLimit(req[2])))
    PROVE  /\ c \in Nat
           /\ \E S : Outputs \subseteq S /\ Whole(events, req) \in Seq(S)
           /\ Len(Whole(events, req)) = c + 1
           /\ Whole(events, req)[c + 1] = EoseOutput(req[1])
           /\ \A m \in 1..c : Whole(events, req)[m]
                                = StoredEventOutput(req[1], Replay(events, req[2])[m])
           /\ DOMAIN Replay(events, req[2]) = 1..c
<1> DEFINE M == Matching(events, req[2])
           kept == WithinLimit(events, M, ReplayLimit(req[2]))
           list == Replay(events, req[2])
           shown == [n \in DOMAIN list |-> StoredEventOutput(req[1], list[n])]
           eose == EoseOutput(req[1])
           S == Outputs \cup {shown[n] : n \in 1..c}
           whole == Append(shown, eose)
<1>1. list = [n \in 1..Cardinality(kept) |-> CHOOSE i \in kept : Rank(events, M, i) = n - 1]
  BY DEF Replay, WithinLimit, Rank, Matching
<1>2. c \in Nat
  <2>1. kept \in SUBSET (1..Len(events)) /\ Len(events) \in Nat
    BY LenProperties DEF WithinLimit, Ranked
  <2>2. IsFiniteSet(1..Len(events))
    BY <2>1, FS_Interval
  <2> HIDE DEF kept
  <2>3. IsFiniteSet(kept)
    BY <2>1, <2>2, FS_Subset
  <2> QED
    BY <2>3, FS_CardinalityType DEF kept
<1>3. DOMAIN list = 1..c
  BY <1>1
<1>4. eose \in Outputs
  BY OutputsMade DEF Subs
<1> HIDE DEF list, eose, kept, M
<1>5. DOMAIN shown = 1..c /\ \A n \in 1..c : shown[n] = StoredEventOutput(req[1], list[n])
  BY <1>3
<1>6. shown \in [1..c -> S]
  BY <1>3, <1>5
<1> HIDE DEF shown
<1>7. shown \in Seq(S) /\ Len(shown) = c
  BY <1>2, <1>5, <1>6
<1>8. eose \in S /\ Outputs \subseteq S
  BY <1>4
<1> HIDE DEF S
<1>9. /\ whole \in Seq(S) /\ Len(whole) = c + 1 /\ whole[c + 1] = eose
      /\ \A m \in 1..c : whole[m] = shown[m]
  BY <1>7, <1>8, AppendProperties
<1>10. whole = Whole(events, req)
  BY DEF Whole, shown, list, eose
<1> HIDE DEF whole
<1> QED
  BY <1>2, <1>3, <1>5, <1>8, <1>9, <1>10 DEF list, eose

\* The replay queues as much of that as there is room for, from its beginning
\* (replay_subscription).
LEMMA ReplayAnswers ==
    ASSUME NEW r, RelayOK(r), NEW req \in Requests, req[1] \in DOMAIN r.subscriptions
    PROVE  Answers(r.events, r.outputs, req, ReplaySubscription(r, req[1], req[2]))
<1> DEFINE sub == req[1]
           filters == req[2]
           events == r.events
           old == r.outputs
           M == Matching(events, filters)
           limit == ReplayLimit(filters)
           kept == WithinLimit(events, M, limit)
           list == Replay(events, filters)
           whole == Whole(events, req)
           c == Cardinality(kept)
           L == Len(old)
           room == OutputCapacity - L
           next == ReplaySubscription(r, sub, filters)
<1>0. /\ EventCapacity \in Nat /\ OutputCapacity \in Nat /\ sub \in Subs /\ limit \in Int
      /\ r \in Relays
  BY UplinkAssumption, LimitIsNumber DEF NostrAssumption, Subs, RelayOK
<1>1. PICK f : next = ReplayEnd(sub, f[EventCapacity]) /\ Replays(r, sub, filters, f)
  BY <1>0, ReplayIsRecursive
<1>2. PICK k \in 0..EventCapacity : Round(r, sub, filters, EventCapacity, k, f[EventCapacity])
  BY <1>1, RoundsEmit
<1> DEFINE done == f[EventCapacity]
           outs == done.relay.outputs
<1>3. done \in Rounds /\ RelayOK(done.relay)
  BY <1>0, <1>1, RoundsKeep
<1> HIDE DEF done
<1>4. /\ Emitted(events, M, limit, k, done.emitted)
      /\ InTurn(events, M, sub, old, outs, k)
      /\ done.relay.subscriptions = r.subscriptions
      /\ done.state = "loop" => k = EventCapacity
      /\ done.state = "end" => AllEmitted(events, M, limit, k)
  BY <1>2 DEF Round, done
<1>5. Ranked(events, M) /\ old \in Seq(Outputs) /\ L \in Nat /\ Len(events) <= EventCapacity
  BY LenProperties DEF RelayOK, Relays, Ranked, IdsDistinct, Matching, Bounded
<1>6. outs \in Seq(Outputs) /\ Len(outs) <= OutputCapacity /\ done.relay \in Relays
  BY <1>3 DEF RelayOK, Relays, Bounded
<1>7. PICK S : Outputs \subseteq S /\ whole \in Seq(S)
  BY <1>5, WholeEntries
<1>8. /\ c \in Nat /\ Len(whole) = c + 1 /\ whole[c + 1] = EoseOutput(sub)
      /\ \A m \in 1..c : whole[m] = StoredEventOutput(sub, list[m])
  BY <1>5, WholeEntries, SMTT(30)
<1>9. k \in Nat /\ done.emitted = FirstRanks(events, M, k) /\ Cardinality(done.emitted) = k
  BY <1>4 DEF Emitted
<1>10. /\ \A i \in done.emitted : i \in kept
       /\ AllEmitted(events, M, limit, k) => kept = done.emitted
  BY <1>0, <1>4, <1>5, KeptIsEmitted
<1>11. k <= c
  <2>1. kept \in SUBSET (1..Len(events)) /\ Len(events) \in Nat
    BY <1>5, LenProperties DEF WithinLimit, Ranked
  <2>2. IsFiniteSet(1..Len(events))
    BY <2>1, FS_Interval
  <2>3. done.emitted \in SUBSET kept
    BY <1>10
  <2> HIDE DEF kept
  <2>4. IsFiniteSet(kept)
    BY <2>1, <2>2, FS_Subset
  <2> QED
    BY <1>9, <2>3, <2>4, FS_Subset
<1>12. Len(outs) = L + k /\ \A m \in 1..L : outs[m] = old[m]
  BY <1>4 DEF InTurn
<1>13. ASSUME NEW m \in 1..k PROVE outs[L + m] = whole[m]
  <2>1. Shown(events, M, sub, outs[L + m], m - 1)
    BY <1>4 DEF InTurn
  <2>2. m \in Nat /\ m \in 1..c
    BY <1>8, <1>9, <1>11
  <2>3. \A i \in M : Rank(events, M, i) = m - 1 => i \in kept
    <3>1. m - 1 < k
      BY <1>9
    <3>2. \A i \in M : Rank(events, M, i) = m - 1 => i \in done.emitted
      BY <1>9, <3>1 DEF FirstRanks
    <3> QED
      BY <1>10, <3>2
  <2>4. outs[L + m] = StoredEventOutput(sub, list[m])
    BY <1>5, <2>1, <2>2, <2>3, ReplayLists
  <2> QED
    BY <1>8, <2>2, <2>4
<1>14. AllEmitted(events, M, limit, k) => c = k
  BY <1>9, <1>10
<1>15. old \in Seq(S) /\ outs \in Seq(S) /\ EoseOutput(sub) \in S
  <2>1. EoseOutput(sub) \in Outputs
    BY <1>0, OutputsMade
  <2> HIDE DEF outs, old
  <2> QED
    BY <1>5, <1>6, <1>7, <2>1, SeqGrows
<1>16. done.state \in {"loop", "end", "full"}
  BY <1>3 DEF Rounds
<1>17. done.state /= "full" => AllEmitted(events, M, limit, k)
  <2>1. CASE done.state = "loop"
    <3>1. Len(events) <= k
      BY <1>4, <1>5, <2>1
    <3>2. M = FirstRanks(events, M, k)
      BY <1>5, <1>9, <3>1, RanOut
    <3> QED
      BY <3>2 DEF AllEmitted
  <2> QED
    BY <1>4, <1>16, <2>1
<1>18. done.state = "full" => Len(outs) >= OutputCapacity
  BY <1>2 DEF Round, Stuck, done
<1> DEFINE eose == EoseOutput(sub)
           last == Enqueue(done.relay, eose).relay
<1>19. next = IF done.state = "full" THEN done.relay ELSE last
  BY <1>1 DEF ReplayEnd, done
<1>20. room \in Nat /\ k <= room
  BY <1>0, <1>5, <1>6, <1>9, <1>12
<1>21. CASE Len(outs) >= OutputCapacity
  <2>1. next = done.relay
    BY <1>19, <1>21 DEF Enqueue
  <2>2. room = k /\ ~(Len(whole) < room) /\ k \in 0..Len(whole)
    BY <1>0, <1>5, <1>6, <1>8, <1>9, <1>11, <1>12, <1>21, SMTT(30)
  <2> HIDE DEF whole, outs, old
  <2>3. outs = old \o SubSeq(whole, 1, k)
    <3>1. Continues(outs, old, whole, k)
      BY <1>12, <1>13, <2>2 DEF Continues
    <3> QED
      BY <1>7, <1>15, <3>1, GoesOn
  <2>4. next.outputs = outs /\ next.subscriptions = r.subscriptions
    BY <1>4, <2>1 DEF outs
  <2> QED
    BY <2>2, <2>3, <2>4 DEF Answers, whole, old
<1>22. CASE ~(Len(outs) >= OutputCapacity)
  <2> DEFINE new == Append(outs, eose)
  <2>1. next = last /\ c = k
    BY <1>14, <1>17, <1>18, <1>19, <1>22
  <2>2. last = [done.relay EXCEPT !.outputs = new, !.queued = done.relay.queued + 1]
    BY <1>22 DEF Enqueue
  <2>3. last.outputs = new /\ last.subscriptions = done.relay.subscriptions
    BY <1>6, <2>2 DEF Relays
  <2>4. /\ new \in Seq(S) /\ Len(new) = L + (k + 1) /\ new[L + (k + 1)] = eose
        /\ \A m \in 1..(L + k) : new[m] = outs[m]
    <3> HIDE DEF outs, eose
    <3>1. /\ new \in Seq(S) /\ Len(new) = Len(outs) + 1 /\ new[Len(outs) + 1] = eose
          /\ \A m \in 1..Len(outs) : new[m] = outs[m]
      BY <1>15, AppendProperties DEF eose
    <3>2. Len(outs) + 1 = L + (k + 1)
      BY <1>5, <1>9, <1>12
    <3> QED
      BY <1>12, <3>1, <3>2
  <2>5. /\ k + 1 = IF Len(whole) < room THEN Len(whole) ELSE room
        /\ k + 1 \in 0..Len(whole)
    BY <1>0, <1>5, <1>6, <1>8, <1>9, <1>12, <1>22, <2>1
  <2>6. \A m \in 1..L : new[m] = old[m]
    <3>1. \A m \in 1..L : m \in 1..(L + k)
      BY <1>5, <1>9
    <3> QED
      BY <1>12, <2>4, <3>1
  <2>7. ASSUME NEW m \in 1..(k + 1) PROVE new[L + m] = whole[m]
    <3>1. CASE m = k + 1
      BY <1>8, <2>1, <2>4, <3>1
    <3>2. CASE m \in 1..k
      <4>1. L + m \in 1..(L + k)
        BY <1>5, <1>9, <3>2
      <4> QED
        BY <1>13, <2>4, <3>2, <4>1
    <3>3. m = k + 1 \/ m \in 1..k
      BY <1>9
    <3> QED
      BY <3>1, <3>2, <3>3
  <2> HIDE DEF whole, new, old
  <2>8. new = old \o SubSeq(whole, 1, k + 1)
    <3> DEFINE p == k + 1
    <3>1. Continues(new, old, whole, p)
      BY <2>4, <2>5, <2>6, <2>7 DEF Continues
    <3> HIDE DEF p
    <3>2. new = old \o SubSeq(whole, 1, p)
      BY <1>7, <1>15, <2>4, <3>1, GoesOn
    <3> QED
      BY <3>2 DEF p
  <2> QED
    BY <1>4, <2>1, <2>3, <2>5, <2>8 DEF Answers, whole, old
<1> QED
  BY <1>21, <1>22

\* Remembering a subscription leaves queue and events as they are.
LEMMA RememberOpens ==
    ASSUME NEW r, RelayOK(r), NEW req \in Requests
    PROVE  /\ Remember(r, req[1], req[2]).outputs = r.outputs
           /\ req[1] \in DOMAIN Remember(r, req[1], req[2]).subscriptions
<1> DEFINE subs == [s \in DOMAIN r.subscriptions \cup {req[1]} |->
                       IF s = req[1] THEN req[2] ELSE r.subscriptions[s]]
           count == IF req[1] \in DOMAIN r.subscriptions THEN r.active ELSE r.active + 1
           next == Remember(r, req[1], req[2])
<1>1. next = [r EXCEPT !.subscriptions = subs, !.active = count]
  BY DEF Remember
<1>2. req[1] \in DOMAIN subs
  OBVIOUS
<1> HIDE DEF subs, count, next
<1>3. next.outputs = r.outputs /\ next.subscriptions = subs
  BY <1>1 DEF RelayOK, Relays
<1> QED
  BY <1>2, <1>3 DEF next

\* Whatever is stored, subscribed to and waiting: a new subscription is
\* answered with the matching events, newest first and up to the limit, and the
\* end marker, and what does not fit the queue is missing at the end
\* (subscribe, replay_subscription, next_replay_event).
THEOREM RepliesArePrefixes == Spec => ReplayIsPrefix
<1>1. ASSUME NostrOK, OpenSubscription
      PROVE  \E req \in Requests : Answers(relay.events, relay.outputs, req, relay')
  <2>1. PICK req \in Requests : relay' = Subscribe(relay, req[1], req[2])
    BY <1>1 DEF OpenSubscription, RelayStep
  <2> DEFINE kept == Remember(relay, req[1], req[2])
  <2>2. RelayOK(kept) /\ kept.events = relay.events
    BY <1>1, RememberKeeps DEF NostrOK
  <2>3. kept.outputs = relay.outputs /\ req[1] \in DOMAIN kept.subscriptions
    BY <1>1, RememberOpens DEF NostrOK
  <2>4. relay' = ReplaySubscription(kept, req[1], req[2])
    BY <2>1 DEF Subscribe
  <2> HIDE DEF kept
  <2>5. Answers(kept.events, kept.outputs, req, relay')
    BY <2>2, <2>3, <2>4, ReplayAnswers
  <2> QED
    BY <2>2, <2>3, <2>5
<1>2. NostrOK /\ [Next]_vars =>
        [OpenSubscription => \E r \in Requests :
          LET list == Replay(relay.events, r[2])
              whole == Append([n \in DOMAIN list |-> StoredEventOutput(r[1], list[n])],
                              EoseOutput(r[1]))
              room == OutputCapacity - Len(relay.outputs)
          IN  /\ relay'.outputs = relay.outputs \o
                    SubSeq(whole, 1, IF Len(whole) < room THEN Len(whole) ELSE room)
              /\ r[1] \in DOMAIN relay'.subscriptions]_nostrVars
  BY <1>1, Zenon DEF Answers, Whole
<1> QED
  BY <1>2, NostrStaysOK, PTL DEF Spec, ReplayIsPrefix
=============================================================================
