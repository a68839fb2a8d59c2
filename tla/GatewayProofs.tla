---------------------------- MODULE GatewayProofs ---------------------------
(***************************************************************************)
(* Theorems about GatewayCore for every set of envelopes, every number of  *)
(* links, every window and store size and every outcome of the executor:   *)
(* what its states keep; what a step may never do, release a record that   *)
(* is still owed or remember a message nothing was done with; and what a   *)
(* step always is, one of Custody and, of the ring of seen keys, one of    *)
(* SeenWindow.                                                             *)
(***************************************************************************)
EXTENDS DeliveryHistory, LibraryProofs, FiniteSetTheorems

-----------------------------------------------------------------------------
(* Facts about the operators.                                              *)

\* first_pending selects a record that precedes all others: the order is
\* total as long as ids are not repeated.
LEMMA FirstPendingIsLeast ==
  ASSUME NEW recs \in SUBSET EnvelopeType, recs # {},
         \A e, f \in recs : e.id = f.id => e = f
  PROVE  /\ FirstPending(recs) \in recs
         /\ \A f \in recs \ {FirstPending(recs)} : Precedes(FirstPending(recs), f)
<1> DEFINE X == {e.expires : e \in recs}
<1>1. PICK x \in X : \A y \in X : x <= y
  <2>1. X \in SUBSET Nat /\ X # {}
    BY DEF EnvelopeType
  <2>2. QED BY <2>1, LeastNatural
<1> DEFINE R1 == {e \in recs : e.expires = x}
           C == {e.created : e \in R1}
<1>2. PICK c \in C : \A y \in C : c <= y
  <2>1. C \in SUBSET Nat /\ C # {}
    BY DEF EnvelopeType
  <2>2. QED BY <2>1, LeastNatural
<1> DEFINE R2 == {e \in R1 : e.created = c}
           I == {e.id : e \in R2}
<1>3. PICK i \in I : \A y \in I : i <= y
  <2>1. I \in SUBSET Nat /\ I # {}
    BY DEF EnvelopeType
  <2>2. QED BY <2>1, LeastNatural
<1>4. PICK e \in R2 : e.id = i
  OBVIOUS
<1>5. \A f \in recs \ {e} : Precedes(e, f)
  <2> SUFFICES ASSUME NEW f \in recs, f # e PROVE Precedes(e, f)
    OBVIOUS
  <2>1. e.expires = x /\ e.created = c /\ e.id = i /\ e \in recs
    BY <1>4
  <2>2. f.id # e.id
    BY <2>1
  <2>3. /\ x \in Nat /\ c \in Nat /\ i \in Nat
        /\ f.expires \in Nat /\ f.created \in Nat /\ f.id \in Nat
    BY <2>1 DEF EnvelopeType
  <2>4. x <= f.expires
    BY <1>1
  <2>5. f.expires = x => c <= f.created
    BY <1>2
  <2>6. f.expires = x /\ f.created = c => i <= f.id
    BY <1>3
  <2>7. QED BY <2>1, <2>2, <2>3, <2>4, <2>5, <2>6 DEF Precedes
<1>6. e \in recs
  BY <1>4
<1>7. QED BY <1>5, <1>6 DEF FirstPending

\* What is remembered are seen keys.
LEMMA SeenKeyType ==
  ASSUME NEW e \in EnvelopeType
  PROVE  SeenKey(e) \in SeenKeys
BY DEF SeenKey, SeenKeys, EnvelopeType, Destination, IsCommunity

\* What is kept about the ring.
RingSound == SeenTypeOK /\ SeenIsQueue

\* A step that does not touch the ring keeps it sound.
LEMMA RingUntouched ==
  ASSUME RingSound, UNCHANGED seenVars
  PROVE  RingSound'
BY DEF RingSound, SeenTypeOK, SeenIsQueue, EmptySlots, seenVars

\* The slot after i, as mark_seen computes it.
LEMMA NextSlot ==
  ASSUME MaxSeen # 0, NEW i \in SeenSlots
  PROVE  (i + 1) % MaxSeen = IF i + 1 = MaxSeen THEN 0 ELSE i + 1
<1>1. MaxSeen \in Nat \ {0} /\ i \in Nat /\ i + 1 <= MaxSeen
  BY RouterAssumption DEF SeenSlots
<1>2. CASE i + 1 = MaxSeen
  BY <1>1, <1>2
<1>3. CASE i + 1 < MaxSeen
  BY <1>1, <1>3
<1>4. QED BY <1>1, <1>2, <1>3

\* mark_seen writes to the slot at next_seen, also while the ring fills up.
LEMMA MarkedSlot ==
  ASSUME RingSound, MaxSeen # 0, NEW k, MarkSeen(k)
  PROVE  /\ next_seen \in SeenSlots
         /\ seen' = [seen EXCEPT ![next_seen] = k]
         /\ next_seen' = (next_seen + 1) % MaxSeen
<1>0. MaxSeen \in Nat \ {0}
  BY RouterAssumption
<1>1. next_seen \in SeenSlots
  BY <1>0 DEF RingSound, SeenTypeOK, SeenSlots
<1>2. PICK n \in 0..MaxSeen : EmptySlots = n..(MaxSeen - 1) /\ (n < MaxSeen => next_seen = n)
  BY DEF RingSound, SeenIsQueue
<1>3. EmptySlots # {} => FirstEmpty = next_seen
  <2> SUFFICES ASSUME EmptySlots # {} PROVE FirstEmpty = next_seen
    OBVIOUS
  <2>1. n < MaxSeen /\ next_seen = n
    BY <1>0, <1>2
  <2>2. n \in EmptySlots /\ \A j \in EmptySlots : n <= j
    BY <1>0, <1>2, <2>1
  <2>3. \A i \in EmptySlots : (\A j \in EmptySlots : i <= j) => i = n
    BY <1>0, <1>2, <2>2
  <2>4. QED BY <2>1, <2>2, <2>3 DEF FirstEmpty
<1>4. QED BY <1>1, <1>3 DEF MarkSeen

\* commit_seen keeps the ring a queue of seen keys.
LEMMA CommitSeenSound ==
  ASSUME RingSound, NEW e \in EnvelopeType, CommitSeen(e)
  PROVE  RingSound'
<1> DEFINE k == SeenKey(e)
<1>1. CASE HasSeen(e) \/ MaxSeen = 0
  BY <1>1, RingUntouched DEF CommitSeen
<1>2. CASE ~HasSeen(e) /\ MaxSeen # 0
  <2>0. /\ MaxSeen \in Nat \ {0} /\ SeenSlots = 0..(MaxSeen - 1)
        /\ k \in SeenKeys /\ k # NoKey
    BY <1>2, RouterAssumption, SeenKeyType DEF SeenSlots
  <2>1. /\ next_seen \in SeenSlots /\ seen' = [seen EXCEPT ![next_seen] = k]
        /\ next_seen' = (next_seen + 1) % MaxSeen
    BY <1>2, MarkedSlot DEF CommitSeen
  <2>2. next_seen' = IF next_seen + 1 = MaxSeen THEN 0 ELSE next_seen + 1
    BY <1>2, <2>1, NextSlot
  <2>3. \A i \in SeenSlots : seen[i] # k
    BY <1>2, <2>0 DEF HasSeen, Remembered
  <2> HIDE DEF k
  <2>4. SeenTypeOK'
    BY <2>0, <2>1, <2>2 DEF RingSound, SeenTypeOK
  <2>5. \A i \in SeenSlots : seen'[i] = IF i = next_seen THEN k ELSE seen[i]
    BY <2>1 DEF RingSound, SeenTypeOK
  <2>6. PICK n \in 0..MaxSeen :
          EmptySlots = n..(MaxSeen - 1) /\ (n < MaxSeen => next_seen = n)
    BY DEF RingSound, SeenIsQueue
  <2> DEFINE m == IF n < MaxSeen THEN n + 1 ELSE MaxSeen
  <2>7. m \in 0..MaxSeen /\ (m < MaxSeen => next_seen' = m)
    BY <2>0, <2>2, <2>6
  <2>8. EmptySlots' = m..(MaxSeen - 1)
    <3>1. \A i \in SeenSlots : seen[i] = NoKey <=> n <= i
      BY <2>0, <2>6 DEF EmptySlots
    <3>2. \A i \in SeenSlots : seen'[i] = NoKey <=> m <= i
      BY <2>0, <2>5, <2>6, <3>1
    <3>3. EmptySlots' = {i \in SeenSlots : seen'[i] = NoKey}
      BY DEF EmptySlots, SeenSlots
    <3>4. QED BY <2>0, <2>7, <3>2, <3>3
  <2>9. \A i, j \in SeenSlots : seen'[i] = seen'[j] /\ seen'[i] # NoKey => i = j
    BY <2>3, <2>5 DEF RingSound, SeenIsQueue
  <2>10. SeenIsQueue'
    BY <2>7, <2>8, <2>9 DEF SeenIsQueue, SeenSlots
  <2>11. QED BY <2>4, <2>10 DEF RingSound
<1>3. QED BY <1>1, <1>2

\* One hop less is still a hop limit, and nothing else changes.
LEMMA NextHopType ==
  ASSUME NEW e \in EnvelopeType, ~(e.hop <= 1)
  PROVE  /\ NextHop(e) \in EnvelopeType
         /\ Valid(e) => Valid(NextHop(e))
         /\ NextHop(e).expires = e.expires /\ NextHop(e).dest = e.dest
         /\ NextHop(e).id = e.id
BY DEF NextHop, EnvelopeType, HopLimits, Valid, VersionOk, ExpiryOk

\* The fan-out sets are sets of links, and the first link that is up exists
\* whenever one is up.
LEMMA UpLinksType ==
  ASSUME links \in Seq(LinkState), NEW l
  PROVE  /\ UpLinksExcept(l) \in SUBSET LinkIds
         /\ FirstUpLinkExcept(l) \in SUBSET LinkIds
<1>1. \A i \in DOMAIN links : links[i].id \in LinkIds
  <2>1. \A i \in DOMAIN links : links[i] \in LinkState
    OBVIOUS
  <2>2. QED BY <2>1 DEF LinkState
<1>2. QED BY <1>1 DEF UpLinksExcept, FirstUpLinkExcept

\* first_up_link_except(None) finds a link whenever one is up.
LEMMA FirstUpLinkExists ==
  ASSUME links \in Seq(LinkState), FirstUpLinkExcept(NoLink) = {}
  PROVE  UpLinks = {}
<1> DEFINE U == {j \in DOMAIN links : links[j].up /\ links[j].id # NoLink}
<1>1. SUFFICES ASSUME U # {} PROVE FALSE
  BY DEF UpLinks, UpLinksExcept
<1>2. U \in SUBSET Nat
  OBVIOUS
<1>3. PICK m \in U : \A n \in U : m <= n
  BY <1>1, <1>2, LeastNatural
<1>4. \A k \in 1..(m - 1) : ~links[k].up \/ links[k].id = NoLink
  BY <1>2, <1>3
<1>5. links[m].id \in FirstUpLinkExcept(NoLink)
  BY <1>3, <1>4 DEF FirstUpLinkExcept
<1>6. QED BY <1>5

\* What every decision the router takes at clock t satisfies: a put stands
\* alone and carries a valid, unexpired envelope for somebody else, and an
\* error comes without commands.
DecisionSound(d, t) ==
  /\ d \in Decision
  /\ d.put => /\ d.error = "Ok" /\ d.local = {} /\ d.sends = {} /\ d.drop = "none"
              /\ Valid(d.out) /\ d.out.expires > t
              /\ ~IsLocalNode(d.out) /\ ~IsLocalCommunity(d.out)
  /\ d.error # "Ok" => IsEmpty(d)

\* The decisions that put nothing into the store are sound for any envelope.
LEMMA SimpleDecisions ==
  ASSUME NEW e \in EnvelopeType, NEW t \in Nat
  PROVE  /\ DecisionSound(Nothing(e), t)
         /\ \A x \in RouterErrors : DecisionSound(Reject(e, x), t)
         /\ \A x \in DropReasons : DecisionSound(Drop(e, x), t)
         /\ \A L \in SUBSET EnvelopeType, S \in SUBSET LinkIds :
              DecisionSound(Forward(e, L, S), t) /\ DecisionSound(FanOut(e, L, S), t)
<1> USE DEF DecisionSound, Decision, Nothing, RouterErrors, DropReasons
<1>1. DecisionSound(Nothing(e), t)
  OBVIOUS
<1>2. ASSUME NEW x \in RouterErrors PROVE DecisionSound(Reject(e, x), t)
  BY DEF Reject, IsEmpty
<1>3. ASSUME NEW x \in DropReasons PROVE DecisionSound(Drop(e, x), t)
  BY DEF Drop
<1>4. ASSUME NEW L \in SUBSET EnvelopeType, NEW S \in SUBSET LinkIds
      PROVE  DecisionSound(Forward(e, L, S), t)
  BY DEF Forward
<1>5. ASSUME NEW L \in SUBSET EnvelopeType, NEW S \in SUBSET LinkIds
      PROVE  DecisionSound(FanOut(e, L, S), t)
  <2> USE <1>2, <1>4 DEF FanOut
  <2>1. CASE Cardinality(S) + Cardinality(L) > CommandCapacity
    BY <2>1
  <2>2. CASE ~(Cardinality(S) + Cardinality(L) > CommandCapacity)
    BY <2>2
  <2>3. QED BY <2>1, <2>2
<1>6. QED BY <1>1, <1>2, <1>3, <1>4, <1>5, ZenonT(40)

\* A put of a valid, unexpired envelope for somebody else is sound.
LEMMA StorePutSound ==
  ASSUME NEW e \in EnvelopeType, NEW t \in Nat, Valid(e), e.expires > t,
         ~IsLocalNode(e), ~IsLocalCommunity(e)
  PROVE  DecisionSound(StorePut(e), t)
BY DEF DecisionSound, Decision, StorePut, Nothing

\* handle_community_envelope stores only what no local community is owed.
LEMMA HandleCommunitySound ==
  ASSUME links \in Seq(LinkState), NEW e \in EnvelopeType, NEW l, NEW t \in Nat,
         Valid(e), e.expires > t, IsCommunity(e), ~HasSeen(e)
  PROVE  DecisionSound(HandleCommunity(e, l), t)
<1> DEFINE local == LocalCopy(e)
           sends == UpLinksExcept(l)
<1>1. sends \in SUBSET LinkIds /\ local \in SUBSET EnvelopeType
  BY UpLinksType DEF LocalCopy
<1>2. CASE l # NoLink /\ e.hop <= 1
  BY <1>2, SimpleDecisions DEF HandleCommunity, DropReasons
<1>3. CASE ~(l # NoLink /\ e.hop <= 1) /\ local = {} /\ sends = {}
  <2>1. ~IsLocalNode(e) /\ ~IsLocalCommunity(e)
    BY <1>3 DEF IsCommunity, IsLocalNode, LocalCopy
  <2>2. DecisionSound(StorePut(e), t) /\ DecisionSound(Drop(e, "NoRoute"), t)
    BY <2>1, StorePutSound, SimpleDecisions DEF DropReasons
  <2>3. QED BY <1>3, <2>2 DEF HandleCommunity, CommunityFallback
<1>4. CASE ~(l # NoLink /\ e.hop <= 1) /\ ~(local = {} /\ sends = {})
  <2> DEFINE out == IF l # NoLink THEN NextHop(e) ELSE e
  <2>0. l # NoLink => ~(e.hop <= 1)
    BY <1>4
  <2>1. out \in EnvelopeType
    BY <2>0, NextHopType
  <2>2. HandleCommunity(e, l) = FanOut(out, local, sends)
    BY <1>4 DEF HandleCommunity
  <2>3. DecisionSound(FanOut(out, local, sends), t)
    <3> HIDE DEF out, local, sends
    <3>1. QED BY <1>1, <2>1, SimpleDecisions
  <2>4. QED BY <2>2, <2>3
<1>5. QED BY <1>2, <1>3, <1>4

\* The unicast part of handle_envelope stores only what is not for this node.
LEMMA HandleRemoteSound ==
  ASSUME links \in Seq(LinkState), NEW e \in EnvelopeType, NEW l, NEW t \in Nat,
         Valid(e), e.expires > t, ~IsCommunity(e), ~IsLocalNode(e)
  PROVE  DecisionSound(HandleRemote(e, l), t)
<1> DEFINE exhausted == IF l # NoLink THEN e.hop <= 1 ELSE e.hop = 0
           out == IF l # NoLink THEN NextHop(e) ELSE e
           first == FirstUpLinkExcept(l)
<1>1. CASE exhausted
  BY <1>1, SimpleDecisions DEF HandleRemote, DropReasons
<1>2. CASE ~exhausted
  <2>0. l # NoLink => ~(e.hop <= 1)
    BY <1>2
  <2>1. /\ out \in EnvelopeType /\ Valid(out) /\ out.expires > t
        /\ out.dest = e.dest
    BY <2>0, NextHopType
  <2>2. ~IsLocalNode(out) /\ ~IsLocalCommunity(out)
    BY <2>1 DEF IsLocalNode, IsLocalCommunity, IsCommunity
  <2>3. first \in SUBSET LinkIds
    BY UpLinksType
  <2>4. DecisionSound(StorePut(out), t) /\ DecisionSound(Forward(out, {}, first), t)
    BY <2>1, <2>2, <2>3, StorePutSound, SimpleDecisions
  <2>5. QED BY <1>2, <2>4 DEF HandleRemote
<1>3. QED BY <1>1, <1>2

\* handle_envelope and handle_frame take sound decisions at any clock.
LEMMA HandleEnvelopeSound ==
  ASSUME links \in Seq(LinkState), NEW e \in EnvelopeType, NEW l, NEW t \in Nat
  PROVE  /\ DecisionSound(HandleEnvelope(e, l, t), t)
         /\ DecisionSound(HandleFrame(e, l, t), t)
<1>1. DecisionSound(HandleEnvelope(e, l, t), t)
  <2>1. CASE ~VersionOk(e)
    BY <2>1, SimpleDecisions DEF HandleEnvelope, RejectInvalidOrExpired, RouterErrors
  <2>2. CASE VersionOk(e) /\ (~ExpiryOk(e) \/ e.expires <= t)
    BY <2>2, SimpleDecisions DEF HandleEnvelope, RejectInvalidOrExpired, DropReasons
  <2>3. CASE VersionOk(e) /\ ExpiryOk(e) /\ ~(e.expires <= t)
    <3>1. Valid(e) /\ e.expires > t
      BY <2>3 DEF Valid, EnvelopeType
    <3>2. CASE HasSeen(e)
      BY <2>3, <3>2, SimpleDecisions DEF HandleEnvelope, RejectInvalidOrExpired, DropReasons
    <3>3. CASE ~HasSeen(e) /\ IsCommunity(e)
      BY <2>3, <3>1, <3>3, HandleCommunitySound DEF HandleEnvelope, RejectInvalidOrExpired
    <3>4. CASE ~HasSeen(e) /\ ~IsCommunity(e) /\ IsLocalNode(e)
      BY <2>3, <3>4, SimpleDecisions DEF HandleEnvelope, RejectInvalidOrExpired
    <3>5. CASE ~HasSeen(e) /\ ~IsCommunity(e) /\ ~IsLocalNode(e)
      BY <2>3, <3>1, <3>5, HandleRemoteSound DEF HandleEnvelope, RejectInvalidOrExpired
    <3>6. QED BY <3>2, <3>3, <3>4, <3>5
  <2>4. QED BY <2>1, <2>2, <2>3
<1>2. QED BY <1>1, SimpleDecisions DEF HandleFrame, DropReasons

\* forward_stored never asks for a put, keeps the envelope as it is, and has
\* nothing to do only when no link is up.
LEMMA ForwardStoredSound ==
  ASSUME links \in Seq(LinkState), now \in Nat, NEW e \in EnvelopeType
  PROVE  /\ DecisionSound(ForwardStored(e), now)
         /\ ~ForwardStored(e).put /\ ForwardStored(e).out = e
         /\ ForwardStored(e).error = "Ok" /\ IsEmpty(ForwardStored(e))
              => UpLinks = {}
<1> DEFINE d == ForwardStored(e)
           local == LocalCopy(e)
           Goal(x) == /\ DecisionSound(x, now) /\ ~x.put /\ x.out = e
                      /\ x.error = "Ok" /\ IsEmpty(x) => UpLinks = {}
<1>0. /\ UpLinks \in SUBSET LinkIds /\ local \in SUBSET EnvelopeType
      /\ FirstUpLinkExcept(NoLink) \in SUBSET LinkIds
  BY UpLinksType DEF UpLinks, LocalCopy
<1>1. \A x \in RouterErrors : Goal(Reject(e, x))
  BY SimpleDecisions DEF Reject, Nothing, RouterErrors
<1>2. \A x \in DropReasons : Goal(Drop(e, x))
  BY SimpleDecisions DEF Drop, Nothing, IsEmpty, DropReasons
<1>3. UpLinks = {} => Goal(Nothing(e))
  BY SimpleDecisions DEF Nothing
<1>4. ~(local = {} /\ UpLinks = {}) => Goal(FanOut(e, local, UpLinks))
  <2>1. DecisionSound(FanOut(e, local, UpLinks), now)
    BY <1>0, SimpleDecisions
  <2>2. QED BY <2>1 DEF FanOut, Forward, Reject, Nothing, IsEmpty
<1>5. Goal(Forward(e, {e}, {}))
  BY SimpleDecisions DEF Forward, Nothing, IsEmpty
<1>6. Goal(Forward(e, {}, FirstUpLinkExcept(NoLink)))
  <2>1. DecisionSound(Forward(e, {}, FirstUpLinkExcept(NoLink)), now)
    BY <1>0, SimpleDecisions
  <2>2. QED BY <2>1, FirstUpLinkExists DEF Forward, Nothing, IsEmpty
<1>7. Goal(ForwardStored(e))
  <2> HIDE DEF Goal
  <2>1. QED BY <1>1, <1>2, <1>3, <1>4, <1>5, <1>6
            DEF ForwardStored, ForwardStoredCommunity, RejectTerminal,
                RejectInvalidOrExpired, RouterErrors, DropReasons
<1>8. QED BY <1>7

-----------------------------------------------------------------------------
(* The inductive invariant.  StoreSound and LocalNeverStored speak of the  *)
(* records at the clock; RecordsSound says the same of any set and clock,  *)
(* so that it can be carried through the expiry, the put and the flush of  *)
(* one call.                                                               *)

RecordsSound(recs, t) ==
  /\ recs \in SUBSET EnvelopeType
  /\ \A e, f \in recs : e.id = f.id => e = f
  /\ IsFiniteSet(recs) /\ Cardinality(recs) <= StoreCapacity
  /\ \A e \in recs : /\ Valid(e) /\ Fits(e) /\ e.expires > t
                     /\ ~IsLocalNode(e) /\ ~IsLocalCommunity(e)

IInv == /\ TypeOK /\ StoreSound /\ LinkTableSound /\ LocalNeverStored
        /\ StrandedOnlyByFailure /\ SeenIsQueue

\* Part of a sound set is sound, at any clock none of it is overdue at.
LEMMA SubsetSound ==
  ASSUME NEW recs, NEW t, RecordsSound(recs, t), NEW S \in SUBSET recs,
         NEW u, \A e \in S : e.expires > u
  PROVE  RecordsSound(S, u)
<1>1. IsFiniteSet(S) /\ Cardinality(S) <= Cardinality(recs)
  BY FS_Subset DEF RecordsSound
<1>2. Cardinality(S) \in Nat /\ Cardinality(recs) \in Nat
  BY <1>1, FS_CardinalityType DEF RecordsSound
<1>3. Cardinality(S) <= StoreCapacity
  BY <1>1, <1>2, StoreAssumption DEF RecordsSound
<1>4. QED BY <1>1, <1>3 DEF RecordsSound

\* expire_before(t) makes sound records sound at clock t.
LEMMA UnexpiredSound ==
  ASSUME NEW recs, NEW t, RecordsSound(recs, t), NEW u
  PROVE  RecordsSound(Unexpired(recs, u), u)
BY SubsetSound DEF Unexpired

\* Executing a put of a sound decision keeps the records sound.
LEMMA PutSound ==
  ASSUME NEW recs, NEW t, RecordsSound(recs, t), NEW d, DecisionSound(d, t),
         Stores(d, recs)
  PROVE  RecordsSound(Put(recs, d.out), t)
<1>1. PutError(recs, d.out) = "Ok" /\ d.put
  BY DEF Stores
<1>2. Put(recs, d.out) = recs \cup {d.out}
  BY <1>1 DEF Put
<1>3. /\ Valid(d.out) /\ Fits(d.out) /\ d.out.id \notin StoredIds(recs)
      /\ ~(Cardinality(recs) >= StoreCapacity)
  BY <1>1 DEF PutError
<1>4. \A e \in recs : e.id # d.out.id
  BY <1>3 DEF StoredIds
<1>5. d.out \in EnvelopeType
  BY DEF DecisionSound, Decision
<1>6. /\ IsFiniteSet(recs \cup {d.out})
      /\ Cardinality(recs \cup {d.out}) <= Cardinality(recs) + 1
      /\ Cardinality(recs) \in Nat
  BY FS_AddElement, FS_CardinalityType DEF RecordsSound
<1>7. Cardinality(recs \cup {d.out}) <= StoreCapacity
  BY <1>3, <1>6, FS_CardinalityType, StoreAssumption
<1>8. QED BY <1>1, <1>2, <1>3, <1>4, <1>5, <1>6, <1>7 DEF RecordsSound, DecisionSound

\* Executing a batch, and counting, keep their variables typed.
LEMMA ExecuteType ==
  ASSUME TypeOK, RingSound, NEW d \in Decision, NEW res, NEW recs,
         Execute(d, res, recs)
  PROVE  /\ RingSound'
         /\ lastDelivered' \in SUBSET Nat
         /\ io' \in [sent: SUBSET Transmission, local: SUBSET EnvelopeType]
<1>1. /\ d.out \in EnvelopeType /\ d.sends \in SUBSET LinkIds
      /\ d.local \in SUBSET EnvelopeType /\ \A e \in d.local : e.id \in Nat
  BY DEF Decision, EnvelopeType
<1>2. RingSound'
  BY <1>1, CommitSeenSound, RingUntouched DEF Execute
<1>3. lastDelivered' \in SUBSET Nat
  BY <1>1 DEF Execute, TypeOK
<1>4. io' \in [sent: SUBSET Transmission, local: SUBSET EnvelopeType]
  BY <1>1 DEF Execute, Effects, Succeeded, Transmission
<1>5. QED BY <1>2, <1>3, <1>4

\* A batch is counted in naturals.
LEMMA TallyType ==
  ASSUME NEW d \in Decision, NEW res, NEW recs
  PROVE  Tally(d, res, recs) \in [Counters -> Nat]
<1>1. /\ Succeeded(d, res) \in SUBSET LinkIds
      /\ Refused(d, res) \in SUBSET LinkIds
  BY DEF Decision, Succeeded, Refused
<1>2. IsFiniteSet(Succeeded(d, res)) /\ IsFiniteSet(Refused(d, res))
  BY <1>1, FS_Subset, RouterAssumption
<1>3. Cardinality(Succeeded(d, res)) \in Nat /\ Cardinality(Refused(d, res)) \in Nat
  BY <1>2, FS_CardinalityType
<1>4. \A b : Bit(b) \in Nat
  BY DEF Bit
<1>5. QED BY <1>3, <1>4 DEF Tally

\* Saturating counters stay within their bounds.
LEMMA CountType ==
  ASSUME metrics \in Metrics, NEW tally \in [Counters -> Nat],
         NEW extra, \A c \in Counters \cap DOMAIN extra : extra[c] \in Nat,
         Count(tally, extra)
  PROVE  metrics' \in Metrics
<1>1. \A c \in Counters : /\ metrics[c] \in Nat /\ tally[c] \in Nat
                          /\ (IF c \in DOMAIN extra THEN extra[c] ELSE 0) \in Nat
  BY DEF Metrics
<1>2. \A c \in Counters, n \in Nat : Saturate(c, n) \in 0..MetricMax[c]
  BY GatewayAssumption DEF Saturate
<1> DEFINE total(c) == metrics[c] + tally[c] +
                       IF c \in DOMAIN extra THEN extra[c] ELSE 0
<1>3. metrics' = [c \in Counters |-> Saturate(c, total(c))]
  BY DEF Count
<1>4. \A c \in Counters : total(c) \in Nat
  BY <1>1
<1>5. \A c \in Counters : MetricMax[c] \in Nat
  BY GatewayAssumption
<1> HIDE DEF total
<1>6. \A c \in Counters : Saturate(c, total(c)) \in 0..MetricMax[c]
  BY <1>2, <1>4
<1>7. \A c \in Counters : metrics'[c] \in Nat /\ metrics'[c] <= MetricMax[c]
  BY <1>3, <1>5, <1>6
<1>8. QED BY <1>3, <1>7 DEF Metrics

\* The link table.
LEMMA SetLinkStateSound ==
  ASSUME links \in Seq(LinkState), LinkTableSound, NEW l \in LinkIds,
         NEW up \in BOOLEAN, links' = SetLinkState(l, up)
  PROVE  /\ links' \in Seq(LinkState)
         /\ LinkTableSound'
         /\ ~up \/ LinkTableFull(l) => UpLinks' \subseteq UpLinks
<1>1. CASE LinkKnown(l)
  <2>1. /\ links' = [i \in DOMAIN links |->
                       IF links[i].id = l THEN [id |-> l, up |-> up] ELSE links[i]]
        /\ ~LinkTableFull(l)
    BY <1>1 DEF SetLinkState, LinkTableFull
  <2>2. \A i \in DOMAIN links : links[i] \in LinkState
    OBVIOUS
  <2>3. DOMAIN links = 1..Len(links) /\ Len(links) \in Nat
    OBVIOUS
  <2>4. /\ links' \in Seq(LinkState) /\ DOMAIN links' = DOMAIN links
        /\ Len(links') = Len(links)
    BY <2>1, <2>2, <2>3 DEF LinkState
  <2>5. \A i \in DOMAIN links : links'[i].id = links[i].id
    BY <2>1
  <2>6. LinkTableSound'
    BY <2>4, <2>5 DEF LinkTableSound
  <2>7. ~up => UpLinks' \subseteq UpLinks
    BY <2>1, <2>4, <2>5 DEF UpLinks, UpLinksExcept
  <2>8. QED BY <2>1, <2>4, <2>6, <2>7
<1>2. CASE ~LinkKnown(l) /\ up /\ ~LinkTableFull(l)
  <2>1. links' = Append(links, [id |-> l, up |-> TRUE]) /\ Len(links) # MaxLinks
    BY <1>2 DEF SetLinkState, LinkTableFull
  <2>2. links' \in Seq(LinkState)
    BY <2>1 DEF LinkState
  <2>3. Len(links') <= MaxLinks
    BY <2>1, RouterAssumption DEF LinkTableSound
  <2>4. \A i, j \in DOMAIN links' : links'[i].id = links'[j].id => i = j
    <3>1. /\ DOMAIN links' = 1..(Len(links) + 1) /\ Len(links) \in Nat
          /\ DOMAIN links = 1..Len(links)
      BY <2>1
    <3>2. \A i \in DOMAIN links : links'[i] = links[i]
      BY <2>1, <3>1
    <3>5. \A i \in DOMAIN links : links[i].id # l
      BY <1>2 DEF LinkKnown
    <3>3. links'[Len(links) + 1].id = l
      BY <2>1
    <3>4. QED BY <3>1, <3>2, <3>5, <3>3 DEF LinkTableSound
  <2>5. QED BY <1>2, <2>2, <2>3, <2>4 DEF LinkTableSound
<1>3. CASE ~LinkKnown(l) /\ ~(up /\ ~LinkTableFull(l))
  <2>1. links' = links
    BY <1>3 DEF SetLinkState
  <2>2. QED BY <2>1 DEF LinkTableSound, UpLinks, UpLinksExcept
<1>4. QED BY <1>1, <1>2, <1>3

-----------------------------------------------------------------------------
(* One lemma per call: the call keeps the invariant.                       *)

\* A new gateway satisfies the invariant.
LEMMA InitInvariant == Init => IInv
<1> SUFFICES ASSUME Init PROVE IInv
  OBVIOUS
<1> USE DEF Init, RouterInit
<1>1. TypeOK
  BY GatewayAssumption
     DEF TypeOK, RouterTypeOK, SeenTypeOK, Metrics, Stops, Errors, NoIO, Transmission
<1>2. SeenIsQueue
  BY RouterAssumption DEF SeenIsQueue, EmptySlots, SeenSlots
<1>3. StoreSound
  BY FS_EmptySet, StoreAssumption DEF StoreSound
<1>4. LinkTableSound
  BY RouterAssumption DEF LinkTableSound
<1>5. QED BY <1>1, <1>2, <1>3, <1>4 DEF IInv, LocalNeverStored, StrandedOnlyByFailure

\* The records of the invariant, and back.
LEMMA InvariantRecords ==
  ASSUME IInv
  PROVE  RecordsSound(records, now)
BY DEF IInv, TypeOK, StoreSound, LocalNeverStored, RecordsSound

\* The same in the next state.
LEMMA InvariantRecordsPrime ==
  ASSUME RecordsSound(records', now')
  PROVE  StoreSound' /\ LocalNeverStored'
BY DEF StoreSound, LocalNeverStored, RecordsSound, IsLocalNode, IsLocalCommunity

\* A batch that fails as a whole stored nothing.
LEMMA FailedCallStoresNothing ==
  ASSUME NEW d, NEW t, DecisionSound(d, t), NEW res, NEW recs,
         CallError(d, res, recs) # "Ok"
  PROVE  ~Stores(d, recs)
BY DEF CallError, Stores, DecisionSound

\* execute_commands reports one of the gateway's errors.
LEMMA CallErrorType ==
  ASSUME NEW d \in Decision, NEW res, NEW recs
  PROVE  CallError(d, res, recs) \in Errors \cup {"Ok"}
BY DEF CallError, PutError, Errors, StoreErrors, RouterErrors, Decision

\* What is expired of sound records is finite, so it can be counted.
LEMMA FiniteCount ==
  ASSUME NEW recs, NEW t, RecordsSound(recs, t), NEW S \in SUBSET recs
  PROVE  Cardinality(S) \in Nat
BY FS_Subset, FS_CardinalityType DEF RecordsSound

\* Submit and Ingest execute one decision d at clock t on the records
\* "before" and then flush or return; what they have in common.
LEMMA RoutedCall ==
  ASSUME IInv, pc = "idle", NEW t \in Nat, t >= now,
         NEW before \in SUBSET records, RecordsSound(before, t),
         NEW d, DecisionSound(d, t), NEW res, NEW frame,
         frame \in SUBSET [link: LinkIds, id: Nat],
         now' = t, links' = links,
         Execute(d, res, before),
         metrics' \in Metrics,
         LET after == IF Stores(d, before) THEN Put(before, d.out) ELSE before
             error == CallError(d, res, before)
         IN IF error = "Ok" THEN EnterFlush(after, t, frame)
            ELSE Return(error) /\ records' = after
  PROVE  IInv'
<1> DEFINE after == IF Stores(d, before) THEN Put(before, d.out) ELSE before
           error == CallError(d, res, before)
<1>0. d \in Decision /\ TypeOK /\ LinkTableSound /\ RingSound
  BY DEF DecisionSound, IInv, RingSound, TypeOK, RouterTypeOK
<1>1. RecordsSound(after, t)
  BY PutSound
<1>2. error \in Errors \cup {"Ok"}
  BY <1>0, CallErrorType
<1>3. LinkTableSound'
  BY <1>0 DEF LinkTableSound
<1>4. /\ RingSound' /\ lastDelivered' \in SUBSET Nat
      /\ io' \in [sent: SUBSET Transmission, local: SUBSET EnvelopeType]
  BY <1>0, ExecuteType
<1>5. CASE error = "Ok"
  <2>1. EnterFlush(after, t, frame)
    BY <1>5
  <2>2. RecordsSound(records', now')
    BY <1>1, <2>1, UnexpiredSound DEF EnterFlush
  <2>3. TypeOK'
    BY <1>0, <1>4, <2>1, <2>2 DEF TypeOK, RouterTypeOK, RingSound, EnterFlush, RecordsSound
  <2>4. StrandedOnlyByFailure'
    BY <2>1 DEF EnterFlush, StrandedOnlyByFailure
  <2>5. QED BY <1>3, <1>4, <2>2, <2>3, <2>4, InvariantRecordsPrime DEF IInv, RingSound
<1>6. CASE error # "Ok"
  <2>1. Return(error) /\ records' = before
    BY <1>6, FailedCallStoresNothing
  <2>2. RecordsSound(records', now')
    BY <2>1
  <2>3. TypeOK'
    BY <1>0, <1>2, <1>4, <2>1, <2>2 DEF TypeOK, RouterTypeOK, RingSound, Return, RecordsSound
  <2>4. StrandedOnlyByFailure'
    BY <2>1 DEF IInv, Return, StrandedOnlyByFailure, UpLinks, UpLinksExcept
  <2>5. QED BY <1>3, <1>4, <2>2, <2>3, <2>4, InvariantRecordsPrime DEF IInv, RingSound
<1>7. QED BY <1>5, <1>6

\* submit keeps the invariant.
LEMMA SubmitInvariant ==
  ASSUME IInv, NEW e \in EnvelopeType, Submit(e)
  PROVE  IInv'
<1> DEFINE d == HandleEnvelope(e, NoLink, now)
           after == IF Stores(d, records) THEN Put(records, d.out) ELSE records
<1>0. TypeOK /\ now \in Nat /\ links \in Seq(LinkState) /\ e \in EnvelopeType
  BY GatewayAssumption DEF IInv, TypeOK, RouterTypeOK
<1>1. DecisionSound(d, now) /\ d \in Decision
  BY <1>0, HandleEnvelopeSound DEF DecisionSound
<1>2. RecordsSound(records, now)
  BY InvariantRecords
<1>3. RecordsSound(after, now)
  BY <1>1, <1>2, PutSound
<1>4. PICK res \in [d.sends -> Outcome] :
        LET error == CallError(d, res, records)
            gone == IF error = "Ok" THEN ExpiredAt(after, now) ELSE {}
        IN /\ Execute(d, res, records)
           /\ Count(Tally(d, res, records),
                    [submitted |-> 1, expired |-> Cardinality(gone)])
           /\ IF error = "Ok" THEN EnterFlush(after, now, {})
              ELSE Return(error) /\ records' = after
  BY DEF Submit, SubmitWith
<1> DEFINE gone == IF CallError(d, res, records) = "Ok" THEN ExpiredAt(after, now) ELSE {}
           extra == [submitted |-> 1, expired |-> Cardinality(gone)]
<1>5. metrics' \in Metrics
  <2>1. gone \in SUBSET after
    BY DEF ExpiredAt
  <2>2. Cardinality(gone) \in Nat
    BY <1>3, <2>1, FiniteCount
  <2>3. \A c \in Counters \cap DOMAIN extra : extra[c] \in Nat
    BY <2>2
  <2>4. Count(Tally(d, res, records), extra)
    BY <1>4
  <2>5. Tally(d, res, records) \in [Counters -> Nat]
    BY <1>1, TallyType
  <2> HIDE DEF extra, d
  <2>6. QED BY <1>0, <2>3, <2>4, <2>5, CountType DEF TypeOK
<1>6. pc = "idle" /\ now' = now /\ links' = links
  BY DEF Submit, SubmitWith
<1> DEFINE frame == {}
<1>7. /\ frame \in SUBSET [link: LinkIds, id: Nat]
      /\ records \in SUBSET records /\ now >= now
  BY <1>0
<1>8. /\ Execute(d, res, records)
      /\ LET keep == IF Stores(d, records) THEN Put(records, d.out) ELSE records
             error == CallError(d, res, records)
         IN IF error = "Ok" THEN EnterFlush(keep, now, frame)
            ELSE Return(error) /\ records' = keep
  BY <1>4
<1> HIDE DEF d, frame, after
<1>9. QED BY <1>0, <1>1, <1>2, <1>5, <1>6, <1>7, <1>8, RoutedCall

\* ingest_link_frame keeps the invariant.
LEMMA IngestInvariant ==
  ASSUME IInv, NEW l \in LinkIds, NEW e \in EnvelopeType, NEW t \in Times, Ingest(l, e, t)
  PROVE  IInv'
<1> DEFINE clock == ObservedTime(t)
           before == ObservedRecords(t)
           d == HandleFrame(e, l, clock)
           after == IF Stores(d, before) THEN Put(before, d.out) ELSE before
           frame == {[link |-> l, id |-> e.id]}
<1>0. /\ TypeOK /\ now \in Nat /\ links \in Seq(LinkState) /\ e \in EnvelopeType
      /\ t \in Nat
  BY GatewayAssumption DEF IInv, TypeOK, RouterTypeOK, Times
<1>1. clock \in Nat /\ clock >= now
  BY <1>0 DEF ObservedTime
<1>2. RecordsSound(records, now)
  BY InvariantRecords
<1>3. before \in SUBSET records /\ RecordsSound(before, clock)
  BY <1>2, UnexpiredSound DEF ObservedRecords, ObservedTime, Unexpired
<1>4. DecisionSound(d, clock) /\ d \in Decision
  BY <1>0, <1>1, HandleEnvelopeSound DEF DecisionSound
<1>5. RecordsSound(after, clock)
  BY <1>3, <1>4, PutSound
<1>6. PICK res \in [d.sends -> Outcome] :
        LET error == CallError(d, res, before)
            gone == (records \ before) \cup
                    (IF error = "Ok" THEN ExpiredAt(after, clock) ELSE {})
        IN /\ Execute(d, res, before)
           /\ Count(Tally(d, res, before),
                    [received |-> 1, expired |-> Cardinality(gone)])
           /\ IF error = "Ok" THEN EnterFlush(after, clock, frame)
              ELSE Return(error) /\ records' = after
  BY DEF Ingest, IngestWith
<1> DEFINE late == IF CallError(d, res, before) = "Ok" THEN ExpiredAt(after, clock) ELSE {}
           gone == (records \ before) \cup late
           extra == [received |-> 1, expired |-> Cardinality(gone)]
<1>7. metrics' \in Metrics
  <2>1. late \in SUBSET after
    BY DEF ExpiredAt
  <2>2. IsFiniteSet(late) /\ IsFiniteSet(records \ before)
    BY <1>2, <1>5, <2>1, FS_Subset DEF RecordsSound
  <2>3. Cardinality(gone) \in Nat
    BY <2>2, FS_Union, FS_CardinalityType
  <2>4. \A c \in Counters \cap DOMAIN extra : extra[c] \in Nat
    BY <2>3
  <2>5. Count(Tally(d, res, before), extra)
    BY <1>6
  <2>6. Tally(d, res, before) \in [Counters -> Nat]
    BY <1>4, TallyType
  <2> HIDE DEF extra, d, before
  <2>7. QED BY <1>0, <2>4, <2>5, <2>6, CountType DEF TypeOK
<1>8. pc = "idle" /\ now' = clock /\ links' = links
  BY DEF Ingest, IngestWith
<1>9. frame \in SUBSET [link: LinkIds, id: Nat]
  BY <1>0 DEF EnvelopeType
<1> HIDE DEF d, before, clock, frame
<1>10. QED BY <1>0, <1>1, <1>3, <1>4, <1>6, <1>7, <1>8, <1>9, RoutedCall

\* Tick and the two link events.
LEMMA TickInvariant ==
  ASSUME IInv, NEW t \in Times, Tick(t)
  PROVE  IInv'
<1> DEFINE gone == ExpiredAt(records, ObservedTime(t))
<1>0. TypeOK /\ now \in Nat /\ t \in Nat /\ LinkTableSound /\ RingSound
  BY GatewayAssumption DEF IInv, TypeOK, RouterTypeOK, Times, RingSound
<1>1. RecordsSound(records, now)
  BY InvariantRecords
<1>2. now' = ObservedTime(t) /\ now' \in Nat
  BY <1>0 DEF Tick, ObservedTime
<1>3. EnterFlush(ObservedRecords(t), now', {}) /\ io' = NoIO
  BY DEF Tick
<1>4. RecordsSound(records', now')
  <2>1. RecordsSound(ObservedRecords(t), now')
    BY <1>1, <1>2, UnexpiredSound DEF ObservedRecords, ObservedTime
  <2>2. QED BY <1>3, <2>1, UnexpiredSound DEF EnterFlush
<1>5. metrics' \in Metrics
  <2>1. Cardinality(gone) \in Nat
    BY <1>1, FiniteCount DEF ExpiredAt
  <2>2. Count([c \in Counters |-> 0], [expired |-> Cardinality(gone)])
    BY DEF Tick
  <2>3. QED BY <1>0, <2>1, <2>2, CountType DEF TypeOK
<1>6. links' = links /\ RingSound' /\ lastDelivered' = lastDelivered
  BY <1>0, RingUntouched DEF Tick
<1>7. TypeOK'
  BY <1>0, <1>2, <1>3, <1>4, <1>5, <1>6
     DEF TypeOK, RouterTypeOK, RingSound, EnterFlush, NoIO, RecordsSound
<1>8. StrandedOnlyByFailure' /\ LinkTableSound'
  BY <1>0, <1>3, <1>6 DEF EnterFlush, StrandedOnlyByFailure, LinkTableSound
<1>9. QED BY <1>4, <1>6, <1>7, <1>8, InvariantRecordsPrime DEF IInv, RingSound

\* handle_link_event(Up) keeps the invariant.
LEMMA LinkUpInvariant ==
  ASSUME IInv, NEW l \in LinkIds, LinkUp(l)
  PROVE  IInv'
<1>0. /\ TypeOK /\ LinkTableSound /\ links \in Seq(LinkState)
      /\ StrandedOnlyByFailure /\ pc = "idle" /\ RingSound
  BY DEF IInv, TypeOK, RouterTypeOK, RingSound, LinkUp
<1>1. RecordsSound(records, now)
  BY InvariantRecords
<1>2. /\ links' = SetLinkState(l, TRUE) /\ io' = NoIO
      /\ RingSound' /\ now' = now /\ lastDelivered' = lastDelivered
  BY <1>0, RingUntouched DEF LinkUp
<1>3. /\ links' \in Seq(LinkState) /\ LinkTableSound'
      /\ LinkTableFull(l) => UpLinks' \subseteq UpLinks
  BY <1>0, <1>2, SetLinkStateSound
<1>4. CASE LinkTableFull(l)
  <2>1. Return("TooManyLinks") /\ records' = records /\ metrics' = metrics
    BY <1>4 DEF LinkUp
  <2>2. TypeOK'
    BY <1>0, <1>2, <1>3, <2>1 DEF TypeOK, RouterTypeOK, RingSound, Return, NoIO, Errors
  <2>3. StrandedOnlyByFailure'
    BY <1>0, <1>3, <1>4, <2>1 DEF Return, StrandedOnlyByFailure
  <2>4. QED BY <1>1, <1>2, <1>3, <2>1, <2>2, <2>3, InvariantRecordsPrime
             DEF IInv, RingSound
<1>5. CASE ~LinkTableFull(l)
  <2>1. /\ EnterFlush(records, now, {})
        /\ Count([c \in Counters |-> 0],
                 [expired |-> Cardinality(ExpiredAt(records, now))])
    BY <1>5 DEF LinkUp
  <2>2. RecordsSound(records', now')
    BY <1>1, <1>2, <2>1, UnexpiredSound DEF EnterFlush
  <2>3. Cardinality(ExpiredAt(records, now)) \in Nat
    BY <1>1, FiniteCount DEF ExpiredAt
  <2>4. metrics' \in Metrics
    BY <1>0, <2>1, <2>3, CountType DEF TypeOK
  <2>5. TypeOK'
    BY <1>0, <1>2, <1>3, <2>1, <2>2, <2>4
       DEF TypeOK, RouterTypeOK, RingSound, EnterFlush, NoIO, RecordsSound
  <2>6. StrandedOnlyByFailure'
    BY <2>1 DEF EnterFlush, StrandedOnlyByFailure
  <2>7. QED BY <1>2, <1>3, <2>2, <2>5, <2>6, InvariantRecordsPrime DEF IInv, RingSound
<1>6. QED BY <1>4, <1>5

\* handle_link_event(Down) keeps the invariant.
LEMMA LinkDownInvariant ==
  ASSUME IInv, NEW l \in LinkIds, LinkDown(l)
  PROVE  IInv'
<1>0. /\ TypeOK /\ LinkTableSound /\ links \in Seq(LinkState)
      /\ StrandedOnlyByFailure /\ pc = "idle" /\ RingSound
  BY DEF IInv, TypeOK, RouterTypeOK, RingSound, LinkDown
<1>1. RecordsSound(records, now)
  BY InvariantRecords
<1>2. /\ links' = SetLinkState(l, FALSE) /\ io' = NoIO /\ Return("Ok")
      /\ RingSound' /\ UNCHANGED <<now, records, metrics, lastDelivered>>
  BY <1>0, RingUntouched DEF LinkDown
<1>3. /\ links' \in Seq(LinkState) /\ LinkTableSound'
      /\ UpLinks' \subseteq UpLinks
  BY <1>0, <1>2, SetLinkStateSound
<1>4. TypeOK'
  BY <1>0, <1>2, <1>3 DEF TypeOK, RouterTypeOK, RingSound, Return, NoIO
<1>5. StrandedOnlyByFailure'
  BY <1>0, <1>2, <1>3 DEF Return, StrandedOnlyByFailure
<1>6. QED BY <1>1, <1>2, <1>3, <1>4, <1>5, InvariantRecordsPrime DEF IInv, RingSound

\* The iterations of the flush loop.
LEMMA FlushInvariant ==
  ASSUME IInv, FlushStep
  PROVE  IInv'
<1> DEFINE e == FirstPending(records)
           d == ForwardStored(e)
<1>0. /\ TypeOK /\ now \in Nat /\ links \in Seq(LinkState) /\ LinkTableSound
      /\ pc = "flush" /\ RingSound
  BY DEF IInv, TypeOK, RouterTypeOK, RingSound, FlushStep, FlushDrained, FlushUnroutable,
         FlushRecord
<1>1. RecordsSound(records, now)
  BY InvariantRecords
<1>2. ASSUME links' = links, now' = now, records' \in SUBSET records
      PROVE  LinkTableSound' /\ RecordsSound(records', now')
  <2>1. \A x \in records' : x.expires > now
    BY <1>1, <1>2 DEF RecordsSound
  <2>2. QED BY <1>0, <1>1, <1>2, <2>1, SubsetSound DEF LinkTableSound
<1>3. CASE FlushDrained
  <2> USE <1>3 DEF FlushDrained, EndFlush
  <2>1. LinkTableSound' /\ RecordsSound(records', now') /\ RingSound'
    BY <1>0, <1>2, RingUntouched DEF routerVars
  <2>2. TypeOK'
    BY <1>0, <2>1 DEF TypeOK, RouterTypeOK, RingSound, routerVars, NoIO, Stops
  <2>3. StrandedOnlyByFailure'
    BY DEF StrandedOnlyByFailure
  <2>4. QED BY <2>1, <2>2, <2>3, InvariantRecordsPrime DEF IInv, RingSound
<1>4. ASSUME records # {}
      PROVE  /\ e \in records /\ e \in EnvelopeType
             /\ DecisionSound(d, now) /\ d \in Decision /\ ~d.put
             /\ d.error = "Ok" /\ IsEmpty(d) => UpLinks = {}
  <2>1. e \in records /\ e \in EnvelopeType
    BY <1>1, <1>4, FirstPendingIsLeast DEF RecordsSound
  <2> HIDE DEF e
  <2>2. QED BY <1>0, <2>1, ForwardStoredSound DEF DecisionSound
<1>5. CASE FlushUnroutable
  <2>0. records # {} /\ io' = NoIO /\ UNCHANGED <<routerVars, records, metrics, lastDelivered>>
    BY <1>5 DEF FlushUnroutable
  <2>1. \/ d.error # "Ok" /\ EndFlush(d.error, "error")
        \/ d.error = "Ok" /\ IsEmpty(d) /\ EndFlush("Ok", "noroute")
    BY <1>5 DEF FlushUnroutable
  <2>2. LinkTableSound' /\ RecordsSound(records', now') /\ RingSound'
    BY <1>0, <1>2, <2>0, RingUntouched DEF routerVars
  <2>3. d.error \in RouterErrors \cup {"Ok"}
    BY <1>4, <2>0 DEF Decision
  <2>4. UpLinks' = UpLinks
    BY <2>0 DEF routerVars, UpLinks, UpLinksExcept
  <2>5. d.error = "Ok" /\ IsEmpty(d) => UpLinks = {}
    BY <1>4, <2>0
  <2> HIDE DEF d
  <2>6. TypeOK'
    BY <1>0, <2>0, <2>1, <2>2, <2>3
       DEF TypeOK, RouterTypeOK, RingSound, routerVars, NoIO, Stops, EndFlush, Errors
  <2>7. StrandedOnlyByFailure'
    BY <2>1, <2>4, <2>5 DEF StrandedOnlyByFailure, EndFlush
  <2>8. QED BY <2>2, <2>6, <2>7, InvariantRecordsPrime DEF IInv, RingSound
<1>6. CASE FlushRecord
  <2>0. records # {} /\ links' = links /\ now' = now
    BY <1>6 DEF FlushRecord, FlushRecordWith
  <2>1. PICK res \in [d.sends -> Outcome] :
          /\ Execute(d, res, records)
          /\ Count(Tally(d, res, records), << >>)
          /\ \/ /\ FlushError(d, res) # "Ok"
                /\ EndFlush(FlushError(d, res), "error")
                /\ UNCHANGED records
             \/ /\ FlushError(d, res) = "Ok"
                /\ ~AllSent(d, res)
                /\ EndFlush("Ok", "retry")
                /\ UNCHANGED records
             \/ /\ FlushError(d, res) = "Ok"
                /\ AllSent(d, res)
                /\ records' = Without(records, e.id)
                /\ UNCHANGED <<pc, result, stop, arrival>>
    BY <1>6 DEF FlushRecord, FlushRecordWith
  <2>2. d \in Decision
    BY <1>4, <2>0
  <2>3. FlushError(d, res) \in Errors \cup {"Ok"}
    BY DEF FlushError, Errors
  <2> HIDE DEF d, e
  <2>4. /\ RingSound' /\ lastDelivered' \in SUBSET Nat
        /\ io' \in [sent: SUBSET Transmission, local: SUBSET EnvelopeType]
    BY <1>0, <2>1, <2>2, ExecuteType
  <2>5. metrics' \in Metrics
    <3> DEFINE extra == << >>
    <3>1. Tally(d, res, records) \in [Counters -> Nat]
      BY <2>2, TallyType
    <3>2. Counters \cap DOMAIN extra = {}
      <4>1. DOMAIN extra = 1..Len(extra) /\ Len(extra) = 0
        OBVIOUS
      <4>2. QED BY <4>1
    <3>3. Count(Tally(d, res, records), extra)
      BY <2>1
    <3> HIDE DEF extra
    <3>4. QED BY <1>0, <3>1, <3>2, <3>3, CountType DEF TypeOK
  <2>6. records' \in SUBSET records
    BY <2>1 DEF Without
  <2>7. LinkTableSound' /\ RecordsSound(records', now')
    BY <1>2, <2>0, <2>6
  <2>8. TypeOK'
    BY <1>0, <2>0, <2>1, <2>3, <2>4, <2>5, <2>7
       DEF TypeOK, RouterTypeOK, RingSound, EndFlush, Stops, RecordsSound
  <2>9. StrandedOnlyByFailure'
    BY <1>0, <2>1 DEF StrandedOnlyByFailure, EndFlush
  <2>10. QED BY <2>4, <2>7, <2>8, <2>9, InvariantRecordsPrime DEF IInv, RingSound
<1>7. QED BY <1>3, <1>5, <1>6 DEF FlushStep

-----------------------------------------------------------------------------

\* Every step of the gateway keeps the invariant, whatever envelopes clients
\* submit and peers send.
LEMMA StepInvariant ==
  ASSUME IInv, NEW traffic \in SUBSET EnvelopeType, [NextOn(traffic)]_vars
  PROVE  IInv'
<1>1. CASE \E e \in traffic : Submit(e)
  BY <1>1, SubmitInvariant
<1>2. CASE \E t \in Times, l \in LinkIds, e \in traffic : Ingest(l, e, t)
  BY <1>2, IngestInvariant
<1>3. CASE \E t \in Times : Tick(t)
  BY <1>3, TickInvariant
<1>4. CASE \E l \in LinkIds : LinkUp(l) \/ LinkDown(l)
  BY <1>4, LinkUpInvariant, LinkDownInvariant
<1>5. CASE FlushStep
  BY <1>5, FlushInvariant
<1>6. CASE UNCHANGED vars
  BY <1>6 DEF vars, routerVars, seenVars, observed, IInv, TypeOK, RouterTypeOK,
              SeenTypeOK, SeenIsQueue, EmptySlots, StoreSound,
              LinkTableSound, LocalNeverStored, StrandedOnlyByFailure, UpLinks,
              UpLinksExcept, IsLocalNode, IsLocalCommunity
<1>7. QED BY <1>1, <1>2, <1>3, <1>4, <1>5, <1>6 DEF NextOn

\* The invariant holds in every state of the gateway: what the five theorems
\* that follow, and those about its steps, rest on.
THEOREM GatewayInvariant == Spec => []IInv
<1>1. Init => IInv
  BY InitInvariant
<1>2. IInv /\ [Next]_vars => IInv'
  BY StepInvariant, GatewayAssumption DEF Next
<1>3. QED BY <1>1, <1>2, PTL DEF Spec

\* Every variable keeps its type.
THEOREM GatewayTypes == Spec => []TypeOK
BY GatewayInvariant, PTL DEF IInv

\* For every capacity, clock and traffic the store (put_envelope, expire_before,
\* flush_store) never holds an id twice, more records than it has slots, or a
\* record that is invalid, oversize or overdue.
THEOREM StoreStaysSound == Spec => []StoreSound
BY GatewayInvariant, PTL DEF IInv

\* For every size of the ring, zero included, the router's ring of seen keys is
\* filled from the front and holds no key twice (commit_seen).
THEOREM SeenStaysQueue == Spec => []SeenIsQueue
BY GatewayInvariant, PTL DEF IInv

\* set_link_state never lists a link twice and stays within its slots.
THEOREM LinkTableStaysSound == Spec => []LinkTableSound
BY GatewayInvariant, PTL DEF IInv

\* What handle_envelope would deliver here is never in the store.
THEOREM LocalMessagesAreNeverStored == Spec => []LocalNeverStored
BY GatewayInvariant, PTL DEF IInv

\* Between calls a record waits while a link is up only because the last
\* flush_store ended with a failure.
THEOREM RecordsWaitOnlyAfterFailure == Spec => []StrandedOnlyByFailure
BY GatewayInvariant, PTL DEF IInv

-----------------------------------------------------------------------------
(* Records leave the store.                                                *)

\* forward_stored of a sound record: when it asks for anything, the record is
\* out of hops, or it asks for every link that is up (community) or for one.
LEMMA ForwardAsksEnough ==
  ASSUME IInv, NEW e \in records,
         ForwardStored(e).error = "Ok", ~IsEmpty(ForwardStored(e))
  PROVE  \/ e.hop = 0
         \/ /\ ForwardStored(e).sends # {}
            /\ IsCommunity(e) => ForwardStored(e).sends = UpLinks
<1> DEFINE first == FirstUpLinkExcept(NoLink)
<1>1. /\ VersionOk(e) /\ ExpiryOk(e) /\ ~(e.expires <= now)
      /\ ~IsLocalNode(e) /\ ~IsLocalCommunity(e)
  <2>1. e.expires \in Nat /\ now \in Nat /\ e.expires > now
    BY DEF IInv, StoreSound, TypeOK, RouterTypeOK, EnvelopeType
  <2>2. QED BY <2>1 DEF IInv, StoreSound, LocalNeverStored, Valid
<1>2. LocalCopy(e) = {}
  BY <1>1 DEF LocalCopy
<1>3. CASE e.hop # 0 /\ IsCommunity(e)
  <2>1. ForwardStored(e) = IF UpLinks = {} THEN Nothing(e) ELSE FanOut(e, {}, UpLinks)
    BY <1>1, <1>2, <1>3
    DEF ForwardStored, ForwardStoredCommunity, RejectTerminal, RejectInvalidOrExpired
  <2>2. UpLinks # {}
    BY <2>1 DEF Nothing, IsEmpty
  <2>3. ForwardStored(e).sends = UpLinks
    BY <2>1, <2>2 DEF FanOut, Reject, Forward, Nothing
  <2>4. QED BY <2>2, <2>3
<1>4. CASE e.hop # 0 /\ ~IsCommunity(e)
  <2>1. ForwardStored(e) = Forward(e, {}, first)
    BY <1>1, <1>4 DEF ForwardStored, RejectTerminal, RejectInvalidOrExpired
  <2>2. first # {}
    BY <2>1 DEF Forward, Nothing, IsEmpty
  <2>3. QED BY <1>4, <2>1, <2>2 DEF Forward, Nothing
<1>5. QED BY <1>3, <1>4

\* A call expires records and puts one: what it loses is overdue.
LEMMA CallReleases ==
  ASSUME NEW before, NEW after, NEW t, now' = t, before \subseteq after,
         \A e \in records \ before : e.expires <= t,
         \A e \in records : e.expires \in Nat, t \in Nat,
         records' = after \/ records' = Unexpired(after, t)
  PROVE  ReleaseStep
BY DEF ReleaseStep, Unexpired

\* observe_time drops overdue records only.
LEMMA ObservedDropsOverdue ==
  ASSUME IInv, NEW t \in Times
  PROVE  /\ \A e \in records \ ObservedRecords(t) : e.expires <= ObservedTime(t)
         /\ ObservedTime(t) \in Nat
         /\ \A e \in records : e.expires \in Nat
<1>1. now \in Nat /\ t \in Nat /\ \A e \in records : e.expires \in Nat
  BY GatewayAssumption DEF IInv, TypeOK, RouterTypeOK, EnvelopeType, Times
<1>2. QED BY <1>1 DEF ObservedRecords, ObservedTime, Unexpired

\* Mapped to the calls, and to the iterations of the loop of flush_store.
LEMMA FlushReleases ==
  ASSUME IInv, NEW res, FlushRecordWith(res)
  PROVE  ReleaseStep
<1> DEFINE e == FirstPending(records)
           d == ForwardStored(e)
<1>0. /\ links \in Seq(LinkState) /\ now \in Nat /\ records \subseteq EnvelopeType
      /\ RecordsSound(records, now)
  BY InvariantRecords DEF IInv, TypeOK, RouterTypeOK
<1>1. /\ records # {} /\ d.error = "Ok" /\ ~IsEmpty(d) /\ Execute(d, res, records)
      /\ \/ UNCHANGED records
         \/ AllSent(d, res) /\ records' = Without(records, e.id)
  BY DEF FlushRecordWith
<1>2. e \in records
  BY <1>0, <1>1, FirstPendingIsLeast DEF RecordsSound
<1>3. d.out = e
  BY <1>0, <1>2, ForwardStoredSound
<1>4. e.hop = 0 \/ (d.sends # {} /\ (IsCommunity(e) => d.sends = UpLinks))
  BY <1>1, <1>2, ForwardAsksEnough
<1>5. io'.sent = {[link |-> l, env |-> d.out] : l \in Succeeded(d, res)}
  BY <1>1 DEF Execute, Effects
<1> HIDE DEF d, e
<1>6. CASE UNCHANGED records
  BY <1>6 DEF ReleaseStep
<1>7. CASE AllSent(d, res) /\ records' = Without(records, e.id)
  <2>1. \A f \in records \ records' : f = e
    BY <1>0, <1>2, <1>7 DEF Without, RecordsSound
  <2>2. {s.link : s \in {x \in io'.sent : x.env = e}} = d.sends
    <3>1. Succeeded(d, res) = d.sends
      BY <1>7 DEF AllSent
    <3>2. io'.sent = {[link |-> l, env |-> e] : l \in d.sends}
      BY <1>3, <1>5, <3>1
    <3>3. \A l \in d.sends : [link |-> l, env |-> e] \in io'.sent
      BY <3>2
    <3>4. \A s \in io'.sent : s.link \in d.sends /\ s.env = e
      BY <3>2
    <3>5. \A l \in d.sends : [link |-> l, env |-> e].link = l /\ [link |-> l, env |-> e].env = e
      OBVIOUS
    <3>6. {x \in io'.sent : x.env = e} = io'.sent
      BY <3>4
    <3>7. {s.link : s \in io'.sent} = d.sends
      <4>1. \A l \in d.sends : \E s \in io'.sent : s.link = l
        BY <3>3, <3>5
      <4>2. QED BY <3>4, <4>1
    <3>8. QED BY <3>6, <3>7
  <2>3. e.hop = 0 \/ HandledInFull(e)
    BY <1>4, <2>2 DEF HandledInFull
  <2>4. QED BY <2>1, <2>3 DEF ReleaseStep
<1>8. QED BY <1>1, <1>6, <1>7

\* A step releases only records it has handled.
LEMMA StepReleases ==
  ASSUME IInv, NEW traffic \in SUBSET EnvelopeType, [NextOn(traffic)]_vars
  PROVE  ReleaseStep \/ UNCHANGED vars
<1>0. /\ now \in Nat /\ \A e \in records : e.expires \in Nat
      /\ \A e \in records \ records : e.expires <= now
  BY DEF IInv, TypeOK, RouterTypeOK, EnvelopeType
<1>1. CASE \E e \in traffic : Submit(e)
  <2>1. PICK e, res : e \in traffic /\ SubmitWith(e, res)
    BY <1>1 DEF Submit
  <2> DEFINE d == HandleEnvelope(e, NoLink, now)
             after == IF Stores(d, records) THEN Put(records, d.out) ELSE records
  <2>2. records' = after \/ records' = Unexpired(after, now)
    BY <2>1 DEF SubmitWith, EnterFlush
  <2>3. now' = now /\ records \subseteq after
    BY <2>1 DEF SubmitWith, Put
  <2> HIDE DEF after
  <2>4. QED BY <1>0, <2>2, <2>3, CallReleases
<1>2. CASE \E t \in Times, l \in LinkIds, e \in traffic : Ingest(l, e, t)
  <2>1. PICK t, l, e, res :
          /\ t \in Times /\ l \in LinkIds /\ e \in traffic
          /\ IngestWith(l, e, t, res)
    BY <1>2 DEF Ingest
  <2> DEFINE clock == ObservedTime(t)
             before == ObservedRecords(t)
             d == HandleFrame(e, l, clock)
             after == IF Stores(d, before) THEN Put(before, d.out) ELSE before
  <2>2. records' = after \/ records' = Unexpired(after, clock)
    BY <2>1 DEF IngestWith, EnterFlush
  <2>3. now' = clock /\ before \subseteq after
    BY <2>1 DEF IngestWith, Put
  <2>4. clock \in Nat /\ \A x \in records \ before : x.expires <= clock
    BY <2>1, ObservedDropsOverdue
  <2> HIDE DEF after, before, clock
  <2>5. QED BY <1>0, <2>2, <2>3, <2>4, CallReleases
<1>3. CASE \E t \in Times : Tick(t)
  <2>1. PICK t \in Times : Tick(t)
    BY <1>3
  <2> DEFINE clock == ObservedTime(t)
             before == ObservedRecords(t)
  <2>2. now' = clock /\ records' = Unexpired(before, clock) /\ before \subseteq before
    BY <2>1 DEF Tick, EnterFlush
  <2>3. clock \in Nat /\ \A x \in records \ before : x.expires <= clock
    BY ObservedDropsOverdue
  <2> HIDE DEF before, clock
  <2>4. QED BY <1>0, <2>2, <2>3, CallReleases
<1>4. CASE \E l \in LinkIds : LinkUp(l) \/ LinkDown(l)
  <2>1. now' = now /\ (records' = records \/ records' = Unexpired(records, now))
    BY <1>4 DEF LinkUp, LinkDown, EnterFlush
  <2>2. QED BY <1>0, <2>1, CallReleases
<1>5. CASE FlushStep
  <2>1. CASE FlushDrained \/ FlushUnroutable
    BY <2>1 DEF FlushDrained, FlushUnroutable, ReleaseStep
  <2>2. CASE FlushRecord
    BY <2>2, FlushReleases DEF FlushRecord
  <2>3. QED BY <1>5, <2>1, <2>2 DEF FlushStep
<1>6. QED BY <1>1, <1>2, <1>3, <1>4, <1>5 DEF NextOn

\* Whatever fails and whenever: a record leaves the store when it is overdue,
\* out of hops, or sent on all the links it is owed to (flush_store,
\* execute_commands_for_flush).
THEOREM OwedRecordsStay == Spec => ReleasedOnlyWhenHandled
<1>1. IInv /\ [Next]_vars => [ReleaseStep]_vars
  BY StepReleases, GatewayAssumption DEF Next
<1>2. QED BY <1>1, GatewayInvariant, PTL DEF Spec, ReleasedOnlyWhenHandled

-----------------------------------------------------------------------------
(* The loop of flush_store.                                                *)

\* No other call comes between the iterations of the loop, and an iteration
\* leaves the loop with the records as they are, or goes on with one less.
FlushShrinks ==
  pc = "flush" =>
    \/ pc' = "idle" /\ records' = records
    \/ /\ pc' = "flush" /\ records' \subseteq records
       /\ Cardinality(records') = Cardinality(records) - 1

\* A step of the gateway in the loop is an iteration of the loop.
LEMMA StepShrinks ==
  ASSUME IInv, [Next]_vars
  PROVE  FlushShrinks \/ UNCHANGED vars
<1> SUFFICES ASSUME pc = "flush", ~UNCHANGED vars PROVE FlushShrinks
  BY DEF FlushShrinks
<1>1. FlushStep
  <2>1. ASSUME NEW e, Submit(e) PROVE FALSE
    BY <2>1 DEF Submit, SubmitWith
  <2>2. ASSUME NEW l, NEW e, NEW t, Ingest(l, e, t) PROVE FALSE
    BY <2>2 DEF Ingest, IngestWith
  <2>3. ASSUME NEW t, Tick(t) PROVE FALSE
    BY <2>3 DEF Tick
  <2>4. ASSUME NEW l, LinkUp(l) \/ LinkDown(l) PROVE FALSE
    BY <2>4 DEF LinkUp, LinkDown
  <2>5. QED BY <2>1, <2>2, <2>3, <2>4 DEF Next, NextOn
<1>2. CASE FlushDrained \/ FlushUnroutable
  BY <1>2 DEF FlushDrained, FlushUnroutable, EndFlush, FlushShrinks
<1>3. CASE FlushRecord
  <2> DEFINE e == FirstPending(records)
  <2>1. CASE pc' = "idle" /\ UNCHANGED records
    BY <2>1 DEF FlushShrinks
  <2>2. CASE pc' = pc /\ records' = Without(records, e.id)
    <3>1. RecordsSound(records, now) /\ records # {}
      BY <1>3, InvariantRecords DEF FlushRecord
    <3>2. e \in records
      BY <3>1, FirstPendingIsLeast DEF RecordsSound
    <3>3. records' = records \ {e}
      BY <2>2, <3>1, <3>2 DEF Without, RecordsSound
    <3> HIDE DEF e
    <3>4. Cardinality(records') = Cardinality(records) - 1
      BY <3>1, <3>2, <3>3, FS_RemoveElement DEF RecordsSound
    <3>5. QED BY <2>2, <3>3, <3>4 DEF FlushShrinks
  <2>3. QED BY <1>3, <2>1, <2>2 DEF FlushRecord, FlushRecordWith, EndFlush
<1>4. QED BY <1>1, <1>2, <1>3 DEF FlushStep

\* The loop of flush_store has at most as many iterations as it finds records:
\* in every state of the gateway, for every outcome of the sends.
THEOREM FlushLoopShrinks == Spec => [][FlushShrinks]_vars
<1>1. IInv /\ [Next]_vars => [FlushShrinks]_vars
  BY StepShrinks
<1>2. QED BY <1>1, GatewayInvariant, PTL DEF Spec

-----------------------------------------------------------------------------
(* Messages are remembered.                                                *)

\* commit_seen adds the key of its envelope and no other.
LEMMA CommitAddsOneKey ==
  ASSUME RingSound, NEW e, CommitSeen(e)
  PROVE  Remembered' \subseteq Remembered \cup {SeenKey(e)}
<1>1. CASE UNCHANGED seenVars
  BY <1>1 DEF seenVars, Remembered
<1>2. CASE MaxSeen # 0 /\ MarkSeen(SeenKey(e))
  <2> DEFINE k == SeenKey(e)
  <2>1. next_seen \in SeenSlots /\ seen' = [seen EXCEPT ![next_seen] = k]
    BY <1>2, MarkedSlot
  <2> HIDE DEF k
  <2>2. \A i \in SeenSlots : seen'[i] = IF i = next_seen THEN k ELSE seen[i]
    BY <2>1 DEF RingSound, SeenTypeOK
  <2>3. QED BY <2>2 DEF Remembered, SeenSlots, k
<1>3. QED BY <1>1, <1>2 DEF CommitSeen

\* What a decision delivers here is the message that it sends on, and it was
\* not remembered.
DeliversOut(d) == \A x \in d.local : SeenKey(x) = SeenKey(d.out) /\ ~HasSeen(x)

\* A hop does not change what message an envelope is.
LEMMA NextHopKey ==
  ASSUME NEW e \in EnvelopeType
  PROVE  SeenKey(NextHop(e)) = SeenKey(e)
BY DEF NextHop, SeenKey, IsCommunity, EnvelopeType

\* Every decision of the router delivers the message that it sends on.
LEMMA DecisionsDeliverOut ==
  ASSUME NEW e \in EnvelopeType, NEW l, NEW t
  PROVE  /\ DeliversOut(HandleEnvelope(e, l, t))
         /\ DeliversOut(HandleFrame(e, l, t))
         /\ DeliversOut(ForwardStored(e))
<1>1. \A x : DeliversOut(Reject(e, x)) /\ DeliversOut(Drop(e, x))
  BY DEF DeliversOut, Reject, Drop, Nothing
<1>2. DeliversOut(Nothing(e))
  BY DEF DeliversOut, Nothing
<1> DEFINE Fresh == {x \in {e} : ~HasSeen(x)}
<1>3. ASSUME NEW out \in {e, NextHop(e)}, NEW L \in SUBSET Fresh, NEW S
      PROVE  DeliversOut(FanOut(out, L, S)) /\ DeliversOut(Forward(out, L, S))
  <2>1. SeenKey(out) = SeenKey(e)
    BY NextHopKey
  <2>2. DeliversOut(Forward(out, L, S)) /\ DeliversOut(Reject(out, "OutputTooSmall"))
    BY <2>1 DEF DeliversOut, Forward, Reject, Nothing
  <2>3. QED BY <2>2 DEF FanOut
<1>4. \A out : DeliversOut(StorePut(out))
  BY DEF DeliversOut, StorePut, Nothing
<1>5. /\ LocalCopy(e) \in SUBSET Fresh /\ {} \in SUBSET Fresh
      /\ ~HasSeen(e) => {e} \in SUBSET Fresh
  BY DEF LocalCopy
<1> HIDE DEF Fresh
<1>6. DeliversOut(HandleCommunity(e, l))
  BY <1>1, <1>3, <1>4, <1>5, Zenon DEF HandleCommunity, CommunityFallback
<1>7. DeliversOut(HandleRemote(e, l))
  BY <1>1, <1>3, <1>4, <1>5, Zenon DEF HandleRemote
<1>8. DeliversOut(HandleEnvelope(e, l, t))
  BY <1>1, <1>3, <1>5, <1>6, <1>7, Zenon DEF HandleEnvelope, RejectInvalidOrExpired
<1>9. DeliversOut(HandleFrame(e, l, t))
  BY <1>1, <1>8, Zenon DEF HandleFrame
<1>10. DeliversOut(ForwardStored(e))
  BY <1>1, <1>2, <1>3, <1>5, Zenon
  DEF ForwardStored, ForwardStoredCommunity, RejectTerminal, RejectInvalidOrExpired
<1>11. QED BY <1>8, <1>9, <1>10

\* Executing a batch remembers its message, and only because it was sent,
\* delivered or stored (execute_commands_record).
LEMMA ExecuteRemembers ==
  ASSUME RingSound, NEW d, DeliversOut(d), NEW res, NEW recs, Execute(d, res, recs),
         NEW k \in Remembered' \ Remembered
  PROVE  \/ \E s \in io'.sent : SeenKey(s.env) = k
         \/ \E x \in io'.local : SeenKey(x) = k
         \/ Stores(d, recs) /\ SeenKey(d.out) = k
<1>1. Commits(d, res, recs) /\ CommitSeen(d.out)
  BY DEF Execute, seenVars, Remembered
<1>2. k = SeenKey(d.out)
  BY <1>1, CommitAddsOneKey
<1>3. /\ io'.sent = {[link |-> l, env |-> d.out] : l \in Succeeded(d, res)}
      /\ io'.local = d.local
  BY DEF Execute, Effects
<1>4. CASE d.local # {}
  BY <1>2, <1>3, <1>4 DEF DeliversOut
<1>5. CASE Succeeded(d, res) # {}
  <2>1. PICK l \in Succeeded(d, res) : TRUE
    BY <1>5
  <2>2. [link |-> l, env |-> d.out] \in io'.sent
    BY <1>3
  <2>3. QED BY <1>2, <2>2
<1>6. CASE Stores(d, recs)
  BY <1>2, <1>6
<1>7. QED BY <1>1, <1>4, <1>5, <1>6 DEF Commits

\* A put that the call made is still there when it enters the flush loop, and
\* was not there before it.
LEMMA StoredIsNew ==
  ASSUME NEW t, NEW before, NEW d, DecisionSound(d, t), Stores(d, before),
         \A e \in records \ before : e.expires <= t,
         t \in Nat,
         NEW after, after = Put(before, d.out),
         records' = after \/ records' = Unexpired(after, t)
  PROVE  d.out \in records' \ records
<1>1. d.out.expires > t /\ d.out.expires \in Nat
  BY DEF DecisionSound, Stores, Decision, EnvelopeType
<1>2. PutError(before, d.out) = "Ok"
  BY DEF Stores
<1>3. after = before \cup {d.out} /\ d.out.id \notin StoredIds(before)
  BY <1>2 DEF Put, PutError
<1>4. d.out \notin before
  BY <1>3 DEF StoredIds
<1>5. d.out \notin records
  BY <1>1, <1>4
<1>6. QED BY <1>1, <1>3, <1>5 DEF Unexpired

\* A step remembers only messages it has done something with.
LEMMA StepCommits ==
  ASSUME IInv, NEW traffic \in SUBSET EnvelopeType, [NextOn(traffic)]_vars
  PROVE  CommitStep \/ UNCHANGED vars
<1>0. /\ now \in Nat /\ links \in Seq(LinkState) /\ RingSound
      /\ records \subseteq EnvelopeType /\ traffic \subseteq EnvelopeType
      /\ RecordsSound(records, now)
  BY InvariantRecords DEF IInv, TypeOK, RouterTypeOK, RingSound
<1>1. CASE \E e \in traffic : Submit(e)
  <2>1. PICK e, res : e \in traffic /\ SubmitWith(e, res)
    BY <1>1 DEF Submit
  <2> DEFINE d == HandleEnvelope(e, NoLink, now)
             after == IF Stores(d, records) THEN Put(records, d.out) ELSE records
  <2>2. DecisionSound(d, now) /\ DeliversOut(d)
    BY <1>0, <2>1, HandleEnvelopeSound, DecisionsDeliverOut
  <2>3. /\ Execute(d, res, records)
        /\ records' = after \/ records' = Unexpired(after, now)
    BY <2>1 DEF SubmitWith, EnterFlush
  <2>4. \A x \in records \ records : x.expires <= now
    OBVIOUS
  <2> HIDE DEF d
  <2>5. Stores(d, records) => d.out \in records' \ records
    BY <1>0, <2>2, <2>3, <2>4, StoredIsNew
  <2>6. QED BY <1>0, <2>2, <2>3, <2>5, ExecuteRemembers DEF CommitStep
<1>2. CASE \E t \in Times, l \in LinkIds, e \in traffic : Ingest(l, e, t)
  <2>1. PICK t, l, e, res :
          /\ t \in Times /\ l \in LinkIds /\ e \in traffic
          /\ IngestWith(l, e, t, res)
    BY <1>2 DEF Ingest
  <2> DEFINE clock == ObservedTime(t)
             before == ObservedRecords(t)
             d == HandleFrame(e, l, clock)
             after == IF Stores(d, before) THEN Put(before, d.out) ELSE before
  <2>2. clock \in Nat /\ \A x \in records \ before : x.expires <= clock
    BY <2>1, ObservedDropsOverdue
  <2>3. DecisionSound(d, clock) /\ DeliversOut(d)
    BY <1>0, <2>1, <2>2, HandleEnvelopeSound, DecisionsDeliverOut
  <2>4. /\ Execute(d, res, before)
        /\ records' = after \/ records' = Unexpired(after, clock)
    BY <2>1 DEF IngestWith, EnterFlush
  <2> HIDE DEF d, before, clock
  <2>5. Stores(d, before) => d.out \in records' \ records
    BY <2>2, <2>3, <2>4, StoredIsNew
  <2>6. QED BY <1>0, <2>3, <2>4, <2>5, ExecuteRemembers DEF CommitStep
<1>3. CASE UNCHANGED seenVars
  BY <1>3 DEF CommitStep, Remembered, seenVars
<1>4. CASE FlushRecord
  <2> DEFINE e == FirstPending(records)
             d == ForwardStored(e)
  <2>1. PICK res : Execute(d, res, records)
    BY <1>4 DEF FlushRecord, FlushRecordWith
  <2>2. e \in records
    BY <1>0, <1>4, FirstPendingIsLeast DEF RecordsSound, FlushRecord
  <2>3. DeliversOut(d) /\ ~d.put
    BY <1>0, <2>2, ForwardStoredSound, DecisionsDeliverOut
  <2> HIDE DEF d, e
  <2>4. ~Stores(d, records)
    BY <2>3 DEF Stores
  <2>5. QED BY <1>0, <2>1, <2>3, <2>4, ExecuteRemembers DEF CommitStep
<1>5. CASE FlushDrained \/ FlushUnroutable
  BY <1>3, <1>5 DEF FlushDrained, FlushUnroutable, routerVars
<1>6. CASE \E t \in Times : Tick(t)
  BY <1>3, <1>6 DEF Tick
<1>7. CASE \E l \in LinkIds : LinkUp(l) \/ LinkDown(l)
  BY <1>3, <1>7 DEF LinkUp, LinkDown
<1>8. QED BY <1>1, <1>2, <1>4, <1>5, <1>6, <1>7 DEF NextOn, FlushStep

\* Whatever fails: a message counts as seen only after it was sent, stored or
\* delivered, so that one whose command failed can be tried again
\* (execute_commands_record, commit_seen).
THEOREM SeenOnlyAfterSuccess == Spec => CommitOnlyAfterSuccess
<1>1. IInv /\ [Next]_vars => [CommitStep]_vars
  BY StepCommits, GatewayAssumption DEF Next
<1>2. QED BY <1>1, GatewayInvariant, PTL DEF Spec, CommitOnlyAfterSuccess

-----------------------------------------------------------------------------
(* The gateway implements Custody, with its own clock.                     *)

\* What Custody says about a store is what the store says.
LEMMA CustodyOperators ==
  ASSUME NEW recs, NEW t, NEW e, NEW f
  PROVE  /\ Custody!Unexpired(recs, t) = Unexpired(recs, t)
         /\ Custody!PutError(recs, e) = PutError(recs, e)
         /\ Custody!Precedes(e, f) = Precedes(e, f)
<1>1. Custody!Unexpired(recs, t) = Unexpired(recs, t)
  BY DEF Custody!Unexpired, Unexpired
<1>2. /\ Custody!Valid(e) <=> Valid(e)
      /\ Custody!ExpiryOk(e) <=> ExpiryOk(e)
      /\ Custody!Fits(e) <=> Fits(e)
      /\ Custody!StoredIds(recs) = StoredIds(recs)
  BY DEF Custody!Valid, Valid, Custody!VersionOk, VersionOk, Custody!ExpiryOk, ExpiryOk,
         Custody!Fits, Fits, Custody!StoredIds, StoredIds
<1>3. Custody!PutError(recs, e) = PutError(recs, e)
  <2>1. CASE RejectExpiredOnPut /\ ~ExpiryOk(e)
    BY <1>2, <2>1 DEF Custody!PutError, PutError
  <2>2. CASE ~(RejectExpiredOnPut /\ ~ExpiryOk(e)) /\ ~Valid(e)
    BY <1>2, <2>2 DEF Custody!PutError, PutError
  <2>3. CASE ~(RejectExpiredOnPut /\ ~ExpiryOk(e)) /\ Valid(e)
    <3>1. Custody!Cardinality(recs) = Cardinality(recs)
      BY DEF Custody!Cardinality, Cardinality, Custody!IsFiniteSet, IsFiniteSet
    <3>2. QED BY <1>2, <2>3, <3>1 DEF Custody!PutError, PutError
  <2>4. QED BY <2>1, <2>2, <2>3
<1>4. Custody!Precedes(e, f) = Precedes(e, f)
  BY Zenon DEF Custody!Precedes, Precedes
<1>5. QED BY <1>1, <1>3, <1>4

\* Expiry, and at most one put of a sound decision, is a step of Custody.
LEMMA CallObserves ==
  ASSUME now \in Nat, NEW t \in Nat, t >= now, now' = t,
         NEW before, before = Unexpired(records, t),
         NEW d, DecisionSound(d, t), NEW res,
         NEW after, after = IF Stores(d, before) THEN Put(before, d.out) ELSE before,
         IF CallError(d, res, before) = "Ok" THEN records' = Unexpired(after, t)
         ELSE records' = after
  PROVE  Custody!Observe
<1>1. CASE ~Stores(d, before)
  <2>1. records' = Unexpired(records, t)
    BY <1>1 DEF Unexpired
  <2>2. QED BY <2>1, CustodyOperators DEF Custody!Observe
<1>2. CASE Stores(d, before)
  <2>1. /\ PutError(before, d.out) = "Ok" /\ d.put
        /\ CallError(d, res, before) = "Ok"
    BY <1>2, FailedCallStoresNothing DEF Stores
  <2>2. d.out.expires > t
    BY <2>1 DEF DecisionSound
  <2>3. after = before \cup {d.out}
    BY <1>2, <2>1 DEF Put
  <2>4. records' = before \cup {d.out}
    BY <2>1, <2>2, <2>3 DEF Unexpired
  <2>5. QED BY <2>1, <2>2, <2>4, CustodyOperators DEF Custody!Observe
<1>3. QED BY <1>1, <1>2

\* A step of the gateway observes time, takes an envelope or hands one over.
LEMMA StepKeepsCustody ==
  ASSUME IInv, NEW traffic \in SUBSET EnvelopeType, [NextOn(traffic)]_vars
  PROVE  Custody!Observe \/ Custody!HandOver \/ (records' = records /\ now' = now)
<1>0. /\ now \in Nat /\ links \in Seq(LinkState)
      /\ records \subseteq EnvelopeType /\ traffic \subseteq EnvelopeType
      /\ RecordsSound(records, now) /\ Unexpired(records, now) = records
  <2>1. RecordsSound(records, now)
    BY InvariantRecords
  <2>2. QED BY <2>1 DEF IInv, TypeOK, RouterTypeOK, RecordsSound, Unexpired
<1>1. CASE \E e \in traffic : Submit(e)
  <2>1. PICK e, res : e \in traffic /\ SubmitWith(e, res)
    BY <1>1 DEF Submit
  <2> DEFINE d == HandleEnvelope(e, NoLink, now)
             after == IF Stores(d, records) THEN Put(records, d.out) ELSE records
  <2>2. DecisionSound(d, now)
    BY <1>0, <2>1, HandleEnvelopeSound
  <2>3. /\ now' = now /\ now >= now
        /\ IF CallError(d, res, records) = "Ok" THEN records' = Unexpired(after, now)
           ELSE records' = after
    BY <1>0, <2>1 DEF SubmitWith, EnterFlush
  <2> HIDE DEF d
  <2>4. QED BY <1>0, <2>2, <2>3, CallObserves
<1>2. ASSUME NEW t \in Times
      PROVE  /\ ObservedTime(t) \in Nat /\ ObservedTime(t) >= now
             /\ ObservedRecords(t) = Unexpired(records, ObservedTime(t))
  BY <1>0, GatewayAssumption DEF ObservedTime, ObservedRecords, Times
<1>3. CASE \E t \in Times, l \in LinkIds, e \in traffic : Ingest(l, e, t)
  <2>1. PICK t, l, e, res :
          /\ t \in Times /\ l \in LinkIds /\ e \in traffic
          /\ IngestWith(l, e, t, res)
    BY <1>3 DEF Ingest
  <2> DEFINE clock == ObservedTime(t)
             before == ObservedRecords(t)
             d == HandleFrame(e, l, clock)
             after == IF Stores(d, before) THEN Put(before, d.out) ELSE before
  <2>2. clock \in Nat /\ clock >= now /\ before = Unexpired(records, clock)
    BY <1>2, <2>1
  <2>3. DecisionSound(d, clock)
    BY <1>0, <2>1, <2>2, HandleEnvelopeSound
  <2>4. /\ now' = clock
        /\ IF CallError(d, res, before) = "Ok" THEN records' = Unexpired(after, clock)
           ELSE records' = after
    BY <2>1 DEF IngestWith, EnterFlush
  <2> HIDE DEF d, before, clock
  <2>5. QED BY <1>0, <2>2, <2>3, <2>4, CallObserves
<1>4. CASE \E t \in Times : Tick(t)
  <2>1. PICK t \in Times : Tick(t)
    BY <1>4
  <2> DEFINE clock == ObservedTime(t)
  <2>2. now' = clock /\ records' = Unexpired(ObservedRecords(t), clock)
    BY <2>1 DEF Tick, EnterFlush
  <2>3. clock \in Nat /\ clock >= now /\ ObservedRecords(t) = Unexpired(records, clock)
    BY <1>2
  <2> HIDE DEF clock
  <2>4. records' = Unexpired(records, clock)
    BY <2>2, <2>3 DEF Unexpired
  <2>5. QED BY <2>2, <2>3, <2>4, CustodyOperators DEF Custody!Observe
<1>5. CASE \E l \in LinkIds : LinkUp(l) \/ LinkDown(l)
  BY <1>0, <1>5 DEF LinkUp, LinkDown, EnterFlush
<1>6. CASE FlushDrained \/ FlushUnroutable
  BY <1>6 DEF FlushDrained, FlushUnroutable, routerVars
<1>7. CASE FlushRecord
  <2> DEFINE e == FirstPending(records)
  <2>1. /\ records # {} /\ now' = now
        /\ records' = records \/ records' = Without(records, e.id)
    BY <1>7 DEF FlushRecord, FlushRecordWith
  <2>2. e \in records /\ \A f \in records \ {e} : Precedes(e, f)
    BY <1>0, <2>1, FirstPendingIsLeast DEF RecordsSound
  <2> HIDE DEF e
  <2>3. Without(records, e.id) = records \ {e}
    BY <1>0, <2>2 DEF Without, RecordsSound
  <2>4. QED BY <2>1, <2>2, <2>3, CustodyOperators DEF Custody!HandOver
<1>8. CASE UNCHANGED vars
  BY <1>8 DEF vars, routerVars
<1>9. QED BY <1>1, <1>3, <1>4, <1>5, <1>6, <1>7, <1>8 DEF NextOn, FlushStep

\* Whatever links, clients and clocks do, the store under the gateway keeps
\* custody: an envelope it holds leaves by its deadline or by being handed
\* over, nearest deadline first, one at a time, and time never runs backwards
\* (observe_time, flush_store, first_pending).
THEOREM GatewayKeepsCustody == Spec => CustodySpec
<1>1. Init => Custody!CustodyInit
  BY DEF Init, RouterInit, Custody!CustodyInit
<1>2. IInv /\ [Next]_vars => [Custody!CustodyNext]_(Custody!custodyVars)
  BY StepKeepsCustody, GatewayAssumption
  DEF Next, Custody!CustodyNext, Custody!custodyVars
<1>3. QED BY <1>1, <1>2, GatewayInvariant, PTL DEF Spec, CustodySpec, Custody!CustodySpec

-----------------------------------------------------------------------------
(* The router's ring implements SeenWindow.                                *)

\* How many slots of the ring are filled.
Filled == IF EmptySlots # {} THEN next_seen ELSE MaxSeen

\* The ring as LibraryProofs reads it.
LEMMA UnrolledIsRing ==
  ASSUME RingSound, MaxSeen # 0
  PROVE  /\ Unrolled = RingOrder(MaxSeen, seen, next_seen, Filled)
         /\ Filled \in 0..MaxSeen /\ (Filled < MaxSeen => next_seen = Filled)
<1>1. MaxSeen \in Nat \ {0} /\ next_seen \in 0..(MaxSeen - 1)
  BY RouterAssumption DEF RingSound, SeenTypeOK, SeenSlots
<1>2. CASE EmptySlots # {}
  BY <1>1, <1>2 DEF Unrolled, RingOrder, Filled
<1>3. CASE EmptySlots = {}
  BY <1>1, <1>3 DEF Unrolled, RingOrder, Filled
<1>4. QED BY <1>2, <1>3

\* The same in the next state.
LEMMA UnrolledIsRingNext ==
  ASSUME RingSound', MaxSeen # 0
  PROVE  Unrolled' = RingOrder(MaxSeen, seen', next_seen', Filled')
<1>1. MaxSeen \in Nat \ {0} /\ next_seen' \in 0..(MaxSeen - 1)
  BY RouterAssumption DEF RingSound, SeenTypeOK, SeenSlots
<1>2. CASE EmptySlots' # {}
  BY <1>1, <1>2 DEF Unrolled, RingOrder, Filled
<1>3. CASE EmptySlots' = {}
  BY <1>1, <1>3 DEF Unrolled, RingOrder, Filled
<1>4. QED BY <1>2, <1>3

\* mark_seen fills one slot more, until all are filled.
LEMMA MarkSeenFills ==
  ASSUME RingSound, MaxSeen # 0, NEW k, k # NoKey, MarkSeen(k)
  PROVE  Filled' = IF Filled < MaxSeen THEN Filled + 1 ELSE MaxSeen
<1>1. MaxSeen \in Nat \ {0} /\ SeenSlots = 0..(MaxSeen - 1) /\ next_seen \in SeenSlots
  BY RouterAssumption DEF RingSound, SeenTypeOK, SeenSlots
<1>2. /\ seen' = [seen EXCEPT ![next_seen] = k]
      /\ next_seen' = IF next_seen + 1 = MaxSeen THEN 0 ELSE next_seen + 1
  BY <1>1, MarkedSlot, NextSlot
<1>3. \A i \in SeenSlots : seen'[i] = IF i = next_seen THEN k ELSE seen[i]
  BY <1>2 DEF RingSound, SeenTypeOK
<1>4. EmptySlots' = EmptySlots \ {next_seen}
  BY <1>3 DEF EmptySlots, SeenSlots
<1>5. PICK n \in 0..MaxSeen : EmptySlots = n..(MaxSeen - 1) /\ (n < MaxSeen => next_seen = n)
  BY DEF RingSound, SeenIsQueue
<1>6. CASE n = MaxSeen
  <2>1. EmptySlots = {} /\ EmptySlots' = {}
    BY <1>1, <1>4, <1>5, <1>6
  <2>2. QED BY <1>1, <2>1 DEF Filled
<1>7. CASE n < MaxSeen
  <2>1. EmptySlots # {} /\ next_seen = n /\ EmptySlots' = (n + 1)..(MaxSeen - 1)
    <3>1. n \in EmptySlots /\ next_seen = n
      BY <1>1, <1>5, <1>7
    <3>2. (n..(MaxSeen - 1)) \ {n} = (n + 1)..(MaxSeen - 1)
      BY <1>1, <1>5
    <3>3. QED BY <1>4, <1>5, <3>1, <3>2
  <2>2. Filled = n
    BY <2>1 DEF Filled
  <2>3. Filled' = n + 1
    <3>1. CASE n + 1 = MaxSeen
      <4>1. EmptySlots' = {}
        BY <1>1, <2>1, <3>1
      <4>2. QED BY <3>1, <4>1 DEF Filled
    <3>2. CASE n + 1 < MaxSeen
      <4>1. EmptySlots' # {} /\ next_seen' = n + 1
        BY <1>1, <1>2, <2>1, <3>2
      <4>2. QED BY <4>1 DEF Filled
    <3>3. QED BY <1>1, <1>5, <1>7, <3>1, <3>2
  <2>4. QED BY <1>7, <2>2, <2>3
<1>8. QED BY <1>1, <1>5, <1>6, <1>7

\* What a step does to the ring: it marks the message of an envelope that was
\* not remembered, and delivers no other here.
Marks(e) ==
  /\ MaxSeen # 0 /\ ~HasSeen(e) /\ MarkSeen(SeenKey(e))
  /\ \A x \in io'.local : SeenKey(x) = SeenKey(e)

\* Marking commits to the window.
LEMMA MarkingCommits ==
  ASSUME RingSound, NEW e \in EnvelopeType, Marks(e)
  PROVE  RingCommits(MaxSeen, Unrolled, SeenKey(e), Unrolled') /\ RingSound'
<1> DEFINE M == MaxSeen
           T == SeenKeys \cup {NoKey}
           k == SeenKey(e)
<1>0. MaxSeen # 0 /\ ~HasSeen(e) /\ MarkSeen(SeenKey(e)) /\ CommitSeen(e)
  BY DEF Marks, CommitSeen
<1>1. M \in Nat \ {0} /\ k \in SeenKeys /\ k \in T /\ k # NoKey
  BY <1>0, RouterAssumption, SeenKeyType
<1>2. /\ seen \in [0..(M - 1) -> T] /\ next_seen \in 0..(M - 1)
      /\ \A j \in 0..(M - 1) : seen[j] # k
  BY <1>0, <1>1 DEF RingSound, SeenTypeOK, SeenSlots, HasSeen, Remembered
<1>3. seen' = [seen EXCEPT ![next_seen] = k] /\ next_seen' = (next_seen + 1) % M
  BY <1>0, MarkedSlot
<1>4. Filled' = IF Filled < M THEN Filled + 1 ELSE M
  BY <1>0, <1>1, MarkSeenFills
<1>5. /\ Unrolled = RingOrder(M, seen, next_seen, Filled)
      /\ Filled \in 0..M /\ (Filled < M => next_seen = Filled)
  BY <1>0, UnrolledIsRing
<1>6. Unrolled' = RingOrder(M, seen', next_seen', Filled') /\ RingSound'
  BY <1>0, CommitSeenSound, UnrolledIsRingNext
<1> HIDE DEF M, T, k
<1>7. RingCommits(M, RingOrder(M, seen, next_seen, Filled), k,
        RingOrder(M, [seen EXCEPT ![next_seen] = k], (next_seen + 1) % M,
                  IF Filled < M THEN Filled + 1 ELSE M))
  BY <1>1, <1>2, <1>5, RingStep
<1>8. RingCommits(M, Unrolled, k, Unrolled')
  BY <1>3, <1>4, <1>5, <1>6, <1>7
<1>9. QED BY <1>6, <1>8 DEF M, k

\* A step of the gateway marks one message, or leaves the ring alone and, if
\* it has slots, delivers nothing.
LEMMA StepMarks ==
  ASSUME IInv, NEW traffic \in SUBSET EnvelopeType, NextOn(traffic)
  PROVE  \/ UNCHANGED seenVars /\ (io'.local = {} \/ MaxSeen = 0)
         \/ \E e \in EnvelopeType : Marks(e)
<1>0. /\ now \in Nat /\ links \in Seq(LinkState) /\ RingSound
      /\ records \subseteq EnvelopeType /\ traffic \subseteq EnvelopeType
      /\ RecordsSound(records, now)
  BY InvariantRecords DEF IInv, TypeOK, RouterTypeOK, RingSound
<1> DEFINE Goal == \/ UNCHANGED seenVars /\ (io'.local = {} \/ MaxSeen = 0)
                   \/ \E e \in EnvelopeType : Marks(e)
<1>1. CASE UNCHANGED seenVars /\ io' = NoIO
  BY <1>1 DEF NoIO
<1>2. ASSUME NEW d, d.out \in EnvelopeType, DeliversOut(d), NEW res, NEW recs,
             Execute(d, res, recs)
      PROVE  Goal
  <2>1. io'.local = d.local /\ \A x \in d.local : SeenKey(x) = SeenKey(d.out) /\ ~HasSeen(x)
    BY <1>2 DEF Execute, Effects, DeliversOut
  <2>2. CASE ~Commits(d, res, recs)
    BY <1>2, <2>1, <2>2 DEF Execute, Commits
  <2>3. CASE CommitSeen(d.out) /\ (HasSeen(d.out) \/ MaxSeen = 0)
    <3>1. UNCHANGED seenVars
      BY <2>3 DEF CommitSeen
    <3>2. HasSeen(d.out) => d.local = {}
      BY <2>1 DEF HasSeen
    <3>3. QED BY <2>1, <2>3, <3>1, <3>2
  <2>4. CASE CommitSeen(d.out) /\ ~HasSeen(d.out) /\ MaxSeen # 0
    <3>1. Marks(d.out)
      BY <2>1, <2>4 DEF CommitSeen, Marks
    <3>2. QED BY <1>2, <3>1
  <2>5. QED BY <1>2, <2>2, <2>3, <2>4 DEF Execute
<1> HIDE DEF Goal
<1>3. CASE \E e \in traffic : Submit(e)
  <2>1. PICK e, res : e \in traffic /\ SubmitWith(e, res)
    BY <1>3 DEF Submit
  <2> DEFINE d == HandleEnvelope(e, NoLink, now)
  <2>2. DecisionSound(d, now) /\ DeliversOut(d) /\ Execute(d, res, records)
    BY <1>0, <2>1, HandleEnvelopeSound, DecisionsDeliverOut DEF SubmitWith
  <2> HIDE DEF d
  <2>3. Goal
    BY <1>2, <2>2 DEF DecisionSound, Decision
  <2>4. QED BY <2>3 DEF Goal
<1>4. CASE \E t \in Times, l \in LinkIds, e \in traffic : Ingest(l, e, t)
  <2>1. PICK t, l, e, res :
          /\ t \in Times /\ l \in LinkIds /\ e \in traffic
          /\ IngestWith(l, e, t, res)
    BY <1>4 DEF Ingest
  <2> DEFINE d == HandleFrame(e, l, ObservedTime(t))
  <2>2. ObservedTime(t) \in Nat
    BY <2>1, ObservedDropsOverdue
  <2>3. DecisionSound(d, ObservedTime(t)) /\ DeliversOut(d)
    BY <1>0, <2>1, <2>2, HandleEnvelopeSound, DecisionsDeliverOut
  <2>4. Execute(d, res, ObservedRecords(t))
    BY <2>1 DEF IngestWith
  <2> HIDE DEF d
  <2>5. Goal
    BY <1>2, <2>3, <2>4 DEF DecisionSound, Decision
  <2>6. QED BY <2>5 DEF Goal
<1>5. CASE FlushRecord
  <2> DEFINE e == FirstPending(records)
             d == ForwardStored(e)
  <2>1. PICK res : Execute(d, res, records)
    BY <1>5 DEF FlushRecord, FlushRecordWith
  <2>2. e \in records
    BY <1>0, <1>5, FirstPendingIsLeast DEF RecordsSound, FlushRecord
  <2>3. d \in Decision /\ DeliversOut(d)
    BY <1>0, <2>2, ForwardStoredSound, DecisionsDeliverOut DEF DecisionSound
  <2> HIDE DEF d, e
  <2>4. Goal
    BY <1>2, <2>1, <2>3 DEF Decision
  <2>5. QED BY <2>4 DEF Goal
<1>6. CASE FlushDrained \/ FlushUnroutable
  BY <1>1, <1>6 DEF FlushDrained, FlushUnroutable, routerVars
<1>7. CASE \E t \in Times : Tick(t)
  BY <1>1, <1>7 DEF Tick
<1>8. CASE \E l \in LinkIds : LinkUp(l) \/ LinkDown(l)
  BY <1>1, <1>8 DEF LinkUp, LinkDown
<1>9. QED BY <1>3, <1>4, <1>5, <1>6, <1>7, <1>8 DEF NextOn, FlushStep

\* A step of the gateway commits a key to the window, or leaves it.
LEMMA StepCommitsToWindow ==
  ASSUME IInv, NEW traffic \in SUBSET EnvelopeType, [NextOn(traffic)]_vars
  PROVE  Window!WindowNext \/ UNCHANGED Unrolled
<1>0. RingSound
  BY DEF IInv, TypeOK, RouterTypeOK, RingSound
<1>1. CASE UNCHANGED seenVars
  BY <1>1 DEF seenVars, Unrolled, EmptySlots
<1>2. ASSUME NEW e \in EnvelopeType, Marks(e) PROVE Window!WindowNext
  <2> DEFINE k == SeenKey(e)
  <2>1. RingCommits(MaxSeen, Unrolled, k, Unrolled') /\ k \in SeenKeys
    BY <1>0, <1>2, MarkingCommits, SeenKeyType
  <2> HIDE DEF k
  <2>2. Unrolled' = Window!Remember(Unrolled, k)
    BY <2>1 DEF Window!Remember, Window!Remembered, RingCommits
  <2>3. k \in {Unrolled'[i] : i \in DOMAIN Unrolled'}
    BY <2>1 DEF RingCommits
  <2>4. QED BY <2>1, <2>2, <2>3 DEF Window!WindowNext, Window!Commit, Window!Remembered
<1>3. CASE UNCHANGED vars
  BY <1>1, <1>3 DEF vars, routerVars
<1>4. QED BY <1>1, <1>2, <1>3, StepMarks

\* The keys that the router remembers are the last ones committed, in the order
\* they were committed, for every size of the ring and whatever is sent, stored,
\* refused and flushed in between (commit_seen, mark_seen).
THEOREM SeenIsWindow == Spec => SeenWindowSpec
<1>1. Init => Window!WindowInit
  <2> SUFFICES ASSUME Init PROVE Unrolled = << >>
    BY DEF Window!WindowInit
  <2>1. /\ MaxSeen \in Nat /\ next_seen = 0 /\ SeenSlots = 0..(MaxSeen - 1)
        /\ \A i \in SeenSlots : seen[i] = NoKey
    BY RouterAssumption DEF Init, RouterInit, SeenSlots
  <2>2. EmptySlots = {} => MaxSeen = 0
    BY <2>1 DEF EmptySlots
  <2>3. QED BY <2>1, <2>2 DEF Unrolled
<1>2. IInv /\ [Next]_vars => [Window!WindowNext]_Unrolled
  BY StepCommitsToWindow, GatewayAssumption DEF Next
<1>3. QED BY <1>1, <1>2, GatewayInvariant, PTL DEF Spec, SeenWindowSpec, Window!WindowSpec

-----------------------------------------------------------------------------
(* Expiry is counted once.                                                 *)

\* A step that counts g records as expired and at most Bit(stored) as stored.
LEMMA CountKeepsBalance ==
  ASSUME metrics \in Metrics, ExpiredCountedOnce,
         NEW tally \in [Counters -> Nat], tally["expired"] = 0,
         NEW extra, "stored" \notin DOMAIN extra,
         NEW g \in Nat, g = IF "expired" \in DOMAIN extra THEN extra["expired"] ELSE 0,
         Count(tally, extra),
         Cardinality(records) \in Nat, Cardinality(records') \in Nat,
         Cardinality(records') + g <= Cardinality(records) + tally["stored"]
  PROVE  ExpiredCountedOnce'
<1> DEFINE S == metrics["stored"]
           X == metrics["expired"]
           a == tally["stored"]
<1>1. "stored" \in Counters /\ "expired" \in Counters
  BY DEF Counters
<1>2. /\ S \in Nat /\ X \in Nat /\ a \in Nat
      /\ MetricMax["stored"] \in Nat /\ MetricMax["expired"] \in Nat
  BY <1>1, GatewayAssumption DEF Metrics
<1>3. metrics'["stored"] = Saturate("stored", S + a)
  <2>1. metrics'["stored"] = Saturate("stored", S + a + 0)
    BY <1>1 DEF Count
  <2>2. QED BY <1>2, <2>1
<1>4. metrics'["expired"] = Saturate("expired", X + g)
  <2>1. metrics'["expired"] = Saturate("expired", X + 0 + g)
    BY <1>1 DEF Count
  <2>2. QED BY <1>2, <2>1
<1>5. metrics'["expired"] \in Nat /\ metrics'["expired"] <= X + g
  BY <1>2, <1>4 DEF Saturate
<1>6. metrics'["stored"] < MetricMax["stored"] =>
        metrics'["stored"] = S + a /\ S < MetricMax["stored"]
  BY <1>2, <1>3 DEF Saturate
<1>7. S < MetricMax["stored"] => X + Cardinality(records) <= S
  BY DEF ExpiredCountedOnce
<1> DEFINE c == Cardinality(records)
           cc == Cardinality(records')
           SS == metrics'["stored"]
           XX == metrics'["expired"]
           M == MetricMax["stored"]
<1>8. SS < M => XX + cc <= SS
  <2>1. /\ c \in Nat /\ cc \in Nat /\ cc + g <= c + a
        /\ XX \in Nat /\ XX <= X + g
        /\ SS < M => SS = S + a /\ S < M
        /\ S < M => X + c <= S
    BY <1>5, <1>6, <1>7
  <2> HIDE DEF c, cc, SS, XX, M, S, X, a
  <2>2. QED BY <1>2, <2>1
<1>9. QED BY <1>8 DEF ExpiredCountedOnce

\* Records that stay and records that are counted are different ones.
Apart(K, G, x, n) ==
  K \cap G = {} /\ K \cup G \subseteq IF n = 1 THEN records \cup {x} ELSE records
LEMMA KeptAndGone ==
  ASSUME IsFiniteSet(records), NEW K, NEW G, NEW x, NEW n \in {0, 1}, Apart(K, G, x, n)
  PROVE  /\ Cardinality(K) \in Nat /\ Cardinality(G) \in Nat /\ Cardinality(records) \in Nat
         /\ Cardinality(K) + Cardinality(G) <= Cardinality(records) + n
<1> DEFINE W == IF n = 1 THEN records \cup {x} ELSE records
<1>1. IsFiniteSet(W) /\ Cardinality(records) \in Nat /\ Cardinality(W) \in Nat
  <2>1. IsFiniteSet(records \cup {x})
    BY FS_AddElement
  <2>2. IsFiniteSet(W)
    BY <2>1
  <2> HIDE DEF W
  <2>3. QED BY <2>2, FS_CardinalityType
<1>2. Cardinality(W) <= Cardinality(records) + n
  <2>1. CASE n = 1
    <3>1. Cardinality(W) = IF x \in records THEN Cardinality(records) ELSE Cardinality(records) + 1
      BY <2>1, FS_AddElement
    <3> HIDE DEF W
    <3>2. QED BY <1>1, <2>1, <3>1
  <2>2. CASE n = 0
    BY <1>1, <2>2
  <2>3. QED BY <2>1, <2>2
<1> HIDE DEF W
<1>3. K \in SUBSET W /\ G \in SUBSET W /\ K \cup G \in SUBSET W /\ K \cap G = {}
  BY DEF W, Apart
<1>4. IsFiniteSet(K) /\ IsFiniteSet(G) /\ Cardinality(K \cup G) <= Cardinality(W)
  BY <1>1, <1>3, FS_Subset
<1>5. Cardinality(K) \in Nat /\ Cardinality(G) \in Nat
  BY <1>4, FS_CardinalityType
<1>6. Cardinality(K \cup G) = Cardinality(K) + Cardinality(G)
  <2>1. Cardinality(K \cup G) = Cardinality(K) + Cardinality(G) - Cardinality(K \cap G)
    BY <1>4, FS_Union
  <2>2. Cardinality(K \cap G) = 0
    BY <1>3, FS_EmptySet
  <2>3. QED BY <1>5, <2>1, <2>2
<1>7. QED BY <1>1, <1>2, <1>4, <1>5, <1>6

\* Submit and Ingest: what observe_time and flush_store expire is counted, and
\* what the batch stores.
LEMMA RoutedCallBalanced ==
  ASSUME IInv, ExpiredCountedOnce, NEW t \in Nat,
         NEW before \in SUBSET records, RecordsSound(before, t),
         \A e \in records \ before : e.expires <= t,
         NEW d, DecisionSound(d, t), NEW res, NEW extra, "stored" \notin DOMAIN extra,
         NEW late, "expired" \in DOMAIN extra,
         extra["expired"] = Cardinality((records \ before) \cup late),
         Count(Tally(d, res, before), extra),
         NEW after, after = IF Stores(d, before) THEN Put(before, d.out) ELSE before,
         \/ records' = after /\ late = {}
         \/ records' = Unexpired(after, t) /\ late = ExpiredAt(after, t)
  PROVE  ExpiredCountedOnce'
<1> DEFINE tally == Tally(d, res, before)
           gone == (records \ before) \cup late
           n == Bit(Stores(d, before))
<1>0. RecordsSound(records, now) /\ IsFiniteSet(records) /\ metrics \in Metrics
      /\ d \in Decision
  BY InvariantRecords DEF RecordsSound, IInv, TypeOK, DecisionSound
<1>1. RecordsSound(after, t)
  BY PutSound
<1>2. late = {} /\ records' = after
  <2>1. \A e \in after : e.expires > t /\ e.expires \in Nat
    BY <1>1 DEF RecordsSound, EnvelopeType
  <2>2. ExpiredAt(after, t) = {} /\ Unexpired(after, t) = after
    BY <2>1 DEF ExpiredAt, Unexpired
  <2>3. QED BY <2>2
<1>3. gone = records \ before
  BY <1>2
<1>4. after \subseteq IF n = 1 THEN before \cup {d.out} ELSE before
  BY DEF Put, Bit
<1>5. after \cap (records \ before) = {}
  <2>1. \A e \in after : e.expires > t /\ e.expires \in Nat
    BY <1>1 DEF RecordsSound, EnvelopeType
  <2>2. QED BY <2>1
<1>6. n \in {0, 1}
  BY DEF Bit
<1>7. /\ Cardinality(after) \in Nat /\ Cardinality(gone) \in Nat /\ Cardinality(records) \in Nat
      /\ Cardinality(after) + Cardinality(gone) <= Cardinality(records) + n
  <2> DEFINE x == d.out
  <2>1. Apart(after, gone, x, n)
    BY <1>3, <1>4, <1>5 DEF Apart
  <2> HIDE DEF n, gone, x
  <2>2. QED BY <1>0, <1>6, <2>1, KeptAndGone
<1>8. tally \in [Counters -> Nat] /\ tally["expired"] = 0 /\ tally["stored"] = n
  <2>1. tally \in [Counters -> Nat]
    BY <1>0, TallyType
  <2>2. QED BY <2>1 DEF Tally, Counters
<1> HIDE DEF tally, gone, n
<1>9. Count(tally, extra) /\ extra["expired"] = Cardinality(gone)
  BY DEF tally, gone
<1>10. QED BY <1>0, <1>2, <1>7, <1>8, <1>9, CountKeepsBalance

\* A step that stores nothing and counts what it expires, if anything.
LEMMA QuietBalanced ==
  ASSUME IInv, ExpiredCountedOnce, NEW gone \in SUBSET records,
         NEW kept \in SUBSET (records \ gone), records' = kept,
         \/ UNCHANGED metrics /\ gone = {}
         \/ Count([c \in Counters |-> 0], [expired |-> Cardinality(gone)])
  PROVE  ExpiredCountedOnce'
<1>0. IsFiniteSet(records) /\ metrics \in Metrics
  BY InvariantRecords DEF RecordsSound, IInv, TypeOK
<1>1. /\ Cardinality(kept) \in Nat /\ Cardinality(gone) \in Nat /\ Cardinality(records) \in Nat
      /\ Cardinality(kept) + Cardinality(gone) <= Cardinality(records)
  <2>1. Apart(kept, gone, 0, 0)
    BY DEF Apart
  <2>2. /\ Cardinality(kept) \in Nat /\ Cardinality(gone) \in Nat /\ Cardinality(records) \in Nat
        /\ Cardinality(kept) + Cardinality(gone) <= Cardinality(records) + 0
    BY <1>0, <2>1, KeptAndGone
  <2>3. QED BY <2>2
<1>2. CASE UNCHANGED metrics
  <2>1. /\ metrics["expired"] \in Nat /\ metrics["stored"] \in Nat
        /\ MetricMax["stored"] \in Nat
    BY <1>0, GatewayAssumption DEF Metrics, Counters
  <2>2. Cardinality(kept) <= Cardinality(records)
    BY <1>1
  <2>3. QED BY <1>1, <1>2, <2>1, <2>2 DEF ExpiredCountedOnce
<1>3. CASE Count([c \in Counters |-> 0], [expired |-> Cardinality(gone)])
  <2> DEFINE tally == [c \in Counters |-> 0]
             extra == [expired |-> Cardinality(gone)]
  <2>1. /\ tally \in [Counters -> Nat] /\ tally["expired"] = 0 /\ tally["stored"] = 0
        /\ "stored" \notin DOMAIN extra /\ "expired" \in DOMAIN extra
        /\ extra["expired"] = Cardinality(gone)
    BY DEF Counters
  <2>2. Count(tally, extra)
    BY <1>3
  <2> HIDE DEF tally, extra
  <2>3. Cardinality(kept) + Cardinality(gone) <= Cardinality(records) + tally["stored"]
    BY <1>1, <2>1
  <2>4. QED BY <1>0, <1>1, <2>1, <2>2, <2>3, CountKeepsBalance
<1>4. QED BY <1>2, <1>3

\* Every step of the gateway keeps the balance of stored, held and expired.
LEMMA StepBalanced ==
  ASSUME IInv, ExpiredCountedOnce, NEW traffic \in SUBSET EnvelopeType,
         [NextOn(traffic)]_vars
  PROVE  ExpiredCountedOnce'
<1>0. /\ now \in Nat /\ links \in Seq(LinkState)
      /\ records \subseteq EnvelopeType /\ traffic \subseteq EnvelopeType
      /\ RecordsSound(records, now)
  BY InvariantRecords DEF IInv, TypeOK, RouterTypeOK
<1>1. ASSUME NEW e \in traffic, Submit(e) PROVE ExpiredCountedOnce'
  <2> DEFINE d == HandleEnvelope(e, NoLink, now)
             after == IF Stores(d, records) THEN Put(records, d.out) ELSE records
  <2>1. DecisionSound(d, now)
    BY <1>0, HandleEnvelopeSound
  <2>2. PICK res : SubmitWith(e, res)
    BY <1>1 DEF Submit
  <2> DEFINE late == IF CallError(d, res, records) = "Ok" THEN ExpiredAt(after, now) ELSE {}
             extra == [submitted |-> 1, expired |-> Cardinality(late)]
  <2>3. /\ Count(Tally(d, res, records), extra)
        /\ \/ records' = after /\ late = {}
           \/ records' = Unexpired(after, now) /\ late = ExpiredAt(after, now)
    BY <2>2 DEF SubmitWith, EnterFlush
  <2>4. /\ "stored" \notin DOMAIN extra /\ "expired" \in DOMAIN extra
        /\ extra["expired"] = Cardinality((records \ records) \cup late)
    <3>1. (records \ records) \cup late = late
      OBVIOUS
    <3> HIDE DEF late
    <3>2. QED BY <3>1
  <2> HIDE DEF d, late, extra
  <2>5. QED BY <1>0, <2>1, <2>3, <2>4, RoutedCallBalanced
<1>2. ASSUME NEW l \in LinkIds, NEW e \in traffic, NEW t \in Times, Ingest(l, e, t)
      PROVE  ExpiredCountedOnce'
  <2> DEFINE clock == ObservedTime(t)
             before == ObservedRecords(t)
             d == HandleFrame(e, l, clock)
             after == IF Stores(d, before) THEN Put(before, d.out) ELSE before
  <2>0. /\ clock \in Nat /\ \A x \in records \ before : x.expires <= clock
    BY ObservedDropsOverdue
  <2>1. DecisionSound(d, clock)
    BY <1>0, <2>0, HandleEnvelopeSound
  <2>2. before \in SUBSET records /\ RecordsSound(before, clock)
    BY <1>0, UnexpiredSound DEF ObservedRecords, ObservedTime, Unexpired
  <2>3. PICK res : IngestWith(l, e, t, res)
    BY <1>2 DEF Ingest
  <2> DEFINE late == IF CallError(d, res, before) = "Ok" THEN ExpiredAt(after, clock) ELSE {}
             extra == [received |-> 1, expired |-> Cardinality((records \ before) \cup late)]
  <2>4. /\ Count(Tally(d, res, before), extra)
        /\ \/ records' = after /\ late = {}
           \/ records' = Unexpired(after, clock) /\ late = ExpiredAt(after, clock)
    BY <2>3 DEF IngestWith, EnterFlush
  <2>5. /\ "stored" \notin DOMAIN extra /\ "expired" \in DOMAIN extra
        /\ extra["expired"] = Cardinality((records \ before) \cup late)
    OBVIOUS
  <2> HIDE DEF d, late, extra, before, clock
  <2>6. QED BY <2>0, <2>1, <2>2, <2>4, <2>5, RoutedCallBalanced
<1>3. ASSUME NEW t \in Times, Tick(t) PROVE ExpiredCountedOnce'
  <2> DEFINE gone == ExpiredAt(records, ObservedTime(t))
             kept == Unexpired(ObservedRecords(t), ObservedTime(t))
  <2>1. /\ records' = kept
        /\ Count([c \in Counters |-> 0], [expired |-> Cardinality(gone)])
    BY <1>3 DEF Tick, EnterFlush
  <2>2. gone \in SUBSET records /\ kept \in SUBSET (records \ gone)
    <3>1. ObservedTime(t) \in Nat /\ \A e \in records : e.expires \in Nat
      BY ObservedDropsOverdue
    <3>2. ObservedRecords(t) \subseteq records
      BY DEF ObservedRecords, Unexpired
    <3>3. QED BY <3>1, <3>2 DEF ExpiredAt, Unexpired
  <2> HIDE DEF gone, kept
  <2>3. QED BY <2>1, <2>2, QuietBalanced
<1>4. ASSUME NEW l \in LinkIds, LinkUp(l) \/ LinkDown(l) PROVE ExpiredCountedOnce'
  <2>1. CASE records' = records /\ UNCHANGED metrics
    <3>1. {} \in SUBSET records /\ records \in SUBSET (records \ {})
      OBVIOUS
    <3>2. QED BY <2>1, <3>1, QuietBalanced
  <2>2. CASE /\ records' = Unexpired(records, now)
             /\ Count([c \in Counters |-> 0],
                      [expired |-> Cardinality(ExpiredAt(records, now))])
    <3> DEFINE gone == ExpiredAt(records, now)
               kept == Unexpired(records, now)
    <3>1. gone \in SUBSET records /\ kept \in SUBSET (records \ gone)
      <4>1. \A e \in records : e.expires \in Nat
        BY <1>0 DEF EnvelopeType
      <4>2. QED BY <1>0, <4>1 DEF ExpiredAt, Unexpired
    <3> HIDE DEF gone, kept
    <3>2. QED BY <2>2, <3>1, QuietBalanced DEF gone, kept
  <2>3. QED BY <1>4, <2>1, <2>2 DEF LinkUp, LinkDown, EnterFlush
<1>5. CASE FlushDrained \/ FlushUnroutable \/ UNCHANGED vars
  <2>1. records' = records /\ UNCHANGED metrics
    BY <1>5 DEF FlushDrained, FlushUnroutable, vars
  <2>2. {} \in SUBSET records /\ records \in SUBSET (records \ {})
    OBVIOUS
  <2>3. QED BY <2>1, <2>2, QuietBalanced
<1>6. CASE FlushRecord
  <2> DEFINE d == ForwardStored(FirstPending(records))
  <2>1. PICK res : FlushRecordWith(res)
    BY <1>6 DEF FlushRecord
  <2>2. records # {} /\ FirstPending(records) \in EnvelopeType
    BY <1>0, <1>6, FirstPendingIsLeast DEF FlushRecord, RecordsSound
  <2>3. d \in Decision /\ ~d.put
    BY <1>0, <2>2, ForwardStoredSound DEF DecisionSound
  <2>4. Count(Tally(d, res, records), << >>) /\ records' \subseteq records
    BY <2>1 DEF FlushRecordWith, Without
  <2> HIDE DEF d
  <2> DEFINE tally == Tally(d, res, records)
             extra == << >>
  <2>5. tally \in [Counters -> Nat] /\ tally["expired"] = 0 /\ tally["stored"] = 0
    <3>1. tally \in [Counters -> Nat]
      BY <2>3, TallyType
    <3>2. QED BY <2>3, <3>1 DEF Tally, Counters, Stores, Bit
  <2>6. "stored" \notin DOMAIN extra /\ "expired" \notin DOMAIN extra
    OBVIOUS
  <2>7. /\ Cardinality(records) \in Nat /\ Cardinality(records') \in Nat
        /\ Cardinality(records') <= Cardinality(records)
    BY <1>0, <2>4, FS_Subset, FS_CardinalityType DEF RecordsSound
  <2>8. Count(tally, extra) /\ metrics \in Metrics
    BY <2>4 DEF IInv, TypeOK
  <2> HIDE DEF tally, extra
  <2>9. Cardinality(records') + 0 <= Cardinality(records) + tally["stored"]
    BY <2>5, <2>7
  <2>10. QED BY <2>5, <2>6, <2>7, <2>8, <2>9, CountKeepsBalance
<1>7. QED BY <1>1, <1>2, <1>3, <1>4, <1>5, <1>6 DEF NextOn, FlushStep

\* While the counter of stored records has not saturated, the records counted
\* as expired and those still held are never more than those that were stored,
\* for every capacity and clock (observe_time, flush_store, put_envelope).
THEOREM ExpiryIsCountedOnce == Spec => []ExpiredCountedOnce
<1>1. Init => ExpiredCountedOnce
  <2> SUFFICES ASSUME Init PROVE ExpiredCountedOnce
    OBVIOUS
  <2>1. /\ metrics["expired"] = 0 /\ metrics["stored"] = 0 /\ records = {}
    BY DEF Init, Counters
  <2>2. Cardinality(records) = 0
    BY <2>1, FS_EmptySet
  <2>3. QED BY <2>1, <2>2 DEF ExpiredCountedOnce
<1>2. IInv /\ ExpiredCountedOnce /\ [Next]_vars => ExpiredCountedOnce'
  BY StepBalanced, GatewayAssumption DEF Next
<1>3. QED BY <1>1, <1>2, GatewayInvariant, PTL DEF Spec
-----------------------------------------------------------------------------
(* Repeated deliveries.                                                    *)

\* The history of every delivered key holds what the ring shows behind it; a
\* ring without slots shows nothing.
HistorySound ==
  \A k \in DOMAIN since :
    /\ IsFiniteSet(since[k])
    /\ MaxSeen # 0 => Covers(MaxSeen, Unrolled, k, since[k])

\* The ring, read in order, is a window, and holds nothing but its keys.
LEMMA UnrolledIsWindow ==
  ASSUME RingSound, MaxSeen # 0
  PROVE  /\ KeyWindow(MaxSeen, SeenKeys \cup {NoKey}, Unrolled)
         /\ \A k \in SeenKeys : k \notin Remembered =>
              \A i \in 1..Len(Unrolled) : Unrolled[i] # k
<1> DEFINE M == MaxSeen
           T == SeenKeys \cup {NoKey}
<1>1. M \in Nat \ {0} /\ SeenSlots = 0..(M - 1)
  BY RouterAssumption DEF SeenSlots
<1>2. seen \in [0..(M - 1) -> T] /\ Filled \in 0..M /\ next_seen \in 0..(M - 1)
  BY <1>1, UnrolledIsRing DEF RingSound, SeenTypeOK
<1>3. NoRepeats(M, seen, Filled)
  <2>1. PICK n \in 0..M : EmptySlots = n..(M - 1) /\ (n < M => next_seen = n)
    BY DEF RingSound, SeenIsQueue
  <2>2. \A i \in SeenSlots : i < Filled => seen[i] # NoKey
    <3>1. CASE EmptySlots # {}
      <4>1. Filled = n
        BY <1>1, <2>1, <3>1 DEF Filled
      <4>2. \A i \in SeenSlots : i < n => i \notin EmptySlots
        BY <1>1, <2>1
      <4>3. QED BY <4>1, <4>2 DEF EmptySlots
    <3>2. CASE EmptySlots = {}
      BY <3>2 DEF EmptySlots
    <3>3. QED BY <3>1, <3>2
  <2>3. \A i, j \in SeenSlots : seen[i] = seen[j] /\ seen[i] # NoKey => i = j
    BY DEF RingSound, SeenIsQueue
  <2>4. QED BY <1>1, <2>2, <2>3 DEF NoRepeats
<1>4. Unrolled = RingOrder(M, seen, next_seen, Filled)
  BY UnrolledIsRing
<1> HIDE DEF M, T
<1>5. OrderOf(M, T, seen, next_seen, Filled, Unrolled)
  BY <1>1, <1>2, <1>4, RingOrderIsSeq
<1>6. Unrolled \in Seq(T)
  BY <1>5 DEF OrderOf
<1>7. KeyWindow(M, T, Unrolled)
  BY <1>1, <1>2, <1>3, <1>5, OrderDistinct
<1>8. ASSUME NEW k \in SeenKeys, k \notin Remembered, NEW i \in 1..Len(Unrolled)
      PROVE  Unrolled[i] # k
  <2>1. k \in T /\ k # NoKey
    BY RouterAssumption DEF T
  <2>2. \A j \in 0..(M - 1) : seen[j] # k
    BY <1>1, <1>8, <2>1 DEF Remembered
  <2>3. k \notin {Unrolled[j] : j \in DOMAIN Unrolled}
    BY <1>1, <1>2, <1>5, <2>1, <2>2, OrderWithin
  <2>4. DOMAIN Unrolled = 1..Len(Unrolled)
    BY <1>6, LenProperties
  <2>5. QED BY <1>8, <2>3, <2>4
<1>9. QED BY <1>7, <1>8 DEF M, T

\* A step keeps the history sound, and delivers a key again only when its
\* history is long enough.
LEMMA StepRedelivers ==
  ASSUME IInv, HistorySound, HistoryNext
  PROVE  HistorySound' /\ RedeliveryStep
<1>0. RingSound /\ Next /\ MaxSeen \in Nat
  BY RouterAssumption DEF IInv, TypeOK, RouterTypeOK, RingSound, HistoryNext
<1>1. since' = [k \in DOMAIN since \cup DeliveredNow |->
                  IF k \in DeliveredNow THEN {} ELSE since[k] \cup Committed]
  BY DEF HistoryNext
<1>2. CASE UNCHANGED seenVars /\ (io'.local = {} \/ MaxSeen = 0)
  <2>1. Committed = {} /\ Unrolled' = Unrolled
    BY <1>2 DEF seenVars, Unrolled, EmptySlots, Committed, Remembered
  <2>2. DeliveredNow = {} \/ MaxSeen = 0
    BY <1>2 DEF DeliveredNow
  <2>3. ASSUME NEW k \in DOMAIN since'
        PROVE  IsFiniteSet(since'[k]) /\ (MaxSeen # 0 => Covers(MaxSeen, Unrolled', k, since'[k]))
    <3>1. CASE k \in DeliveredNow
      BY <1>1, <2>2, <3>1, FS_EmptySet
    <3>2. CASE k \notin DeliveredNow
      <4>1. k \in DOMAIN since /\ since'[k] = since[k]
        BY <1>1, <2>1, <2>3, <3>2
      <4>2. QED BY <2>1, <4>1 DEF HistorySound
    <3>3. QED BY <3>1, <3>2
  <2>4. ASSUME NEW k \in DeliveredNow \cap DOMAIN since
        PROVE  Cardinality(since[k]) >= MaxSeen
    <3>1. MaxSeen = 0 /\ Cardinality(since[k]) \in Nat
      BY <2>2, FS_CardinalityType DEF HistorySound
    <3>2. QED BY <3>1
  <2>5. QED BY <2>3, <2>4 DEF HistorySound, RedeliveryStep
<1>3. ASSUME NEW e \in EnvelopeType, Marks(e) PROVE HistorySound' /\ RedeliveryStep
  <2> DEFINE M == MaxSeen
             T == SeenKeys \cup {NoKey}
             key == SeenKey(e)
  <2>1. M \in Nat \ {0} /\ key \in T /\ key \in SeenKeys /\ key \notin Remembered
    BY <1>0, <1>3, SeenKeyType DEF Marks, HasSeen
  <2>2. RingCommits(M, Unrolled, key, Unrolled')
    BY <1>0, <1>3, MarkingCommits
  <2>3. KeyWindow(M, T, Unrolled) /\ \A i \in 1..Len(Unrolled) : Unrolled[i] # key
    BY <1>0, <2>1, UnrolledIsWindow
  <2>4. DeliveredNow \subseteq {key}
    BY <1>3 DEF DeliveredNow, Marks
  <2>5. Committed \in SUBSET {key}
    <3>1. CommitSeen(e)
      BY <1>3 DEF Marks, CommitSeen
    <3>2. QED BY <1>0, <3>1, CommitAddsOneKey DEF Committed
  <2>6. key \in Committed
    <3>1. /\ next_seen \in SeenSlots /\ seen' = [seen EXCEPT ![next_seen] = key]
      BY <1>0, <1>3, MarkedSlot DEF Marks
    <3>2. seen'[next_seen] = key /\ key # NoKey
      BY <1>0, <2>1, <3>1, RouterAssumption DEF RingSound, SeenTypeOK
    <3>3. QED BY <2>1, <3>1, <3>2 DEF Committed, Remembered, SeenSlots
  <2>7. Committed = {key}
    BY <2>5, <2>6
  <2> HIDE DEF M, T, key
  <2>8. KeyWindow(M, T, Unrolled')
    BY <2>1, <2>2, <2>3, CommitKeepsWindow
  <2>9. ASSUME NEW k \in DOMAIN since'
        PROVE  IsFiniteSet(since'[k]) /\ Covers(M, Unrolled', k, since'[k])
    <3>1. CASE k \in DeliveredNow
      <4>1. k = key /\ since'[k] = {} /\ IsFiniteSet({})
        BY <1>1, <2>4, <3>1, FS_EmptySet
      <4>2. QED BY <2>1, <2>2, <2>3, <2>8, <4>1, CoversFresh
    <3>2. CASE k \notin DeliveredNow
      <4>1. k \in DOMAIN since /\ since'[k] = since[k] \cup {key}
        BY <1>1, <2>7, <2>9, <3>2
      <4>2. IsFiniteSet(since[k]) /\ Covers(M, Unrolled, k, since[k])
        BY <2>1, <4>1 DEF HistorySound, M
      <4>3. IsFiniteSet(since[k] \cup {key})
        BY <4>2, FS_AddElement
      <4>4. CASE k = key
        <5>1. Covers(M, Unrolled', key, since[k] \cup {key})
          BY <2>1, <2>2, <2>3, <2>8, <4>3, CoversFresh
        <5>2. QED BY <4>1, <4>3, <4>4, <5>1
      <4>5. CASE k # key
        <5>1. Covers(M, Unrolled', k, since[k] \cup {key})
          BY <2>1, <2>2, <2>3, <2>8, <4>2, <4>5, CoversStep
        <5>2. QED BY <4>1, <4>3, <5>1
      <4>6. QED BY <4>4, <4>5
    <3>3. QED BY <3>1, <3>2
  <2>10. ASSUME NEW k \in DeliveredNow \cap DOMAIN since
         PROVE  Cardinality(since[k]) >= M
    <3>1. k = key /\ Covers(M, Unrolled, k, since[k])
      BY <2>1, <2>4 DEF HistorySound, M
    <3>2. QED BY <2>3, <3>1 DEF Covers
  <2>11. QED BY <2>9, <2>10 DEF HistorySound, RedeliveryStep, M
<1>4. QED BY <1>0, <1>2, <1>3, StepMarks, GatewayAssumption DEF Next

\* For every size of the seen ring, zero included: a message is delivered again
\* only after that many other messages have been committed, whatever is sent,
\* stored, refused, flushed or repeated in between (handle_envelope,
\* commit_seen).
THEOREM RepeatsAreNotDelivered == HistorySpec => DeliveredOnceInWindow
<1>1. HistorySpec => []IInv
  <2>1. HistoryInit => Init
    BY DEF HistoryInit
  <2>2. [HistoryNext]_historyVars => [Next]_vars
    BY DEF HistoryNext, historyVars
  <2>3. QED BY <2>1, <2>2, GatewayInvariant, PTL DEF HistorySpec, Spec
<1>2. HistoryInit => HistorySound
  BY DEF HistoryInit, HistorySound
<1>3. IInv /\ HistorySound /\ [HistoryNext]_historyVars =>
        HistorySound' /\ [RedeliveryStep]_historyVars
  <2> SUFFICES ASSUME IInv, HistorySound, [HistoryNext]_historyVars
               PROVE  HistorySound' /\ [RedeliveryStep]_historyVars
    OBVIOUS
  <2>1. CASE HistoryNext
    BY <2>1, StepRedelivers
  <2>2. CASE UNCHANGED historyVars
    <3>1. since' = since /\ Unrolled' = Unrolled
      BY <2>2 DEF historyVars, vars, routerVars, seenVars, Unrolled, EmptySlots
    <3>2. QED BY <2>2, <3>1 DEF HistorySound
  <2>3. QED BY <2>1, <2>2
<1>4. QED BY <1>1, <1>2, <1>3, PTL DEF HistorySpec, DeliveredOnceInWindow
=============================================================================
