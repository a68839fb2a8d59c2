---------------------------- MODULE BridgeProofs ----------------------------
(***************************************************************************)
(* Theorems about Bridge for every set of messages, every set of route     *)
(* policies and every size of the dedupe ring.                             *)
(***************************************************************************)
EXTENDS Bridge, LibraryProofs

\* The types of what the ring's argument needs.
DedupeTypeOK ==
  /\ policy \in Policies
  /\ keys \in [Slots -> Nat \cup {NoKey}]
  /\ next_index \in Slots \cup {0}
  /\ len \in 0..DedupeCapacity

IInv == DedupeTypeOK /\ DedupeIsQueue

-----------------------------------------------------------------------------
(* The ring.                                                               *)

\* The index that insert computes: one further, or back to the first slot.
LEMMA NextIndex ==
  ASSUME DedupeCapacity # 0, NEW i \in Slots
  PROVE  (i + 1) % DedupeCapacity =
           IF i + 1 = DedupeCapacity THEN 0 ELSE i + 1
<1>1. DedupeCapacity \in Nat \ {0} /\ i \in Nat /\ i + 1 <= DedupeCapacity
  BY BridgeAssumption DEF Slots
<1>2. CASE i + 1 = DedupeCapacity
  BY <1>1, <1>2
<1>3. CASE i + 1 < DedupeCapacity
  BY <1>1, <1>3
<1>4. QED BY <1>1, <1>2, <1>3

\* insert keeps the ring a queue and adds its key.
LEMMA InsertSound ==
  ASSUME IInv, DedupeCapacity # 0, NEW k \in Nat, ~Contains(k), Insert(k),
         policy' = policy
  PROVE  IInv' /\ k \in Contained' /\ Contained' \ Contained = {k}
<1>0. /\ DedupeCapacity \in Nat \ {0} /\ k # NoKey
      /\ Slots = 0..(DedupeCapacity - 1)
  BY BridgeAssumption DEF Slots
<1>1. next_index \in Slots
  BY <1>0 DEF IInv, DedupeTypeOK
<1>2. next_index' = IF next_index + 1 = DedupeCapacity THEN 0 ELSE next_index + 1
  BY <1>1, NextIndex DEF Insert
<1>3. /\ keys' = [keys EXCEPT ![next_index] = k]
      /\ len' = IF len < DedupeCapacity THEN len + 1 ELSE len
  BY DEF Insert
<1>4. DedupeTypeOK'
  BY <1>0, <1>1, <1>2, <1>3 DEF IInv, DedupeTypeOK
<1>5. \A i \in Slots : keys[i] # k
  BY <1>0 DEF Contains, Contained
<1>6. \A i \in Slots : keys'[i] = IF i = next_index THEN k ELSE keys[i]
  BY <1>1, <1>3 DEF IInv, DedupeTypeOK
<1>7. \A i \in Slots : keys'[i] # NoKey <=> i < len'
  BY <1>0, <1>1, <1>3, <1>6 DEF IInv, DedupeTypeOK, DedupeIsQueue
<1>8. len' < DedupeCapacity => next_index' = len'
  BY <1>0, <1>1, <1>2, <1>3 DEF IInv, DedupeTypeOK, DedupeIsQueue
<1>9. \A i, j \in Slots : keys'[i] = keys'[j] /\ keys'[i] # NoKey => i = j
  BY <1>5, <1>6 DEF IInv, DedupeIsQueue
<1>10. DedupeIsQueue'
  BY <1>7, <1>8, <1>9 DEF DedupeIsQueue, Slots
<1>11. k \in Contained'
  BY <1>0, <1>1, <1>6 DEF Contained, Slots
<1>12. Contained' \ Contained = {k}
  BY <1>5, <1>6, <1>11 DEF Contained, Slots
<1>13. QED BY <1>4, <1>10, <1>11, <1>12 DEF IInv

-----------------------------------------------------------------------------
(* The calls.                                                              *)

\* What the caller of a batch finds first in it is the HYF envelope.
LEMMA BatchStartsWithEnvelope ==
  ASSUME policy \in Policies, NEW origin, NEW m, NEW params
  PROVE  /\ Batch(origin, m, params) # << >>
         /\ Batch(origin, m, params)[1].kind = "Emit"
<1> DEFINE entries == SelectedEntries(origin)
           selected == SelectEgress(origin)
           rest == [i \in DOMAIN selected |->
                      [kind |-> Plan(selected[i], m, params), protocol |-> selected[i]]]
           first == [kind |-> "Emit", protocol |-> "Hyf"]
<1>1. policy.egress \in Seq(Protocols \cup {"none"})
  BY BridgeAssumption DEF Policy
<1>2. IsFiniteSet(1..Len(policy.egress)) /\ entries \in SUBSET (1..Len(policy.egress))
  BY <1>1, FS_Interval DEF SelectedEntries
<1>3. Cardinality(entries) \in Nat
  BY <1>2, FS_Subset, FS_CardinalityType
<1>4. DOMAIN selected = 1..Cardinality(entries)
  BY DEF SelectEgress
<1> DEFINE n == Cardinality(entries)
           T == {rest[i] : i \in 1..n}
<1>5. rest = [i \in 1..n |-> rest[i]] /\ n \in Nat
  BY <1>3, <1>4
<1>6. Batch(origin, m, params) = <<first>> \o rest
  BY DEF Batch
<1> HIDE DEF rest, n, first
<1>7. rest \in Seq(T \cup {first}) /\ <<first>> \in Seq(T \cup {first})
  BY <1>5
<1>8. /\ <<first>> \o rest # << >>
      /\ (<<first>> \o rest)[1] = first
  BY <1>7
<1>9. first.kind = "Emit"
  BY DEF first
<1>10. QED BY <1>6, <1>8, <1>9

\* What inserting a key adds to the history.
SinceInserts(key) ==
  since' = [k \in DOMAIN since \cup {key} |->
              IF k = key THEN {} ELSE since[k] \cup {key}]

\* A call either leaves the ring alone and returns no batch, or inserts its
\* key and returns one.
LEMMA IngestCases ==
  ASSUME policy \in Policies, NEW origin, NEW m \in Messages, NEW params,
         Ingest(origin, m, params)
  PROVE  /\ policy' = policy
         /\ \/ dedupe' = dedupe /\ since' = since /\ ~Bridged'
            \/ /\ DedupeCapacity # 0 /\ ~Contains(m.key) /\ Insert(m.key)
               /\ Bridged' /\ reply'.key = m.key /\ SinceInserts(m.key)
<1>1. CASE \E error : Refuse(origin, m, params, error)
  BY <1>1 DEF Refuse, Answer, Bridged, Ingest, dedupe
<1>2. CASE DropDuplicate(origin, m, params)
  <2>1. /\ reply'.commands = <<[kind |-> "Duplicate", protocol |-> origin]>>
        /\ dedupe' = dedupe /\ since' = since
    BY <1>2 DEF DropDuplicate, Answer, dedupe
  <2>2. reply'.commands[1].kind = "Duplicate"
    BY <2>1
  <2>3. QED BY <2>1, <2>2 DEF Bridged, Ingest
<1>3. CASE /\ ~Contains(m.key) /\ EmitError(origin, m, params) = "Ok"
           /\ Emit(origin, m, params)
  <2>1. DedupeCapacity # 0
    BY <1>3 DEF EmitError
  <2>2. /\ Insert(m.key) /\ reply'.key = m.key /\ reply'.error = "Ok"
        /\ reply'.commands = Batch(origin, m, params) /\ SinceInserts(m.key)
    BY <1>3 DEF Emit, Answer, SinceInserts
  <2>3. Bridged'
    BY <2>2, BatchStartsWithEnvelope DEF Bridged
  <2>4. QED BY <1>3, <2>1, <2>2, <2>3 DEF Ingest
<1>4. QED BY <1>1, <1>2, <1>3 DEF Ingest, EmitBridgeMessage

\* A step of the orchestrator is a call, or nothing.
LEMMA StepCases ==
  ASSUME IInv, [Next]_vars
  PROVE  /\ IInv'
         /\ \/ UNCHANGED <<dedupe, reply>>
            \/ RememberStep
<1>0. policy \in Policies
  BY DEF IInv, DedupeTypeOK
<1>1. CASE UNCHANGED vars
  BY <1>1 DEF vars, dedupe, IInv, DedupeTypeOK, DedupeIsQueue
<1>2. CASE Next
  <2>1. PICK origin \in Networks, m \in Messages, params \in Params :
          Ingest(origin, m, params)
    BY <1>2 DEF Next, IngestBitchat, IngestLxmf, IngestNostr, Networks
  <2>2. policy' = policy
    BY <1>0, <2>1, IngestCases
  <2>3. CASE dedupe' = dedupe /\ ~Bridged'
    <3>1. IInv'
      BY <2>2, <2>3 DEF dedupe, IInv, DedupeTypeOK, DedupeIsQueue
    <3>2. Contained' \ Contained = {}
      BY <2>3 DEF dedupe, Contained
    <3>3. QED BY <2>3, <3>1, <3>2 DEF RememberStep
  <2>4. CASE /\ DedupeCapacity # 0 /\ ~Contains(m.key) /\ Insert(m.key)
             /\ Bridged' /\ reply'.key = m.key
    <3>1. m.key \in Nat
      BY BridgeAssumption DEF Message
    <3>2. IInv' /\ Contained' \ Contained = {m.key}
      BY <2>2, <2>4, <3>1, InsertSound
    <3>3. QED BY <2>4, <3>2 DEF RememberStep
  <2>5. QED BY <1>0, <2>1, <2>3, <2>4, IngestCases
<1>3. QED BY <1>1, <1>2

\* An empty ring is a queue.
LEMMA InitSound == Init => IInv
<1> SUFFICES ASSUME Init PROVE IInv
  OBVIOUS
<1>1. DedupeTypeOK
  BY BridgeAssumption DEF Init, DedupeTypeOK
<1>2. DedupeIsQueue
  BY BridgeAssumption DEF Init, DedupeIsQueue, Slots
<1>3. QED BY <1>1, <1>2 DEF IInv

-----------------------------------------------------------------------------

\* For every number of slots, zero included, the dedupe ring is a queue
\* without repetitions (BridgeDedupeSet::insert).
THEOREM DedupeStaysQueue == Spec => []DedupeIsQueue
<1>1. Init => IInv
  BY InitSound
<1>2. IInv /\ [Next]_vars => IInv'
  BY StepCases
<1>3. IInv => DedupeIsQueue
  BY DEF IInv
<1>4. QED BY <1>1, <1>2, <1>3, PTL DEF Spec

\* A key enters the ring in exactly the calls that return its whole batch
\* (emit_bridge_message): a call that fails can be repeated.
THEOREM KeysEnterWithTheirBatch == Spec => RememberedIffBridged
<1>1. Init => IInv
  BY InitSound
<1>2. IInv /\ [Next]_vars => IInv' /\ [RememberStep]_<<dedupe, reply>>
  BY StepCases
<1>3. QED BY <1>1, <1>2, PTL DEF Spec, RememberedIffBridged

-----------------------------------------------------------------------------
(* The ring implements SeenWindow.                                         *)

\* The ring as LibraryProofs reads it.
LEMMA UnrolledIsRing ==
  ASSUME DedupeTypeOK
  PROVE  Unrolled = RingOrder(DedupeCapacity, keys, next_index, len)
<1>1. len \in Nat /\ DedupeCapacity \in Nat /\ len <= DedupeCapacity
  BY BridgeAssumption DEF DedupeTypeOK
<1>2. CASE len < DedupeCapacity
  BY <1>2 DEF Unrolled, RingOrder
<1>3. CASE len = DedupeCapacity
  BY <1>1, <1>3 DEF Unrolled, RingOrder
<1>4. QED BY <1>1, <1>2, <1>3

\* The same in the next state.
LEMMA UnrolledIsRingNext ==
  ASSUME DedupeTypeOK'
  PROVE  Unrolled' = RingOrder(DedupeCapacity, keys', next_index', len')
<1>1. len' \in Nat /\ DedupeCapacity \in Nat /\ len' <= DedupeCapacity
  BY BridgeAssumption DEF DedupeTypeOK
<1>2. CASE len' < DedupeCapacity
  BY <1>2 DEF Unrolled, RingOrder
<1>3. CASE len' = DedupeCapacity
  BY <1>1, <1>3 DEF Unrolled, RingOrder
<1>4. QED BY <1>1, <1>2, <1>3

\* insert commits its key to the window.
LEMMA InsertCommits ==
  ASSUME IInv, IInv', DedupeCapacity # 0, NEW m \in Messages,
         ~Contains(m.key), Insert(m.key)
  PROVE  /\ RingCommits(DedupeCapacity, Unrolled, m.key, Unrolled')
         /\ Window!WindowNext
<1> DEFINE M == DedupeCapacity
           T == Nat \cup {NoKey}
           k == m.key
<1>1. /\ M \in Nat \ {0} /\ k \in T /\ k \in Nat /\ k # NoKey /\ Slots = 0..(M - 1)
  BY BridgeAssumption DEF Message, Slots
<1>2. /\ keys \in [0..(M - 1) -> T] /\ len \in 0..M /\ next_index \in 0..(M - 1)
      /\ len < M => next_index = len
  BY <1>1 DEF IInv, DedupeTypeOK, DedupeIsQueue
<1>3. \A j \in 0..(M - 1) : keys[j] # k
  BY <1>1 DEF Contains, Contained
<1>4. keys' = [keys EXCEPT ![next_index] = k] /\ next_index' = (next_index + 1) % M
  BY DEF Insert
<1>5. len' = IF len < M THEN len + 1 ELSE M
  <2>1. len' = IF len < M THEN len + 1 ELSE len
    BY DEF Insert
  <2>2. QED BY <1>1, <1>2, <2>1
<1>6. Unrolled = RingOrder(M, keys, next_index, len)
  BY UnrolledIsRing DEF IInv
<1>7. Unrolled' = RingOrder(M, keys', next_index', len')
  BY UnrolledIsRingNext DEF IInv
<1> HIDE DEF M, T, k
<1>8. RingCommits(M, RingOrder(M, keys, next_index, len), k,
        RingOrder(M, [keys EXCEPT ![next_index] = k], (next_index + 1) % M,
                  IF len < M THEN len + 1 ELSE M))
  BY <1>1, <1>2, <1>3, RingStep
<1>9. RingCommits(M, Unrolled, k, Unrolled')
  BY <1>4, <1>5, <1>6, <1>7, <1>8
<1>10. k \in {n.key : n \in Messages}
  BY DEF k
<1>11. Unrolled' = Window!Remember(Unrolled, k)
  BY <1>9 DEF Window!Remember, Window!Remembered, RingCommits, M
<1>12. k \in {Unrolled'[i] : i \in DOMAIN Unrolled'}
  BY <1>9 DEF RingCommits
<1>13. Window!WindowNext
  BY <1>10, <1>11, <1>12 DEF Window!WindowNext, Window!Commit, Window!Remembered
<1>14. QED BY <1>9, <1>13 DEF M, k

\* The keys that the ring remembers are the last ones bridged, in the order
\* they were bridged, for every number of slots (BridgeDedupeSet::insert,
\* emit_bridge_message).
THEOREM DedupeIsWindow == Spec => DedupeWindow
<1>1. Init => IInv
  BY InitSound
<1>2. Init => Window!WindowInit
  <2> SUFFICES ASSUME Init PROVE Unrolled = << >>
    BY DEF Window!WindowInit
  <2>1. len = 0 /\ DedupeCapacity \in Nat
    BY BridgeAssumption DEF Init
  <2>2. QED BY <2>1 DEF Unrolled
<1>3. IInv /\ [Next]_vars => IInv' /\ [Window!WindowNext]_Unrolled
  <2> SUFFICES ASSUME IInv, [Next]_vars
               PROVE  IInv' /\ [Window!WindowNext]_Unrolled
    OBVIOUS
  <2>1. IInv'
    BY StepCases
  <2>2. dedupe' = dedupe => Unrolled' = Unrolled
    BY DEF dedupe, Unrolled
  <2>3. CASE UNCHANGED vars
    BY <2>1, <2>2, <2>3 DEF vars
  <2>4. CASE Next
    <3>1. PICK origin \in Networks, m \in Messages, params \in Params :
            Ingest(origin, m, params)
      BY <2>4 DEF Next, IngestBitchat, IngestLxmf, IngestNostr, Networks
    <3>2. \/ dedupe' = dedupe
          \/ DedupeCapacity # 0 /\ ~Contains(m.key) /\ Insert(m.key)
      BY <3>1, IngestCases DEF IInv, DedupeTypeOK
    <3>3. QED BY <2>1, <2>2, <3>2, InsertCommits
  <2>5. QED BY <2>3, <2>4
<1>4. QED BY <1>1, <1>2, <1>3, PTL DEF Spec, DedupeWindow, Window!WindowSpec
-----------------------------------------------------------------------------
(* The batch.                                                              *)

\* Counting the elements of a set of indices up to each of them numbers them
\* from 1 to their number.
Rank(S, i) == Cardinality({j \in S : j <= i})
LEMMA RankNumbers ==
  ASSUME NEW L \in Nat, NEW S \in SUBSET (1..L)
  PROVE  /\ Cardinality(S) \in Nat
         /\ \A n \in 1..Cardinality(S) : \E i \in S : Rank(S, i) = n
         /\ \A i \in S : Rank(S, i) \in 1..Cardinality(S)
         /\ \A i, k \in S : Rank(S, i) = Rank(S, k) => i = k
<1> DEFINE Below(i) == {j \in S : j <= i}
           f == [i \in S |-> Rank(S, i)]
           T == 1..Cardinality(S)
<1>0. IsFiniteSet(1..L)
  BY FS_Interval
<1>1. IsFiniteSet(S)
  BY <1>0, FS_Subset
<1>2. Cardinality(S) \in Nat
  BY <1>1, FS_CardinalityType
<1>3. ASSUME NEW i \in S
      PROVE  /\ IsFiniteSet(Below(i)) /\ Cardinality(Below(i)) \in Nat
             /\ Cardinality(Below(i)) \in 1..Cardinality(S)
  <2>1. Below(i) \in SUBSET S /\ i \in Below(i)
    OBVIOUS
  <2> HIDE DEF Below
  <2>2. IsFiniteSet(Below(i)) /\ Cardinality(Below(i)) <= Cardinality(S)
    BY <1>1, <2>1, FS_Subset
  <2>3. Cardinality(Below(i)) \in Nat
    BY <2>2, FS_CardinalityType
  <2>4. Cardinality(Below(i)) # 0
    BY <2>1, <2>2, FS_EmptySet
  <2>5. QED BY <1>2, <2>2, <2>3, <2>4
<1>4. ASSUME NEW i \in S, NEW k \in S, i < k
      PROVE  Rank(S, i) # Rank(S, k)
  <2>0. i \in Nat /\ k \in Nat /\ \A j \in S : j \in Nat
    OBVIOUS
  <2>1. \A j \in S : j <= i => j <= k
    BY <1>4, <2>0
  <2>2. k <= k /\ ~(k <= i)
    BY <1>4, <2>0
  <2>3. Below(i) \in SUBSET Below(k) /\ k \in Below(k) /\ k \notin Below(i)
    BY <2>1, <2>2
  <2> HIDE DEF Below
  <2>4. Cardinality(Below(k)) # Cardinality(Below(i))
    BY <1>3, <2>3, FS_Subset
  <2>5. QED BY <2>4 DEF Rank, Below
<1>5. \A i \in S : Rank(S, i) \in T
  BY <1>3 DEF Rank
<1>6. f \in [S -> T]
  BY <1>5
<1>7. \A i, k \in S : f[i] = f[k] => i = k
  <2> SUFFICES ASSUME NEW i \in S, NEW k \in S, f[i] = f[k] PROVE i = k
    OBVIOUS
  <2>1. i \in Nat /\ k \in Nat /\ Rank(S, i) = Rank(S, k)
    OBVIOUS
  <2>2. QED BY <1>4, <2>1
<1> HIDE DEF f, T
<1>8. f \in Injection(S, T)
  BY <1>6, <1>7 DEF Injection, IsInjective
<1>9. IsFiniteSet(T) /\ Cardinality(T) = Cardinality(S)
  BY <1>2, FS_Interval DEF T
<1>10. f \in Surjection(S, T)
  BY <1>8, <1>9, FS_Injection
<1>11. \A n \in T : \E i \in S : f[i] = n
  BY <1>10 DEF Surjection
<1>12. QED BY <1>2, <1>5, <1>7, <1>11 DEF f, T

\* select_egress returns the protocols of the selected entries, each once.
LEMMA SelectionEnumerates ==
  ASSUME policy \in Policies, NEW origin
  PROVE  LET entries == SelectedEntries(origin)
             selected == SelectEgress(origin)
         IN /\ Cardinality(entries) \in Nat
            /\ selected = [n \in 1..Cardinality(entries) |-> selected[n]]
            /\ \A n \in 1..Cardinality(entries) :
                 \E i \in entries : selected[n] = policy.egress[i] /\ Rank(entries, i) = n
            /\ \A i \in entries : \E n \in 1..Cardinality(entries) :
                 selected[n] = policy.egress[i]
<1> DEFINE entries == SelectedEntries(origin)
           selected == SelectEgress(origin)
           card == Cardinality(entries)
           at(n) == CHOOSE i \in entries : Rank(entries, i) = n
<1>1. policy.egress \in Seq(Protocols \cup {"none"})
  BY BridgeAssumption DEF Policy
<1>2. Len(policy.egress) \in Nat /\ entries \in SUBSET (1..Len(policy.egress))
  BY <1>1 DEF SelectedEntries
<1>3. selected = [n \in 1..card |-> policy.egress[at(n)]]
  BY DEF SelectEgress, Rank
<1> HIDE DEF entries, selected
<1>4. /\ card \in Nat
      /\ \A n \in 1..card : \E i \in entries : Rank(entries, i) = n
      /\ \A i \in entries : Rank(entries, i) \in 1..card
      /\ \A i, k \in entries : Rank(entries, i) = Rank(entries, k) => i = k
  BY <1>2, RankNumbers
<1>5. \A n \in 1..card : at(n) \in entries /\ Rank(entries, at(n)) = n
  BY <1>4
<1>6. \A n \in 1..card : selected[n] = policy.egress[at(n)]
  BY <1>3
<1>7. ASSUME NEW i \in entries PROVE \E n \in 1..card : selected[n] = policy.egress[i]
  <2>1. Rank(entries, i) \in 1..card
    BY <1>4
  <2>2. at(Rank(entries, i)) = i
    <3>1. at(Rank(entries, i)) \in entries
          /\ Rank(entries, at(Rank(entries, i))) = Rank(entries, i)
      BY <1>5, <2>1
    <3>2. QED BY <1>4, <3>1
  <2>3. QED BY <1>6, <2>1, <2>2
<1>8. QED BY <1>3, <1>4, <1>5, <1>6, <1>7 DEF entries, selected
\* The commands behind the envelope.
LEMMA BatchCommands ==
  ASSUME policy \in Policies, NEW origin, NEW m, NEW params
  PROVE  LET card == Cardinality(SelectedEntries(origin))
             selected == SelectEgress(origin)
             commands == Batch(origin, m, params)
         IN /\ card \in Nat /\ Len(selected) = card /\ Len(commands) = 1 + card
            /\ \A i \in 2..(1 + card) : commands[i].protocol = selected[i - 1]
<1> DEFINE card == Cardinality(SelectedEntries(origin))
           selected == SelectEgress(origin)
           first == [kind |-> "Emit", protocol |-> "Hyf"]
           rest == [i \in 1..card |-> [kind |-> Plan(selected[i], m, params),
                                       protocol |-> selected[i]]]
           T == {rest[i] : i \in 1..card}
<1>1. card \in Nat /\ selected = [n \in 1..card |-> selected[n]]
  BY SelectionEnumerates
<1>2. Batch(origin, m, params) = <<first>> \o rest
  <2>1. DOMAIN selected = 1..card
    BY <1>1
  <2>2. QED BY <2>1 DEF Batch
<1>3. Len(selected) = card
  <2> HIDE DEF selected, card
  <2>1. QED BY <1>1
<1>4. \A i \in 1..card : rest[i].protocol = selected[i]
  OBVIOUS
<1>5. rest = [i \in 1..card |-> rest[i]]
  OBVIOUS
<1> HIDE DEF rest, first, card, selected
<1>6. rest \in Seq(T \cup {first}) /\ <<first>> \in Seq(T \cup {first}) /\ Len(rest) = card
  BY <1>1, <1>5
<1>7. /\ Len(<<first>> \o rest) = 1 + card
      /\ \A i \in 2..(1 + card) : (<<first>> \o rest)[i] = rest[i - 1]
  BY <1>1, <1>6
<1>8. QED BY <1>1, <1>2, <1>3, <1>4, <1>7 DEF card, selected

\* Every protocol of the policy that is not blocked has a selected entry, its
\* first one, and no two selected entries have the same protocol.
LEMMA SelectedProtocols ==
  ASSUME policy \in Policies, NEW origin
  PROVE  /\ {policy.egress[i] : i \in SelectedEntries(origin)} =
              {p \in Protocols : /\ \E i \in DOMAIN policy.egress : policy.egress[i] = p
                                 /\ policy.allow_echo \/ p # origin}
         /\ \A i, j \in SelectedEntries(origin) :
              policy.egress[i] = policy.egress[j] => i = j
<1> DEFINE entries == SelectedEntries(origin)
           Wanted == {p \in Protocols :
                        /\ \E i \in DOMAIN policy.egress : policy.egress[i] = p
                        /\ policy.allow_echo \/ p # origin}
<1>1. policy.egress \in Seq(Protocols \cup {"none"})
  BY BridgeAssumption DEF Policy
<1>2. DOMAIN policy.egress = 1..Len(policy.egress) /\ Len(policy.egress) \in Nat
  BY <1>1
<1>3. ASSUME NEW i \in entries PROVE policy.egress[i] \in Wanted
  BY <1>1, <1>2 DEF SelectedEntries, Blocked
<1>4. ASSUME NEW p \in Wanted PROVE \E i \in entries : policy.egress[i] = p
  <2> DEFINE S == {i \in 1..Len(policy.egress) : policy.egress[i] = p}
  <2>1. S \in SUBSET Nat /\ S # {} /\ p # "none"
    BY <1>2 DEF Protocols, Networks
  <2> HIDE DEF S
  <2>2. PICK i \in S : \A j \in S : i <= j
    BY <2>1, LeastNatural
  <2>3. i \in 1..Len(policy.egress) /\ policy.egress[i] = p
    BY DEF S
  <2>4. \A j \in 1..(i - 1) : policy.egress[j] # p
    <3> SUFFICES ASSUME NEW j \in 1..(i - 1), policy.egress[j] = p PROVE FALSE
      OBVIOUS
    <3>1. j \in S /\ ~(i <= j)
      BY <1>2, <2>3 DEF S
    <3>2. QED BY <2>2, <3>1
  <2>5. i \in entries
    BY <1>2, <2>1, <2>3, <2>4 DEF SelectedEntries, Blocked
  <2>6. QED BY <2>3, <2>5
<1>5. ASSUME NEW i \in entries, NEW j \in entries, policy.egress[i] = policy.egress[j]
      PROVE  i = j
  <2>1. i \in Nat /\ j \in Nat /\ i >= 1 /\ j >= 1
    BY <1>2 DEF SelectedEntries
  <2>2. ~(i < j)
    BY <1>5, <2>1 DEF SelectedEntries
  <2>3. ~(j < i)
    BY <1>5, <2>1 DEF SelectedEntries
  <2>4. QED BY <2>1, <2>2, <2>3
<1>6. {policy.egress[i] : i \in entries} = Wanted
  BY <1>3, <1>4
<1>7. QED BY <1>5, <1>6

\* The reply to every call is sound: a batch because of how it is selected
\* and counted, a drop because there is room for it.
LEMMA ReplySound ==
  ASSUME policy \in Policies, NEW origin, NEW m \in Messages, NEW params \in Params,
         Ingest(origin, m, params)
  PROVE  BatchSound'
<1>0. params.room \in Nat /\ policy' = policy
  BY BridgeAssumption DEF Params, Ingest
<1>1. CASE \E error : Refuse(origin, m, params, error)
  <2>1. reply'.error # "Ok" /\ reply'.commands = << >> /\ reply'.room = params.room
    BY <1>1 DEF Refuse, Answer
  <2>2. ~Bridged' /\ Len(reply'.commands) = 0
    BY <2>1 DEF Bridged
  <2>3. QED BY <1>0, <2>1, <2>2 DEF BatchSound
<1>2. CASE DropDuplicate(origin, m, params)
  <2>1. /\ reply'.commands = <<[kind |-> "Duplicate", protocol |-> origin]>>
        /\ reply'.room = params.room /\ params.room >= 1
    BY <1>2 DEF DropDuplicate, Answer
  <2>2. reply'.commands[1].kind = "Duplicate" /\ Len(reply'.commands) = 1
    BY <2>1
  <2>3. ~Bridged'
    BY <2>2 DEF Bridged
  <2>4. QED BY <1>0, <2>1, <2>2, <2>3 DEF BatchSound
<1>3. CASE EmitError(origin, m, params) = "Ok" /\ Emit(origin, m, params)
  <2> DEFINE entries == SelectedEntries(origin)
             card == Cardinality(entries)
             selected == SelectEgress(origin)
             commands == Batch(origin, m, params)
             egress == policy.egress
  <2>1. /\ reply'.commands = commands /\ reply'.room = params.room
        /\ reply'.origin = origin
    BY <1>3 DEF Emit, Answer
  <2>2. ~(params.room < 1 + Len(selected))
    BY <1>3 DEF EmitError
  <2>3. /\ card \in Nat /\ Len(selected) = card /\ Len(commands) = 1 + card
        /\ \A i \in 2..(1 + card) : commands[i].protocol = selected[i - 1]
    BY BatchCommands
  <2>4. /\ \A n \in 1..card : \E i \in entries :
             selected[n] = egress[i] /\ Rank(entries, i) = n
        /\ \A i \in entries : \E n \in 1..card : selected[n] = egress[i]
    BY SelectionEnumerates
  <2>5. /\ {egress[i] : i \in entries} =
             {p \in Protocols : /\ \E i \in DOMAIN egress : egress[i] = p
                                /\ policy.allow_echo \/ p # origin}
        /\ \A i, j \in entries : egress[i] = egress[j] => i = j
    BY SelectedProtocols
  <2> DEFINE Wanted == {p \in Protocols : /\ \E i \in DOMAIN egress : egress[i] = p
                                          /\ policy.allow_echo \/ p # origin}
             Used == {egress[i] : i \in entries}
  <2>w. /\ Used = Wanted
        /\ \A p \in Wanted : policy.allow_echo \/ p # origin
    BY <2>5
  <2>6. Len(commands) <= params.room
    BY <1>0, <2>2, <2>3
  <2> HIDE DEF entries, card, selected, commands, Wanted
  <2>7. ASSUME NEW i \in 2..(1 + card)
        PROVE  i - 1 \in 1..card /\ commands[i].protocol \in Used
    <3>1. i - 1 \in 1..card /\ commands[i].protocol = selected[i - 1]
      BY <2>3
    <3>2. PICK x \in entries : selected[i - 1] = egress[x]
      BY <2>4, <3>1
    <3>3. QED BY <3>1, <3>2
  <2>8. ASSUME NEW i \in 2..(1 + card), NEW j \in 2..(1 + card),
               commands[i].protocol = commands[j].protocol
        PROVE  i = j
    <3>1. i - 1 \in 1..card /\ j - 1 \in 1..card /\ selected[i - 1] = selected[j - 1]
      BY <2>3, <2>8
    <3>2. PICK x \in entries : selected[i - 1] = egress[x] /\ Rank(entries, x) = i - 1
      BY <2>4, <3>1
    <3>3. PICK y \in entries : selected[j - 1] = egress[y] /\ Rank(entries, y) = j - 1
      BY <2>4, <3>1
    <3>4. x = y
      BY <2>5, <3>1, <3>2, <3>3
    <3>5. i - 1 = j - 1
      BY <3>2, <3>3, <3>4
    <3>6. QED BY <2>3, <3>5
  <2>9. ASSUME NEW p \in Used PROVE \E i \in 2..(1 + card) : commands[i].protocol = p
    <3>1. PICK n \in 1..card : selected[n] = p
      BY <2>4
    <3>2. n + 1 \in 2..(1 + card) /\ (n + 1) - 1 = n
      BY <2>3
    <3>3. QED BY <2>3, <3>1, <3>2
  <2>10. {commands[i].protocol : i \in 2..(1 + card)} = Used
    BY <2>7, <2>9
  <2> HIDE DEF Used
  <2>11. \A i \in 2..(1 + card) : policy.allow_echo \/ commands[i].protocol # origin
    BY <2>w, <2>7
  <2>12. {commands[i].protocol : i \in 2..(1 + card)} = Wanted
    BY <2>w, <2>10
  <2>13. Len(commands) = 1 + card
    BY <2>3
  <2>14. QED BY <1>0, <2>1, <2>6, <2>8, <2>11, <2>12, <2>13 DEF BatchSound, Wanted
<1>4. QED BY <1>1, <1>2, <1>3 DEF Ingest, EmitBridgeMessage

\* For every route policy and every buffer, a batch answers each protocol of
\* the policy exactly once, never goes back where the message came from
\* unless that is allowed, and fits the buffer (emit_bridge_message,
\* select_egress).
THEOREM BatchesAreSound == Spec => []BatchSound
<1>1. Init => IInv /\ BatchSound
  <2> SUFFICES ASSUME Init PROVE BatchSound
    BY InitSound
  <2>1. reply.commands = << >> /\ reply.room = 0
    BY DEF Init, NoReply
  <2>2. Len(reply.commands) = 0 /\ ~Bridged
    BY <2>1 DEF Bridged
  <2>3. QED BY <2>1, <2>2 DEF BatchSound
<1>2. IInv /\ BatchSound /\ [Next]_vars => (IInv /\ BatchSound)'
  <2> SUFFICES ASSUME IInv, BatchSound, [Next]_vars PROVE IInv' /\ BatchSound'
    OBVIOUS
  <2>1. IInv'
    BY StepCases
  <2>2. CASE UNCHANGED vars
    <3>1. policy' = policy /\ reply' = reply
      BY <2>2 DEF vars
    <3> DEFINE Answered(r) == {r.commands[i].protocol : i \in 2..Len(r.commands)}
               Wanted(r, q) == {p \in Protocols :
                                  /\ \E i \in DOMAIN q.egress : q.egress[i] = p
                                  /\ q.allow_echo \/ p # r.origin}
    <3>2. Bridged => Answered(reply) = Wanted(reply, policy)
      BY DEF BatchSound
    <3>3. Bridged' = Bridged
      BY <3>1 DEF Bridged
    <3>4. Bridged' => Answered(reply') = Wanted(reply', policy')
      <4> HIDE DEF Answered, Wanted
      <4>1. QED BY <3>1, <3>2, <3>3
    <3>5. /\ Len(reply.commands) <= reply.room
          /\ Bridged =>
               /\ \A i, j \in 2..Len(reply.commands) :
                    reply.commands[i].protocol = reply.commands[j].protocol => i = j
               /\ \A i \in 2..Len(reply.commands) : reply.commands[i].kind = "Emit" =>
                    policy.allow_echo \/ reply.commands[i].protocol # reply.origin
      BY DEF BatchSound
    <3>6. QED BY <2>1, <3>1, <3>3, <3>4, <3>5 DEF BatchSound
  <2>3. CASE Next
    <3>1. PICK origin \in Networks, m \in Messages, params \in Params :
            Ingest(origin, m, params)
      BY <2>3 DEF Next, IngestBitchat, IngestLxmf, IngestNostr, Networks
    <3>2. policy \in Policies
      BY DEF IInv, DedupeTypeOK
    <3>3. BatchSound'
      BY <3>1, <3>2, ReplySound
    <3>4. QED BY <2>1, <3>3
  <2>4. QED BY <2>2, <2>3
<1>3. QED BY <1>1, <1>2, PTL DEF Spec
-----------------------------------------------------------------------------
(* Repeats.                                                                *)

\* The history of every bridged key holds what the ring shows behind it.
SinceSound == \A k \in DOMAIN since : Covers(DedupeCapacity, Unrolled, k, since[k])

\* The ring, read in order, is a window, and holds nothing but its keys.
LEMMA UnrolledIsWindow ==
  ASSUME IInv, DedupeCapacity # 0
  PROVE  /\ KeyWindow(DedupeCapacity, Nat \cup {NoKey}, Unrolled)
         /\ \A k \in Nat : ~Contains(k) => \A i \in 1..Len(Unrolled) : Unrolled[i] # k
<1> DEFINE M == DedupeCapacity
           T == Nat \cup {NoKey}
<1>1. M \in Nat \ {0} /\ Slots = 0..(M - 1)
  BY BridgeAssumption DEF Slots
<1>2. keys \in [0..(M - 1) -> T] /\ len \in 0..M /\ next_index \in 0..(M - 1)
  BY <1>1 DEF IInv, DedupeTypeOK
<1>3. NoRepeats(M, keys, len)
  BY <1>1 DEF IInv, DedupeIsQueue, NoRepeats
<1>4. Unrolled = RingOrder(M, keys, next_index, len)
  BY UnrolledIsRing DEF IInv
<1> HIDE DEF M, T
<1>5. OrderOf(M, T, keys, next_index, len, Unrolled)
  BY <1>1, <1>2, <1>4, RingOrderIsSeq
<1>6. Unrolled \in Seq(T) /\ Len(Unrolled) = len
  BY <1>5 DEF OrderOf
<1>8. KeyWindow(M, T, Unrolled)
  BY <1>1, <1>2, <1>3, <1>5, OrderDistinct
<1>9. ASSUME NEW k \in Nat, ~Contains(k), NEW i \in 1..Len(Unrolled)
      PROVE  Unrolled[i] # k
  <2>1. k \in T /\ k # NoKey
    BY BridgeAssumption DEF T
  <2>2. \A j \in 0..(M - 1) : keys[j] # k
    BY <1>1, <1>9, <2>1 DEF Contains, Contained
  <2>3. k \notin {Unrolled[j] : j \in DOMAIN Unrolled}
    BY <1>1, <1>2, <1>5, <2>1, <2>2, OrderWithin
  <2>4. DOMAIN Unrolled = 1..Len(Unrolled)
    BY <1>6, LenProperties
  <2>5. QED BY <1>9, <2>3, <2>4
<1>10. QED BY <1>8, <1>9 DEF M, T

\* Inserting a key keeps the history sound, and happens only to a key whose
\* own history, if it has one, is long enough.
LEMMA InsertKeepsHistory ==
  ASSUME IInv, IInv', SinceSound, DedupeCapacity # 0, NEW m \in Messages,
         ~Contains(m.key), Insert(m.key), SinceInserts(m.key)
  PROVE  /\ SinceSound'
         /\ m.key \in DOMAIN since => Cardinality(since[m.key]) >= DedupeCapacity
<1> DEFINE M == DedupeCapacity
           T == Nat \cup {NoKey}
           key == m.key
<1>1. M \in Nat \ {0} /\ key \in T /\ key \in Nat
  BY BridgeAssumption DEF Message
<1>2. RingCommits(M, Unrolled, key, Unrolled')
  BY InsertCommits
<1>3. KeyWindow(M, T, Unrolled) /\ KeyWindow(M, T, Unrolled')
  <2>1. KeyWindow(M, T, Unrolled)
    BY UnrolledIsWindow
  <2> HIDE DEF M, T, key
  <2>2. QED BY <1>1, <1>2, <2>1, CommitKeepsWindow
<1>4. since' = [k \in DOMAIN since \cup {key} |->
                  IF k = key THEN {} ELSE since[k] \cup {key}]
  BY DEF SinceInserts
<1>5. \A i \in 1..Len(Unrolled) : Unrolled[i] # key
  BY <1>1, UnrolledIsWindow
<1> HIDE DEF M, T, key
<1>6. ASSUME NEW k \in DOMAIN since' PROVE Covers(M, Unrolled', k, since'[k])
  <2>1. CASE k = key
    <3>1. Covers(M, Unrolled', key, {})
      BY <1>1, <1>2, <1>3, CoversFresh, FS_EmptySet
    <3>2. QED BY <1>4, <2>1, <3>1
  <2>2. CASE k # key
    <3>1. k \in DOMAIN since /\ since'[k] = since[k] \cup {key}
      BY <1>4, <1>6, <2>2
    <3>2. Covers(M, Unrolled, k, since[k])
      BY <3>1 DEF SinceSound, M
    <3>3. Covers(M, Unrolled', k, since[k] \cup {key})
      BY <1>1, <1>2, <1>3, <2>2, <3>2, CoversStep
    <3>4. QED BY <3>1, <3>3
  <2>3. QED BY <2>1, <2>2
<1>7. ASSUME key \in DOMAIN since PROVE Cardinality(since[key]) >= M
  BY <1>5, <1>7 DEF SinceSound, Covers, M
<1>8. QED BY <1>6, <1>7 DEF SinceSound, M, key

\* For every number of slots, a message is bridged again only after that
\* many other messages were bridged (BridgeDedupeSet, emit_bridge_message).
THEOREM RepeatsStayInTheWindow == Spec => BridgedOnceInWindow
<1>1. Init => IInv /\ SinceSound
  BY InitSound DEF Init, SinceSound
<1>2. IInv /\ SinceSound /\ [Next]_vars =>
        (IInv /\ SinceSound)' /\ [BridgeAgainStep]_vars
  <2> SUFFICES ASSUME IInv, SinceSound, [Next]_vars
               PROVE  IInv' /\ SinceSound' /\ BridgeAgainStep
    OBVIOUS
  <2>1. IInv'
    BY StepCases
  <2>2. ASSUME dedupe' = dedupe, since' = since
        PROVE  SinceSound' /\ BridgeAgainStep
    <3>1. Unrolled' = Unrolled
      BY <2>2 DEF dedupe, Unrolled
    <3>2. QED BY <2>2, <3>1 DEF SinceSound, BridgeAgainStep
  <2>3. CASE UNCHANGED vars
    BY <2>1, <2>2, <2>3 DEF vars
  <2>4. CASE Next
    <3>1. PICK origin \in Networks, m \in Messages, params \in Params :
            Ingest(origin, m, params)
      BY <2>4 DEF Next, IngestBitchat, IngestLxmf, IngestNostr, Networks
    <3>2. \/ dedupe' = dedupe /\ since' = since
          \/ /\ DedupeCapacity # 0 /\ ~Contains(m.key) /\ Insert(m.key)
             /\ reply'.key = m.key /\ SinceInserts(m.key)
      BY <3>1, IngestCases DEF IInv, DedupeTypeOK
    <3>3. CASE /\ DedupeCapacity # 0 /\ ~Contains(m.key) /\ Insert(m.key)
               /\ reply'.key = m.key /\ SinceInserts(m.key)
      <4>1. /\ SinceSound'
            /\ m.key \in DOMAIN since => Cardinality(since[m.key]) >= DedupeCapacity
        BY <2>1, <3>3, InsertKeepsHistory
      <4>2. QED BY <2>1, <3>3, <4>1 DEF BridgeAgainStep
    <3>4. QED BY <2>1, <2>2, <3>2, <3>3
  <2>5. QED BY <2>3, <2>4
<1>3. QED BY <1>1, <1>2, PTL DEF Spec, BridgedOnceInWindow
=============================================================================
