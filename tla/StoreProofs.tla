----------------------------- MODULE StoreProofs ----------------------------
(***************************************************************************)
(* Theorems about the array of slots for every capacity, policy, set of    *)
(* envelopes and interleaving of calls: it holds no id twice, its scans    *)
(* find and list records in pending order, and so it implements StoreSpec. *)
(***************************************************************************)
EXTENDS SlotStore, LibraryProofs, FiniteSetTheorems

\* What a slot may hold.
SlotsOk == slots \in [Index -> EnvelopeType \cup {NoRecord}]

\* What put_valid_frame keeps up, and with it the order of the records.
SInv == SlotsOk /\ IdsInOneSlot

\* The first of some slots is one of them.
LEMMA FirstSlot ==
  ASSUME NEW S \in SUBSET Index, S # {}
  PROVE  First(S) \in S
<1>1. S \in SUBSET Nat
  BY SlotStoreAssumption DEF Index
<1>2. \E i \in S : \A j \in S : i <= j
  BY <1>1, LeastNatural
<1>3. QED BY <1>2 DEF First

\* An occupied slot holds an envelope.
LEMMA Occupied ==
  ASSUME SlotsOk, NEW i \in Index
  PROVE  /\ i \notin Free => slots[i] \in EnvelopeType
         /\ i \in Free <=> slots[i] = NoRecord
BY DEF SlotsOk, Free

-----------------------------------------------------------------------------
(* No id is in two slots.                                                  *)

\* A put that goes into a slot goes into a free one, under a new id.
LEMMA PutInto ==
  ASSUME SInv, NEW e \in EnvelopeType, FindIndex(e.id) = {}, Free # {},
         slots' = [slots EXCEPT ![First(Free)] = e]
  PROVE  /\ SInv' /\ First(Free) \in Free
         /\ Contents' = Contents \cup {e}
<1> DEFINE k == First(Free)
<1>1. k \in Free /\ k \in Index
  <2>1. Free \in SUBSET Index
    BY DEF Free
  <2>2. QED BY <2>1, FirstSlot
<1> HIDE DEF k
<1>2. SlotsOk /\ IdsInOneSlot /\ e # NoRecord
  BY SlotStoreAssumption DEF SInv
<1>3. \A i \in Index : slots'[i] = IF i = k THEN e ELSE slots[i]
  BY <1>1, <1>2 DEF SlotsOk, k
<1>4. SlotsOk'
  BY <1>1, <1>2 DEF SlotsOk, k, Index
<1>5. Index' = Index /\ (Index \ Free)' = (Index \ Free) \cup {k}
  BY <1>1, <1>2, <1>3 DEF Free, Index
<1>6. \A i \in Index \ Free : slots[i].id # e.id /\ i # k
  BY <1>1 DEF FindIndex
<1>7. IdsInOneSlot'
  BY <1>2, <1>3, <1>5, <1>6 DEF IdsInOneSlot
<1>8. Contents' = Contents \cup {e}
  <2>1. \A i \in Index \ Free : slots'[i] = slots[i]
    BY <1>3, <1>6
  <2>2. slots'[k] = e
    BY <1>1, <1>3
  <2>3. Contents' = {slots'[i] : i \in (Index \ Free) \cup {k}}
    BY <1>5 DEF Contents
  <2>4. QED BY <2>1, <2>2, <2>3 DEF Contents
<1>9. QED BY <1>1, <1>4, <1>7, <1>8 DEF SInv, k

\* Emptying slots keeps the rest.
LEMMA Emptied ==
  ASSUME SInv, NEW G \in SUBSET (Index \ Free),
         slots' = [i \in Index |-> IF i \in G THEN NoRecord ELSE slots[i]]
  PROVE  SInv' /\ Contents' = {slots[i] : i \in (Index \ Free) \ G}
<1>1. SlotsOk /\ IdsInOneSlot
  BY DEF SInv
<1>2. \A i \in Index : slots'[i] = IF i \in G THEN NoRecord ELSE slots[i]
  OBVIOUS
<1>3. SlotsOk'
  BY <1>1 DEF SlotsOk, Index
<1>4. (Index \ Free)' = (Index \ Free) \ G
  BY <1>2 DEF Free, Index
<1>5. IdsInOneSlot'
  BY <1>1, <1>2, <1>4 DEF IdsInOneSlot
<1>6. Contents' = {slots[i] : i \in (Index \ Free) \ G}
  <2>1. \A i \in (Index \ Free) \ G : slots'[i] = slots[i]
    BY <1>2
  <2>2. Contents' = {slots'[i] : i \in (Index \ Free) \ G}
    BY <1>4 DEF Contents
  <2>3. QED BY <2>1, <2>2
<1>7. QED BY <1>3, <1>5, <1>6 DEF SInv

\* remove empties one slot, the only one with the id.
LEMMA RemoveEmpties ==
  ASSUME SInv, NEW id, Remove(id), FindIndex(id) # {}
  PROVE  SInv' /\ Contents' = {e \in Contents : e.id # id}
<1> DEFINE k == First(FindIndex(id))
<1>1. k \in FindIndex(id)
  <2>1. FindIndex(id) \in SUBSET Index
    BY DEF FindIndex
  <2>2. QED BY <2>1, FirstSlot
<1>2. k \in Index \ Free /\ slots[k].id = id
  BY <1>1 DEF FindIndex
<1>3. slots' = [slots EXCEPT ![k] = NoRecord]
  BY DEF Remove
<1> HIDE DEF k
<1>4. slots' = [i \in Index |-> IF i \in {k} THEN NoRecord ELSE slots[i]]
  BY <1>2, <1>3 DEF SInv, SlotsOk
<1>5. SInv' /\ Contents' = {slots[i] : i \in (Index \ Free) \ {k}}
  BY <1>2, <1>4, Emptied
<1>6. \A i \in Index \ Free : slots[i].id = id <=> i = k
  BY <1>2 DEF SInv, IdsInOneSlot
<1>7. QED BY <1>5, <1>6 DEF Contents

\* expire_before empties exactly the slots whose time is over.
LEMMA ExpireEmpties ==
  ASSUME SInv, NEW t \in Nat, ExpireBefore(t)
  PROVE  SInv' /\ Contents' = {e \in Contents : e.expires > t}
<1> DEFINE gone == {i \in Index \ Free : slots[i].expires <= t}
<1>1. SInv' /\ Contents' = {slots[i] : i \in (Index \ Free) \ gone}
  <2>1. gone \in SUBSET (Index \ Free)
    OBVIOUS
  <2>2. slots' = [i \in Index |-> IF i \in gone THEN NoRecord ELSE slots[i]]
    BY DEF ExpireBefore
  <2> HIDE DEF gone
  <2>3. QED BY <2>1, <2>2, Emptied
<1>2. \A i \in Index \ Free : i \in gone <=> ~(slots[i].expires > t)
  <2>1. \A i \in Index \ Free : slots[i].expires \in Nat
    BY Occupied DEF SInv, EnvelopeType
  <2>2. QED BY <2>1
<1>3. QED BY <1>1, <1>2 DEF Contents

\* put_envelope and put_frame: refused, or a new record in a free slot.
LEMMA PutsKeep ==
  ASSUME SInv, NEW e \in EnvelopeType, PutValidFrame(e)
  PROVE  SInv'
<1>1. CASE UNCHANGED slots
  BY <1>1 DEF SInv, SlotsOk, IdsInOneSlot, Free, Index
<1>2. CASE FindIndex(e.id) = {} /\ Free # {} /\ slots' = [slots EXCEPT ![First(Free)] = e]
  BY <1>2, PutInto
<1>3. QED BY <1>1, <1>2 DEF PutValidFrame

\* Every operation of the slot array keeps each id in one slot.
LEMMA SlotStep ==
  ASSUME SInv, [Next]_slotVars
  PROVE  SInv'
<1>0. ASSUME UNCHANGED slots PROVE SInv'
  BY <1>0 DEF SInv, SlotsOk, IdsInOneSlot, Free, Index
<1>1. ASSUME NEW e \in Frames, PutEnvelope(e) \/ PutFrame(e) PROVE SInv'
  <2>1. e \in EnvelopeType /\ (PutValidFrame(e) \/ UNCHANGED slots)
    BY <1>1, SlotStoreAssumption DEF PutEnvelope, PutFrame
  <2>2. QED BY <1>0, <2>1, PutsKeep
<1>2. ASSUME NEW id, Remove(id) PROVE SInv'
  BY <1>0, <1>2, RemoveEmpties DEF Remove
<1>3. ASSUME NEW t \in 0..MaxTime, ExpireBefore(t) PROVE SInv'
  BY <1>3, ExpireEmpties
<1>4. CASE FirstPendingCall \/ \E room \in 0..StoreCapacity : Pending(room)
  BY <1>0, <1>4 DEF FirstPendingCall, Pending
<1>5. CASE UNCHANGED slotVars
  BY <1>0, <1>5 DEF slotVars
<1>6. QED BY <1>1, <1>2, <1>3, <1>4, <1>5 DEF Next

\* For every capacity, zero included, and every interleaving of puts, removals
\* and expiry no id is in two slots (put_valid_frame).
THEOREM IdsStayInOneSlot == Spec => []IdsInOneSlot
<1>1. Init => SInv
  BY DEF Init, SInv, SlotsOk, IdsInOneSlot, Free, Index
<1>2. SInv /\ [Next]_slotVars => SInv'
  BY SlotStep
<1>3. SInv => IdsInOneSlot
  BY DEF SInv
<1>4. QED BY <1>1, <1>2, <1>3, PTL DEF Spec

-----------------------------------------------------------------------------
(* record_precedes orders records with different ids.                      *)

\* Of two ids one precedes the other, and precedence is transitive.
LEMMA PrecedesOrders ==
  ASSUME NEW a \in EnvelopeType, NEW b \in EnvelopeType, NEW c \in EnvelopeType
  PROVE  /\ a.id # b.id => RecordPrecedes(a, b) \/ RecordPrecedes(b, a)
         /\ ~(RecordPrecedes(a, b) /\ RecordPrecedes(b, a))
         /\ RecordPrecedes(a, b) /\ RecordPrecedes(b, c) => RecordPrecedes(a, c)
<1>1. /\ a.expires \in Nat /\ a.created \in Nat /\ a.id \in Nat
      /\ b.expires \in Nat /\ b.created \in Nat /\ b.id \in Nat
      /\ c.expires \in Nat /\ c.created \in Nat /\ c.id \in Nat
  BY DEF EnvelopeType
<1>2. QED BY <1>1 DEF RecordPrecedes

-----------------------------------------------------------------------------
(* The scan of first_pending.                                              *)

\* One step of the scan: the slot selected when slot n comes after best.
Scan(n, best) ==
  IF slots[n] = NoRecord THEN best
  ELSE IF best # 0 /\ ~RecordPrecedes(slots[n], slots[best]) THEN best ELSE n

\* The scan is a function that selects a slot among those it has seen.
LEMMA ScanIsRecursive ==
  \E f \in [0..StoreCapacity -> 0..StoreCapacity] :
     /\ FirstPendingSlot = f[StoreCapacity]
     /\ f[0] = 0 /\ \A n \in 1..StoreCapacity : f[n] = Scan(n, f[n - 1])
<1> DEFINE K == StoreCapacity
           Rec(f) == f = [n \in 0..K |->
             IF n = 0 THEN 0
             ELSE IF slots[n] = NoRecord THEN f[n - 1]
             ELSE IF f[n - 1] # 0 /\ ~RecordPrecedes(slots[n], slots[f[n - 1]])
                  THEN f[n - 1] ELSE n]
           step == [n \in 1..K |-> [v \in 0..K |-> Scan(n, v)]]
<1>0. K \in Nat
  BY SlotStoreAssumption
<1>1. step \in [1..K -> [0..K -> 0..K]]
  BY <1>0 DEF Scan
<1>2. PICK f \in [0..K -> 0..K] : f[0] = 0 /\ \A n \in 1..K : f[n] = step[n][f[n - 1]]
  <2> DEFINE V == 0..K
  <2>1. 0 \in V /\ IsStep(step, K, V)
    BY <1>0, <1>1 DEF IsStep
  <2> HIDE DEF step, K, V
  <2>2. \E f : FollowsStep(f, K, V, 0, step)
    BY <1>0, <2>1, RecursionUpTo
  <2>3. QED BY <2>2 DEF V, FollowsStep
<1>3. ASSUME NEW n \in 1..K PROVE f[n] = Scan(n, f[n - 1])
  <2>1. f[n - 1] \in 0..K
    BY <1>0
  <2>2. step[n][f[n - 1]] = Scan(n, f[n - 1])
    BY <2>1
  <2>3. QED BY <1>2, <2>2
<1>4. Rec(f)
  <2>1. \A n \in 0..K : f[n] = IF n = 0 THEN 0 ELSE Scan(n, f[n - 1])
    BY <1>0, <1>2, <1>3
  <2>2. QED BY <2>1 DEF Scan
<1>5. FirstPendingSlot = (CHOOSE g : Rec(g))[K]
  BY DEF FirstPendingSlot
<1>6. Rec(CHOOSE g : Rec(g))
  <2> HIDE DEF Rec
  <2>1. QED BY <1>4
<1> DEFINE g == CHOOSE h : Rec(h)
<1>7. g[0] = 0 /\ \A n \in 1..K : g[n] = Scan(n, g[n - 1])
  <2>1. Rec(g)
    BY <1>6
  <2> HIDE DEF g
  <2>2. \A n \in 0..K : g[n] =
          IF n = 0 THEN 0
          ELSE IF slots[n] = NoRecord THEN g[n - 1]
          ELSE IF g[n - 1] # 0 /\ ~RecordPrecedes(slots[n], slots[g[n - 1]])
               THEN g[n - 1] ELSE n
    BY <2>1
  <2>3. 0 \in 0..K /\ \A n \in 1..K : n \in 0..K /\ n # 0
    BY <1>0
  <2>4. QED BY <2>2, <2>3 DEF Scan
<1>8. DOMAIN g = 0..K /\ g = [n \in 0..K |-> g[n]]
  BY <1>6
<1> HIDE DEF g, Rec
<1>9. \A n \in 0..K : g[n] \in 0..K
  <2> DEFINE P == {n \in 0..K : g[n] \in 0..K}
  <2>1. 0 \in P
    BY <1>0, <1>7
  <2>2. ASSUME NEW n \in 0..(K - 1), n \in P PROVE n + 1 \in P
    <3>1. n + 1 \in 1..K /\ (n + 1) - 1 = n /\ n + 1 \in 0..K
      BY <1>0
    <3>2. g[n + 1] = Scan(n + 1, g[n])
      BY <1>7, <3>1
    <3>3. QED BY <2>2, <3>1, <3>2 DEF Scan
  <2> HIDE DEF P
  <2>3. \A n \in 0..K : n \in P
    BY <1>0, <2>1, <2>2, UpTo
  <2>4. QED BY <2>3 DEF P
<1>10. g \in [0..K -> 0..K]
  BY <1>8, <1>9
<1>11. QED BY <1>5, <1>7, <1>10 DEF g

\* What is selected among the first n slots: nothing if they are free, or
\* else the slot whose record precedes the others.
Selects(n, best) ==
  /\ best \in 0..n
  /\ best = 0 => \A i \in 1..n : i \in Free
  /\ best # 0 => /\ best \notin Free
                 /\ \A i \in (1..n) \ (Free \cup {best}) :
                      RecordPrecedes(slots[best], slots[i])

\* Looking at one slot more keeps the selection right.
LEMMA ScanSelects ==
  ASSUME SInv, NEW n \in Nat, n + 1 \in Index, NEW best, Selects(n, best)
  PROVE  Selects(n + 1, Scan(n + 1, best))
<1> DEFINE m == n + 1
<1>0. /\ m \in Nat /\ m \in Index /\ n + 1 = m /\ best \in 0..n
      /\ \A i \in 1..n : i \in Index /\ i # m
      /\ \A i \in 1..m : i \in 1..n \/ i = m
  BY SlotStoreAssumption DEF Index, Selects
<1> HIDE DEF m
<1>1. /\ \A i \in Index \ Free : slots[i] \in EnvelopeType
      /\ \A i \in Index : i \in Free <=> slots[i] = NoRecord
  BY Occupied DEF SInv
<1>2. CASE slots[m] = NoRecord
  BY <1>0, <1>1, <1>2 DEF Selects, Scan
<1>3. CASE slots[m] # NoRecord /\ best = 0
  BY <1>0, <1>1, <1>3 DEF Selects, Scan
<1>4. CASE slots[m] # NoRecord /\ best # 0
  <2>1. /\ best \in 1..n /\ best \in Index \ Free /\ m \in Index \ Free /\ best # m
        /\ slots[best] \in EnvelopeType /\ slots[m] \in EnvelopeType
        /\ slots[best].id # slots[m].id
    BY <1>0, <1>1, <1>4 DEF Selects, SInv, IdsInOneSlot
  <2>2. CASE ~RecordPrecedes(slots[m], slots[best])
    <3>1. RecordPrecedes(slots[best], slots[m]) /\ Scan(m, best) = best
      BY <1>4, <2>1, <2>2, PrecedesOrders DEF Scan
    <3>2. QED BY <1>0, <1>4, <2>1, <3>1 DEF Selects
  <2>3. CASE RecordPrecedes(slots[m], slots[best])
    <3>1. Scan(m, best) = m
      BY <1>4, <2>1, <2>3 DEF Scan
    <3>2. ASSUME NEW i \in (1..m) \ (Free \cup {m})
          PROVE  RecordPrecedes(slots[m], slots[i])
      <4>1. i \in 1..n /\ i \in Index \ Free /\ slots[i] \in EnvelopeType
        BY <1>0, <1>1
      <4>2. i = best \/ RecordPrecedes(slots[best], slots[i])
        BY <1>4, <4>1 DEF Selects
      <4>3. QED BY <2>1, <2>3, <4>1, <4>2, PrecedesOrders
    <3>3. m \in 0..m /\ m # 0
      BY <1>0
    <3>4. QED BY <1>0, <2>1, <3>1, <3>2, <3>3 DEF Selects
  <2>4. QED BY <2>2, <2>3
<1>5. QED BY <1>0, <1>2, <1>3, <1>4

\* first_pending selects, in one pass, the record that precedes all others.
LEMMA FirstPendingSelects ==
  ASSUME SInv
  PROVE  Selects(StoreCapacity, FirstPendingSlot)
<1> DEFINE K == StoreCapacity
<1>0. K \in Nat
  BY SlotStoreAssumption
<1>1. PICK f \in [0..K -> 0..K] :
        /\ FirstPendingSlot = f[K]
        /\ f[0] = 0 /\ \A n \in 1..K : f[n] = Scan(n, f[n - 1])
  BY ScanIsRecursive
<1> DEFINE P == {n \in 0..K : Selects(n, f[n])}
<1>2. 0 \in P
  BY <1>0, <1>1 DEF Selects
<1>3. ASSUME NEW n \in 0..(K - 1), n \in P PROVE n + 1 \in P
  <2>1. n \in Nat /\ n + 1 \in 1..K /\ (n + 1) - 1 = n /\ n + 1 \in Index /\ n + 1 \in 0..K
    BY <1>0 DEF Index
  <2>2. f[n + 1] = Scan(n + 1, f[n])
    BY <1>1, <2>1
  <2>3. Selects(n + 1, Scan(n + 1, f[n]))
    BY <1>3, <2>1, ScanSelects
  <2>4. QED BY <2>1, <2>2, <2>3
<1> HIDE DEF P, K
<1>4. \A n \in 0..K : n \in P
  BY <1>0, <1>2, <1>3, UpTo
<1>5. K \in 0..K
  BY <1>0
<1>6. QED BY <1>1, <1>4, <1>5 DEF P, K

-----------------------------------------------------------------------------
(* The insertion sort of pending.                                          *)

\* Where insert_pending puts e: behind n entries, before all that e precedes.
InsertsAt(out, e, n) ==
  /\ n \in 0..Len(out)
  /\ \A i \in (n + 1)..Len(out) : RecordPrecedes(e, out[i])
  /\ n > 0 => ~RecordPrecedes(e, out[n])

Inserted(out, e, n) == SubSeq(out, 1, n) \o <<e>> \o SubSeq(out, n + 1, Len(out))

\* insert_pending shifts entries until it finds that place.
LEMMA InsertPendingPlace ==
  ASSUME NEW out \in Seq(EnvelopeType), NEW e \in EnvelopeType
  PROVE  \E n : InsertsAt(out, e, n) /\ InsertPending(out, e) = Inserted(out, e, n)
<1> DEFINE L == Len(out)
           Shift(n, v) == IF RecordPrecedes(e, out[n]) THEN v ELSE n
           Rec(f) == f = [n \in 0..L |->
             IF n > 0 /\ RecordPrecedes(e, out[n]) THEN f[n - 1] ELSE n]
           step == [n \in 1..L |-> [v \in 0..L |-> Shift(n, v)]]
           V == 0..L
<1>0. L \in Nat
  OBVIOUS
<1>1. 0 \in V /\ IsStep(step, L, V)
  BY <1>0 DEF IsStep
<1>2. PICK f : FollowsStep(f, L, V, 0, step)
  <2> HIDE DEF step, V, L
  <2>1. QED BY <1>0, <1>1, RecursionUpTo
<1>3. f \in [0..L -> 0..L] /\ f[0] = 0 /\ \A n \in 1..L : f[n] = step[n][f[n - 1]]
  BY <1>2 DEF FollowsStep
<1>4. ASSUME NEW n \in 1..L PROVE f[n] = Shift(n, f[n - 1])
  <2>1. f[n - 1] \in 0..L
    BY <1>0, <1>3
  <2>2. step[n][f[n - 1]] = Shift(n, f[n - 1])
    BY <2>1
  <2>3. QED BY <1>3, <2>2
<1>5. Rec(f)
  <2>1. \A n \in 0..L : f[n] = IF n > 0 /\ RecordPrecedes(e, out[n]) THEN f[n - 1] ELSE n
    BY <1>0, <1>3, <1>4
  <2>2. QED BY <1>3, <2>1
<1> DEFINE at == CHOOSE g : Rec(g)
<1>6. Rec(at)
  <2> HIDE DEF Rec
  <2>1. QED BY <1>5
<1>7. InsertPending(out, e) = Inserted(out, e, at[L])
  BY DEF InsertPending, Inserted
<1> HIDE DEF at
<1>8. \A n \in 0..L : at[n] = IF n > 0 /\ RecordPrecedes(e, out[n]) THEN at[n - 1] ELSE n
  BY <1>6
<1> HIDE DEF Rec
<1> DEFINE Placed(n, v) == /\ v \in 0..n
                           /\ \A i \in (v + 1)..n : RecordPrecedes(e, out[i])
                           /\ v > 0 => ~RecordPrecedes(e, out[v])
           P == {n \in 0..L : Placed(n, at[n])}
<1>9. 0 \in P
  <2>1. at[0] = 0
    BY <1>0, <1>8
  <2>2. QED BY <1>0, <2>1
<1>10. ASSUME NEW n \in 0..(L - 1), n \in P PROVE n + 1 \in P
  <2>1. /\ n \in Nat /\ n + 1 \in 0..L /\ n + 1 > 0 /\ (n + 1) - 1 = n
        /\ Placed(n, at[n]) /\ at[n] \in Nat
    BY <1>0, <1>10
  <2>2. CASE RecordPrecedes(e, out[n + 1])
    <3>1. at[n + 1] = at[n]
      BY <1>8, <2>1, <2>2
    <3>2. \A i \in (at[n] + 1)..(n + 1) : i \in (at[n] + 1)..n \/ i = n + 1
      BY <2>1
    <3>3. Placed(n + 1, at[n])
      BY <2>1, <2>2, <3>2
    <3>4. QED BY <2>1, <3>1, <3>3
  <2>3. CASE ~RecordPrecedes(e, out[n + 1])
    <3>1. at[n + 1] = n + 1
      BY <1>8, <2>1, <2>3
    <3>2. Placed(n + 1, n + 1)
      BY <2>1, <2>3
    <3>3. QED BY <2>1, <3>1, <3>2
  <2>4. QED BY <2>2, <2>3
<1>11. Placed(L, at[L])
  <2> HIDE DEF P, L
  <2>1. \A n \in 0..L : n \in P
    BY <1>0, <1>9, <1>10, UpTo
  <2>2. L \in 0..L
    BY <1>0
  <2>3. QED BY <2>1, <2>2 DEF P
<1>12. QED BY <1>7, <1>11 DEF InsertsAt

\* The sequence that results, entry by entry.
HasEntry(r, out, e, n) ==
  /\ r \in Seq(EnvelopeType) /\ Len(r) = Len(out) + 1
  /\ \A i \in 1..(Len(out) + 1) :
       r[i] = IF i <= n THEN out[i] ELSE IF i = n + 1 THEN e ELSE out[i - 1]
LEMMA InsertedEntries ==
  ASSUME NEW out \in Seq(EnvelopeType), NEW e \in EnvelopeType, NEW n \in 0..Len(out),
         NEW r, r = Inserted(out, e, n)
  PROVE  HasEntry(r, out, e, n)
<1> DEFINE E == EnvelopeType
           L == Len(out)
           front == SubSeq(out, 1, n)
           back == SubSeq(out, n + 1, L)
           head == front \o <<e>>
<1>0. L \in Nat /\ n \in Nat /\ n <= L /\ \A i \in 1..L : out[i] \in E
  OBVIOUS
<1>1. front \in Seq(E) /\ Len(front) = n /\ \A i \in 1..n : front[i] = out[i]
  <2>1. \A i \in 1..n : out[i] \in E
    BY <1>0
  <2> HIDE DEF E, L
  <2>2. /\ SubSeq(out, 1, n) \in Seq(E)
        /\ Len(SubSeq(out, 1, n)) = IF 1 <= n THEN n - 1 + 1 ELSE 0
        /\ \A i \in 1..(n - 1 + 1) : SubSeq(out, 1, n)[i] = out[1 + i - 1]
    BY <1>0, <2>1, SubSeqProperties
  <2>3. n - 1 + 1 = n /\ \A i \in 1..n : 1 + i - 1 = i
    BY <1>0
  <2>4. QED BY <1>0, <2>2, <2>3
<1>2. /\ back \in Seq(E) /\ Len(back) = L - n
      /\ \A i \in 1..(L - n) : back[i] = out[n + i]
  <2>1. \A i \in (n + 1)..L : out[i] \in E
    BY <1>0
  <2> HIDE DEF E, L
  <2>2. /\ SubSeq(out, n + 1, L) \in Seq(E)
        /\ Len(SubSeq(out, n + 1, L)) = IF n + 1 <= L THEN L - (n + 1) + 1 ELSE 0
        /\ \A i \in 1..(L - (n + 1) + 1) : SubSeq(out, n + 1, L)[i] = out[n + 1 + i - 1]
    BY <1>0, <2>1, SubSeqProperties
  <2>3. L - (n + 1) + 1 = L - n /\ \A i \in 1..(L - n) : n + 1 + i - 1 = n + i
    BY <1>0
  <2>4. QED BY <1>0, <2>2, <2>3
<1> HIDE DEF E, L, front, back
<1>3. <<e>> \in Seq(E) /\ Len(<<e>>) = 1 /\ <<e>>[1] = e
  BY DEF E
<1>4. /\ head \in Seq(E) /\ Len(head) = n + 1
      /\ \A i \in 1..(n + 1) : head[i] = IF i <= n THEN out[i] ELSE e
  <2>1. /\ head \in Seq(E) /\ Len(head) = n + 1
        /\ \A i \in 1..(n + 1) : head[i] = IF i <= n THEN front[i] ELSE <<e>>[i - n]
    BY <1>0, <1>1, <1>3, ConcatProperties, SMTT(30)
  <2> HIDE DEF head
  <2>2. \A i \in 1..(n + 1) : i <= n \/ i - n = 1
    BY <1>0
  <2>3. QED BY <1>0, <1>1, <1>3, <2>1, <2>2
<1>5. r = head \o back
  BY DEF front, back, L, Inserted
<1> HIDE DEF head
<1>6. /\ r \in Seq(E) /\ Len(r) = L + 1
      /\ \A i \in 1..(L + 1) : r[i] = IF i <= n + 1 THEN head[i] ELSE back[i - (n + 1)]
  <2>1. n + 1 + (L - n) = L + 1
    BY <1>0
  <2> DEFINE w == head \o back
  <2>2. /\ w \in Seq(E) /\ Len(w) = Len(head) + Len(back)
        /\ \A i \in 1..(Len(head) + Len(back)) :
             w[i] = IF i <= Len(head) THEN head[i] ELSE back[i - Len(head)]
    BY <1>2, <1>4, ConcatProperties
  <2> HIDE DEF w
  <2>3. QED BY <1>2, <1>4, <1>5, <2>1, <2>2 DEF w
<1>7. ASSUME NEW i \in 1..(L + 1)
      PROVE  r[i] = IF i <= n THEN out[i] ELSE IF i = n + 1 THEN e ELSE out[i - 1]
  <2>1. CASE i <= n + 1
    BY <1>0, <1>4, <1>6, <2>1
  <2>2. CASE i > n + 1
    <3>1. i - (n + 1) \in 1..(L - n) /\ n + (i - (n + 1)) = i - 1
      BY <1>0, <2>2
    <3>2. back[i - (n + 1)] = out[i - 1]
      BY <1>2, <3>1
    <3>3. r[i] = back[i - (n + 1)]
      BY <1>0, <1>6, <2>2
    <3>4. QED BY <1>0, <2>2, <3>2, <3>3
  <2>3. QED BY <1>0, <2>1, <2>2
<1>8. QED BY <1>6, <1>7 DEF E, L, HasEntry

Entries(s) == {s[i] : i \in 1..Len(s)}
Sorted(s) == \A i \in 1..(Len(s) - 1) : RecordPrecedes(s[i], s[i + 1])

\* insert_pending adds the record and keeps a listing sorted.
LEMMA InsertSorts ==
  ASSUME NEW out \in Seq(EnvelopeType), NEW e \in EnvelopeType,
         NEW r, r = InsertPending(out, e)
  PROVE  /\ r \in Seq(EnvelopeType) /\ Len(r) = Len(out) + 1
         /\ Entries(r) = Entries(out) \cup {e}
         /\ Sorted(out) /\ (\A x \in Entries(out) : x.id # e.id) => Sorted(r)
<1> DEFINE L == Len(out)
<1>1. PICK n : InsertsAt(out, e, n) /\ r = Inserted(out, e, n)
  BY InsertPendingPlace
<1>2. /\ L \in Nat /\ n \in 0..L /\ n \in Nat
      /\ \A i \in 1..L : out[i] \in EnvelopeType
  BY <1>1 DEF InsertsAt
<1>3. /\ r \in Seq(EnvelopeType) /\ Len(r) = L + 1
      /\ \A i \in 1..(L + 1) :
           r[i] = IF i <= n THEN out[i] ELSE IF i = n + 1 THEN e ELSE out[i - 1]
  <2>1. HasEntry(r, out, e, n)
    BY <1>1, <1>2, InsertedEntries
  <2>2. QED BY <2>1 DEF HasEntry
<1> HIDE DEF L
<1>4. Entries(r) = Entries(out) \cup {e}
  <2>1. ASSUME NEW i \in 1..(L + 1) PROVE r[i] \in Entries(out) \cup {e}
    <3>1. CASE i <= n
      BY <1>2, <1>3, <3>1 DEF Entries, L
    <3>2. CASE i = n + 1
      BY <1>2, <1>3, <3>2
    <3>3. CASE i > n + 1
      <4>1. i - 1 \in 1..L /\ r[i] = out[i - 1]
        BY <1>2, <1>3, <3>3
      <4>2. QED BY <4>1 DEF Entries, L
    <3>4. QED BY <1>2, <3>1, <3>2, <3>3
  <2>2. ASSUME NEW i \in 1..L PROVE out[i] \in Entries(r)
    <3>1. CASE i <= n
      <4>1. i \in 1..(L + 1) /\ r[i] = out[i]
        BY <1>2, <1>3, <3>1
      <4>2. QED BY <1>3, <4>1 DEF Entries
    <3>2. CASE i > n
      <4>1. i + 1 \in 1..(L + 1) /\ (i + 1) - 1 = i /\ i + 1 > n + 1
        BY <1>2, <3>2
      <4>2. r[i + 1] = out[i]
        BY <1>2, <1>3, <4>1
      <4>3. QED BY <1>3, <4>1, <4>2 DEF Entries
    <3>3. QED BY <1>2, <3>1, <3>2
  <2>3. e \in Entries(r)
    <3>1. n + 1 \in 1..(L + 1) /\ r[n + 1] = e
      BY <1>2, <1>3
    <3>2. QED BY <1>3, <3>1 DEF Entries
  <2>4. QED BY <1>3, <2>1, <2>2, <2>3 DEF Entries, L
<1>5. ASSUME Sorted(out), \A x \in Entries(out) : x.id # e.id,
             NEW i \in 1..L
      PROVE  RecordPrecedes(r[i], r[i + 1])
  <2>0. i \in 1..(L + 1) /\ i + 1 \in 1..(L + 1) /\ (i + 1) - 1 = i
    BY <1>2
  <2>1. CASE i < n
    <3>1. r[i] = out[i] /\ r[i + 1] = out[i + 1] /\ i \in 1..(L - 1)
      BY <1>2, <1>3, <2>0, <2>1
    <3>2. QED BY <1>5, <3>1 DEF Sorted, L
  <2>2. CASE i = n
    <3>1. r[i] = out[i] /\ r[i + 1] = e /\ out[i] \in EnvelopeType
      BY <1>2, <1>3, <2>0, <2>2
    <3>2. ~RecordPrecedes(e, out[i]) /\ out[i].id # e.id
      BY <1>1, <1>2, <1>5, <2>2 DEF InsertsAt, Entries, L
    <3>3. QED BY <3>1, <3>2, PrecedesOrders
  <2>3. CASE i = n + 1
    <3>1. r[i] = e /\ r[i + 1] = out[i]
      BY <1>2, <1>3, <2>0, <2>3
    <3>2. RecordPrecedes(e, out[i])
      BY <1>1, <1>2, <2>3 DEF InsertsAt, L
    <3>3. QED BY <3>1, <3>2
  <2>4. CASE i > n + 1
    <3>1. r[i] = out[i - 1] /\ r[i + 1] = out[i] /\ i - 1 \in 1..(L - 1) /\ (i - 1) + 1 = i
      BY <1>2, <1>3, <2>0, <2>4
    <3>2. RecordPrecedes(out[i - 1], out[(i - 1) + 1])
      BY <1>5, <3>1 DEF Sorted, L
    <3>3. QED BY <3>1, <3>2
  <2>5. QED BY <1>2, <2>1, <2>2, <2>3, <2>4
<1>6. (Len(r) - 1) = L
  BY <1>2, <1>3
<1>7. QED BY <1>3, <1>4, <1>5, <1>6 DEF Sorted, L

\* One step of pending: the listing when slot n comes after the slots of out.
Insert(n, out) == IF slots[n] = NoRecord THEN out ELSE InsertPending(out, slots[n])

\* The listing is such a recursion over the slots.
LEMMA ListingIsRecursive ==
  ASSUME SInv
  PROVE  \E f : /\ Listing = f[StoreCapacity]
                /\ f[0] = << >> /\ \A n \in 1..StoreCapacity : f[n] = Insert(n, f[n - 1])
<1> DEFINE K == StoreCapacity
           V == Seq(EnvelopeType)
           Rec(f) == f = [n \in 0..K |->
             IF n = 0 THEN << >>
             ELSE IF slots[n] = NoRecord THEN f[n - 1]
             ELSE InsertPending(f[n - 1], slots[n])]
           step == [n \in 1..K |-> [v \in V |-> Insert(n, v)]]
<1>0. K \in Nat
  BY SlotStoreAssumption
<1>1. << >> \in V /\ IsStep(step, K, V)
  <2>1. ASSUME NEW n \in 1..K, NEW v \in V PROVE Insert(n, v) \in V
    <3>1. slots[n] = NoRecord \/ slots[n] \in EnvelopeType
      BY DEF SInv, SlotsOk, Index
    <3> HIDE DEF V
    <3>2. QED BY <3>1, InsertSorts DEF Insert, V
  <2>2. << >> \in V
    OBVIOUS
  <2> HIDE DEF V
  <2>3. QED BY <2>1, <2>2 DEF IsStep
<1>2. PICK f : FollowsStep(f, K, V, << >>, step)
  <2> HIDE DEF step, V, K
  <2>1. QED BY <1>0, <1>1, RecursionUpTo
<1> HIDE DEF V
<1>3. f \in [0..K -> V] /\ f[0] = << >> /\ \A n \in 1..K : f[n] = step[n][f[n - 1]]
  BY <1>2 DEF FollowsStep
<1>4. ASSUME NEW n \in 1..K PROVE f[n] = Insert(n, f[n - 1])
  <2>1. f[n - 1] \in V
    BY <1>0, <1>3
  <2>2. step[n][f[n - 1]] = Insert(n, f[n - 1])
    BY <2>1
  <2>3. QED BY <1>3, <2>2
<1>5. Rec(f)
  <2>1. \A n \in 0..K : f[n] = IF n = 0 THEN << >> ELSE Insert(n, f[n - 1])
    BY <1>0, <1>3, <1>4
  <2>2. QED BY <1>3, <2>1 DEF Insert
<1> DEFINE g == CHOOSE h : Rec(h)
<1>6. Rec(g)
  <2> HIDE DEF Rec
  <2>1. QED BY <1>5
<1>7. Listing = g[K]
  BY DEF Listing
<1> HIDE DEF g
<1>8. \A n \in 0..K : g[n] = IF n = 0 THEN << >>
                             ELSE IF slots[n] = NoRecord THEN g[n - 1]
                             ELSE InsertPending(g[n - 1], slots[n])
  BY <1>6
<1> HIDE DEF Rec
<1>9. 0 \in 0..K /\ \A n \in 1..K : n \in 0..K /\ n # 0
  BY <1>0
<1>10. g[0] = << >> /\ \A n \in 1..K : g[n] = Insert(n, g[n - 1])
  BY <1>8, <1>9 DEF Insert
<1>11. QED BY <1>7, <1>10

\* A listing of what the first n slots hold.
HeldIn(n) == {slots[i] : i \in (1..n) \ Free}
ListsSlots(n, s) ==
  /\ s \in Seq(EnvelopeType) /\ Entries(s) = HeldIn(n) /\ Sorted(s)
  /\ IsFiniteSet(HeldIn(n)) /\ Cardinality(HeldIn(n)) = Len(s)
  /\ IsFiniteSet((1..n) \ Free) /\ Cardinality((1..n) \ Free) = Len(s)

\* Inserting one slot more.
LEMMA InsertLists ==
  ASSUME SInv, NEW n \in Nat, n + 1 \in Index, NEW s, ListsSlots(n, s)
  PROVE  ListsSlots(n + 1, Insert(n + 1, s))
<1> DEFINE m == n + 1
<1>0. /\ m \in Index /\ 1..m = (1..n) \cup {m} /\ m \notin 1..n
      /\ \A i \in 1..n : i \in Index
  BY SlotStoreAssumption DEF Index
<1>1. s \in Seq(EnvelopeType) /\ Len(s) \in Nat
  BY DEF ListsSlots
<1> HIDE DEF m
<1>2. CASE slots[m] = NoRecord
  <2>1. m \in Free
    BY <1>0, <1>2 DEF Free
  <2>2. (1..m) \ Free = (1..n) \ Free
    BY <1>0, <2>1
  <2>3. HeldIn(m) = HeldIn(n)
    BY <2>2 DEF HeldIn
  <2>4. ListsSlots(m, s)
    BY <2>2, <2>3 DEF ListsSlots
  <2>5. QED BY <1>2, <2>4 DEF Insert, m
<1>3. CASE slots[m] # NoRecord
  <2> DEFINE e == slots[m]
             r == InsertPending(s, e)
  <2>1. m \in Index \ Free /\ e \in EnvelopeType
    BY <1>0, <1>3, Occupied DEF Free, SInv
  <2>2. (1..m) \ Free = ((1..n) \ Free) \cup {m} /\ m \notin (1..n) \ Free
    BY <1>0, <2>1
  <2>3. HeldIn(m) = HeldIn(n) \cup {e}
    BY <2>2 DEF HeldIn
  <2>4. \A i \in (1..n) \ Free : i \in Index \ Free /\ i # m
    BY <1>0
  <2>5. \A x \in HeldIn(n) : x.id # e.id
    BY <2>1, <2>4 DEF HeldIn, SInv, IdsInOneSlot
  <2> HIDE DEF e
  <2>6. e \notin HeldIn(n)
    BY <2>5
  <2>7. /\ r \in Seq(EnvelopeType) /\ Len(r) = Len(s) + 1
        /\ Entries(r) = Entries(s) \cup {e}
        /\ Sorted(s) /\ (\A x \in Entries(s) : x.id # e.id) => Sorted(r)
    BY <1>1, <2>1, InsertSorts
  <2> HIDE DEF r
  <2>8. IsFiniteSet(HeldIn(m)) /\ Cardinality(HeldIn(m)) = Len(s) + 1
    <3>1. IsFiniteSet(HeldIn(n)) /\ Cardinality(HeldIn(n)) = Len(s)
      BY DEF ListsSlots
    <3>2. QED BY <2>3, <2>6, <3>1, FS_AddElement, SMTT(30)
  <2>9. IsFiniteSet((1..m) \ Free) /\ Cardinality((1..m) \ Free) = Len(s) + 1
    <3> DEFINE old == (1..n) \ Free
               new == (1..m) \ Free
    <3>1. IsFiniteSet(old) /\ Cardinality(old) = Len(s)
      BY DEF ListsSlots
    <3>2. new = old \cup {m} /\ m \notin old
      BY <2>2
    <3> HIDE DEF old, new
    <3>3. IsFiniteSet(new) /\ Cardinality(new) = Len(s) + 1
      BY <3>1, <3>2, FS_AddElement
    <3>4. QED BY <3>3 DEF new
  <2>10. ListsSlots(m, r)
    BY <2>3, <2>5, <2>7, <2>8, <2>9 DEF ListsSlots
  <2>11. QED BY <1>3, <2>10 DEF Insert, m, r, e
<1>4. QED BY <1>2, <1>3

\* pending lists every record once, in order, wherever in the array it is.
LEMMA ListingLists ==
  ASSUME SInv
  PROVE  ListsSlots(StoreCapacity, Listing)
<1> DEFINE K == StoreCapacity
<1>0. K \in Nat
  BY SlotStoreAssumption
<1>1. PICK f : /\ Listing = f[K]
               /\ f[0] = << >> /\ \A n \in 1..K : f[n] = Insert(n, f[n - 1])
  BY ListingIsRecursive
<1> DEFINE P == {n \in 0..K : ListsSlots(n, f[n])}
<1>2. 0 \in P
  <2>1. (1..0) \ Free = {}
    OBVIOUS
  <2>2. HeldIn(0) = {}
    BY <2>1 DEF HeldIn
  <2>3. << >> \in Seq(EnvelopeType) /\ Entries(<< >>) = {} /\ Sorted(<< >>) /\ Len(<< >>) = 0
    BY DEF Entries, Sorted
  <2>4. ListsSlots(0, << >>)
    BY <2>1, <2>2, <2>3, FS_EmptySet DEF ListsSlots
  <2>5. QED BY <1>0, <1>1, <2>4
<1>3. ASSUME NEW n \in 0..(K - 1), n \in P PROVE n + 1 \in P
  <2>1. n \in Nat /\ n + 1 \in 1..K /\ (n + 1) - 1 = n /\ n + 1 \in Index /\ n + 1 \in 0..K
    BY <1>0 DEF Index
  <2>2. f[n + 1] = Insert(n + 1, f[n])
    BY <1>1, <2>1
  <2>3. ListsSlots(n + 1, Insert(n + 1, f[n]))
    BY <1>3, <2>1, InsertLists
  <2>4. QED BY <2>1, <2>2, <2>3
<1> HIDE DEF P, K
<1>4. \A n \in 0..K : n \in P
  BY <1>0, <1>2, <1>3, UpTo
<1>5. K \in 0..K
  BY <1>0
<1>6. QED BY <1>1, <1>4, <1>5 DEF P, K

-----------------------------------------------------------------------------
(* The refinement: the slots behave like the set of their records.         *)

\* The scans over the slots, as questions about the set.
LEMMA ContentsCounted ==
  ASSUME SInv
  PROVE  /\ IsFiniteSet(Contents) /\ Cardinality(Contents) = Count /\ Count \in Nat
         /\ Contents \in SUBSET EnvelopeType
         /\ Free = {} <=> Cardinality(Contents) >= StoreCapacity
         /\ \A id : FindIndex(id) # {} <=> \E e \in Contents : e.id = id
<1>0. StoreCapacity \in Nat /\ SlotsOk
  BY SlotStoreAssumption DEF SInv
<1>1. Contents = HeldIn(StoreCapacity) /\ Count = Cardinality((1..StoreCapacity) \ Free)
  BY DEF Contents, HeldIn, Count, Index
<1>2. /\ IsFiniteSet(Contents) /\ Cardinality(Contents) = Count
      /\ IsFiniteSet(Index \ Free)
  BY <1>1, ListingLists DEF ListsSlots, Index
<1>3. Count \in Nat
  BY <1>2, FS_CardinalityType
<1>4. IsFiniteSet(Index) /\ Cardinality(Index) = StoreCapacity
  <2>1. /\ IsFiniteSet(1..StoreCapacity)
        /\ Cardinality(1..StoreCapacity) = IF 1 > StoreCapacity THEN 0 ELSE StoreCapacity - 1 + 1
    BY <1>0, FS_Interval
  <2>2. QED BY <1>0, <2>1 DEF Index
<1>5. Free = {} <=> Count >= StoreCapacity
  <2>1. CASE Free = {}
    BY <1>0, <1>4, <2>1 DEF Count
  <2>2. CASE Free # {}
    <3>1. Index \ Free # Index /\ Index \ Free \in SUBSET Index
      BY <2>2 DEF Free
    <3>2. Count <= StoreCapacity /\ Count # StoreCapacity
      BY <1>4, <3>1, FS_Subset DEF Count
    <3>3. QED BY <1>0, <1>3, <2>2, <3>2
  <2>3. QED BY <2>1, <2>2
<1>6. Contents \in SUBSET EnvelopeType
  BY <1>0, Occupied DEF Contents
<1>7. \A id : FindIndex(id) # {} <=> \E e \in Contents : e.id = id
  BY DEF FindIndex, Contents
<1>8. QED BY <1>2, <1>3, <1>5, <1>6, <1>7

\* The operators of the abstract store are those of this one.
LEMMA SpecOperators ==
  ASSUME NEW a, NEW b
  PROVE  /\ StoreSpec!Precedes(a, b) <=> RecordPrecedes(a, b)
         /\ StoreSpec!Valid(a) <=> Valid(a)
         /\ StoreSpec!Fits(a) <=> Fits(a)
         /\ StoreSpec!ExpiryOk(a) <=> ExpiryOk(a)
         /\ StoreSpec!Status(a) = Answer(a)
         /\ StoreSpec!Cardinality(a) = Cardinality(a)
<1>1. StoreSpec!Cardinality(a) = Cardinality(a)
  BY DEF StoreSpec!Cardinality, Cardinality, StoreSpec!IsFiniteSet, IsFiniteSet
<1>2. QED BY <1>1 DEF StoreSpec!Precedes, RecordPrecedes, StoreSpec!Valid, Valid,
                      StoreSpec!Fits, Fits, StoreSpec!ExpiryOk, ExpiryOk,
                      StoreSpec!VersionOk, VersionOk, StoreSpec!Status, Answer

\* put_valid_frame
LEMMA PutValidRefines ==
  ASSUME SInv, NEW e \in EnvelopeType, Valid(e), Fits(e), PutValidFrame(e)
  PROVE  StoreSpec!DoPut(e, StoreSpec!PutError(Contents, e))
<1> DEFINE error == StoreSpec!PutError(Contents, e)
<1>1. error = IF FindIndex(e.id) # {} THEN "Duplicate" ELSE IF Free = {} THEN "Full" ELSE "Ok"
  <2>1. ExpiryOk(e)
    BY DEF Valid
  <2>2. e.id \in StoreSpec!StoredIds(Contents) <=> FindIndex(e.id) # {}
    BY ContentsCounted DEF StoreSpec!StoredIds
  <2>3. Cardinality(Contents) >= StoreCapacity <=> Free = {}
    BY ContentsCounted
  <2>4. QED BY <2>1, <2>2, <2>3, SpecOperators DEF StoreSpec!PutError
<1> HIDE DEF error
<1>2. CASE error # "Ok"
  <2>1. reply' = Answer(error) /\ UNCHANGED slots
    BY <1>1, <1>2 DEF PutValidFrame
  <2>2. Contents' = Contents
    BY <2>1 DEF Contents, Free, Index
  <2>3. QED BY <1>2, <2>1, <2>2, SpecOperators DEF StoreSpec!DoPut, error
<1>3. CASE error = "Ok"
  <2>1. /\ FindIndex(e.id) = {} /\ Free # {} /\ reply' = Answer("Ok")
        /\ slots' = [slots EXCEPT ![First(Free)] = e]
    BY <1>1, <1>3 DEF PutValidFrame
  <2>2. Contents' = Contents \cup {e}
    BY <2>1, PutInto
  <2>3. QED BY <1>3, <2>1, <2>2, SpecOperators DEF StoreSpec!DoPut, error
<1>4. QED BY <1>2, <1>3

\* A put that is refused before the slots are looked at.
LEMMA RefusedRefines ==
  ASSUME NEW e, NEW error, error # "Ok", reply' = Answer(error), UNCHANGED slots
  PROVE  StoreSpec!DoPut(e, error)
<1>1. Contents' = Contents
  BY DEF Contents, Free, Index
<1>2. QED BY <1>1, SpecOperators DEF StoreSpec!DoPut

\* put_envelope and put_frame, with their different orders of the checks
LEMMA PutRefines ==
  ASSUME SInv, NEW e \in EnvelopeType
  PROVE  /\ PutEnvelope(e) => StoreSpec!DoPutEnvelope(e)
         /\ PutFrame(e) => StoreSpec!DoPutFrame(e)
<1>0. e.form \in {"ok", "oversize", "invalid"}
  BY DEF EnvelopeType, Forms
<1>1. ASSUME PutEnvelope(e) PROVE StoreSpec!DoPutEnvelope(e)
  <2> DEFINE error == IF RejectExpiredOnPut /\ ~ExpiryOk(e) THEN "Expired"
                      ELSE IF ~Valid(e) THEN "InvalidEnvelope"
                      ELSE IF ~Fits(e) THEN "FrameTooLarge"
                      ELSE "Ok"
  <2>1. CASE error = "Ok"
    BY <1>1, <2>1, PutValidRefines DEF PutEnvelope, StoreSpec!DoPutEnvelope
  <2>2. CASE error # "Ok"
    <3>1. StoreSpec!PutError(Contents, e) = error
      BY <2>2, SpecOperators DEF StoreSpec!PutError
    <3>2. reply' = Answer(error) /\ UNCHANGED slots
      BY <1>1, <2>2 DEF PutEnvelope
    <3> HIDE DEF error
    <3>3. QED BY <2>2, <3>1, <3>2, RefusedRefines DEF StoreSpec!DoPutEnvelope
  <2>3. QED BY <2>1, <2>2
<1>2. ASSUME PutFrame(e) PROVE StoreSpec!DoPutFrame(e)
  <2> DEFINE error == IF e.form = "oversize" THEN "FrameTooLarge"
                      ELSE IF ~VersionOk(e) THEN "InvalidEnvelope"
                      ELSE IF ExpiryOk(e) THEN "Ok"
                      ELSE IF RejectExpiredOnPut THEN "Expired" ELSE "InvalidEnvelope"
  <2>1. CASE error = "Ok"
    <3>1. Valid(e) /\ Fits(e) /\ e.form = "ok"
      BY <1>0, <2>1 DEF Valid, VersionOk, Fits
    <3>2. PutValidFrame(e)
      BY <1>2, <2>1 DEF PutFrame
    <3>3. StoreSpec!PutFrameError(Contents, e) = StoreSpec!PutError(Contents, e)
      BY <3>1 DEF StoreSpec!PutFrameError
    <3>4. QED BY <3>1, <3>2, <3>3, PutValidRefines DEF StoreSpec!DoPutFrame
  <2>2. CASE error # "Ok"
    <3>1. StoreSpec!PutFrameError(Contents, e) = error
      BY <1>0, <2>2, SpecOperators
         DEF StoreSpec!PutFrameError, StoreSpec!PutError, Valid, VersionOk
    <3>2. reply' = Answer(error) /\ UNCHANGED slots
      BY <1>2, <2>2 DEF PutFrame
    <3> HIDE DEF error
    <3>3. QED BY <2>2, <3>1, <3>2, RefusedRefines DEF StoreSpec!DoPutFrame
  <2>3. QED BY <2>1, <2>2
<1>3. QED BY <1>1, <1>2

\* remove
LEMMA RemoveRefines ==
  ASSUME SInv, NEW id, Remove(id)
  PROVE  StoreSpec!DoRemove(id)
<1>1. id \in StoreSpec!StoredIds(Contents) <=> FindIndex(id) # {}
  BY ContentsCounted DEF StoreSpec!StoredIds
<1>2. CASE FindIndex(id) = {}
  <2>1. Contents' = Contents /\ reply' = Answer("NotFound")
    BY <1>2 DEF Remove, Contents, Free, Index
  <2>2. StoreSpec!Without(Contents, id) = Contents
    BY <1>1, <1>2 DEF StoreSpec!Without, StoreSpec!StoredIds
  <2>3. QED BY <1>1, <1>2, <2>1, <2>2, SpecOperators DEF StoreSpec!DoRemove
<1>3. CASE FindIndex(id) # {}
  <2>1. Contents' = {e \in Contents : e.id # id}
    BY <1>3, RemoveEmpties
  <2>2. reply' = Answer("Ok")
    BY <1>3 DEF Remove
  <2>3. QED BY <1>1, <1>3, <2>1, <2>2, SpecOperators DEF StoreSpec!DoRemove, StoreSpec!Without
<1>4. QED BY <1>2, <1>3

\* expire_before removes and counts the records whose time is over.
LEMMA ExpireRefines ==
  ASSUME SInv, NEW t \in Nat, ExpireBefore(t)
  PROVE  StoreSpec!DoExpire(t)
<1> DEFINE gone == {i \in Index \ Free : slots[i].expires <= t}
           over == {e \in Contents : e.expires <= t}
           f == [i \in gone |-> slots[i]]
<1>1. Contents' = {e \in Contents : e.expires > t}
  BY ExpireEmpties
<1>2. Cardinality(over) = Cardinality(gone)
  <2>1. gone \in SUBSET Index /\ IsFiniteSet(gone)
    <3>1. IsFiniteSet(Index) /\ gone \in SUBSET Index
      BY SlotStoreAssumption, FS_Interval DEF Index
    <3> HIDE DEF gone
    <3>2. QED BY <3>1, FS_Subset
  <2>2. f \in [gone -> over] /\ \A x \in over : \E i \in gone : f[i] = x
    BY DEF Contents
  <2>3. \A i, j \in gone : f[i] = f[j] => i = j
    <3>1. \A i, j \in gone : slots[i] = slots[j] => i = j
      BY DEF SInv, IdsInOneSlot
    <3>2. QED BY <3>1
  <2> HIDE DEF gone, over, f
  <2>4. f \in Bijection(gone, over)
    BY <2>2, <2>3 DEF Bijection, Injection, Surjection, IsInjective
  <2>5. ExistsBijection(gone, over)
    BY <2>4 DEF ExistsBijection
  <2>6. QED BY <2>1, <2>5, FS_Bijection
<1>3. reply' = [Answer("Ok") EXCEPT !.removed = Cardinality(gone)]
  BY DEF ExpireBefore
<1>4. QED BY <1>1, <1>2, <1>3, SpecOperators
          DEF StoreSpec!DoExpire, StoreSpec!ExpiredAt, StoreSpec!Unexpired

\* first_pending
LEMMA FirstPendingRefines ==
  ASSUME SInv, FirstPendingCall
  PROVE  StoreSpec!DoFirst
<1> DEFINE k == FirstPendingSlot
<1>0. /\ Contents' = Contents
      /\ reply' = [Answer("Ok") EXCEPT !.list = IF k = 0 THEN << >> ELSE <<slots[k]>>]
  BY DEF FirstPendingCall, Contents, Free, Index
<1>1. Selects(StoreCapacity, k) /\ StoreCapacity \in Nat
  BY FirstPendingSelects, SlotStoreAssumption
<1> HIDE DEF k
<1>2. CASE k = 0
  <2>1. Contents = {}
    BY <1>1, <1>2 DEF Selects, Contents, Index
  <2>2. QED BY <1>0, <1>2, <2>1, SpecOperators DEF StoreSpec!DoFirst
<1>3. CASE k # 0
  <2> DEFINE e == slots[k]
  <2>1. k \in Index \ Free
    BY <1>1, <1>3 DEF Selects, Index
  <2>2. e \in Contents /\ Contents \in SUBSET EnvelopeType
    BY <2>1, ContentsCounted DEF Contents
  <2>3. \A x \in Contents \ {e} : RecordPrecedes(e, x)
    BY <1>1, <1>3 DEF Selects, Contents, Index
  <2> HIDE DEF e
  <2>4. ASSUME NEW y \in Contents, \A x \in Contents \ {y} : RecordPrecedes(y, x)
        PROVE  y = e
    <3>1. SUFFICES ASSUME y # e PROVE FALSE
      OBVIOUS
    <3>2. RecordPrecedes(y, e) /\ RecordPrecedes(e, y)
      BY <2>2, <2>3, <2>4, <3>1
    <3>3. QED BY <2>2, <3>2, PrecedesOrders
  <2>5. StoreSpec!FirstPending(Contents) = e
    <3> DEFINE Least(y) == \A x \in Contents \ {y} : StoreSpec!Precedes(y, x)
    <3>1. Least(e) /\ \A y \in Contents : Least(y) => y = e
      BY <2>3, <2>4, SpecOperators
    <3>2. StoreSpec!FirstPending(Contents) = CHOOSE y \in Contents : Least(y)
      BY DEF StoreSpec!FirstPending
    <3> HIDE DEF Least
    <3>3. QED BY <2>2, <3>1, <3>2
  <2>6. Contents # {}
    BY <2>2
  <2>7. QED BY <1>0, <1>3, <2>5, <2>6, SpecOperators DEF StoreSpec!DoFirst, e
<1>4. QED BY <1>2, <1>3

\* pending
LEMMA PendingRefines ==
  ASSUME SInv, NEW room, Pending(room)
  PROVE  StoreSpec!DoPending(room)
<1>0. Contents' = Contents /\ Cardinality(Contents) = Count
  BY ContentsCounted DEF Pending, Contents, Free, Index
<1>1. CASE room < Count
  <2>1. reply' = Answer("OutputTooSmall")
    BY <1>1 DEF Pending
  <2>2. QED BY <1>0, <1>1, <2>1, SpecOperators DEF StoreSpec!DoPending
<1>2. CASE ~(room < Count)
  <2> DEFINE s == Listing
  <2>1. reply' = [Answer("Ok") EXCEPT !.list = s]
    BY <1>2 DEF Pending
  <2>2. ListsSlots(StoreCapacity, s)
    BY ListingLists
  <2> HIDE DEF s
  <2>3. s \in Seq(EnvelopeType) /\ DOMAIN s = 1..Len(s)
    BY <2>2 DEF ListsSlots
  <2>4. HeldIn(StoreCapacity) = Contents
    BY DEF HeldIn, Contents, Index
  <2>5. StoreSpec!IsListing(s, Contents)
    BY <2>2, <2>3, <2>4, SpecOperators
       DEF StoreSpec!IsListing, ListsSlots, Entries, Sorted
  <2>6. reply'.list = s
    BY <2>1 DEF Answer
  <2>7. QED BY <1>0, <1>2, <2>1, <2>5, <2>6, SpecOperators DEF StoreSpec!DoPending
<1>3. QED BY <1>1, <1>2

\* For every capacity, policy and traffic the array of slots gives the replies
\* of a bounded set of records: the same refusals, the same counts, the same
\* first record and the same listing (hyf_store/src/store.rs).
THEOREM SlotsImplementStore == Spec => ImplementsStoreSpec
<1>1. Init => StoreSpec!StoreInit
  BY SpecOperators DEF Init, StoreSpec!StoreInit, Contents, Free, Index
<1>2. SInv /\ [Next]_slotVars => [StoreSpec!StoreNext]_(StoreSpec!storeVars)
  <2> SUFFICES ASSUME SInv, [Next]_slotVars
               PROVE  [StoreSpec!StoreNext]_(StoreSpec!storeVars)
    OBVIOUS
  <2>1. ASSUME NEW e \in Frames, PutEnvelope(e) \/ PutFrame(e)
        PROVE  StoreSpec!StoreNext
    BY <2>1, PutRefines, SlotStoreAssumption DEF StoreSpec!StoreNext
  <2>2. ASSUME NEW id \in {e.id : e \in Frames}, Remove(id)
        PROVE  StoreSpec!StoreNext
    BY <2>2, RemoveRefines DEF StoreSpec!StoreNext
  <2>3. ASSUME NEW t \in 0..MaxTime, ExpireBefore(t)
        PROVE  StoreSpec!StoreNext
    <3>1. t \in Nat
      OBVIOUS
    <3>2. QED BY <2>3, <3>1, ExpireRefines DEF StoreSpec!StoreNext
  <2>4. CASE FirstPendingCall
    BY <2>4, FirstPendingRefines DEF StoreSpec!StoreNext
  <2>5. CASE \E room \in 0..StoreCapacity : Pending(room)
    BY <2>5, PendingRefines DEF StoreSpec!StoreNext
  <2>6. CASE UNCHANGED slotVars
    BY <2>6 DEF slotVars, StoreSpec!storeVars, Contents, Free, Index
  <2>7. QED BY <2>1, <2>2, <2>3, <2>4, <2>5, <2>6 DEF Next
<1>3. Spec => []SInv
  <2>1. Init => SInv
    BY DEF Init, SInv, SlotsOk, IdsInOneSlot, Free, Index
  <2>2. SInv /\ [Next]_slotVars => SInv'
    BY SlotStep
  <2>3. QED BY <2>1, <2>2, PTL DEF Spec
<1>4. QED BY <1>1, <1>2, <1>3, PTL DEF Spec, ImplementsStoreSpec, StoreSpec!StoreSpecification
=============================================================================
