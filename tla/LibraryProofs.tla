---------------------------- MODULE LibraryProofs ---------------------------
(***************************************************************************)
(* Facts that several proofs need: induction and recursion up to a bound,  *)
(* and rings of keys.                                                      *)
(***************************************************************************)
EXTENDS Integers, SequenceTheorems, FiniteSetTheorems, WellFoundedInduction, TLAPS

-----------------------------------------------------------------------------
(* Induction and recursion.  The scans of the code are recursive functions *)
(* of the index; what they compute is shown by induction on it.            *)

\* A set of naturals has a least element.
LEMMA LeastNatural ==
  ASSUME NEW S \in SUBSET Nat, S # {}
  PROVE  \E m \in S : \A n \in S : m <= n
<1> DEFINE R == {ss \in Nat \X Nat : ss[1] < ss[2]}
<1>1. IsWellFoundedOn(R, Nat)
  BY NatLessThanWellFounded DEF OpToRel
<1> HIDE DEF R
<1>2. PICK m \in S : \A n \in S : <<n, m>> \notin R
  BY <1>1, WFMin
<1>3. \A n \in S : ~(n < m)
  BY <1>2 DEF R
<1>4. QED BY <1>3

\* A set that holds 0, and with every index below K the next one, holds all
\* indices up to K.
LEMMA UpTo ==
  ASSUME NEW K \in Nat, NEW P, 0 \in P,
         \A n \in 0..(K - 1) : n \in P => n + 1 \in P
  PROVE  \A n \in 0..K : n \in P
<1> DEFINE S == {n \in 0..K : n \notin P}
<1> SUFFICES ASSUME S # {} PROVE FALSE
  OBVIOUS
<1>1. PICK m \in S : \A n \in S : m <= n
  <2>1. S \in SUBSET Nat
    OBVIOUS
  <2> HIDE DEF S
  <2>2. QED BY <2>1, LeastNatural
<1>2. m # 0 /\ m - 1 \in 0..(K - 1)
  BY <1>1
<1>3. m - 1 \in P
  BY <1>1, <1>2
<1>4. (m - 1) + 1 \in P
  BY <1>2, <1>3
<1>5. QED BY <1>1, <1>4

\* A function can be defined by its value at 0 and a step from each index to
\* the next.
IsStep(step, K, V) == step \in [1..K -> [V -> V]]
FollowsStep(f, K, V, base, step) ==
  f \in [0..K -> V] /\ f[0] = base /\ \A i \in 1..K : f[i] = step[i][f[i - 1]]
LEMMA RecursionUpTo ==
  ASSUME NEW K \in Nat, NEW V, NEW base \in V, NEW step, IsStep(step, K, V)
  PROVE  \E f : FollowsStep(f, K, V, base, step)
<1>0. step \in [1..K -> [V -> V]]
  BY DEF IsStep
<1> DEFINE Good(n) == \E f \in [0..n -> V] :
                        f[0] = base /\ \A i \in 1..n : f[i] = step[i][f[i - 1]]
           P == {n \in 0..K : Good(n)}
<1>1. 0 \in P
  <2> DEFINE g == [i \in 0..0 |-> base]
  <2>1. g \in [0..0 -> V] /\ g[0] = base /\ \A i \in 1..0 : g[i] = step[i][g[i - 1]]
    OBVIOUS
  <2> HIDE DEF g
  <2>2. QED BY <2>1
<1>2. ASSUME NEW n \in 0..(K - 1), n \in P PROVE n + 1 \in P
  <2>1. PICK f \in [0..n -> V] :
          f[0] = base /\ \A i \in 1..n : f[i] = step[i][f[i - 1]]
    BY <1>2
  <2> DEFINE g == [i \in 0..(n + 1) |-> IF i = n + 1 THEN step[n + 1][f[n]] ELSE f[i]]
  <2>2. n + 1 \in 1..K /\ n \in 0..n
    OBVIOUS
  <2>3. step[n + 1][f[n]] \in V
    BY <1>0, <2>2
  <2>4. g \in [0..(n + 1) -> V]
    BY <2>3
  <2>5. g[0] = base
    BY <2>1
  <2>6. ASSUME NEW i \in 1..(n + 1) PROVE g[i] = step[i][g[i - 1]]
    <3>1. i - 1 \in 0..(n + 1) /\ i - 1 # n + 1 /\ g[i - 1] = f[i - 1]
      OBVIOUS
    <3>2. CASE i = n + 1
      BY <3>1, <3>2
    <3>3. CASE i # n + 1
      BY <2>1, <3>1, <3>3
    <3>4. QED BY <3>2, <3>3
  <2> HIDE DEF g
  <2>7. Good(n + 1)
    BY <2>4, <2>5, <2>6
  <2>8. QED BY <2>2, <2>7
<1> HIDE DEF P
<1>3. K \in P
  <2>1. \A n \in 0..K : n \in P
    BY <1>1, <1>2, UpTo
  <2>2. QED BY <2>1
<1>4. QED BY <1>3 DEF P, FollowsStep

-----------------------------------------------------------------------------
(* Rings of keys, as the router (mark_seen) and the bridge                 *)
(* (BridgeDedupeSet::insert) keep them: an array of M slots whose first n  *)
(* are filled, and a cursor.  Read from the oldest key on, writing at the  *)
(* cursor is appending to a sequence that loses its head when it is full.  *)

\* The keys of a ring, oldest first; a full ring is read from the cursor on.
RingOrder(M, ring, cursor, n) ==
  IF n < M THEN [i \in 1..n |-> ring[i - 1]]
  ELSE [i \in 1..M |-> ring[(cursor + i - 1) % M]]

\* Indices that go round the ring at most once.
Around(M, x) == IF x < M THEN x ELSE x - M
LEMMA AroundOnce ==
  ASSUME NEW M \in Nat \ {0}, NEW x \in Nat, x < M + M
  PROVE  x % M = Around(M, x)
<1>1. CASE x < M
  BY <1>1 DEF Around
<1>2. CASE x >= M
  <2>1. x - M \in 0..(M - 1)
    BY <1>2
  <2>2. (x - M) % M = x - M
    BY <2>1
  <2>3. x % M = (x - M) % M
    OBVIOUS
  <2>4. QED BY <1>2, <2>2, <2>3 DEF Around
<1>3. QED BY <1>1, <1>2

\* A sequence of n keys, the keys of the ring from the oldest on.
OrderOf(M, T, ring, cursor, n, order) ==
  /\ order \in Seq(T) /\ Len(order) = n
  /\ n < M => \A i \in 1..n : order[i] = ring[i - 1]
  /\ n = M => \A i \in 1..M : order[i] = ring[Around(M, cursor + i - 1)]

\* The order of a ring is such a sequence.
LEMMA RingOrderIsSeq ==
  ASSUME NEW M \in Nat \ {0}, NEW T, NEW ring \in [0..(M - 1) -> T],
         NEW n \in 0..M, NEW cursor \in 0..(M - 1)
  PROVE  OrderOf(M, T, ring, cursor, n, RingOrder(M, ring, cursor, n))
<1> DEFINE order == RingOrder(M, ring, cursor, n)
<1>1. CASE n < M
  <2>1. order = [i \in 1..n |-> ring[i - 1]]
    BY <1>1 DEF RingOrder
  <2>2. \A i \in 1..n : i - 1 \in 0..(M - 1)
    BY <1>1
  <2>3. order \in [1..n -> T]
    BY <2>1, <2>2
  <2>4. order \in Seq(T) /\ Len(order) = n
    BY <2>3, SeqDef, LenProperties
  <2>5. QED BY <1>1, <2>1, <2>4 DEF OrderOf
<1>2. CASE n = M
  <2>1. order = [i \in 1..M |-> ring[(cursor + i - 1) % M]]
    BY <1>2 DEF RingOrder
  <2>2. ASSUME NEW i \in 1..M
        PROVE  /\ (cursor + i - 1) % M = Around(M, cursor + i - 1)
               /\ Around(M, cursor + i - 1) \in 0..(M - 1)
    <3> DEFINE x == cursor + i - 1
    <3>1. x \in Nat /\ x < M + M
      OBVIOUS
    <3> HIDE DEF x
    <3>2. x % M = Around(M, x)
      BY <3>1, AroundOnce
    <3>3. Around(M, x) \in 0..(M - 1)
      BY <3>1 DEF Around
    <3>4. QED BY <3>2, <3>3 DEF x
  <2>3. \A i \in 1..M : order[i] = ring[Around(M, cursor + i - 1)]
    BY <2>1, <2>2
  <2>4. order \in [1..M -> T]
    BY <2>1, <2>2
  <2>5. order \in Seq(T) /\ Len(order) = M
    BY <2>4, SeqDef, LenProperties
  <2>6. QED BY <1>2, <2>3, <2>5 DEF OrderOf
<1>3. QED BY <1>1, <1>2

Appended(M, n, old, k, new) == new = Append(IF n = M THEN Tail(old) ELSE old, k)

\* Writing a key at the cursor appends it; a full ring loses its oldest key.
LEMMA RingAppend ==
  ASSUME NEW M \in Nat \ {0}, NEW T, NEW ring \in [0..(M - 1) -> T],
         NEW n \in 0..M, NEW cursor \in 0..(M - 1), n < M => cursor = n,
         NEW k \in T
  PROVE  Appended(M, n, RingOrder(M, ring, cursor, n), k,
           RingOrder(M, [ring EXCEPT ![cursor] = k], (cursor + 1) % M,
                     IF n < M THEN n + 1 ELSE M))
<1> DEFINE old == RingOrder(M, ring, cursor, n)
           ring2 == [ring EXCEPT ![cursor] = k]
           cursor2 == (cursor + 1) % M
           n2 == IF n < M THEN n + 1 ELSE M
           new == RingOrder(M, ring2, cursor2, n2)
           kept == IF n = M THEN Tail(old) ELSE old
<1>1. /\ ring2 \in [0..(M - 1) -> T] /\ n2 \in 0..M
      /\ cursor2 = IF cursor + 1 < M THEN cursor + 1 ELSE 0
      /\ \A j \in 0..(M - 1) : ring2[j] = IF j = cursor THEN k ELSE ring[j]
  <2>1. cursor + 1 \in Nat /\ cursor + 1 < M + M
    OBVIOUS
  <2>2. cursor2 = Around(M, cursor + 1)
    BY <2>1, AroundOnce
  <2>3. QED BY <2>2 DEF Around
<1>2. cursor2 \in 0..(M - 1)
  BY <1>1
<1>0. OrderOf(M, T, ring, cursor, n, old)
  BY RingOrderIsSeq
<1> HIDE DEF old
<1>3. /\ old \in Seq(T) /\ Len(old) = n
      /\ n < M => \A i \in 1..n : old[i] = ring[i - 1]
      /\ n = M => \A i \in 1..M : old[i] = ring[Around(M, cursor + i - 1)]
  BY <1>0 DEF OrderOf
<1> HIDE DEF ring2, cursor2
<1>4. /\ new \in Seq(T) /\ Len(new) = n2
      /\ n2 < M => \A i \in 1..n2 : new[i] = ring2[i - 1]
      /\ n2 = M => \A i \in 1..M : new[i] = ring2[Around(M, cursor2 + i - 1)]
  <2> HIDE DEF n2
  <2>1. OrderOf(M, T, ring2, cursor2, n2, new)
    BY <1>1, <1>2, RingOrderIsSeq
  <2> HIDE DEF new
  <2>2. QED BY <2>1 DEF OrderOf
<1> HIDE DEF old, new
<1>5. CASE n < M
  <2>1. /\ Append(old, k) \in Seq(T) /\ Len(Append(old, k)) = n + 1
        /\ Append(old, k)[n + 1] = k
        /\ \A i \in 1..n : Append(old, k)[i] = old[i]
    BY <1>3, AppendProperties
  <2>2. \A i \in 1..(n + 1) : new[i] = ring2[i - 1]
    <3>1. CASE n + 1 < M
      BY <1>4, <1>5, <3>1
    <3>2. CASE n + 1 = M
      <4>1. cursor2 = 0 /\ n2 = M
        BY <1>1, <1>5, <3>2
      <4>2. \A i \in 1..M : Around(M, cursor2 + i - 1) = i - 1
        BY <4>1 DEF Around
      <4>3. QED BY <1>4, <3>2, <4>1, <4>2
    <3>3. QED BY <1>5, <3>1, <3>2
  <2>3. \A i \in 1..n : i - 1 \in 0..(M - 1) /\ i - 1 # cursor
    BY <1>5
  <2>4. ASSUME NEW i \in 1..n
        PROVE  new[i] = Append(old, k)[i]
    <3>1. new[i] = ring2[i - 1]
      BY <2>2
    <3>2. ring2[i - 1] = ring[i - 1]
      BY <1>1, <2>3
    <3>3. old[i] = ring[i - 1]
      BY <1>3, <1>5
    <3>4. QED BY <2>1, <3>1, <3>2, <3>3
  <2>5. new[n + 1] = k
    BY <1>1, <1>5, <2>2
  <2>6. \A i \in 1..(n + 1) : i \in 1..n \/ i = n + 1
    BY <1>5
  <2>7. \A i \in 1..(n + 1) : new[i] = Append(old, k)[i]
    BY <2>1, <2>4, <2>5, <2>6, Zenon
  <2>8. Len(new) = n + 1 /\ kept = old
    BY <1>4, <1>5
  <2>9. new = Append(old, k)
    BY <1>4, <2>1, <2>7, <2>8, SeqEqual
  <2>10. Appended(M, n, old, k, new)
    BY <2>8, <2>9 DEF Appended
  <2>11. QED BY <2>10 DEF old, new, ring2, cursor2
<1>6. CASE n = M
  <2>0. n2 = M
    BY <1>6
  <2>1. /\ Tail(old) \in Seq(T) /\ Len(Tail(old)) = M - 1
        /\ \A i \in 1..(M - 1) : Tail(old)[i] = old[i + 1]
    BY <1>3, <1>6, HeadTailProperties, EmptySeq
  <2> DEFINE rest == Tail(old)
  <2> HIDE DEF rest
  <2>2. /\ Append(rest, k) \in Seq(T) /\ Len(Append(rest, k)) = M
        /\ Append(rest, k)[M] = k
        /\ \A i \in 1..(M - 1) : Append(rest, k)[i] = old[i + 1]
    <3>1. rest \in Seq(T) /\ Len(rest) = M - 1
      BY <2>1 DEF rest
    <3>2. /\ Append(rest, k) \in Seq(T) /\ Len(Append(rest, k)) = Len(rest) + 1
          /\ Append(rest, k)[Len(rest) + 1] = k
          /\ \A i \in 1..Len(rest) : Append(rest, k)[i] = rest[i]
      BY <3>1, AppendProperties
    <3>3. QED BY <2>1, <3>1, <3>2 DEF rest
  <2>3. ASSUME NEW i \in 1..(M - 1)
        PROVE  new[i] = Append(rest, k)[i]
    <3> DEFINE at == Around(M, cursor + i)
    <3>1. at \in 0..(M - 1) /\ at # cursor
      BY DEF Around
    <3>2. at = Around(M, cursor2 + i - 1)
      BY <1>1 DEF Around
    <3>3. at = Around(M, cursor + (i + 1) - 1)
      BY DEF Around
    <3>4. i \in 1..M /\ i + 1 \in 1..M
      OBVIOUS
    <3>5. new[i] = ring2[at]
      BY <1>4, <2>0, <3>2, <3>4
    <3>6. old[i + 1] = ring[at]
      BY <1>3, <1>6, <3>3, <3>4
    <3> HIDE DEF at
    <3>7. QED BY <1>1, <2>2, <3>1, <3>5, <3>6
  <2>4. new[M] = k
    <3>1. cursor = Around(M, cursor2 + M - 1)
      BY <1>1 DEF Around
    <3>2. M \in 1..M
      OBVIOUS
    <3>3. QED BY <1>1, <1>4, <2>0, <3>1, <3>2
  <2>5. \A i \in 1..M : i \in 1..(M - 1) \/ i = M
    OBVIOUS
  <2>6. \A i \in 1..M : new[i] = Append(rest, k)[i]
    BY <2>2, <2>3, <2>4, <2>5, Zenon
  <2>7. Len(new) = M /\ kept = rest
    BY <1>4, <1>6, <2>0 DEF rest
  <2>8. new = Append(rest, k)
    BY <1>4, <2>2, <2>6, <2>7, SeqEqual
  <2>9. Appended(M, n, old, k, new)
    BY <2>7, <2>8 DEF Appended
  <2>10. QED BY <2>9 DEF old, new, ring2, cursor2
<1>7. n < M \/ n = M
  OBVIOUS
<1>8. QED BY <1>5, <1>6, <1>7, Zenon

\* What committing a key to a window of M keys is.
RingCommits(M, old, k, new) ==
  /\ k \notin {old[i] : i \in DOMAIN old}
  /\ k \in {new[i] : i \in DOMAIN new}
  /\ new = Append(IF Len(old) = M THEN Tail(old) ELSE old, k)

\* The order of a ring has no keys but those of the ring.
LEMMA OrderWithin ==
  ASSUME NEW M \in Nat \ {0}, NEW T, NEW ring \in [0..(M - 1) -> T],
         NEW n \in 0..M, NEW cursor \in 0..(M - 1),
         NEW k \in T, \A j \in 0..(M - 1) : ring[j] # k,
         NEW old, OrderOf(M, T, ring, cursor, n, old)
  PROVE  k \notin {old[i] : i \in DOMAIN old}
<1>1. old \in Seq(T) /\ Len(old) = n /\ DOMAIN old = 1..n
  BY LenProperties DEF OrderOf
<1>2. CASE n < M
  <2>1. \A i \in 1..n : i - 1 \in 0..(M - 1) /\ old[i] = ring[i - 1]
    BY <1>2 DEF OrderOf
  <2>2. QED BY <1>1, <2>1
<1>3. CASE n = M
  <2>1. \A i \in 1..M : Around(M, cursor + i - 1) \in 0..(M - 1)
    BY DEF Around
  <2>2. \A i \in 1..M : old[i] = ring[Around(M, cursor + i - 1)]
    BY <1>3 DEF OrderOf
  <2>3. QED BY <1>1, <1>3, <2>1, <2>2
<1>4. QED BY <1>2, <1>3

\* The key appended last is in the sequence.
LEMMA AppendRemembers ==
  ASSUME NEW T, NEW s \in Seq(T), NEW k \in T
  PROVE  k \in {Append(s, k)[i] : i \in DOMAIN Append(s, k)}
<1>1. /\ Append(s, k) \in Seq(T) /\ Len(Append(s, k)) = Len(s) + 1
      /\ Append(s, k)[Len(s) + 1] = k /\ Len(s) \in Nat
  BY AppendProperties, LenProperties
<1>2. DOMAIN Append(s, k) = 1..(Len(s) + 1)
  BY <1>1, LenProperties
<1>3. QED BY <1>1, <1>2

\* Writing a key that the ring does not hold commits it.
LEMMA RingStep ==
  ASSUME NEW M \in Nat \ {0}, NEW T, NEW ring \in [0..(M - 1) -> T],
         NEW n \in 0..M, NEW cursor \in 0..(M - 1), n < M => cursor = n,
         NEW k \in T, \A j \in 0..(M - 1) : ring[j] # k
  PROVE  RingCommits(M, RingOrder(M, ring, cursor, n), k,
           RingOrder(M, [ring EXCEPT ![cursor] = k], (cursor + 1) % M,
                     IF n < M THEN n + 1 ELSE M))
<1> DEFINE old == RingOrder(M, ring, cursor, n)
           kept == IF n = M THEN Tail(old) ELSE old
           new == RingOrder(M, [ring EXCEPT ![cursor] = k], (cursor + 1) % M,
                            IF n < M THEN n + 1 ELSE M)
<1>1. OrderOf(M, T, ring, cursor, n, old)
  BY RingOrderIsSeq
<1>2. Appended(M, n, old, k, new)
  BY RingAppend
<1> HIDE DEF old, new
<1>3. new = Append(kept, k)
  BY <1>2 DEF Appended
<1>4. old \in Seq(T) /\ Len(old) = n
  BY <1>1 DEF OrderOf
<1>5. kept \in Seq(T)
  <2>1. CASE n = M
    <3>1. old # << >>
      BY <1>4, <2>1
    <3>2. QED BY <1>4, <2>1, <3>1, HeadTailProperties
  <2>2. QED BY <1>4, <2>1
<1>6. kept = IF Len(old) = M THEN Tail(old) ELSE old
  BY <1>4
<1>7. k \notin {old[i] : i \in DOMAIN old}
  BY <1>1, OrderWithin
<1> HIDE DEF kept
<1>8. k \in {new[i] : i \in DOMAIN new}
  BY <1>3, <1>5, AppendRemembers
<1>9. RingCommits(M, old, k, new)
  BY <1>6, <1>7, <1>8, <1>3 DEF RingCommits
<1>10. QED BY <1>9 DEF old, new
\* A ring whose first n slots hold different keys, and a window of M keys.
NoRepeats(M, ring, n) ==
  \A i, j \in 0..(M - 1) : i < n /\ j < n /\ ring[i] = ring[j] => i = j
KeyWindow(M, T, w) ==
  /\ w \in Seq(T) /\ Len(w) <= M
  /\ \A i, j \in 1..Len(w) : w[i] = w[j] => i = j

\* The order of a ring without repetitions is a window.
LEMMA OrderDistinct ==
  ASSUME NEW M \in Nat \ {0}, NEW T, NEW ring \in [0..(M - 1) -> T],
         NEW n \in 0..M, NEW cursor \in 0..(M - 1),
         NoRepeats(M, ring, n), NEW order, OrderOf(M, T, ring, cursor, n, order)
  PROVE  KeyWindow(M, T, order)
<1>0. order \in Seq(T) /\ Len(order) = n /\ n <= M
  BY DEF OrderOf
<1> SUFFICES ASSUME NEW i \in 1..n, NEW j \in 1..n, order[i] = order[j]
             PROVE  i = j
  BY <1>0 DEF KeyWindow
<1>1. CASE n < M
  <2>1. i - 1 \in 0..(M - 1) /\ j - 1 \in 0..(M - 1) /\ i - 1 < n /\ j - 1 < n
    BY <1>1
  <2>2. order[i] = ring[i - 1] /\ order[j] = ring[j - 1]
    BY <1>1 DEF OrderOf
  <2>3. i - 1 = j - 1
    BY <2>1, <2>2 DEF NoRepeats
  <2>4. QED BY <2>3
<1>2. CASE n = M
  <2> DEFINE at(x) == Around(M, cursor + x - 1)
  <2>1. \A x \in 1..M : at(x) \in 0..(M - 1) /\ at(x) < n
    BY <1>2 DEF Around
  <2>2. order[i] = ring[at(i)] /\ order[j] = ring[at(j)]
    BY <1>2 DEF OrderOf
  <2>3. at(i) = at(j)
    <3> HIDE DEF at
    <3>1. QED BY <1>2, <2>1, <2>2 DEF NoRepeats
  <2>4. QED BY <1>2, <2>3 DEF Around
<1>3. QED BY <1>1, <1>2

-----------------------------------------------------------------------------
(* What happened since a key was committed.  As long as it is in the       *)
(* window, the keys behind it were committed after it; once it is not, at  *)
(* least M keys were.                                                      *)

Covers(M, w, k, later) ==
  /\ IsFiniteSet(later)
  /\ \A i \in 1..Len(w) : w[i] = k => \A j \in (i + 1)..Len(w) : w[j] \in later
  /\ (\A i \in 1..Len(w) : w[i] # k) => Cardinality(later) >= M

\* A window in which a key is committed is a window again.
LEMMA CommitKeepsWindow ==
  ASSUME NEW M \in Nat \ {0}, NEW T, NEW old, NEW new, NEW k \in T,
         KeyWindow(M, T, old), RingCommits(M, old, k, new)
  PROVE  KeyWindow(M, T, new)
<1> DEFINE kept == IF Len(old) = M THEN Tail(old) ELSE old
           shift == IF Len(old) = M THEN 1 ELSE 0
           L == Len(kept)
<1>1. /\ old \in Seq(T) /\ Len(old) \in Nat /\ Len(old) <= M /\ DOMAIN old = 1..Len(old)
      /\ \A i, j \in 1..Len(old) : old[i] = old[j] => i = j
      /\ \A i \in 1..Len(old) : old[i] # k
  BY LenProperties DEF KeyWindow, RingCommits
<1>2. /\ kept \in Seq(T) /\ L \in Nat /\ L + 1 <= M /\ shift \in {0, 1}
      /\ \A i \in 1..L : i + shift \in 1..Len(old) /\ kept[i] = old[i + shift]
  <2>1. CASE Len(old) = M
    <3>1. old # << >>
      BY <1>1, <2>1
    <3>2. /\ Tail(old) \in Seq(T) /\ Len(Tail(old)) = Len(old) - 1
          /\ \A i \in 1..Len(Tail(old)) : Tail(old)[i] = old[i + 1]
      BY <1>1, <3>1, HeadTailProperties
    <3>3. QED BY <1>1, <2>1, <3>2
  <2>2. CASE Len(old) # M
    <3>1. kept = old /\ L = Len(old) /\ shift = 0
      BY <2>2
    <3> HIDE DEF kept, L, shift
    <3>2. L + 1 <= M /\ L \in Nat
      <4> DEFINE n == Len(old)
      <4>1. n \in Nat /\ n <= M /\ n # M /\ L = n
        BY <1>1, <2>2, <3>1
      <4> HIDE DEF n
      <4>2. QED BY <4>1
    <3>3. \A i \in 1..L : i + 0 = i /\ i \in 1..Len(old)
      BY <3>1, <3>2
    <3>4. QED BY <1>1, <3>1, <3>2, <3>3
  <2>3. QED BY <2>1, <2>2
<1>3. new = Append(kept, k)
  BY DEF RingCommits
<1> HIDE DEF kept, L, shift
<1>4. /\ new \in Seq(T) /\ Len(new) = L + 1 /\ new[L + 1] = k
      /\ \A i \in 1..L : new[i] = kept[i]
  BY <1>2, <1>3, AppendProperties DEF L
<1>5. \A i \in 1..L : new[i] = old[i + shift] /\ i + shift \in 1..Len(old)
  BY <1>2, <1>4
<1>6. ASSUME NEW i \in 1..(L + 1), NEW j \in 1..(L + 1), new[i] = new[j]
      PROVE  i = j
  <2>1. CASE i \in 1..L /\ j \in 1..L
    <3>1. i + shift = j + shift
      BY <1>1, <1>5, <1>6, <2>1
    <3>2. QED BY <1>2, <3>1
  <2>2. CASE i = L + 1 /\ j \in 1..L
    BY <1>1, <1>4, <1>5, <1>6, <2>2
  <2>3. CASE j = L + 1 /\ i \in 1..L
    BY <1>1, <1>4, <1>5, <1>6, <2>3
  <2>4. QED BY <1>2, <2>1, <2>2, <2>3
<1>7. QED BY <1>2, <1>4, <1>6 DEF KeyWindow

\* A key pushed out of the window has M later ones.
LEMMA CoversStep ==
  ASSUME NEW M \in Nat \ {0}, NEW T, NEW old, NEW new, NEW m \in T,
         KeyWindow(M, T, old), KeyWindow(M, T, new), RingCommits(M, old, m, new),
         NEW k, k # m, NEW later, Covers(M, old, k, later)
  PROVE  Covers(M, new, k, later \cup {m})
<1> DEFINE kept == IF Len(old) = M THEN Tail(old) ELSE old
           L == Len(kept)
           all == later \cup {m}
           shift == IF Len(old) = M THEN 1 ELSE 0
<1>1. /\ old \in Seq(T) /\ Len(old) \in Nat /\ Len(old) <= M
      /\ \A i, j \in 1..Len(old) : old[i] = old[j] => i = j
  BY LenProperties DEF KeyWindow
<1>2. /\ kept \in Seq(T) /\ L \in Nat /\ L = Len(old) - shift /\ shift \in {0, 1}
      /\ \A i \in 1..L : i + shift \in 1..Len(old) /\ kept[i] = old[i + shift]
  <2>1. CASE Len(old) = M
    <3>1. old # << >>
      BY <1>1, <2>1
    <3>2. /\ Tail(old) \in Seq(T) /\ Len(Tail(old)) = Len(old) - 1
          /\ \A i \in 1..Len(Tail(old)) : Tail(old)[i] = old[i + 1]
      BY <1>1, <3>1, HeadTailProperties
    <3>3. QED BY <1>1, <2>1, <3>2
  <2>2. CASE Len(old) # M
    BY <1>1, <2>2
  <2>3. QED BY <2>1, <2>2
<1>3. L = M - 1 \/ (shift = 0 /\ L = Len(old))
  BY <1>1, <1>2
<1>4. new = Append(kept, m)
  BY DEF RingCommits
<1> HIDE DEF kept, L, shift
<1>5. /\ Len(new) = L + 1 /\ new[L + 1] = m
      /\ \A i \in 1..L : new[i] = kept[i]
  BY <1>2, <1>4, AppendProperties DEF L
<1>6. \A i \in 1..L : new[i] = old[i + shift] /\ i + shift \in 1..Len(old)
  BY <1>2, <1>5
<1>7. IsFiniteSet(all)
  BY FS_AddElement DEF Covers
<1>8. ASSUME NEW i \in 1..Len(new), new[i] = k, NEW j \in (i + 1)..Len(new)
      PROVE  new[j] \in all
  <2>1. i \in 1..L
    BY <1>2, <1>5, <1>8
  <2>2. CASE j = L + 1
    BY <1>5, <2>2
  <2>3. CASE j \in 1..L
    <3>1. /\ i + shift \in 1..Len(old) /\ old[i + shift] = k
          /\ j + shift \in (i + shift + 1)..Len(old) /\ new[j] = old[j + shift]
      BY <1>1, <1>2, <1>6, <1>8, <2>1, <2>3
    <3>2. QED BY <3>1 DEF Covers
  <2>4. QED BY <1>2, <1>5, <2>1, <2>2, <2>3
<1>9. ASSUME \A i \in 1..Len(new) : new[i] # k
      PROVE  Cardinality(all) >= M
  <2>1. CASE \A i \in 1..Len(old) : old[i] # k
    <3>1. Cardinality(later) >= M /\ IsFiniteSet(later)
      BY <2>1 DEF Covers
    <3>2. /\ Cardinality(later) \in Nat /\ Cardinality(all) \in Nat
          /\ Cardinality(later) <= Cardinality(all)
      BY <1>7, <3>1, FS_CardinalityType, FS_Subset
    <3>3. QED BY <3>1, <3>2
  <2>2. CASE \E i \in 1..Len(old) : old[i] = k
    <3>1. PICK p \in 1..Len(old) : old[p] = k
      BY <2>2
    <3>2. shift = 1 /\ p = 1 /\ L = M - 1
      <4>1. CASE shift = 0
        <5>1. p \in 1..L /\ p + shift = p
          BY <1>1, <1>2, <4>1
        <5>2. p \in 1..Len(new) /\ new[p] = k
          BY <1>2, <1>5, <1>6, <3>1, <5>1
        <5>3. QED BY <1>9, <5>2
      <4>2. CASE shift = 1 /\ p # 1
        <5>1. p - 1 \in 1..L /\ (p - 1) + shift = p
          BY <1>1, <1>2, <4>2
        <5>2. p - 1 \in 1..Len(new) /\ new[p - 1] = k
          BY <1>2, <1>5, <1>6, <3>1, <5>1
        <5>3. QED BY <1>9, <5>2
      <4>3. QED BY <1>2, <1>3, <4>1, <4>2
    <3>3. ASSUME NEW i \in 1..M PROVE new[i] \in all
      <4>1. CASE i = M
        BY <1>5, <3>2, <4>1
      <4>2. CASE i # M
        <5>1. i \in 1..L /\ i + 1 \in (p + 1)..Len(old) /\ new[i] = old[i + 1]
          BY <1>2, <1>6, <3>2, <4>2
        <5>2. QED BY <3>1, <5>1 DEF Covers
      <4>3. QED BY <4>1, <4>2
    <3> DEFINE f == [i \in 1..M |-> new[i]]
    <3>4. f \in [1..M -> all]
      BY <3>3
    <3>5. \A i, j \in 1..M : f[i] = f[j] => i = j
      <4>1. Len(new) = M
        BY <1>5, <3>2
      <4>2. QED BY <4>1 DEF KeyWindow
    <3> HIDE DEF f
    <3>6. f \in Injection(1..M, all)
      BY <3>4, <3>5 DEF Injection, IsInjective
    <3>7. Cardinality(1..M) <= Cardinality(all)
      BY <1>7, <3>6, FS_Injection
    <3>8. Cardinality(1..M) = M
      BY FS_Interval
    <3>9. Cardinality(all) \in Nat
      BY <1>7, FS_CardinalityType
    <3>10. QED BY <3>7, <3>8, <3>9
  <2>3. QED BY <2>1, <2>2
<1>10. QED BY <1>7, <1>8, <1>9 DEF Covers

\* Nothing is behind the key committed last.
LEMMA CoversFresh ==
  ASSUME NEW M \in Nat \ {0}, NEW T, NEW old, NEW new, NEW m \in T,
         KeyWindow(M, T, old), KeyWindow(M, T, new), RingCommits(M, old, m, new),
         NEW later, IsFiniteSet(later)
  PROVE  Covers(M, new, m, later)
<1> DEFINE kept == IF Len(old) = M THEN Tail(old) ELSE old
<1>1. old \in Seq(T) /\ Len(old) \in Nat
  BY LenProperties DEF KeyWindow
<1>2. kept \in Seq(T) /\ Len(kept) \in Nat
  <2>1. CASE Len(old) = M
    <3>1. old # << >>
      BY <1>1, <2>1
    <3>2. Tail(old) \in Seq(T)
      BY <1>1, <3>1, HeadTailProperties
    <3>3. QED BY <2>1, <3>2, LenProperties
  <2>2. QED BY <1>1, <2>1
<1>3. new = Append(kept, m)
  BY DEF RingCommits
<1> HIDE DEF kept
<1>4. Len(new) = Len(kept) + 1 /\ new[Len(kept) + 1] = m
  BY <1>2, <1>3, AppendProperties
<1>5. Len(new) \in 1..Len(new) /\ new[Len(new)] = m
  BY <1>2, <1>4
<1>6. \A i \in 1..Len(new) : new[i] = m => i = Len(new)
  BY <1>5 DEF KeyWindow
<1>7. \A i \in 1..Len(new) : new[i] = m => \A j \in (i + 1)..Len(new) : new[j] \in later
  BY <1>2, <1>4, <1>6
<1>8. QED BY <1>5, <1>7 DEF Covers
=============================================================================
