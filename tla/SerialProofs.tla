---------------------------- MODULE SerialProofs ----------------------------
(***************************************************************************)
(* What RNodeSerial does on a line of any length, with frames and damage   *)
(* of any size: the KISS decoder finds every frame that the line left      *)
(* whole, and READY admits one frame each.                                 *)
(***************************************************************************)
EXTENDS RNodeSerial, LibraryProofs

-----------------------------------------------------------------------------
(* One byte.                                                               *)

\* Outside a frame the decoder holds nothing (reset, push_byte).
Sane == {d \in Decoder : ~d.in_frame => d.buffer = << >>}
Begun == [buffer |-> << >>, in_frame |-> TRUE, escape_pending |-> FALSE]
Found == {<<frame>> : frame \in KissFrame} \cup {<< >>}
Pushes == [decoder : Sane, frames : Found, error : BOOLEAN]

\* A decoder is its three fields.
LEMMA DecoderFields ==
  ASSUME NEW d \in Sane
  PROVE  /\ d.buffer \in Seq(Bytes) /\ d.in_frame \in BOOLEAN /\ d.escape_pending \in BOOLEAN
         /\ ~d.in_frame => d.buffer = << >>
BY DEF Sane, Decoder

\* The decoder at the start, after an error, and after a frame end.
LEMMA FreshIsSane == Fresh \in Sane /\ Begun \in Sane /\ [Fresh EXCEPT !.in_frame = TRUE] = Begun
<1>0. << >> \in Seq(Bytes) /\ TRUE \in BOOLEAN /\ FALSE \in BOOLEAN
  OBVIOUS
<1>1. Fresh \in Decoder /\ Begun \in Decoder
  BY <1>0 DEF Fresh, Begun, Decoder
<1>2. Fresh.buffer = << >> /\ Begun.buffer = << >>
  BY DEF Fresh, Begun
<1>3. [Fresh EXCEPT !.in_frame = TRUE] = Begun
  <2> DEFINE e == [Fresh EXCEPT !.in_frame = TRUE]
  <2>1. e.buffer = Fresh.buffer /\ e.in_frame = TRUE /\ e.escape_pending = Fresh.escape_pending
    BY <1>1 DEF Decoder
  <2>2. e \in Decoder
    BY <1>1 DEF Decoder
  <2> HIDE DEF e
  <2>3. /\ e = [buffer |-> e.buffer, in_frame |-> e.in_frame,
               escape_pending |-> e.escape_pending]
        /\ Fresh.buffer = << >> /\ Fresh.escape_pending = FALSE
    BY <2>2 DEF Decoder, Fresh
  <2>4. e = Begun
    BY <2>1, <2>3 DEF Begun
  <2> QED
    BY <2>4 DEF e
<1> QED
  BY <1>1, <1>2, <1>3 DEF Sane

\* A decoder with one field changed.
LEMMA FieldUpdates ==
  ASSUME NEW d \in Decoder
  PROVE  /\ \A b \in Seq(Bytes) :
              [d EXCEPT !.buffer = b] = [buffer |-> b, in_frame |-> d.in_frame,
                                         escape_pending |-> d.escape_pending]
         /\ \A x \in BOOLEAN :
              [d EXCEPT !.escape_pending = x] = [buffer |-> d.buffer, in_frame |-> d.in_frame,
                                                 escape_pending |-> x]
<1>1. ASSUME NEW b \in Seq(Bytes)
      PROVE  [d EXCEPT !.buffer = b] = [buffer |-> b, in_frame |-> d.in_frame,
                                        escape_pending |-> d.escape_pending]
  <2> DEFINE e == [d EXCEPT !.buffer = b]
  <2>1. /\ e.buffer = b /\ e.in_frame = d.in_frame /\ e.escape_pending = d.escape_pending
        /\ e \in Decoder
    BY DEF Decoder
  <2> HIDE DEF e
  <2>2. e = [buffer |-> e.buffer, in_frame |-> e.in_frame, escape_pending |-> e.escape_pending]
    BY <2>1 DEF Decoder
  <2> QED
    BY <2>1, <2>2 DEF e
<1>2. ASSUME NEW x \in BOOLEAN
      PROVE  [d EXCEPT !.escape_pending = x] = [buffer |-> d.buffer, in_frame |-> d.in_frame,
                                                escape_pending |-> x]
  <2> DEFINE e == [d EXCEPT !.escape_pending = x]
  <2>1. /\ e.buffer = d.buffer /\ e.in_frame = d.in_frame /\ e.escape_pending = x
        /\ e \in Decoder
    BY DEF Decoder
  <2> HIDE DEF e
  <2>2. e = [buffer |-> e.buffer, in_frame |-> e.in_frame, escape_pending |-> e.escape_pending]
    BY <2>1 DEF Decoder
  <2> QED
    BY <2>1, <2>2 DEF e
<1> QED
  BY <1>1, <1>2

\* A byte that goes into the frame (push_decoded_byte).
LEMMA DecodedByteTypes ==
  ASSUME NEW d \in Sane, d.in_frame, NEW byte \in Bytes
  PROVE  PushDecodedByte(d, byte) \in Pushes
<1>1. CASE Len(d.buffer) = FrameMax
  BY <1>1, FreshIsSane DEF PushDecodedByte, Pushed, Pushes, Found
<1>2. CASE Len(d.buffer) # FrameMax
  <2> DEFINE e == [d EXCEPT !.buffer = Append(@, byte)]
  <2>1. e \in Sane
    BY DEF Sane, Decoder
  <2> HIDE DEF e
  <2>2. PushDecodedByte(d, byte) = Pushed(e, << >>, FALSE)
    BY <1>2 DEF PushDecodedByte, e
  <2> QED
    BY <2>1, <2>2 DEF Pushed, Pushes, Found
<1> QED
  BY <1>1, <1>2

\* What a full buffer holds is a frame (finish_frame).
LEMMA BufferedTypes ==
  ASSUME NEW d \in Sane
  PROVE  Buffered(d) \in Found
<1>1. d.buffer \in Seq(Bytes)
  BY DecoderFields
<1>2. CASE d.buffer = << >>
  BY <1>2 DEF Buffered, Found
<1>3. CASE d.buffer # << >>
  <2>1. Head(d.buffer) \in Bytes /\ Tail(d.buffer) \in Seq(Bytes)
    BY <1>1, <1>3
  <2>2. [command |-> Head(d.buffer), payload |-> Tail(d.buffer)] \in KissFrame
    BY <2>1 DEF KissFrame
  <2> QED
    BY <1>3, <2>2 DEF Buffered, Found
<1> QED
  BY <1>2, <1>3

\* A frame end finishes what is buffered, whatever went before.
LEMMA FendFinishes ==
  ASSUME NEW d \in Sane
  PROVE  PushByte(d, "FEND") = Pushed(Begun, Buffered(d), FALSE)
<1>1. PushByte(d, "FEND") = PushFend(d)
  BY DEF PushByte
<1>2. (IF d.in_frame THEN Buffered(d) ELSE << >>) = Buffered(d)
  BY DecoderFields DEF Buffered
<1> QED
  BY <1>1, <1>2, FreshIsSane DEF PushFend

\* push_byte
LEMMA PushTypes ==
  ASSUME NEW d \in Sane, NEW byte \in Bytes
  PROVE  PushByte(d, byte) \in Pushes
<1>0. {"FEND", "FESC", "TFEND", "TFESC"} \subseteq Bytes
  BY DEF Bytes
<1>1. CASE byte = "FEND"
  <2>1. PushByte(d, byte) = Pushed(Begun, Buffered(d), FALSE)
    BY <1>1, FendFinishes
  <2> QED
    BY <2>1, FreshIsSane, BufferedTypes DEF Pushed, Pushes
<1>2. CASE byte # "FEND" /\ ~d.in_frame
  <2>1. PushByte(d, byte) = Pushed(d, << >>, FALSE)
    BY <1>2 DEF PushByte
  <2> QED
    BY <2>1 DEF Pushed, Pushes, Found
<1>3. CASE byte # "FEND" /\ d.in_frame /\ d.escape_pending
  <2> DEFINE e == [d EXCEPT !.escape_pending = FALSE]
  <2>1. PushByte(d, byte) = PushEscape(d, byte)
    BY <1>3 DEF PushByte
  <2>2. e \in Sane /\ e.in_frame
    BY <1>3 DEF Sane, Decoder
  <2>3. PushDecodedByte(e, "FEND") \in Pushes /\ PushDecodedByte(e, "FESC") \in Pushes
    BY <1>0, <2>2, DecodedByteTypes
  <2>4. Pushed(Fresh, << >>, TRUE) \in Pushes
    BY FreshIsSane DEF Pushed, Pushes, Found
  <2> QED
    BY <2>1, <2>3, <2>4 DEF PushEscape
<1>4. CASE byte = "FESC" /\ d.in_frame /\ ~d.escape_pending
  <2> DEFINE e == [d EXCEPT !.escape_pending = TRUE]
  <2>1. PushByte(d, byte) = Pushed(e, << >>, FALSE)
    BY <1>4 DEF PushByte
  <2>2. e \in Sane
    BY <1>4 DEF Sane, Decoder
  <2> QED
    BY <2>1, <2>2 DEF Pushed, Pushes, Found
<1>5. CASE byte \notin {"FEND", "FESC"} /\ d.in_frame /\ ~d.escape_pending
  <2>1. PushByte(d, byte) = PushDecodedByte(d, byte)
    BY <1>5 DEF PushByte
  <2> QED
    BY <1>5, <2>1, DecodedByteTypes
<1> QED
  BY <1>1, <1>2, <1>3, <1>4, <1>5, DecoderFields

-----------------------------------------------------------------------------
(* A run: the states of the decoder, one after each byte.                  *)

Run(d, bytes, st) ==
  /\ st \in [0..Len(bytes) -> Sane]
  /\ st[0] = d
  /\ \A i \in 1..Len(bytes) : st[i] = PushByte(st[i - 1], bytes[i]).decoder
FoundAt(bytes, st, i) == PushByte(st[i - 1], bytes[i]).frames
FailsAt(bytes, st, i) == PushByte(st[i - 1], bytes[i]).error

\* Every line can be read.
LEMMA RunExists ==
  ASSUME NEW d \in Sane, NEW bytes \in Seq(Bytes)
  PROVE  \E st : Run(d, bytes, st)
<1> DEFINE K == Len(bytes)
           step == [i \in 1..K |-> [v \in Sane |-> PushByte(v, bytes[i]).decoder]]
<1>1. K \in Nat /\ \A i \in 1..K : bytes[i] \in Bytes
  BY ElementOfSeq, LenProperties
<1>2. IsStep(step, K, Sane)
  <2>1. \A i \in 1..K : \A v \in Sane : PushByte(v, bytes[i]).decoder \in Sane
    BY <1>1, PushTypes DEF Pushes
  <2> QED
    BY <2>1 DEF IsStep
<1>3. PICK st : FollowsStep(st, K, Sane, d, step)
  <2> HIDE DEF step, K
  <2> QED
    BY <1>1, <1>2, RecursionUpTo
<1>4. /\ st \in [0..K -> Sane] /\ st[0] = d
      /\ \A i \in 1..K : st[i] = step[i][st[i - 1]]
  BY <1>3 DEF FollowsStep
<1>5. ASSUME NEW i \in 1..K PROVE st[i] = PushByte(st[i - 1], bytes[i]).decoder
  <2>1. i - 1 \in 0..K
    BY <1>1
  <2>2. st[i - 1] \in Sane
    BY <1>4, <2>1
  <2>3. step[i][st[i - 1]] = PushByte(st[i - 1], bytes[i]).decoder
    BY <2>2
  <2> QED
    BY <1>4, <2>3
<1> QED
  BY <1>4, <1>5 DEF Run

\* Two runs, one after the other.
Spliced(n, s, m, t) == [i \in 0..(n + m) |-> IF i <= n THEN s[i] ELSE t[i - n]]
SpliceSound(d, a, s, b, t, st) ==
  /\ Run(d, a \o b, st) /\ Len(a \o b) = Len(a) + Len(b)
  /\ st[Len(a) + Len(b)] = t[Len(b)]
  /\ \A i \in 1..Len(a) : st[i - 1] = s[i - 1] /\ (a \o b)[i] = a[i]
  /\ \A i \in 1..Len(b) : st[Len(a) + i - 1] = t[i - 1] /\ (a \o b)[Len(a) + i] = b[i]
LEMMA RunsCompose ==
  ASSUME NEW d, NEW a \in Seq(Bytes), NEW s, Run(d, a, s),
         NEW b \in Seq(Bytes), NEW t, Run(s[Len(a)], b, t)
  PROVE  SpliceSound(d, a, s, b, t, Spliced(Len(a), s, Len(b), t))
<1> DEFINE n == Len(a)
           m == Len(b)
           ab == a \o b
           st == Spliced(n, s, m, t)
<1>1. /\ n \in Nat /\ m \in Nat /\ Len(ab) = n + m
      /\ \A i \in 1..n : ab[i] = a[i]
      /\ \A i \in 1..m : ab[n + i] = b[i]
  BY ConcatProperties, LenProperties
<1> HIDE DEF ab
<1>2. /\ s \in [0..n -> Sane] /\ s[0] = d /\ t \in [0..m -> Sane] /\ t[0] = s[n]
      /\ \A i \in 1..n : s[i] = PushByte(s[i - 1], a[i]).decoder
      /\ \A i \in 1..m : t[i] = PushByte(t[i - 1], b[i]).decoder
  BY DEF Run
<1> HIDE DEF n, m
<1>3. \A i \in 0..n : st[i] = s[i]
  BY <1>1 DEF Spliced
<1>4. \A i \in 0..m : st[n + i] = t[i]
  BY <1>1, <1>2 DEF Spliced
<1>5. st \in [0..(n + m) -> Sane]
  BY <1>1, <1>2 DEF Spliced
<1> HIDE DEF st
<1>6. \A i \in 1..n : st[i - 1] = s[i - 1]
  BY <1>1, <1>3
<1>7. \A i \in 1..m : st[n + i - 1] = t[i - 1]
  <2> TAKE i \in 1..m
  <2>1. i - 1 \in 0..m /\ n + (i - 1) = n + i - 1
    BY <1>1
  <2> QED
    BY <1>4, <2>1
<1>8. ASSUME NEW j \in 1..(n + m) PROVE st[j] = PushByte(st[j - 1], ab[j]).decoder
  <2>1. CASE j <= n
    <3>1. j \in 1..n /\ j \in 0..n
      BY <1>1, <2>1
    <3>2. st[j] = s[j] /\ st[j - 1] = s[j - 1] /\ ab[j] = a[j]
      BY <1>1, <1>3, <1>6, <3>1
    <3> QED
      BY <1>2, <3>1, <3>2
  <2>2. CASE j > n
    <3> DEFINE i == j - n
    <3>1. i \in 1..m /\ i \in 0..m /\ n + i = j /\ n + i - 1 = j - 1
      BY <1>1, <2>2
    <3> HIDE DEF i
    <3>2. st[j] = t[i] /\ st[j - 1] = t[i - 1] /\ ab[j] = b[i]
      <4>1. st[n + i] = t[i] /\ st[n + i - 1] = t[i - 1] /\ ab[n + i] = b[i]
        BY <1>1, <1>4, <1>7, <3>1
      <4> QED
        BY <3>1, <4>1
    <3> QED
      BY <1>2, <3>1, <3>2
  <2> QED
    BY <1>1, <2>1, <2>2
<1>9. st[n + m] = t[m]
  BY <1>1, <1>4
<1>10. st[0] = d
  BY <1>1, <1>2, <1>3
<1>11. Run(d, ab, st)
  BY <1>1, <1>5, <1>8, <1>10 DEF Run
<1>12. SpliceSound(d, a, s, b, t, st)
  BY <1>1, <1>6, <1>7, <1>9, <1>11 DEF SpliceSound, ab, n, m
<1> QED
  BY <1>12 DEF st, n, m

-----------------------------------------------------------------------------
(* Runs that find nothing.                                                 *)

\* From d to e without a frame and, if `fits`, without an error.
QuietRun(d, bytes, e, fits, st) ==
  /\ Run(d, bytes, st) /\ st[Len(bytes)] = e
  /\ \A i \in 1..Len(bytes) : /\ FoundAt(bytes, st, i) = << >>
                              /\ fits => ~FailsAt(bytes, st, i)
Quiet(d, bytes, e, fits) == \E st : QuietRun(d, bytes, e, fits, st)

\* Two stretches without a frame, one after the other, are one.
LEMMA QuietCompose ==
  ASSUME NEW d, NEW a \in Seq(Bytes), NEW e, NEW b \in Seq(Bytes), NEW f, NEW fits,
         Quiet(d, a, e, fits), Quiet(e, b, f, fits)
  PROVE  Quiet(d, a \o b, f, fits)
<1>1. PICK s : QuietRun(d, a, e, fits, s)
  BY DEF Quiet
<1>2. PICK t : QuietRun(e, b, f, fits, t)
  BY DEF Quiet
<1> DEFINE st == Spliced(Len(a), s, Len(b), t)
           n == Len(a)
           m == Len(b)
           ab == a \o b
<1>3. Run(d, a, s) /\ s[Len(a)] = e /\ Run(s[Len(a)], b, t)
  BY <1>1, <1>2 DEF QuietRun
<1>4. SpliceSound(d, a, s, b, t, st)
  BY <1>3, RunsCompose
<1> HIDE DEF st
<1>5. n \in Nat /\ m \in Nat /\ Len(ab) = n + m /\ Run(d, ab, st) /\ st[n + m] = f
  BY <1>2, <1>4, LenProperties DEF SpliceSound, QuietRun
<1>6. /\ \A i \in 1..n : st[i - 1] = s[i - 1] /\ ab[i] = a[i]
      /\ \A i \in 1..m : st[n + i - 1] = t[i - 1] /\ ab[n + i] = b[i]
  BY <1>4 DEF SpliceSound
<1> HIDE DEF n, m, ab
<1>7. ASSUME NEW j \in 1..(n + m)
      PROVE  FoundAt(ab, st, j) = << >> /\ (fits => ~FailsAt(ab, st, j))
  <2>1. CASE j <= n
    <3>1. j \in 1..n
      BY <1>5, <2>1
    <3>2. FoundAt(a, s, j) = << >> /\ (fits => ~FailsAt(a, s, j))
      BY <1>1, <3>1 DEF QuietRun, n
    <3> QED
      BY <1>6, <3>1, <3>2 DEF FoundAt, FailsAt
  <2>2. CASE j > n
    <3> DEFINE i == j - n
    <3>1. i \in 1..m /\ n + i = j /\ n + i - 1 = j - 1
      BY <1>5, <2>2
    <3> HIDE DEF i
    <3>2. FoundAt(b, t, i) = << >> /\ (fits => ~FailsAt(b, t, i))
      BY <1>2, <3>1 DEF QuietRun, m
    <3>3. st[j - 1] = t[i - 1] /\ ab[j] = b[i]
      <4>1. st[n + i - 1] = t[i - 1] /\ ab[n + i] = b[i]
        BY <1>6, <3>1
      <4> QED
        BY <3>1, <4>1
    <3> QED
      BY <3>2, <3>3 DEF FoundAt, FailsAt
  <2> QED
    BY <1>5, <2>1, <2>2
<1>8. QuietRun(d, ab, f, fits, st)
  BY <1>5, <1>7 DEF QuietRun
<1> QED
  BY <1>8 DEF Quiet, ab

\* No byte, and one byte.
LEMMA QuietNone ==
  ASSUME NEW d \in Sane, NEW fits
  PROVE  Quiet(d, << >>, d, fits)
<1> DEFINE st == [i \in 0..0 |-> d]
<1>1. st \in [0..0 -> Sane] /\ st[0] = d /\ Len(<< >>) = 0
  OBVIOUS
<1> HIDE DEF st
<1>2. QuietRun(d, << >>, d, fits, st)
  BY <1>1 DEF QuietRun, Run
<1> QED
  BY <1>2 DEF Quiet

\* A byte that completes no frame is such a stretch.
LEMMA QuietByte ==
  ASSUME NEW d \in Sane, NEW byte \in Bytes, NEW e, NEW error, NEW fits,
         PushByte(d, byte) = Pushed(e, << >>, error), fits => ~error
  PROVE  Quiet(d, <<byte>>, e, fits)
<1> DEFINE st == [i \in 0..1 |-> IF i = 0 THEN d ELSE e]
           bytes == <<byte>>
<1>0. e \in Sane /\ PushByte(d, byte).decoder = e /\ PushByte(d, byte).frames = << >>
      /\ PushByte(d, byte).error = error
  BY PushTypes DEF Pushed, Pushes
<1>1. st \in [0..1 -> Sane] /\ st[0] = d /\ st[1] = e /\ Len(bytes) = 1 /\ bytes[1] = byte
  BY <1>0
<1> HIDE DEF st, bytes
<1>2. \A i \in 1..1 : i = 1 /\ i - 1 = 0
  OBVIOUS
<1>3. QuietRun(d, bytes, e, fits, st)
  BY <1>0, <1>1, <1>2 DEF QuietRun, Run, FoundAt, FailsAt
<1> QED
  BY <1>3 DEF Quiet, bytes

-----------------------------------------------------------------------------
(* A frame on the line.                                                    *)

\* What the decoder holds after the command and n bytes of the payload, if
\* that fits; it has given the frame up if not.
Prefix(frame, n) == [i \in 1..(n + 1) |-> IF i = 1 THEN frame.command ELSE frame.payload[i - 1]]
Holding(frame, n) ==
  IF n < FrameMax
  THEN [buffer |-> Prefix(frame, n), in_frame |-> TRUE, escape_pending |-> FALSE]
  ELSE Fresh
Framed == {frame \in KissFrame : frame.command \notin {"FEND", "FESC"}}

\* Each byte of the payload lengthens what the buffer holds by itself.
LEMMA PrefixGrows ==
  ASSUME NEW frame \in Framed, NEW n \in 0..Len(frame.payload)
  PROVE  /\ Prefix(frame, n) \in Seq(Bytes) /\ Len(Prefix(frame, n)) = n + 1
         /\ n < Len(frame.payload) =>
              Append(Prefix(frame, n), frame.payload[n + 1]) = Prefix(frame, n + 1)
<1>1. frame.payload \in Seq(Bytes) /\ frame.command \in Bytes /\ Len(frame.payload) \in Nat
  BY DEF Framed, KissFrame
<1>2. \A i \in 1..Len(frame.payload) : frame.payload[i] \in Bytes
  BY <1>1, ElementOfSeq
<1>3. Prefix(frame, n) \in [1..(n + 1) -> Bytes] /\ n + 1 \in Nat
  BY <1>1, <1>2 DEF Prefix
<1>4. Prefix(frame, n) \in Seq(Bytes) /\ Len(Prefix(frame, n)) = n + 1
  BY <1>3
<1>5. ASSUME n < Len(frame.payload)
      PROVE  Append(Prefix(frame, n), frame.payload[n + 1]) = Prefix(frame, n + 1)
  <2> DEFINE old == Prefix(frame, n)
             new == Append(old, frame.payload[n + 1])
             want == Prefix(frame, n + 1)
  <2>1. frame.payload[n + 1] \in Bytes
    BY <1>1, <1>2, <1>5
  <2>2. /\ new \in Seq(Bytes) /\ Len(new) = n + 2 /\ new[n + 2] = frame.payload[n + 1]
        /\ \A i \in 1..(n + 1) : new[i] = old[i]
    BY <1>3, <1>4, <2>1, AppendProperties
  <2>3. want \in [1..(n + 2) -> Bytes]
    BY <1>1, <1>2, <1>5 DEF Prefix
  <2>4. ASSUME NEW i \in 1..(n + 2) PROVE new[i] = want[i]
    <3>1. CASE i = n + 2
      BY <1>1, <2>2, <3>1 DEF Prefix
    <3>2. CASE i # n + 2
      BY <1>1, <2>2, <3>2 DEF Prefix
    <3> QED
      BY <3>1, <3>2
  <2> HIDE DEF new, want
  <2>5. new = [i \in 1..(n + 2) |-> new[i]] /\ want = [i \in 1..(n + 2) |-> want[i]]
    BY <1>3, <2>2, <2>3
  <2>6. new = want
    BY <2>4, <2>5
  <2> QED
    BY <2>6 DEF new, want
<1> QED
  BY <1>4, <1>5

\* A decoder within a frame, or one that gave it up, is in a state that push
\* can leave.
LEMMA HoldingIsSane ==
  ASSUME NEW frame \in Framed, NEW n \in 0..Len(frame.payload)
  PROVE  Holding(frame, n) \in Sane
<1>1. Prefix(frame, n) \in Seq(Bytes)
  BY PrefixGrows
<1> DEFINE d == [buffer |-> Prefix(frame, n), in_frame |-> TRUE, escape_pending |-> FALSE]
<1>2. d \in Decoder /\ d.in_frame
  BY <1>1 DEF Decoder
<1> HIDE DEF d
<1>3. d \in Sane
  BY <1>2 DEF Sane
<1> QED
  BY <1>3, FreshIsSane DEF Holding, d

\* The next byte of the payload, once unescaped (push_decoded_byte).
LEMMA DecodedStep ==
  ASSUME NEW frame \in Framed, NEW n \in 0..(Len(frame.payload) - 1), n < FrameMax
  PROVE  PushDecodedByte(Holding(frame, n), frame.payload[n + 1]) =
           Pushed(Holding(frame, n + 1), << >>, n + 1 = FrameMax)
<1> DEFINE d == Holding(frame, n)
           byte == frame.payload[n + 1]
<1>0. /\ n \in 0..Len(frame.payload) /\ n < Len(frame.payload) /\ FrameMax \in Nat /\ n \in Nat
      /\ n + 1 \in 0..Len(frame.payload)
  BY KissAssumption DEF Framed, KissFrame
<1>1. d = [buffer |-> Prefix(frame, n), in_frame |-> TRUE, escape_pending |-> FALSE]
  BY DEF Holding
<1>2. /\ Len(d.buffer) = n + 1
      /\ Append(d.buffer, byte) = Prefix(frame, n + 1)
  BY <1>0, <1>1, PrefixGrows
<1>3. CASE n + 1 = FrameMax
  <2>1. Holding(frame, n + 1) = Fresh
    BY <1>0, <1>3 DEF Holding
  <2> HIDE DEF d, byte
  <2>2. PushDecodedByte(d, byte) = Pushed(Fresh, << >>, TRUE)
    BY <1>2, <1>3 DEF PushDecodedByte
  <2>3. (n + 1 = FrameMax) = TRUE
    BY <1>3
  <2> QED
    BY <2>1, <2>2, <2>3 DEF d, byte
<1>4. CASE n + 1 # FrameMax
  <2>1. Holding(frame, n + 1) =
          [buffer |-> Prefix(frame, n + 1), in_frame |-> TRUE, escape_pending |-> FALSE]
    BY <1>0, <1>4 DEF Holding
  <2>2. [d EXCEPT !.buffer = Append(@, byte)] = Holding(frame, n + 1)
    <3>1. d \in Decoder /\ d.in_frame = TRUE /\ d.escape_pending = FALSE
      <4>1. d \in Sane
        BY <1>0, HoldingIsSane
      <4>2. d.in_frame = TRUE /\ d.escape_pending = FALSE
        BY <1>1
      <4> QED
        BY <4>1, <4>2 DEF Sane
    <3>2. Prefix(frame, n + 1) \in Seq(Bytes)
      BY <1>0, PrefixGrows
    <3> HIDE DEF d
    <3>3. [d EXCEPT !.buffer = Prefix(frame, n + 1)] =
            [buffer |-> Prefix(frame, n + 1), in_frame |-> d.in_frame,
             escape_pending |-> d.escape_pending]
      BY <3>1, <3>2, FieldUpdates
    <3> QED
      BY <1>2, <2>1, <3>1, <3>3
  <2>3. (n + 1 = FrameMax) = FALSE
    BY <1>4
  <2> HIDE DEF d, byte
  <2>4. PushDecodedByte(d, byte) = Pushed(Holding(frame, n + 1), << >>, FALSE)
    BY <1>2, <1>4, <2>2 DEF PushDecodedByte
  <2> QED
    BY <2>3, <2>4 DEF d, byte
<1> QED
  BY <1>3, <1>4

\* Outside a frame every byte but a frame end is skipped.
LEMMA FreshSkips ==
  ASSUME NEW byte \in Bytes \ {"FEND"}, NEW fits
  PROVE  Quiet(Fresh, <<byte>>, Fresh, fits)
<1>1. PushByte(Fresh, byte) = Pushed(Fresh, << >>, FALSE)
  BY DEF PushByte, Fresh
<1> QED
  BY <1>1, FreshIsSane, QuietByte

\* An escaped byte goes into the frame as the byte it stands for
\* (encode_command_frame against push_byte).
LEMMA HoldingStep ==
  ASSUME NEW frame \in Framed, NEW n \in 0..(Len(frame.payload) - 1)
  PROVE  /\ Escaped(frame.payload[n + 1]) \in Seq(Bytes)
         /\ Quiet(Holding(frame, n), Escaped(frame.payload[n + 1]), Holding(frame, n + 1),
                  Len(frame.payload) < FrameMax)
<1> DEFINE d == Holding(frame, n)
           e == Holding(frame, n + 1)
           byte == frame.payload[n + 1]
           fits == Len(frame.payload) < FrameMax
<1>0. /\ frame.payload \in Seq(Bytes) /\ Len(frame.payload) \in Nat /\ FrameMax \in Nat
      /\ n \in Nat /\ n + 1 \in 1..Len(frame.payload)
      /\ n \in 0..Len(frame.payload) /\ n + 1 \in 0..Len(frame.payload)
  BY KissAssumption DEF Framed, KissFrame
<1>1. byte \in Bytes /\ {"FEND", "FESC", "TFEND", "TFESC"} \subseteq Bytes
  BY <1>0, ElementOfSeq DEF Bytes
<1>2. d \in Sane /\ e \in Sane
  BY <1>0, HoldingIsSane
<1>3. fits => n + 1 # FrameMax
  BY <1>0
<1>4. CASE n >= FrameMax
  <2>1. d = Fresh /\ e = Fresh
    BY <1>0, <1>4 DEF Holding
  <2> HIDE DEF d, e, byte, fits
  <2>2. CASE byte \notin {"FEND", "FESC"}
    <3>1. Escaped(byte) = <<byte>>
      BY <2>2 DEF Escaped
    <3>2. <<byte>> \in Seq(Bytes)
      BY <1>1
    <3>3. Quiet(d, Escaped(byte), e, fits)
      BY <1>1, <2>1, <2>2, <3>1, FreshSkips
    <3> QED
      BY <3>1, <3>2, <3>3 DEF d, e, byte, fits
  <2>3. CASE byte \in {"FEND", "FESC"}
    <3> DEFINE second == IF byte = "FEND" THEN "TFEND" ELSE "TFESC"
    <3>1. Escaped(byte) = <<"FESC">> \o <<second>>
      BY <2>3 DEF Escaped
    <3>2. second \in Bytes \ {"FEND"} /\ "FESC" \in Bytes \ {"FEND"}
      BY <1>1
    <3> HIDE DEF second
    <3>3. Quiet(Fresh, <<"FESC">>, Fresh, fits) /\ Quiet(Fresh, <<second>>, Fresh, fits)
      BY <3>2, FreshSkips
    <3>4. <<"FESC">> \in Seq(Bytes) /\ <<second>> \in Seq(Bytes)
      BY <3>2
    <3>5. Quiet(d, Escaped(byte), e, fits)
      BY <2>1, <3>1, <3>3, <3>4, QuietCompose
    <3>6. Escaped(byte) \in Seq(Bytes)
      BY <3>1, <3>4, ConcatProperties
    <3> QED
      BY <3>5, <3>6 DEF d, e, byte, fits
  <2> QED
    BY <2>2, <2>3
<1>5. CASE n < FrameMax
  <2> DEFINE full == n + 1 = FrameMax
  <2>1. PushDecodedByte(d, byte) = Pushed(e, << >>, full)
    BY <1>5, DecodedStep
  <2>2. d = [buffer |-> Prefix(frame, n), in_frame |-> TRUE, escape_pending |-> FALSE]
    BY <1>5 DEF Holding
  <2>3. d.in_frame = TRUE /\ d.escape_pending = FALSE
    BY <2>2
  <2>4. fits => ~full
    BY <1>3
  <2> HIDE DEF e, byte, fits, full
  <2>5. CASE byte \notin {"FEND", "FESC"}
    <3>1. Escaped(byte) = <<byte>>
      BY <2>5 DEF Escaped
    <3> HIDE DEF d
    <3>2. PushByte(d, byte) = Pushed(e, << >>, full)
      BY <2>1, <2>3, <2>5 DEF PushByte
    <3>3. Quiet(d, <<byte>>, e, fits)
      BY <1>1, <1>2, <2>4, <3>2, QuietByte
    <3>4. <<byte>> \in Seq(Bytes)
      BY <1>1
    <3> QED
      BY <3>1, <3>3, <3>4 DEF d, e, byte, fits
  <2>6. CASE byte \in {"FEND", "FESC"}
    <3> DEFINE second == IF byte = "FEND" THEN "TFEND" ELSE "TFESC"
               mid == [buffer |-> Prefix(frame, n), in_frame |-> TRUE, escape_pending |-> TRUE]
    <3>1. Escaped(byte) = <<"FESC">> \o <<second>>
      BY <2>6 DEF Escaped
    <3>2. second \in Bytes /\ "FESC" \in Bytes /\ second # "FEND"
      BY <1>1
    <3>3. [d EXCEPT !.escape_pending = TRUE] = mid /\ [mid EXCEPT !.escape_pending = FALSE] = d
      <4>1. Prefix(frame, n) \in Seq(Bytes)
        BY <1>0, PrefixGrows
      <4>2. d \in Decoder /\ mid \in Decoder
        BY <1>2, <4>1 DEF Decoder, Sane
      <4>3. /\ d.buffer = Prefix(frame, n) /\ mid.buffer = Prefix(frame, n)
            /\ mid.in_frame = TRUE
        BY <2>2
      <4>4. /\ d = [buffer |-> Prefix(frame, n), in_frame |-> TRUE, escape_pending |-> FALSE]
            /\ mid = [buffer |-> Prefix(frame, n), in_frame |-> TRUE, escape_pending |-> TRUE]
        BY <2>2
      <4> HIDE DEF d, mid
      <4>5. [d EXCEPT !.escape_pending = TRUE] =
              [buffer |-> d.buffer, in_frame |-> d.in_frame, escape_pending |-> TRUE]
        BY <4>2, FieldUpdates, Zenon
      <4>6. [mid EXCEPT !.escape_pending = FALSE] =
              [buffer |-> mid.buffer, in_frame |-> mid.in_frame, escape_pending |-> FALSE]
        BY <4>2, FieldUpdates, Zenon
      <4> QED
        BY <2>3, <4>3, <4>4, <4>5, <4>6
    <3>4. mid.in_frame = TRUE /\ mid.escape_pending = TRUE
      OBVIOUS
    <3>5. mid \in Sane
      <4>1. Prefix(frame, n) \in Seq(Bytes)
        BY <1>0, PrefixGrows
      <4>2. mid \in Decoder
        BY <4>1 DEF Decoder
      <4> QED
        BY <3>4, <4>2 DEF Sane
    <3> HIDE DEF d, mid
    <3>6. PushByte(d, "FESC") = Pushed(mid, << >>, FALSE)
      BY <2>3, <3>3 DEF PushByte
    <3>7. PushByte(mid, second) = PushEscape(mid, second)
      BY <3>2, <3>4 DEF PushByte
    <3>8. PushEscape(mid, second) = PushDecodedByte(d, byte)
      BY <2>6, <3>3 DEF PushEscape
    <3>9. PushByte(mid, second) = Pushed(e, << >>, full)
      BY <2>1, <3>7, <3>8
    <3> HIDE DEF second
    <3>10. Quiet(d, <<"FESC">>, mid, fits)
      BY <1>2, <3>2, <3>6, QuietByte
    <3>11. Quiet(mid, <<second>>, e, fits)
      BY <2>4, <3>2, <3>5, <3>9, QuietByte
    <3>12. <<"FESC">> \in Seq(Bytes) /\ <<second>> \in Seq(Bytes)
      BY <3>2
    <3>13. Quiet(d, Escaped(byte), e, fits)
      BY <3>1, <3>10, <3>11, <3>12, QuietCompose
    <3>14. Escaped(byte) \in Seq(Bytes)
      BY <3>1, <3>12, ConcatProperties
    <3> QED
      BY <3>13, <3>14 DEF d, e, byte, fits
  <2> QED
    BY <2>5, <2>6
<1> QED
  BY <1>0, <1>4, <1>5

\* The command is the first byte of the frame.
LEMMA CommandStep ==
  ASSUME NEW frame \in Framed
  PROVE  Quiet(Begun, <<frame.command>>, Holding(frame, 0), Len(frame.payload) < FrameMax)
<1> DEFINE c == frame.command
           fits == Len(frame.payload) < FrameMax
           full == 0 = FrameMax
<1>0. c \in Bytes /\ c \notin {"FEND", "FESC"} /\ FrameMax \in Nat /\ Len(frame.payload) \in Nat
      /\ 0 \in 0..Len(frame.payload)
  BY KissAssumption DEF Framed, KissFrame
<1>1. /\ Begun.buffer = << >> /\ Begun.in_frame = TRUE /\ Begun.escape_pending = FALSE
      /\ Begun = [buffer |-> << >>, in_frame |-> TRUE, escape_pending |-> FALSE]
  BY DEF Begun
<1>2. PushByte(Begun, c) = PushDecodedByte(Begun, c)
  BY <1>0, <1>1 DEF PushByte
<1>3. Append(<< >>, c) = Prefix(frame, 0)
  BY <1>0 DEF Prefix
<1>4. PushDecodedByte(Begun, c) = Pushed(Holding(frame, 0), << >>, full)
  <2>1. CASE 0 = FrameMax
    <3>1. Holding(frame, 0) = Fresh /\ full = TRUE
      BY <2>1 DEF Holding
    <3>2. PushDecodedByte(Begun, c) = Pushed(Fresh, << >>, TRUE)
      BY <1>1, <2>1 DEF PushDecodedByte
    <3> QED
      BY <3>1, <3>2
  <2>2. CASE 0 # FrameMax
    <3>1. Holding(frame, 0) =
            [buffer |-> Prefix(frame, 0), in_frame |-> TRUE, escape_pending |-> FALSE]
      BY <1>0, <2>2 DEF Holding
    <3>2. [Begun EXCEPT !.buffer = Append(@, c)] = Holding(frame, 0)
      <4>1. Begun \in Decoder /\ Prefix(frame, 0) \in Seq(Bytes)
        BY <1>0, FreshIsSane, PrefixGrows DEF Sane
      <4>2. [Begun EXCEPT !.buffer = Prefix(frame, 0)] =
              [buffer |-> Prefix(frame, 0), in_frame |-> Begun.in_frame,
               escape_pending |-> Begun.escape_pending]
        BY <4>1, FieldUpdates
      <4> QED
        BY <1>1, <1>3, <3>1, <4>2
    <3>3. PushDecodedByte(Begun, c) = Pushed(Holding(frame, 0), << >>, FALSE)
      BY <1>1, <2>2, <3>2 DEF PushDecodedByte
    <3>4. full = FALSE
      BY <2>2
    <3> QED
      BY <3>3, <3>4
  <2> QED
    BY <2>1, <2>2
<1>5. fits => ~full
  BY <1>0
<1> HIDE DEF fits, full
<1>6. Quiet(Begun, <<c>>, Holding(frame, 0), fits)
  BY <1>0, <1>2, <1>4, <1>5, FreshIsSane, QuietByte
<1> QED
  BY <1>6 DEF fits

\* The escaped payload, byte by byte (encode_command_frame).
Escapes(frame, esc) ==
  /\ esc \in [0..Len(frame.payload) -> Seq(Bytes)]
  /\ esc[0] = << >>
  /\ \A n \in 1..Len(frame.payload) : esc[n] = esc[n - 1] \o Escaped(frame.payload[n])
LEMMA EncodeIsRecursive ==
  ASSUME NEW frame \in Framed
  PROVE  \E esc : /\ Escapes(frame, esc)
                  /\ Encode(frame) = <<"FEND", frame.command>> \o esc[Len(frame.payload)]
                                       \o <<"FEND">>
<1> DEFINE K == Len(frame.payload)
           V == Seq(Bytes)
           Rec(f) == f = [n \in 0..K |-> IF n = 0 THEN << >>
                                         ELSE f[n - 1] \o Escaped(frame.payload[n])]
           step == [n \in 1..K |-> [v \in V |-> v \o Escaped(frame.payload[n])]]
<1>0. K \in Nat /\ << >> \in V
  BY DEF Framed, KissFrame
<1>1. \A n \in 1..K : Escaped(frame.payload[n]) \in V
  <2> TAKE n \in 1..K
  <2>1. n - 1 \in 0..(K - 1) /\ (n - 1) + 1 = n
    BY <1>0
  <2>2. Escaped(frame.payload[(n - 1) + 1]) \in V
    BY <2>1, HoldingStep
  <2> QED
    BY <2>1, <2>2
<1>2. IsStep(step, K, V)
  <2>1. \A n \in 1..K : \A v \in V : v \o Escaped(frame.payload[n]) \in V
    BY <1>1, ConcatProperties
  <2> HIDE DEF V
  <2> QED
    BY <2>1 DEF IsStep
<1>3. PICK f : FollowsStep(f, K, V, << >>, step)
  <2> HIDE DEF step, K, V
  <2> QED
    BY <1>0, <1>2, RecursionUpTo
<1>4. f \in [0..K -> V] /\ f[0] = << >> /\ \A n \in 1..K : f[n] = step[n][f[n - 1]]
  BY <1>3 DEF FollowsStep
<1> HIDE DEF V
<1>5. ASSUME NEW n \in 1..K PROVE f[n] = f[n - 1] \o Escaped(frame.payload[n])
  <2>1. n - 1 \in 0..K
    BY <1>0
  <2>2. f[n - 1] \in V
    BY <1>4, <2>1
  <2>3. step[n][f[n - 1]] = f[n - 1] \o Escaped(frame.payload[n])
    BY <2>2
  <2> QED
    BY <1>4, <2>3
<1>6. Rec(f)
  <2>1. ASSUME NEW n \in 0..K
        PROVE  f[n] = IF n = 0 THEN << >> ELSE f[n - 1] \o Escaped(frame.payload[n])
    <3>1. CASE n = 0
      BY <1>4, <3>1
    <3>2. CASE n # 0
      <4>1. n \in 1..K
        BY <1>0, <3>2
      <4> QED
        BY <1>5, <3>2, <4>1, Zenon
    <3> QED
      BY <3>1, <3>2
  <2> QED
    BY <1>4, <2>1
<1> DEFINE g == CHOOSE h : Rec(h)
<1>7. Rec(g)
  <2> HIDE DEF Rec
  <2> QED
    BY <1>6
<1>8. Encode(frame) = <<"FEND", frame.command>> \o g[K] \o <<"FEND">>
  BY DEF Encode
<1> HIDE DEF g
<1>9. g[0] = << >> /\ \A n \in 1..K : g[n] = g[n - 1] \o Escaped(frame.payload[n])
  <2>1. \A n \in 0..K :
          g[n] = IF n = 0 THEN << >> ELSE g[n - 1] \o Escaped(frame.payload[n])
    BY <1>7, Zenon
  <2>2. g[0] = << >>
    <3>1. 0 \in 0..K
      BY <1>0
    <3> QED
      BY <2>1, <3>1, Zenon
  <2>3. ASSUME NEW n \in 1..K PROVE g[n] = g[n - 1] \o Escaped(frame.payload[n])
    <3>1. n \in 0..K /\ n # 0
      BY <1>0
    <3> QED
      BY <2>1, <3>1, Zenon
  <2> QED
    BY <2>2, <2>3, Zenon
<1>10. DOMAIN g = 0..K /\ g = [n \in 0..K |-> g[n]]
  BY <1>7
<1> HIDE DEF Rec
<1>11. \A n \in 0..K : g[n] \in V
  <2> DEFINE P == {n \in 0..K : g[n] \in V}
  <2>1. 0 \in P
    BY <1>0, <1>9
  <2>2. ASSUME NEW n \in 0..(K - 1), n \in P PROVE n + 1 \in P
    <3>1. n + 1 \in 1..K /\ n + 1 \in 0..K /\ (n + 1) - 1 = n
      BY <1>0
    <3>2. g[n + 1] = g[n] \o Escaped(frame.payload[n + 1])
      BY <1>9, <3>1
    <3>3. g[n] \in V /\ Escaped(frame.payload[n + 1]) \in V
      BY <1>1, <2>2, <3>1
    <3>4. g[n + 1] \in V
      BY <3>2, <3>3, ConcatProperties DEF V
    <3> QED
      BY <3>1, <3>4
  <2> HIDE DEF P, K
  <2>3. \A n \in 0..K : n \in P
    BY <1>0, <2>1, <2>2, UpTo
  <2> QED
    BY <2>3 DEF P
<1>12. g \in [0..K -> V]
  BY <1>10, <1>11
<1>13. Escapes(frame, g)
  BY <1>9, <1>12 DEF Escapes, V
<1> QED
  BY <1>8, <1>13

\* Between its two frame ends a frame is read without a word: it is in the
\* buffer, or given up as too large.
Body(frame, esc) == <<frame.command>> \o esc[Len(frame.payload)]
LEMMA BodyIsQuiet ==
  ASSUME NEW frame \in Framed, NEW esc, Escapes(frame, esc)
  PROVE  /\ Body(frame, esc) \in Seq(Bytes) /\ Len(Body(frame, esc)) >= 1
         /\ Quiet(Begun, Body(frame, esc), Holding(frame, Len(frame.payload)),
                  Len(frame.payload) < FrameMax)
<1> DEFINE K == Len(frame.payload)
           c == frame.command
           fits == Len(frame.payload) < FrameMax
           P == {n \in 0..K : Quiet(Begun, <<c>> \o esc[n], Holding(frame, n), fits)}
<1>0. K \in Nat /\ c \in Bytes /\ <<c>> \in Seq(Bytes)
  BY DEF Framed, KissFrame
<1>1. /\ \A n \in 0..K : esc[n] \in Seq(Bytes)
      /\ esc[0] = << >>
      /\ \A n \in 1..K : esc[n] = esc[n - 1] \o Escaped(frame.payload[n])
  BY DEF Escapes
<1>2. 0 \in P
  <2>1. <<c>> \o << >> = <<c>>
    BY <1>0, ConcatEmptySeq
  <2>2. Quiet(Begun, <<c>>, Holding(frame, 0), fits)
    BY CommandStep
  <2>3. Quiet(Begun, <<c>> \o esc[0], Holding(frame, 0), fits)
    BY <1>1, <2>1, <2>2, Zenon
  <2>4. 0 \in 0..K
    BY <1>0
  <2> QED
    BY <2>3, <2>4
<1>3. ASSUME NEW n \in 0..(K - 1), n \in P PROVE n + 1 \in P
  <2> DEFINE next == Escaped(frame.payload[n + 1])
  <2>0. n + 1 \in 1..K /\ n + 1 \in 0..K /\ (n + 1) - 1 = n /\ n \in 0..K
    BY <1>0
  <2>1. next \in Seq(Bytes) /\ Quiet(Holding(frame, n), next, Holding(frame, n + 1), fits)
    BY HoldingStep
  <2>2. Quiet(Begun, <<c>> \o esc[n], Holding(frame, n), fits)
    BY <1>3
  <2> HIDE DEF next, fits
  <2>3. <<c>> \o esc[n] \in Seq(Bytes)
    BY <1>0, <1>1, <2>0, ConcatProperties
  <2>4. Quiet(Begun, (<<c>> \o esc[n]) \o next, Holding(frame, n + 1), fits)
    BY <2>1, <2>2, <2>3, QuietCompose
  <2>5. (<<c>> \o esc[n]) \o next = <<c>> \o (esc[n] \o next)
    <3> DEFINE x == <<c>>
               y == esc[n]
    <3>1. x \in Seq(Bytes) /\ y \in Seq(Bytes) /\ next \in Seq(Bytes)
      BY <1>0, <1>1, <2>0, <2>1
    <3> HIDE DEF x, y
    <3>2. (x \o y) \o next = x \o (y \o next)
      BY <3>1, ConcatAssociative
    <3> QED
      BY <3>2 DEF x, y
  <2>6. esc[n + 1] = esc[n] \o next
    <3>1. esc[n + 1] = esc[(n + 1) - 1] \o Escaped(frame.payload[n + 1])
      BY <1>1, <2>0
    <3> QED
      BY <2>0, <3>1 DEF next
  <2>7. Quiet(Begun, <<c>> \o esc[n + 1], Holding(frame, n + 1), fits)
    BY <2>4, <2>5, <2>6
  <2> QED
    BY <2>0, <2>7
<1> HIDE DEF P
<1>4. K \in P
  <2>1. \A n \in 0..K : n \in P
    BY <1>0, <1>2, <1>3, UpTo
  <2> QED
    BY <1>0, <2>1
<1>5. esc[K] \in Seq(Bytes)
  BY <1>0, <1>1
<1>6. <<c>> \o esc[K] \in Seq(Bytes) /\ Len(<<c>> \o esc[K]) >= 1
  <2>1. Len(<<c>>) = 1 /\ Len(esc[K]) \in Nat
    BY <1>5
  <2>2. Len(<<c>> \o esc[K]) = Len(<<c>>) + Len(esc[K]) /\ <<c>> \o esc[K] \in Seq(Bytes)
    BY <1>0, <1>5, ConcatProperties
  <2> QED
    BY <2>1, <2>2
<1> QED
  BY <1>4, <1>6 DEF P, Body

\* What the decoder holds at the second frame end is the frame.
LEMMA HoldsFrame ==
  ASSUME NEW frame \in Framed
  PROVE  Buffered(Holding(frame, Len(frame.payload))) =
           IF Len(frame.payload) < FrameMax THEN <<frame>> ELSE << >>
<1> DEFINE K == Len(frame.payload)
           b == Prefix(frame, K)
<1>0. K \in Nat /\ frame.payload \in Seq(Bytes) /\ FrameMax \in Nat /\ K \in 0..K
      /\ frame = [command |-> frame.command, payload |-> frame.payload]
  BY KissAssumption DEF Framed, KissFrame
<1>1. CASE K >= FrameMax
  <2>1. Holding(frame, K) = Fresh
    BY <1>0, <1>1 DEF Holding
  <2>2. Buffered(Fresh) = << >>
    BY DEF Buffered, Fresh
  <2> QED
    BY <1>0, <1>1, <2>1, <2>2
<1>2. CASE K < FrameMax
  <2>1. Holding(frame, K).buffer = b
    BY <1>2 DEF Holding
  <2>2. b \in Seq(Bytes) /\ Len(b) = K + 1
    BY <1>0, PrefixGrows
  <2>3. b # << >> /\ Head(b) = frame.command
    BY <1>0, <2>2 DEF Prefix
  <2>4. Tail(b) = frame.payload
    <3>1. /\ Tail(b) \in Seq(Bytes) /\ Len(Tail(b)) = K
          /\ \A i \in 1..K : Tail(b)[i] = b[i + 1]
      BY <1>0, <2>2, <2>3, HeadTailProperties
    <3>2. \A i \in 1..K : b[i + 1] = frame.payload[i]
      BY <1>0 DEF Prefix
    <3> DEFINE s == Tail(b)
               p == frame.payload
    <3>3. /\ s \in Seq(Bytes) /\ p \in Seq(Bytes) /\ Len(s) = Len(p)
          /\ \A i \in 1..Len(s) : s[i] = p[i]
      BY <1>0, <3>1, <3>2
    <3> HIDE DEF s, p
    <3>4. s = p
      BY <3>3, SeqEqual
    <3> QED
      BY <3>4 DEF s, p
  <2> HIDE DEF b, K
  <2>5. Buffered(Holding(frame, K)) = <<[command |-> frame.command, payload |-> frame.payload]>>
    BY <2>1, <2>3, <2>4 DEF Buffered
  <2>6. <<[command |-> frame.command, payload |-> frame.payload]>> = <<frame>>
    BY <1>0
  <2> QED
    BY <1>2, <2>5, <2>6 DEF K
<1> QED
  BY <1>0, <1>1, <1>2

\* A frame on the line is a frame end, its body and a frame end.
Wraps(wire, body) ==
  /\ wire \in Seq(Bytes) /\ Len(wire) = Len(body) + 2
  /\ wire[1] = "FEND" /\ wire[Len(body) + 2] = "FEND"
  /\ \A i \in 1..Len(body) : wire[i + 1] = body[i]
LEMMA WireIsWrapped ==
  ASSUME NEW c \in Bytes, NEW e \in Seq(Bytes)
  PROVE  Wraps(<<"FEND", c>> \o e \o <<"FEND">>, <<c>> \o e)
<1> DEFINE a == <<"FEND", c>>
           z == <<"FEND">>
           o == <<c>>
           body == o \o e
           front == a \o e
           wire == front \o z
<1>1. /\ a \in Seq(Bytes) /\ Len(a) = 2 /\ a[1] = "FEND" /\ a[2] = c
      /\ z \in Seq(Bytes) /\ Len(z) = 1 /\ z[1] = "FEND"
      /\ o \in Seq(Bytes) /\ Len(o) = 1 /\ o[1] = c
  BY DEF Bytes
<1> HIDE DEF a, z, o
<1>2. /\ body \in Seq(Bytes) /\ Len(body) = 1 + Len(e) /\ Len(e) \in Nat
      /\ \A i \in 1..(1 + Len(e)) : body[i] = IF i <= 1 THEN o[i] ELSE e[i - 1]
  <2> HIDE DEF body
  <2>1. /\ o \o e \in Seq(Bytes) /\ Len(o \o e) = Len(o) + Len(e)
        /\ \A i \in 1..(Len(o) + Len(e)) :
             (o \o e)[i] = IF i <= Len(o) THEN o[i] ELSE e[i - Len(o)]
    BY <1>1, ConcatProperties, Zenon
  <2>2. body = o \o e
    BY DEF body
  <2> QED
    BY <1>1, <2>1, <2>2, LenProperties
<1>3. /\ front \in Seq(Bytes) /\ Len(front) = 2 + Len(e)
      /\ \A i \in 1..(2 + Len(e)) : front[i] = IF i <= 2 THEN a[i] ELSE e[i - 2]
  <2> HIDE DEF front
  <2>1. /\ a \o e \in Seq(Bytes) /\ Len(a \o e) = Len(a) + Len(e)
        /\ \A i \in 1..(Len(a) + Len(e)) :
             (a \o e)[i] = IF i <= Len(a) THEN a[i] ELSE e[i - Len(a)]
    BY <1>1, ConcatProperties, Zenon
  <2>2. front = a \o e
    BY DEF front
  <2> QED
    BY <1>1, <2>1, <2>2
<1> HIDE DEF body, front
<1>4. /\ wire \in Seq(Bytes) /\ Len(wire) = (2 + Len(e)) + 1
      /\ \A i \in 1..((2 + Len(e)) + 1) :
            wire[i] = IF i <= 2 + Len(e) THEN front[i] ELSE z[i - (2 + Len(e))]
  <2> HIDE DEF wire
  <2>1. /\ front \o z \in Seq(Bytes) /\ Len(front \o z) = Len(front) + Len(z)
        /\ \A i \in 1..(Len(front) + Len(z)) :
             (front \o z)[i] = IF i <= Len(front) THEN front[i] ELSE z[i - Len(front)]
    BY <1>1, <1>3, ConcatProperties, Zenon
  <2>2. wire = front \o z
    BY DEF wire
  <2> QED
    BY <1>1, <1>3, <2>1, <2>2
<1> HIDE DEF wire
<1>5. wire[1] = "FEND" /\ wire[Len(body) + 2] = "FEND" /\ Len(wire) = Len(body) + 2
  BY <1>1, <1>2, <1>3, <1>4, SMTT(30)
<1>6. ASSUME NEW i \in 1..Len(body) PROVE wire[i + 1] = body[i]
  <2>1. i + 1 \in 1..(2 + Len(e)) /\ i + 1 <= 2 + Len(e) /\ i \in 1..(1 + Len(e))
    BY <1>2
  <2>2. wire[i + 1] = front[i + 1]
    BY <1>2, <1>4, <2>1
  <2>3. CASE i = 1
    BY <1>1, <1>2, <1>3, <2>1, <2>2, <2>3
  <2>4. CASE i # 1
    <3>1. front[i + 1] = e[i - 1] /\ body[i] = e[i - 1]
      <4>1. ~(i + 1 <= 2) /\ ~(i <= 1) /\ (i + 1) - 2 = i - 1
        BY <1>2, <2>4
      <4>2. front[i + 1] = e[(i + 1) - 2]
        BY <1>3, <2>1, <4>1
      <4> QED
        BY <1>2, <2>1, <4>1, <4>2
    <3> QED
      BY <2>2, <3>1
  <2> QED
    BY <2>3, <2>4
<1>7. Wraps(wire, body)
  BY <1>4, <1>5, <1>6 DEF Wraps
<1> QED
  BY <1>7 DEF wire, front, body, a, z, o

\* Reading it: the first frame end gives what was there before, the last one
\* the frame, if it fits; there is nothing in between.
WireRun(d, frame, wire, n, st) ==
  /\ wire \in Seq(Bytes) /\ Len(wire) = n /\ n \in Nat /\ n >= 3
  /\ Run(d, wire, st) /\ st[n] = Begun
  /\ FoundAt(wire, st, 1) = Buffered(d)
  /\ \A i \in 2..(n - 1) : FoundAt(wire, st, i) = << >>
  /\ FoundAt(wire, st, n) = IF Len(frame.payload) < FrameMax THEN <<frame>> ELSE << >>
  /\ Len(frame.payload) < FrameMax => \A i \in 1..n : ~FailsAt(wire, st, i)
LEMMA WireIsRead ==
  ASSUME NEW d \in Sane, NEW frame \in Framed
  PROVE  \E st : WireRun(d, frame, Encode(frame), Len(Encode(frame)), st)
<1> DEFINE wire == Encode(frame)
           K == Len(frame.payload)
           fits == K < FrameMax
           h == Holding(frame, K)
<1>1. PICK esc : /\ Escapes(frame, esc)
                 /\ wire = <<"FEND", frame.command>> \o esc[K] \o <<"FEND">>
  BY EncodeIsRecursive
<1> DEFINE body == Body(frame, esc)
           m == Len(body)
<1>2. frame.command \in Bytes /\ K \in Nat /\ esc[K] \in Seq(Bytes)
  <2>1. frame.command \in Bytes /\ frame.payload \in Seq(Bytes)
    BY DEF Framed, KissFrame
  <2>2. K \in Nat /\ K \in 0..K
    BY <2>1
  <2>3. esc \in [0..K -> Seq(Bytes)]
    BY <1>1 DEF Escapes
  <2> QED
    BY <2>1, <2>2, <2>3
<1>3. Wraps(wire, body)
  <2>1. Wraps(<<"FEND", frame.command>> \o esc[K] \o <<"FEND">>, <<frame.command>> \o esc[K])
    BY <1>2, WireIsWrapped
  <2> QED
    BY <1>1, <2>1 DEF Body
<1>4. body \in Seq(Bytes) /\ m >= 1 /\ Quiet(Begun, body, h, fits)
  BY <1>1, BodyIsQuiet
<1>5. PICK q : QuietRun(Begun, body, h, fits, q)
  BY <1>4 DEF Quiet
<1>6. h \in Sane
  BY <1>2, HoldingIsSane
<1>7. Buffered(h) = IF fits THEN <<frame>> ELSE << >>
  BY HoldsFrame
<1> HIDE DEF wire, body, h, fits
<1>8. /\ q \in [0..m -> Sane] /\ q[0] = Begun /\ q[m] = h
      /\ \A i \in 1..m : /\ q[i] = PushByte(q[i - 1], body[i]).decoder
                         /\ PushByte(q[i - 1], body[i]).frames = << >>
                         /\ fits => ~PushByte(q[i - 1], body[i]).error
  BY <1>5 DEF QuietRun, Run, FoundAt, FailsAt
<1>9. /\ wire \in Seq(Bytes) /\ Len(wire) = m + 2 /\ wire[1] = "FEND" /\ wire[m + 2] = "FEND"
      /\ \A i \in 1..m : wire[i + 1] = body[i]
  BY <1>3 DEF Wraps
<1>10. m \in Nat
  BY <1>4, LenProperties
<1> HIDE DEF m
<1> DEFINE st == [i \in 0..(m + 2) |-> IF i = 0 THEN d ELSE IF i <= m + 1 THEN q[i - 1] ELSE Begun]
<1>11. /\ st \in [0..(m + 2) -> Sane] /\ st[0] = d /\ st[m + 2] = Begun
       /\ \A j \in 0..m : st[j + 1] = q[j]
  <2>1. st[0] = d /\ st[m + 2] = Begun
    BY <1>10
  <2>2. ASSUME NEW j \in 0..m PROVE st[j + 1] = q[j]
    BY <1>10
  <2>3. ASSUME NEW j \in 0..(m + 2)
        PROVE  (IF j = 0 THEN d ELSE IF j <= m + 1 THEN q[j - 1] ELSE Begun) \in Sane
    <3>1. CASE j = 0
      BY <3>1
    <3>2. CASE j # 0 /\ j <= m + 1
      <4>1. j - 1 \in 0..m
        BY <1>10, <3>2
      <4>2. q[j - 1] \in Sane
        BY <1>8, <4>1
      <4> QED
        BY <3>2, <4>2
    <3>3. CASE j # 0 /\ ~(j <= m + 1)
      BY <3>3, FreshIsSane
    <3> QED
      BY <3>1, <3>2, <3>3
  <2> QED
    BY <2>1, <2>2, <2>3
<1> HIDE DEF st
<1>12. PushByte(st[0], wire[1]) = Pushed(Begun, Buffered(d), FALSE)
  BY <1>9, <1>11, FendFinishes
<1>13. ASSUME NEW i \in 2..(m + 1)
       PROVE  /\ st[i] = PushByte(st[i - 1], wire[i]).decoder
              /\ PushByte(st[i - 1], wire[i]).frames = << >>
              /\ fits => ~PushByte(st[i - 1], wire[i]).error
  <2> DEFINE j == i - 1
  <2>1. j \in 1..m /\ j \in 0..m /\ j - 1 \in 0..m /\ j + 1 = i /\ (j - 1) + 1 = i - 1
    BY <1>10
  <2> HIDE DEF j
  <2>2. st[i] = q[j] /\ st[i - 1] = q[j - 1] /\ wire[i] = body[j]
    <3>1. st[j + 1] = q[j] /\ st[(j - 1) + 1] = q[j - 1] /\ wire[j + 1] = body[j]
      BY <1>9, <1>11, <2>1
    <3> QED
      BY <2>1, <3>1
  <2> QED
    BY <1>8, <2>1, <2>2
<1>14. PushByte(st[m + 1], wire[m + 2]) = Pushed(Begun, Buffered(h), FALSE)
  <2>1. st[m + 1] = h
    BY <1>8, <1>10, <1>11
  <2> QED
    BY <1>6, <1>9, <2>1, FendFinishes
<1>15. /\ PushByte(st[0], wire[1]).decoder = Begun /\ PushByte(st[0], wire[1]).frames = Buffered(d)
       /\ PushByte(st[0], wire[1]).error = FALSE
       /\ PushByte(st[m + 1], wire[m + 2]).decoder = Begun
       /\ PushByte(st[m + 1], wire[m + 2]).frames = Buffered(h)
       /\ PushByte(st[m + 1], wire[m + 2]).error = FALSE
  BY <1>12, <1>14 DEF Pushed
<1>16. ASSUME NEW i \in 1..(m + 2)
       PROVE  /\ st[i] = PushByte(st[i - 1], wire[i]).decoder
              /\ fits => ~PushByte(st[i - 1], wire[i]).error
  <2>1. CASE i = 1
    <3>1. st[1] = Begun /\ i - 1 = 0
      BY <1>8, <1>10, <1>11, <2>1
    <3> QED
      BY <1>15, <2>1, <3>1
  <2>2. CASE i = m + 2
    <3>1. i - 1 = m + 1
      BY <1>10, <2>2
    <3> QED
      BY <1>11, <1>15, <2>2, <3>1
  <2>3. CASE i # 1 /\ i # m + 2
    <3>1. i \in 2..(m + 1)
      BY <1>10, <2>3
    <3> QED
      BY <1>13, <3>1
  <2> QED
    BY <2>1, <2>2, <2>3
<1>17. Run(d, wire, st)
  BY <1>9, <1>11, <1>16 DEF Run
<1> DEFINE n == m + 2
<1>18. n \in Nat /\ n >= 3 /\ n - 1 = m + 1 /\ 1 - 1 = 0
  BY <1>4, <1>10 DEF m
<1>19. FoundAt(wire, st, 1) = Buffered(d) /\ FoundAt(wire, st, n) = Buffered(h)
  BY <1>15, <1>18 DEF FoundAt
<1>20. \A i \in 2..(n - 1) : FoundAt(wire, st, i) = << >>
  BY <1>13, <1>18 DEF FoundAt
<1>21. fits => \A i \in 1..n : ~FailsAt(wire, st, i)
  BY <1>16 DEF FailsAt
<1> HIDE DEF n
<1>22. Len(wire) = n /\ st[n] = Begun
  BY <1>9, <1>11 DEF n
<1>23. WireRun(d, frame, wire, n, st)
  BY <1>7, <1>9, <1>17, <1>18, <1>19, <1>20, <1>21, <1>22 DEF WireRun, fits
<1> QED
  BY <1>22, <1>23 DEF wire

-----------------------------------------------------------------------------
(* A line on which whole frames are due.                                   *)

\* What is found in a line is what is found in its parts.
FoundInParts(a, s, b, t, st) ==
  /\ \A i \in 1..Len(a) : FoundAt(a \o b, st, i) = FoundAt(a, s, i)
  /\ \A i \in 1..Len(b) : FoundAt(a \o b, st, Len(a) + i) = FoundAt(b, t, i)
LEMMA SpliceFinds ==
  ASSUME NEW d, NEW a, NEW s, NEW b, NEW t, NEW st, SpliceSound(d, a, s, b, t, st)
  PROVE  FoundInParts(a, s, b, t, st)
<1>1. ASSUME NEW i \in 1..Len(a) PROVE FoundAt(a \o b, st, i) = FoundAt(a, s, i)
  BY DEF SpliceSound, FoundAt
<1>2. ASSUME NEW i \in 1..Len(b) PROVE FoundAt(a \o b, st, Len(a) + i) = FoundAt(b, t, i)
  BY DEF SpliceSound, FoundAt
<1> QED
  BY <1>1, <1>2 DEF FoundInParts

\* Reading the line from d, st, finds the frames that are due, in their order,
\* at the bytes `at`; and, if the line is clean, it finds no others and ends
\* with nothing begun.
Reads(d, bytes, owed, clean, st, at) ==
  /\ Run(d, bytes, st)
  /\ at \in [1..Len(owed) -> 1..Len(bytes)]
  /\ \A k \in 1..Len(owed) : FoundAt(bytes, st, at[k]) = <<owed[k]>>
  /\ \A k \in 1..Len(owed) : \A l \in 1..Len(owed) : k < l => at[k] < at[l]
  /\ clean => /\ Buffered(st[Len(bytes)]) = << >>
              /\ \A i \in 1..Len(bytes) :
                   FoundAt(bytes, st, i) # << >> => \E k \in 1..Len(owed) : at[k] = i
Owed(d, bytes, owed, clean) == \E st, at : Reads(d, bytes, owed, clean, st, at)

\* Nothing is due on an empty line.
LEMMA OwedNothing ==
  ASSUME NEW clean
  PROVE  Owed(Fresh, << >>, << >>, clean)
<1> DEFINE st == [i \in 0..0 |-> Fresh]
           at == [k \in 1..0 |-> 1]
           none == << >>
<1>1. st \in [0..0 -> Sane] /\ st[0] = Fresh
  BY FreshIsSane
<1>2. Len(none) = 0 /\ at \in [1..0 -> 1..0]
  OBVIOUS
<1>3. Buffered(Fresh) = << >>
  BY DEF Buffered, Fresh
<1> HIDE DEF st, at, none
<1>4. \A i \in 1..0 : FALSE
  OBVIOUS
<1>5. Run(Fresh, none, st)
  BY <1>1, <1>2, <1>4 DEF Run
<1>6. Reads(Fresh, none, none, clean, st, at)
  BY <1>1, <1>2, <1>3, <1>4, <1>5 DEF Reads
<1> QED
  BY <1>6 DEF Owed, none

\* Whatever follows, the frames that are due stay where they are.
LEMMA OwedThenNoise ==
  ASSUME NEW d \in Sane, NEW a \in Seq(Bytes), NEW owed \in Seq(KissFrame), NEW clean,
         Owed(d, a, owed, clean), NEW b \in Seq(Bytes)
  PROVE  Owed(d, a \o b, owed, FALSE)
<1>1. PICK s, at : Reads(d, a, owed, clean, s, at)
  BY DEF Owed
<1> DEFINE n == Len(a)
           m == Len(b)
           ab == a \o b
           L == Len(owed)
           e == s[Len(a)]
<1>2. /\ Run(d, a, s) /\ at \in [1..L -> 1..n]
      /\ \A k \in 1..L : FoundAt(a, s, at[k]) = <<owed[k]>>
      /\ \A k \in 1..L : \A l \in 1..L : k < l => at[k] < at[l]
  BY <1>1 DEF Reads
<1>3. n \in Nat /\ m \in Nat /\ L \in Nat
  BY LenProperties
<1>4. e \in Sane
  BY <1>2, <1>3, SMTT(30) DEF Run
<1>5. PICK t : Run(e, b, t)
  BY <1>4, RunExists
<1> DEFINE st == Spliced(Len(a), s, Len(b), t)
<1>6. SpliceSound(d, a, s, b, t, st)
  BY <1>2, <1>5, RunsCompose
<1> HIDE DEF st
<1>7. FoundInParts(a, s, b, t, st)
  BY <1>6, SpliceFinds
<1>8. Run(d, ab, st) /\ Len(ab) = n + m /\ \A i \in 1..n : FoundAt(ab, st, i) = FoundAt(a, s, i)
  BY <1>6, <1>7 DEF SpliceSound, FoundInParts
<1> HIDE DEF n, m, ab, L
<1>9. at \in [1..L -> 1..(n + m)]
  BY <1>2, <1>3
<1>10. \A k \in 1..L : FoundAt(ab, st, at[k]) = <<owed[k]>>
  BY <1>2, <1>8
<1>11. Reads(d, ab, owed, FALSE, st, at)
  BY <1>2, <1>8, <1>9, <1>10 DEF Reads, L
<1>12. Owed(d, ab, owed, FALSE)
  BY <1>11 DEF Owed
<1> QED
  BY <1>12 DEF ab

\* A whole frame that fits is due as well; one that does not fit is not, and
\* does no harm.
LEMMA OwedThenFrame ==
  ASSUME NEW d \in Sane, NEW a \in Seq(Bytes), NEW owed \in Seq(KissFrame), NEW clean,
         Owed(d, a, owed, clean), NEW frame \in Framed
  PROVE  Owed(d, a \o Encode(frame),
              IF Len(frame.payload) < FrameMax THEN Append(owed, frame) ELSE owed, clean)
<1>1. PICK s, at : Reads(d, a, owed, clean, s, at)
  BY DEF Owed
<1> DEFINE b == Encode(frame)
           n == Len(a)
           m == Len(b)
           ab == a \o b
           L == Len(owed)
           e == s[Len(a)]
           fits == Len(frame.payload) < FrameMax
<1>2. /\ Run(d, a, s) /\ at \in [1..L -> 1..n]
      /\ \A k \in 1..L : FoundAt(a, s, at[k]) = <<owed[k]>>
      /\ \A k \in 1..L : \A l \in 1..L : k < l => at[k] < at[l]
      /\ clean => /\ Buffered(e) = << >>
                  /\ \A i \in 1..n : FoundAt(a, s, i) # << >> => \E k \in 1..L : at[k] = i
  BY <1>1 DEF Reads
<1>3. n \in Nat /\ L \in Nat
  BY LenProperties
<1>4. e \in Sane
  BY <1>2, <1>3 DEF Run
<1>5. PICK t : WireRun(e, frame, b, m, t)
  BY <1>4, WireIsRead
<1>6. /\ b \in Seq(Bytes) /\ m \in Nat /\ m >= 3 /\ Run(e, b, t) /\ t[m] = Begun
      /\ FoundAt(b, t, 1) = Buffered(e)
      /\ \A i \in 2..(m - 1) : FoundAt(b, t, i) = << >>
      /\ FoundAt(b, t, m) = IF fits THEN <<frame>> ELSE << >>
  BY <1>5 DEF WireRun
<1> HIDE DEF b, fits
<1> DEFINE st == Spliced(Len(a), s, Len(b), t)
<1>7. SpliceSound(d, a, s, b, t, st)
  BY <1>2, <1>6, RunsCompose
<1> HIDE DEF st
<1>8. FoundInParts(a, s, b, t, st)
  BY <1>7, SpliceFinds
<1>9. /\ Run(d, ab, st) /\ Len(ab) = n + m /\ st[n + m] = Begun
      /\ \A i \in 1..n : FoundAt(ab, st, i) = FoundAt(a, s, i)
      /\ \A i \in 1..m : FoundAt(ab, st, n + i) = FoundAt(b, t, i)
  BY <1>6, <1>7, <1>8 DEF SpliceSound, FoundInParts
<1>10. Buffered(Begun) = << >>
  BY DEF Buffered, Begun
<1> HIDE DEF n, m, ab, L, e
<1>11. \A k \in 1..L : FoundAt(ab, st, at[k]) = <<owed[k]>>
  BY <1>2, <1>9
\* On a clean line the frame adds at most its own place.
<1>12. ASSUME clean, NEW i \in 1..(n + m), FoundAt(ab, st, i) # << >>
       PROVE  (\E k \in 1..L : at[k] = i) \/ (fits /\ i = n + m)
  <2>1. CASE i <= n
    <3>1. i \in 1..n
      BY <1>3, <2>1
    <3> QED
      BY <1>2, <1>9, <1>12, <3>1
  <2>2. CASE i > n
    <3> DEFINE j == i - n
    <3>1. j \in 1..m /\ n + j = i
      BY <1>3, <1>6, <2>2
    <3> HIDE DEF j
    <3>2. FoundAt(b, t, j) # << >>
      <4>1. FoundAt(ab, st, n + j) = FoundAt(b, t, j)
        BY <1>9, <3>1
      <4> QED
        BY <1>12, <3>1, <4>1
    <3>3. j # 1
      BY <1>2, <1>6, <1>12, <3>2
    <3>4. j \notin 2..(m - 1)
      BY <1>6, <3>2
    <3>5. j = m
      BY <1>6, <3>1, <3>3, <3>4
    <3>6. fits
      BY <1>6, <3>2, <3>5
    <3> QED
      BY <3>1, <3>5, <3>6
  <2> QED
    BY <1>3, <1>6, <2>1, <2>2
<1>13. CASE fits
  <2> DEFINE more == Append(owed, frame)
             at2 == [k \in 1..(L + 1) |-> IF k <= L THEN at[k] ELSE n + m]
  <2>1. /\ Len(more) = L + 1 /\ more[L + 1] = frame
        /\ \A k \in 1..L : more[k] = owed[k]
    BY <1>3, AppendProperties DEF L, Framed
  <2>2. \A k \in 1..L : at[k] \in 1..n
    BY <1>2
  <2>3. at2 \in [1..(L + 1) -> 1..(n + m)]
    BY <1>3, <1>6, <2>2
  <2>4. at2[L + 1] = n + m /\ \A k \in 1..L : at2[k] = at[k]
    BY <1>3
  <2> HIDE DEF at2, more
  <2>5. ASSUME NEW k \in 1..(L + 1) PROVE FoundAt(ab, st, at2[k]) = <<more[k]>>
    <3>1. CASE k = L + 1
      <4>1. FoundAt(ab, st, n + m) = <<frame>>
        <5>1. m \in 1..m
          BY <1>6
        <5> QED
          BY <1>6, <1>9, <1>13, <5>1
      <4> QED
        BY <2>1, <2>4, <3>1, <4>1
    <3>2. CASE k # L + 1
      <4>1. k \in 1..L
        BY <1>3, <3>2
      <4> QED
        BY <1>11, <2>1, <2>4, <4>1
    <3> QED
      BY <3>1, <3>2
  <2>6. ASSUME NEW k \in 1..(L + 1), NEW l \in 1..(L + 1), k < l PROVE at2[k] < at2[l]
    <3>0. k \in 1..L
      BY <1>3, <2>6
    <3>1. CASE l = L + 1
      <4>1. at2[k] \in 1..n /\ at2[l] = n + m
        BY <2>2, <2>4, <3>0, <3>1
      <4> QED
        BY <1>3, <1>6, <4>1
    <3>2. CASE l # L + 1
      <4>1. l \in 1..L
        BY <1>3, <3>2
      <4> QED
        BY <1>2, <2>4, <2>6, <3>0, <4>1
    <3> QED
      BY <3>1, <3>2
  <2>7. ASSUME clean, NEW i \in 1..(n + m), FoundAt(ab, st, i) # << >>
        PROVE  \E k \in 1..(L + 1) : at2[k] = i
    <3>1. CASE \E k \in 1..L : at[k] = i
      <4>1. PICK k \in 1..L : at[k] = i
        BY <3>1
      <4>2. k \in 1..(L + 1)
        BY <1>3
      <4> QED
        BY <2>4, <4>1, <4>2
    <3>2. CASE i = n + m
      <4>1. L + 1 \in 1..(L + 1)
        BY <1>3
      <4> QED
        BY <2>4, <3>2, <4>1
    <3> QED
      BY <1>12, <2>7, <3>1, <3>2
  <2>8. Reads(d, ab, more, clean, st, at2)
    BY <1>9, <1>10, <2>1, <2>3, <2>5, <2>6, <2>7 DEF Reads
  <2>9. Owed(d, ab, more, clean)
    BY <2>8 DEF Owed
  <2> QED
    BY <1>13, <2>9 DEF more, ab, b, fits
<1>14. CASE ~fits
  <2>1. at \in [1..L -> 1..(n + m)]
    BY <1>2, <1>3, <1>6
  <2>2. Reads(d, ab, owed, clean, st, at)
    BY <1>2, <1>9, <1>10, <1>11, <1>12, <1>14, <2>1 DEF Reads, L
  <2>3. Owed(d, ab, owed, clean)
    BY <2>2 DEF Owed
  <2> QED
    BY <1>14, <2>3 DEF ab, b, fits
<1> QED
  BY <1>13, <1>14

\* What is due after the frames that one byte completes (ReadByte).
DueAfter(owed, frames) ==
  IF owed # << >> /\ frames = <<Head(owed)>> THEN Tail(owed) ELSE owed

\* Reading a byte leaves the rest due, and on a clean line it completes no
\* frame but the next that is due.
ReadSound(bytes, owed, clean, push) ==
  /\ push \in Pushes
  /\ Owed(push.decoder, Tail(bytes), DueAfter(owed, push.frames), clean)
  /\ clean /\ push.frames # << >> => owed # << >> /\ push.frames = <<Head(owed)>>
LEMMA OwedThenRead ==
  ASSUME NEW d \in Sane, NEW a \in Seq(Bytes), a # << >>, NEW owed \in Seq(KissFrame),
         NEW clean, Owed(d, a, owed, clean)
  PROVE  ReadSound(a, owed, clean, PushByte(d, Head(a)))
<1>1. PICK st, at : Reads(d, a, owed, clean, st, at)
  BY DEF Owed
<1> DEFINE n == Len(a)
           L == Len(owed)
           p == PushByte(d, Head(a))
           r == Tail(a)
           now == owed # << >> /\ p.frames = <<Head(owed)>>
<1>2. /\ st \in [0..n -> Sane] /\ st[0] = d
      /\ \A i \in 1..n : st[i] = PushByte(st[i - 1], a[i]).decoder
      /\ at \in [1..L -> 1..n]
      /\ \A k \in 1..L : FoundAt(a, st, at[k]) = <<owed[k]>>
      /\ \A k \in 1..L : \A l \in 1..L : k < l => at[k] < at[l]
      /\ clean => /\ Buffered(st[n]) = << >>
                  /\ \A i \in 1..n : FoundAt(a, st, i) # << >> => \E k \in 1..L : at[k] = i
  BY <1>1 DEF Reads, Run
<1>3. n \in Nat /\ n >= 1 /\ L \in Nat /\ Head(a) = a[1] /\ Head(a) \in Bytes
  BY LenProperties, HeadTailProperties, EmptySeq
<1>4. /\ r \in Seq(Bytes) /\ Len(r) = n - 1
      /\ \A i \in 1..(n - 1) : r[i] = a[i + 1]
  BY HeadTailProperties
<1>5. p \in Pushes
  BY <1>3, PushTypes
<1>6. FoundAt(a, st, 1) = p.frames /\ st[1] = p.decoder
  <2>1. 1 \in 1..n /\ 1 - 1 = 0
    BY <1>3
  <2> QED
    BY <1>2, <1>3, <2>1 DEF FoundAt
<1> HIDE DEF n, L, p, r
<1> DEFINE t == [i \in 0..(n - 1) |-> st[i + 1]]
<1>7. /\ t \in [0..(n - 1) -> Sane] /\ t[0] = p.decoder /\ t[n - 1] = st[n]
      /\ \A i \in 1..(n - 1) : t[i] = st[i + 1] /\ t[i - 1] = st[i]
  <2>1. \A i \in 0..(n - 1) : i + 1 \in 0..n
    BY <1>3
  <2>2. t \in [0..(n - 1) -> Sane]
    BY <1>2, <2>1
  <2>3. t[0] = p.decoder /\ t[n - 1] = st[n]
    BY <1>3, <1>6
  <2> QED
    BY <1>3, <2>2, <2>3
<1> HIDE DEF t
<1>8. ASSUME NEW i \in 1..(n - 1)
      PROVE  /\ t[i] = PushByte(t[i - 1], r[i]).decoder
             /\ FoundAt(r, t, i) = FoundAt(a, st, i + 1)
  <2>1. i + 1 \in 1..n /\ (i + 1) - 1 = i
    BY <1>3
  <2>2. st[i + 1] = PushByte(st[i], a[i + 1]).decoder
    BY <1>2, <2>1
  <2> QED
    BY <1>4, <1>7, <2>1, <2>2 DEF FoundAt
<1>9. Run(p.decoder, r, t)
  BY <1>4, <1>7, <1>8 DEF Run
<1>10. \A k \in 1..L : at[k] \in 1..n
  BY <1>2
\* The first byte is the place of no frame but the first.
<1>11. ASSUME NEW k \in 1..L, at[k] = 1 PROVE k = 1
  <2>1. CASE k # 1
    <3>1. 1 \in 1..L /\ 1 < k
      BY <1>3, <2>1
    <3>2. at[1] < at[k] /\ at[1] \in 1..n
      BY <1>2, <1>10, <3>1
    <3> QED
      BY <1>3, <1>11, <3>2
  <2> QED
    BY <2>1
<1>12. L >= 1 => owed # << >> /\ Head(owed) = owed[1]
  BY <1>3 DEF L
<1>13. ASSUME clean, p.frames # << >> PROVE now
  <2>1. 1 \in 1..n
    BY <1>3
  <2>2. PICK k \in 1..L : at[k] = 1
    BY <1>2, <1>6, <1>13, <2>1
  <2>3. at[1] = 1 /\ 1 \in 1..L /\ L >= 1
    BY <1>3, <1>11, <2>2
  <2>4. p.frames = <<owed[1]>>
    BY <1>2, <1>6, <2>3
  <2> QED
    BY <1>12, <2>3, <2>4
<1>14. CASE now
  <2> DEFINE rest == Tail(owed)
             at2 == [k \in 1..(L - 1) |-> at[k + 1] - 1]
  <2>1. L >= 1
    BY <1>3, <1>14, EmptySeq DEF L
  <2>2. Len(rest) = L - 1 /\ \A k \in 1..(L - 1) : rest[k] = owed[k + 1]
    BY <1>14, HeadTailProperties DEF L
  <2>3. \A k \in 1..(L - 1) : k + 1 \in 1..L /\ at[k + 1] \in 2..n
    <3> TAKE k \in 1..(L - 1)
    <3>1. k + 1 \in 1..L /\ k + 1 # 1
      BY <1>3
    <3>2. at[k + 1] # 1 /\ at[k + 1] \in 1..n
      BY <1>10, <1>11, <3>1
    <3> QED
      BY <1>3, <3>1, <3>2
  <2>4. at2 \in [1..(L - 1) -> 1..(n - 1)]
    BY <1>3, <2>3
  <2>5. \A k \in 1..(L - 1) : at2[k] = at[k + 1] - 1
    OBVIOUS
  <2> HIDE DEF at2, rest
  <2>6. ASSUME NEW k \in 1..(L - 1) PROVE FoundAt(r, t, at2[k]) = <<rest[k]>>
    <3>1. at2[k] \in 1..(n - 1) /\ at2[k] + 1 = at[k + 1] /\ k + 1 \in 1..L
      BY <1>3, <2>3, <2>4, <2>5
    <3>2. FoundAt(r, t, at2[k]) = FoundAt(a, st, at2[k] + 1)
      BY <1>8, <3>1
    <3>3. FoundAt(a, st, at[k + 1]) = <<owed[k + 1]>>
      BY <1>2, <3>1
    <3> QED
      BY <2>2, <3>1, <3>2, <3>3
  <2>7. ASSUME NEW k \in 1..(L - 1), NEW l \in 1..(L - 1), k < l PROVE at2[k] < at2[l]
    <3>1. k + 1 \in 1..L /\ l + 1 \in 1..L /\ k + 1 < l + 1
      BY <1>3, <2>7
    <3>2. at[k + 1] < at[l + 1] /\ at[k + 1] \in 1..n /\ at[l + 1] \in 1..n
      BY <1>2, <1>10, <3>1
    <3> QED
      BY <1>3, <2>5, <3>2
  <2>8. ASSUME clean, NEW i \in 1..(n - 1), FoundAt(r, t, i) # << >>
        PROVE  \E k \in 1..(L - 1) : at2[k] = i
    <3>1. i + 1 \in 1..n /\ FoundAt(a, st, i + 1) # << >>
      BY <1>3, <1>8, <2>8
    <3>2. PICK k \in 1..L : at[k] = i + 1
      BY <1>2, <2>8, <3>1
    <3>3. k # 1
      <4>1. CASE k = 1
        <5>1. at[1] = 1
          <6>1. FoundAt(a, st, 1) # << >> /\ 1 \in 1..n
            <7>1. <<Head(owed)>> # << >>
              OBVIOUS
            <7>2. p.frames = <<Head(owed)>>
              BY <1>14
            <7>3. 1 \in 1..n
              BY <1>3
            <7> HIDE DEF now
            <7> QED
              BY <1>6, <7>1, <7>2, <7>3, Zenon
          <6>2. PICK l \in 1..L : at[l] = 1
            BY <1>2, <2>8, <6>1
          <6> QED
            BY <1>11, <6>2
        <5> QED
          BY <3>2, <4>1, <5>1
      <4> QED
        BY <4>1
    <3>4. k - 1 \in 1..(L - 1) /\ (k - 1) + 1 = k
      BY <1>3, <3>3
    <3>5. at2[k - 1] = i
      BY <2>5, <3>2, <3>4
    <3> QED
      BY <3>4, <3>5
  <2>9. Reads(p.decoder, r, rest, clean, t, at2)
    BY <1>2, <1>4, <1>7, <1>9, <2>2, <2>4, <2>6, <2>7, <2>8 DEF Reads
  <2>10. Owed(p.decoder, r, rest, clean)
    BY <2>9 DEF Owed
  <2>11. DueAfter(owed, p.frames) = rest
    BY <1>14 DEF DueAfter, rest
  <2> QED
    BY <1>5, <1>13, <2>10, <2>11 DEF ReadSound, p, r
<1>15. CASE ~now
  <2> DEFINE at2 == [k \in 1..L |-> at[k] - 1]
  <2>1. ASSUME NEW k \in 1..L PROVE at[k] # 1
    <3>1. CASE at[k] = 1
      <4>1. k = 1 /\ L >= 1 /\ p.frames = <<owed[1]>>
        BY <1>2, <1>3, <1>6, <1>11, <3>1, SMTT(30)
      <4> QED
        BY <1>12, <1>15, <4>1
    <3> QED
      BY <3>1
  <2>2. \A k \in 1..L : at[k] \in 2..n
    BY <1>3, <1>10, <2>1
  <2>3. at2 \in [1..L -> 1..(n - 1)]
    BY <1>3, <2>2
  <2>4. \A k \in 1..L : at2[k] = at[k] - 1
    OBVIOUS
  <2> HIDE DEF at2
  <2>5. ASSUME NEW k \in 1..L PROVE FoundAt(r, t, at2[k]) = <<owed[k]>>
    <3>1. at2[k] \in 1..(n - 1) /\ at2[k] + 1 = at[k]
      BY <1>3, <2>2, <2>3, <2>4
    <3>2. FoundAt(r, t, at2[k]) = FoundAt(a, st, at2[k] + 1)
      BY <1>8, <3>1
    <3> QED
      BY <1>2, <3>1, <3>2
  <2>6. ASSUME NEW k \in 1..L, NEW l \in 1..L, k < l PROVE at2[k] < at2[l]
    <3>1. at[k] < at[l] /\ at[k] \in 1..n /\ at[l] \in 1..n
      BY <1>2, <1>10, <2>6
    <3> QED
      BY <1>3, <2>4, <3>1
  <2>7. ASSUME clean, NEW i \in 1..(n - 1), FoundAt(r, t, i) # << >>
        PROVE  \E k \in 1..L : at2[k] = i
    <3>1. i + 1 \in 1..n /\ FoundAt(a, st, i + 1) # << >>
      BY <1>3, <1>8, <2>7
    <3>2. PICK k \in 1..L : at[k] = i + 1
      BY <1>2, <2>7, <3>1
    <3>3. at2[k] = i
      BY <2>4, <3>2
    <3> QED
      BY <3>3
  <2>8. Reads(p.decoder, r, owed, clean, t, at2)
    BY <1>2, <1>4, <1>7, <1>9, <2>3, <2>5, <2>6, <2>7 DEF Reads, L
  <2>9. Owed(p.decoder, r, owed, clean)
    BY <2>8 DEF Owed
  <2>10. DueAfter(owed, p.frames) = owed
    BY <1>15 DEF DueAfter
  <2> QED
    BY <1>5, <1>13, <2>9, <2>10 DEF ReadSound, p, r
<1> QED
  BY <1>14, <1>15

\* With no byte left nothing is due.
LEMMA OwedOnSilence ==
  ASSUME NEW d, NEW owed \in Seq(KissFrame), NEW clean, Owed(d, << >>, owed, clean)
  PROVE  owed = << >>
<1>1. PICK st, at : Reads(d, << >>, owed, clean, st, at)
  BY DEF Owed
<1>2. at \in [1..Len(owed) -> 1..0] /\ Len(owed) \in Nat
  BY <1>1, LenProperties DEF Reads
<1>3. CASE Len(owed) # 0
  <2>1. 1 \in 1..Len(owed)
    BY <1>2, <1>3
  <2>2. at[1] \in 1..0
    BY <1>2, <2>1
  <2> QED
    BY <2>2
<1> QED
  BY <1>3, EmptySeq

-----------------------------------------------------------------------------
(* What a decoder makes of a whole write.                                  *)

Pushing == [decoder : Sane, frames : Seq(KissFrame), error : BOOLEAN]

\* What a byte completes is a sequence of frames.
LEMMA FoundIsSeq == Found \subseteq Seq(KissFrame)
<1> SUFFICES ASSUME NEW f \in Found PROVE f \in Seq(KissFrame)
  OBVIOUS
<1>1. CASE f = << >>
  BY <1>1
<1>2. CASE f # << >>
  <2>1. PICK frame \in KissFrame : f = <<frame>>
    BY <1>2 DEF Found
  <2> QED
    BY <2>1
<1> QED
  BY <1>1, <1>2

\* One more byte (push_bytes).
LEMMA PushOnTypes ==
  ASSUME NEW p \in Pushing, NEW byte \in Bytes
  PROVE  PushOn(p, byte) \in Pushing
<1> DEFINE q == PushByte(p.decoder, byte)
<1>0. p.decoder \in Sane /\ p.frames \in Seq(KissFrame) /\ p.error \in BOOLEAN
  BY DEF Pushing
<1>1. q \in Pushes
  BY <1>0, PushTypes
<1> HIDE DEF q
<1>2. q.decoder \in Sane /\ q.frames \in Seq(KissFrame) /\ q.error \in BOOLEAN
  BY <1>1, FoundIsSeq DEF Pushes
<1>3. p.frames \o q.frames \in Seq(KissFrame)
  BY <1>0, <1>2, ConcatProperties
<1>4. Pushed(q.decoder, p.frames \o q.frames, q.error) \in Pushing
  BY <1>2, <1>3 DEF Pushed, Pushing
<1>5. PushOn(p, byte) = IF p.error THEN p
                        ELSE Pushed(q.decoder, p.frames \o q.frames, q.error)
  BY DEF PushOn, q
<1> QED
  BY <1>4, <1>5

\* push_bytes goes through the bytes one by one.
PushesOn(d, bytes, push) ==
  /\ push \in [0..Len(bytes) -> Pushing]
  /\ push[0] = Pushed(d, << >>, FALSE)
  /\ \A n \in 1..Len(bytes) : push[n] = PushOn(push[n - 1], bytes[n])
LEMMA PushBytesIsRecursive ==
  ASSUME NEW d \in Sane, NEW bytes \in Seq(Bytes)
  PROVE  \E push : PushesOn(d, bytes, push) /\ PushBytes(d, bytes) = push[Len(bytes)]
<1> DEFINE K == Len(bytes)
           V == Pushing
           base == Pushed(d, << >>, FALSE)
           Rec(f) == f = [n \in 0..K |-> IF n = 0 THEN base ELSE PushOn(f[n - 1], bytes[n])]
           step == [n \in 1..K |-> [v \in V |-> PushOn(v, bytes[n])]]
<1>0. K \in Nat /\ \A n \in 1..K : bytes[n] \in Bytes
  BY ElementOfSeq, LenProperties
<1>1. base \in V
  <2>1. << >> \in Seq(KissFrame)
    OBVIOUS
  <2> QED
    BY <2>1 DEF Pushed, Pushing
<1>2. IsStep(step, K, V)
  <2>1. \A n \in 1..K : \A v \in V : PushOn(v, bytes[n]) \in V
    BY <1>0, PushOnTypes
  <2> HIDE DEF V
  <2> QED
    BY <2>1 DEF IsStep
<1> HIDE DEF base, V
<1>3. PICK f : FollowsStep(f, K, V, base, step)
  <2> HIDE DEF step, K
  <2> QED
    BY <1>0, <1>1, <1>2, RecursionUpTo
<1>4. f \in [0..K -> V] /\ f[0] = base /\ \A n \in 1..K : f[n] = step[n][f[n - 1]]
  BY <1>3 DEF FollowsStep
<1>5. ASSUME NEW n \in 1..K PROVE f[n] = PushOn(f[n - 1], bytes[n])
  <2>1. n - 1 \in 0..K
    BY <1>0
  <2>2. f[n - 1] \in V
    BY <1>4, <2>1
  <2>3. step[n][f[n - 1]] = PushOn(f[n - 1], bytes[n])
    BY <2>2
  <2> QED
    BY <1>4, <2>3
<1>6. Rec(f)
  <2>1. ASSUME NEW n \in 0..K
        PROVE  f[n] = IF n = 0 THEN base ELSE PushOn(f[n - 1], bytes[n])
    <3>1. CASE n = 0
      BY <1>4, <3>1
    <3>2. CASE n # 0
      <4>1. n \in 1..K
        BY <1>0, <3>2
      <4> QED
        BY <1>5, <3>2, <4>1, Zenon
    <3> QED
      BY <3>1, <3>2
  <2> QED
    BY <1>4, <2>1
<1> DEFINE g == CHOOSE h : Rec(h)
<1>7. Rec(g)
  <2> HIDE DEF Rec
  <2> QED
    BY <1>6
<1>8. PushBytes(d, bytes) = g[K]
  BY DEF PushBytes, base
<1> HIDE DEF g
<1>9. g[0] = base /\ \A n \in 1..K : g[n] = PushOn(g[n - 1], bytes[n])
  BY <1>0, <1>7
<1>10. DOMAIN g = 0..K /\ g = [n \in 0..K |-> g[n]]
  BY <1>7
<1> HIDE DEF Rec
<1>11. \A n \in 0..K : g[n] \in V
  <2> DEFINE P == {n \in 0..K : g[n] \in V}
  <2>1. 0 \in P
    BY <1>0, <1>1, <1>9
  <2>2. ASSUME NEW n \in 0..(K - 1), n \in P PROVE n + 1 \in P
    <3>1. n + 1 \in 1..K /\ n + 1 \in 0..K /\ (n + 1) - 1 = n
      BY <1>0
    <3>2. g[n + 1] = PushOn(g[n], bytes[n + 1])
      BY <1>9, <3>1
    <3>3. PushOn(g[n], bytes[n + 1]) \in V
      BY <1>0, <2>2, <3>1, PushOnTypes DEF V
    <3> QED
      BY <3>1, <3>2, <3>3
  <2> HIDE DEF P, K
  <2>3. \A n \in 0..K : n \in P
    BY <1>0, <2>1, <2>2, UpTo
  <2> QED
    BY <2>3 DEF P
<1>12. g \in [0..K -> V]
  BY <1>10, <1>11
<1>13. PushesOn(d, bytes, g)
  BY <1>9, <1>12 DEF PushesOn, V, base
<1> QED
  BY <1>8, <1>13

\* The decoder stays sound.
LEMMA PushBytesTypes ==
  ASSUME NEW d \in Sane, NEW bytes \in Seq(Bytes)
  PROVE  PushBytes(d, bytes) \in Pushing
<1>1. PICK push : PushesOn(d, bytes, push) /\ PushBytes(d, bytes) = push[Len(bytes)]
  BY PushBytesIsRecursive
<1>2. Len(bytes) \in 0..Len(bytes) /\ push \in [0..Len(bytes) -> Pushing]
  BY <1>1, LenProperties DEF PushesOn
<1> QED
  BY <1>1, <1>2

\* A frame that fits comes out of its own bytes, after what was there before.
LEMMA SentWhole ==
  ASSUME NEW d \in Sane, NEW frame \in Framed, Len(frame.payload) < FrameMax
  PROVE  PushBytes(d, Encode(frame)) = Pushed(Begun, Buffered(d) \o <<frame>>, FALSE)
<1> DEFINE wire == Encode(frame)
           K == Len(wire)
           b == Buffered(d)
           G(i) == IF i = 0 THEN << >> ELSE IF i < K THEN b ELSE b \o <<frame>>
<1>1. PICK st : WireRun(d, frame, wire, K, st)
  BY WireIsRead
<1>2. /\ wire \in Seq(Bytes) /\ K \in Nat /\ K >= 3
      /\ st \in [0..K -> Sane] /\ st[0] = d /\ st[K] = Begun
      /\ \A i \in 1..K : st[i] = PushByte(st[i - 1], wire[i]).decoder
      /\ FoundAt(wire, st, 1) = b
      /\ \A i \in 2..(K - 1) : FoundAt(wire, st, i) = << >>
      /\ FoundAt(wire, st, K) = <<frame>>
      /\ \A i \in 1..K : ~FailsAt(wire, st, i)
  BY <1>1 DEF WireRun, Run
<1>3. PICK push : PushesOn(d, wire, push) /\ PushBytes(d, wire) = push[K]
  BY <1>2, PushBytesIsRecursive
<1>4. b \in Seq(KissFrame)
  BY BufferedTypes, FoundIsSeq
<1>5. b \o << >> = b /\ << >> \o b = b
  BY <1>4, ConcatEmptySeq
<1> HIDE DEF wire, K, b
<1>6. push[0] = Pushed(d, << >>, FALSE) /\ \A n \in 1..K : push[n] = PushOn(push[n - 1], wire[n])
  BY <1>3 DEF PushesOn, K
<1> DEFINE P == {i \in 0..K : push[i] = Pushed(st[i], G(i), FALSE)}
<1>7. 0 \in P
  <2>1. G(0) = << >> /\ 0 \in 0..K
    BY <1>2
  <2> HIDE DEF G
  <2>2. push[0] = Pushed(st[0], G(0), FALSE)
    BY <1>2, <1>6, <2>1, Zenon
  <2> QED
    BY <2>1, <2>2
<1>8. ASSUME NEW i \in 0..(K - 1), i \in P PROVE i + 1 \in P
  <2> DEFINE q == PushByte(st[i], wire[i + 1])
             p == Pushed(st[i], G(i), FALSE)
  <2>1. i + 1 \in 1..K /\ i + 1 \in 0..K /\ (i + 1) - 1 = i /\ i \in 0..K
    BY <1>2
  <2>2. q \in Pushes
    <3>1. st[i] \in Sane /\ wire[i + 1] \in Bytes
      BY <1>2, <2>1, ElementOfSeq DEF K
    <3> QED
      BY <3>1, PushTypes
  <2>3. q.decoder = st[i + 1] /\ ~q.error /\ q.frames = FoundAt(wire, st, i + 1)
    BY <1>2, <2>1 DEF FoundAt, FailsAt
  <2>4. q.error = FALSE
    BY <2>2, <2>3 DEF Pushes
  <2>5. push[i + 1] = PushOn(p, wire[i + 1])
    BY <1>6, <1>8, <2>1
  <2>6. p.decoder = st[i] /\ p.frames = G(i) /\ p.error = FALSE
    BY DEF Pushed
  <2> HIDE DEF p, G
  <2>7. PushOn(p, wire[i + 1]) = Pushed(q.decoder, p.frames \o q.frames, q.error)
    BY <2>6 DEF PushOn
  <2>8. p.frames \o q.frames = G(i + 1)
    <3>1. CASE i = 0
      <4>1. G(i) = << >> /\ G(i + 1) = b /\ q.frames = b
        BY <1>2, <2>3, <3>1 DEF G
      <4> QED
        BY <1>5, <2>6, <4>1
    <3>2. CASE i # 0 /\ i + 1 # K
      <4>1. G(i) = b /\ G(i + 1) = b /\ i + 1 \in 2..(K - 1)
        BY <1>2, <3>2 DEF G
      <4>2. q.frames = << >>
        BY <1>2, <2>3, <4>1
      <4> QED
        BY <1>5, <2>6, <4>1, <4>2
    <3>3. CASE i + 1 = K
      <4>1. i # 0 /\ i < K /\ i + 1 # 0 /\ ~(i + 1 < K)
        BY <1>2, <3>3
      <4>2. G(i) = b /\ G(i + 1) = b \o <<frame>>
        BY <4>1 DEF G
      <4>3. q.frames = <<frame>>
        BY <1>2, <2>3, <3>3
      <4> QED
        BY <2>6, <4>2, <4>3
    <3> QED
      BY <3>1, <3>2, <3>3
  <2> HIDE DEF q
  <2>9. push[i + 1] = Pushed(st[i + 1], G(i + 1), FALSE)
    BY <2>3, <2>4, <2>5, <2>7, <2>8
  <2> QED
    BY <2>1, <2>9
<1>9. K \in P
  <2> HIDE DEF P
  <2>1. \A i \in 0..K : i \in P
    BY <1>2, <1>7, <1>8, UpTo
  <2> QED
    BY <1>2, <2>1
<1>10. G(K) = b \o <<frame>>
  BY <1>2
<1> HIDE DEF G
<1>11. push[K] = Pushed(Begun, b \o <<frame>>, FALSE)
  BY <1>2, <1>9, <1>10
<1> QED
  BY <1>3, <1>11 DEF wire, b

-----------------------------------------------------------------------------
(* The link.                                                               *)

\* The frames of the modem, and of the link, can be told from framing.
LEMMA FramesAreFramed ==
  /\ ModemFrames \subseteq Framed
  /\ [command |-> "READY", payload |-> << >>] \in Framed
  /\ \A payload \in Payloads : DataFrame(payload) \in Framed
<1>1. {"DATA", "READY"} \subseteq OtherBytes /\ OtherBytes \subseteq Bytes
      /\ \A c \in OtherBytes : c \notin {"FEND", "FESC"}
  BY KissAssumption, SerialAssumption DEF Bytes
<1>2. ASSUME NEW frame \in ModemFrames PROVE frame \in Framed
  <2>1. frame \in KissFrame /\ frame.command \in OtherBytes
    BY SerialAssumption
  <2> QED
    BY <1>1, <2>1 DEF Framed
<1>3. [command |-> "READY", payload |-> << >>] \in Framed
  <2> DEFINE ready == [command |-> "READY", payload |-> << >>]
  <2>1. ready.command = "READY" /\ << >> \in Seq(Bytes) /\ "READY" \in Bytes
    BY <1>1
  <2>2. ready \in KissFrame
    BY <2>1 DEF KissFrame
  <2> QED
    BY <2>1, <2>2 DEF Framed
<1>4. ASSUME NEW payload \in Payloads PROVE DataFrame(payload) \in Framed
  <2>1. payload \in Seq(Bytes) /\ "DATA" \in Bytes
    BY <1>1, SerialAssumption
  <2>2. DataFrame(payload) \in KissFrame /\ DataFrame(payload).command = "DATA"
    BY <2>1 DEF KissFrame, DataFrame
  <2> QED
    BY <2>2 DEF Framed
<1> QED
  BY <1>2, <1>3, <1>4

\* What reaches the line is bytes, damaged or not.
LEMMA WireTypes ==
  ASSUME NEW frame \in Framed
  PROVE  /\ Encode(frame) \in Seq(Bytes)
         /\ \A n \in Nat : n < Len(Encode(frame)) => SubSeq(Encode(frame), 1, n) \in Seq(Bytes)
         /\ \A bytes \in OnLine(frame) : bytes \in Seq(Bytes)
<1> DEFINE wire == Encode(frame)
<1>1. wire \in Seq(Bytes)
  <2>1. \E st : WireRun(Fresh, frame, wire, Len(wire), st)
    BY FreshIsSane, WireIsRead
  <2> QED
    BY <2>1 DEF WireRun
<1> HIDE DEF wire
<1>2. Len(wire) \in Nat
  BY <1>1, LenProperties
<1>3. ASSUME NEW i \in Nat, NEW j \in Nat, i >= 1, j <= Len(wire)
      PROVE  SubSeq(wire, i, j) \in Seq(Bytes)
  <2>1. \A k \in i..j : wire[k] \in Bytes
    BY <1>1, <1>2, <1>3, ElementOfSeq
  <2> QED
    BY <1>2, <1>3, <2>1, SubSeqProperties
<1>4. ASSUME NEW n \in Nat, n < Len(wire) PROVE SubSeq(wire, 1, n) \in Seq(Bytes)
  BY <1>2, <1>3, <1>4
<1>5. ASSUME NEW bytes \in Damaged(wire) PROVE bytes \in Seq(Bytes)
  <2>1. CASE \E n \in 0..(Len(wire) - 1) : bytes = SubSeq(wire, 1, n)
    BY <1>2, <1>4, <2>1
  <2>2. CASE \E i \in 1..Len(wire) :
               bytes = SubSeq(wire, 1, i - 1) \o SubSeq(wire, i + 1, Len(wire))
    <3>1. PICK i \in 1..Len(wire) :
            bytes = SubSeq(wire, 1, i - 1) \o SubSeq(wire, i + 1, Len(wire))
      BY <2>2
    <3>2. SubSeq(wire, 1, i - 1) \in Seq(Bytes)
      BY <1>2, <1>3
    <3>3. SubSeq(wire, i + 1, Len(wire)) \in Seq(Bytes)
      BY <1>2, <1>3
    <3> QED
      BY <3>1, <3>2, <3>3, ConcatProperties
  <2> QED
    BY <1>5, <2>1, <2>2 DEF Damaged
<1>6. ASSUME NEW bytes \in OnLine(frame) PROVE bytes \in Seq(Bytes)
  BY <1>1, <1>5 DEF OnLine, wire
<1> QED
  BY <1>1, <1>4, <1>6 DEF wire

\* The line carries, in their order, the frames that are due.
LineInv ==
  /\ decoder \in Sane
  /\ rx \in Seq(Bytes)
  /\ due \in Seq(KissFrame)
  /\ Owed(decoder, rx, due, ~hurt)

SentOnLine == \E frame \in Framed : \E bytes \in OnLine(frame) : Transmit(frame, bytes)

\* What a step does to the line: it sends, it reads, or it leaves it alone.
LEMMA LineSteps ==
  ASSUME [Next]_vars
  PROVE  SentOnLine \/ ReadByte \/ UNCHANGED <<decoder, rx, due, hurt>>
<1>1. CASE UNCHANGED vars
  BY <1>1 DEF vars, line
<1>2. ASSUME NEW payload \in Payloads, SendGatewayBytes(payload)
      PROVE  UNCHANGED <<decoder, rx, due, hurt>>
  BY <1>2 DEF SendGatewayBytes
<1>3. ASSUME NEW payload \in Payloads, NEW n \in 0..(2 * FrameMax), SendFails(payload, n)
      PROVE  UNCHANGED <<decoder, rx, due, hurt>>
  BY <1>3 DEF SendFails
<1>4. ASSUME NEW kind \in Polls, Poll(kind) PROVE UNCHANGED <<decoder, rx, due, hurt>>
  BY <1>4 DEF Poll, line
<1>5. CASE ReadNothing
  BY <1>5 DEF ReadNothing, line
<1>6. CASE DrainFrame
  BY <1>6 DEF DrainFrame, line
<1>7. CASE DrainCommand
  BY <1>7 DEF DrainCommand, line
<1>8. CASE DrainCommandFails
  BY <1>8 DEF DrainCommandFails, line
<1>9. CASE ModemReady
  BY <1>9, FramesAreFramed DEF ModemReady, SentOnLine
<1>10. CASE ModemSends
  BY <1>10, FramesAreFramed DEF ModemSends, SentOnLine
<1>11. CASE ModemDone
  BY <1>11 DEF ModemDone
<1> QED
  BY <1>1, <1>2, <1>3, <1>4, <1>5, <1>6, <1>7, <1>8, <1>9, <1>10, <1>11
     DEF Next, PollStep, Modem

\* Sending keeps the invariant, whatever the line leaves of the frame.
LEMMA SendKeepsLine ==
  ASSUME LineInv, SentOnLine
  PROVE  LineInv'
<1>0. PICK frame \in Framed : \E bytes \in OnLine(frame) : Transmit(frame, bytes)
  BY DEF SentOnLine
<1>1. PICK bytes \in OnLine(frame) : Transmit(frame, bytes)
  BY <1>0
<1>2. bytes \in Seq(Bytes)
  BY WireTypes
<1>3. decoder' = decoder /\ rx' = rx \o bytes
  BY <1>1 DEF Transmit
<1>4. rx' \in Seq(Bytes) /\ decoder' \in Sane
  BY <1>2, <1>3, ConcatProperties DEF LineInv
<1>5. CASE bytes = Encode(frame)
  <2> DEFINE more == IF Len(frame.payload) < FrameMax THEN Append(due, frame) ELSE due
  <2>1. due' = more /\ hurt' = hurt
    BY <1>1, <1>5 DEF Transmit
  <2>2. Owed(decoder, rx \o bytes, more, ~hurt)
    <3> DEFINE clean == ~hurt
    <3>1. Owed(decoder, rx, due, clean)
      BY DEF LineInv
    <3> HIDE DEF clean
    <3>2. Owed(decoder, rx \o Encode(frame), more, clean)
      BY <3>1, OwedThenFrame DEF LineInv
    <3> QED
      BY <1>5, <3>2 DEF clean
  <2>3. more \in Seq(KissFrame)
    BY DEF LineInv, Framed
  <2> HIDE DEF more
  <2> QED
    BY <1>3, <1>4, <2>1, <2>2, <2>3 DEF LineInv
<1>6. CASE bytes # Encode(frame)
  <2>1. due' = due /\ hurt' = TRUE
    BY <1>1, <1>6 DEF Transmit
  <2>2. Owed(decoder, rx \o bytes, due, FALSE)
    <3> DEFINE clean == ~hurt
    <3>1. Owed(decoder, rx, due, clean)
      BY DEF LineInv
    <3> HIDE DEF clean
    <3> QED
      BY <1>2, <3>1, OwedThenNoise DEF LineInv
  <2>3. (~hurt') = FALSE
    BY <2>1
  <2>4. Owed(decoder', rx', due', ~hurt')
    BY <1>3, <2>1, <2>2, <2>3, Zenon
  <2>5. due' \in Seq(KissFrame)
    BY <2>1 DEF LineInv
  <2> QED
    BY <1>4, <2>4, <2>5 DEF LineInv
<1> QED
  BY <1>5, <1>6

\* What reading a byte does.
Saw(push) ==
  /\ push = PushByte(decoder, Head(rx)) /\ push \in Pushes
  /\ pending = {}
  /\ pending' = {push.frames[i] : i \in DOMAIN push.frames}
  /\ due' = DueAfter(due, push.frames)
  /\ ~hurt /\ push.frames # << >> => due # << >> /\ push.frames = <<Head(due)>>
LEMMA ReadKeepsLine ==
  ASSUME LineInv, ReadByte
  PROVE  LineInv' /\ \E push : Saw(push)
<1> DEFINE push == PushByte(decoder, Head(rx))
           clean == ~hurt
<1>1. /\ rx # << >> /\ rx' = Tail(rx) /\ decoder' = push.decoder /\ hurt' = hurt /\ pending = {}
      /\ pending' = {push.frames[i] : i \in DOMAIN push.frames}
      /\ due' = DueAfter(due, push.frames)
  BY DEF ReadByte, DueAfter
<1>2. decoder \in Sane /\ rx \in Seq(Bytes) /\ due \in Seq(KissFrame)
      /\ Owed(decoder, rx, due, clean)
  BY DEF LineInv
<1> HIDE DEF clean
<1>3. /\ push \in Pushes
      /\ Owed(push.decoder, Tail(rx), DueAfter(due, push.frames), clean)
      /\ clean /\ push.frames # << >> => due # << >> /\ push.frames = <<Head(due)>>
  <2>1. ReadSound(rx, due, clean, push)
    BY <1>1, <1>2, OwedThenRead
  <2> QED
    BY <2>1 DEF ReadSound
<1> HIDE DEF push
<1>4. Tail(rx) \in Seq(Bytes) /\ push.decoder \in Sane
  BY <1>1, <1>2, <1>3, HeadTailProperties DEF Pushes
<1>5. DueAfter(due, push.frames) \in Seq(KissFrame)
  BY <1>2, HeadTailProperties DEF DueAfter
<1>6. Owed(decoder', rx', due', ~hurt')
  BY <1>1, <1>3 DEF clean
<1>7. LineInv'
  BY <1>1, <1>4, <1>5, <1>6 DEF LineInv
<1>8. Saw(push)
  BY <1>1, <1>3 DEF Saw, clean, push
<1> QED
  BY <1>7, <1>8

\* Every step keeps the invariant.
LEMMA LineStep ==
  ASSUME LineInv, [Next]_vars
  PROVE  LineInv'
<1>1. CASE UNCHANGED <<decoder, rx, due, hurt>>
  BY <1>1 DEF LineInv
<1> QED
  BY <1>1, LineSteps, SendKeepsLine, ReadKeepsLine

\* Nothing is due on an empty line.
LEMMA LineStart == Init => LineInv
<1> SUFFICES ASSUME Init PROVE LineInv
  OBVIOUS
<1>1. decoder = Fresh /\ rx = << >> /\ due = << >>
  BY DEF Init
<1> DEFINE clean == ~hurt
<1> HIDE DEF clean
<1>2. Owed(Fresh, << >>, << >>, clean)
  BY OwedNothing
<1>3. Owed(decoder, rx, due, ~hurt)
  BY <1>1, <1>2 DEF clean
<1>4. << >> \in Seq(Bytes) /\ << >> \in Seq(KissFrame)
  OBVIOUS
<1> QED
  BY <1>1, <1>3, <1>4, FreshIsSane DEF LineInv

\* No damage of any kind and length on the line takes a whole frame with it
\* (KissDecoder::push_byte): when all bytes are read, all of them have come.
THEOREM WholeFramesAllArrive == Spec => []WholeFramesArrive
<1>1. LineInv => WholeFramesArrive
  <2> SUFFICES ASSUME LineInv, rx = << >> PROVE due = << >>
    BY DEF WholeFramesArrive
  <2> DEFINE clean == ~hurt
  <2>1. Owed(decoder, << >>, due, clean) /\ due \in Seq(KissFrame)
    BY DEF LineInv
  <2> HIDE DEF clean
  <2> QED
    BY <2>1, OwedOnSilence
<1> QED
  BY <1>1, LineStart, LineStep, PTL DEF Spec

\* A line that damages nothing shows the link the modem's frames, in their
\* order, and nothing besides (read_until_pending).
THEOREM OnlyWholeFramesArrive == Spec => NothingElseArrives
<1>1. ASSUME LineInv, [Next]_vars PROVE [SeeStep]_vars
  <2> SUFFICES ASSUME ~hurt, pending = {}, pending' # {}
               PROVE  due # << >> /\ pending' = {Head(due)}
    BY DEF SeeStep
  <2>1. CASE ReadByte
    <3>1. PICK push : Saw(push)
      BY <2>1, <1>1, ReadKeepsLine
    <3> DEFINE f == push.frames
    <3>2. pending' = {f[i] : i \in DOMAIN f} /\ (f # << >> => due # << >> /\ f = <<Head(due)>>)
      BY <3>1 DEF Saw
    <3> HIDE DEF f
    <3>3. f # << >>
      BY <3>2
    <3>4. due # << >> /\ f = <<Head(due)>>
      BY <3>2, <3>3
    <3>5. DOMAIN <<Head(due)>> = {1} /\ <<Head(due)>>[1] = Head(due)
      OBVIOUS
    <3> QED
      BY <3>2, <3>4, <3>5
  <2>2. CASE UNCHANGED vars
    BY <2>2 DEF vars
  <2>3. ASSUME NEW payload \in Payloads, SendGatewayBytes(payload) PROVE FALSE
    BY <2>3 DEF SendGatewayBytes
  <2>4. ASSUME NEW payload \in Payloads, NEW n \in 0..(2 * FrameMax), SendFails(payload, n)
        PROVE  FALSE
    BY <2>4 DEF SendFails
  <2>5. ASSUME NEW kind \in Polls, Poll(kind) PROVE FALSE
    BY <2>5 DEF Poll
  <2>6. CASE ReadNothing \/ DrainFrame \/ DrainCommand \/ DrainCommandFails
    BY <2>6 DEF ReadNothing, DrainFrame, DrainCommand, DrainCommandFails
  <2>7. CASE ModemReady \/ ModemSends \/ ModemDone
    BY <2>7 DEF ModemReady, ModemSends, ModemDone, Transmit
  <2> QED
    BY <1>1, <2>1, <2>2, <2>3, <2>4, <2>5, <2>6, <2>7 DEF Next, PollStep, Modem
<1> QED
  BY <1>1, LineStart, LineStep, PTL DEF Spec, NothingElseArrives

-----------------------------------------------------------------------------
(* Sending.                                                                *)

\* The decoder at the far end is sound, and the link is as new() built it.
SendInv == far \in Sane /\ config \in Configs /\ New(config)

\* A link that was just built satisfies it.
LEMMA SendStart == Init => SendInv
BY FreshIsSane DEF Init, SendInv

\* Every step keeps that.
LEMMA SendInvStep ==
  ASSUME SendInv, [Next]_vars
  PROVE  SendInv'
<1>1. CASE UNCHANGED <<config, far>>
  BY <1>1 DEF SendInv, New
<1>2. ASSUME NEW payload \in Payloads, SendGatewayBytes(payload) PROVE SendInv'
  <2> DEFINE bytes == Encode(DataFrame(payload))
  <2>1. bytes \in Seq(Bytes)
    BY FramesAreFramed, WireTypes
  <2>2. far' = PushBytes(far, bytes).decoder /\ config' = config
    BY <1>2 DEF SendGatewayBytes, Write
  <2> HIDE DEF bytes
  <2>3. PushBytes(far, bytes) \in Pushing
    BY <2>1, PushBytesTypes DEF SendInv
  <2> QED
    BY <2>2, <2>3 DEF SendInv, New, Pushing
<1>3. ASSUME NEW payload \in Payloads, NEW n \in 0..(2 * FrameMax), SendFails(payload, n)
      PROVE  SendInv'
  <2> DEFINE bytes == SubSeq(Encode(DataFrame(payload)), 1, n)
  <2>1. n \in Nat /\ n < Len(Encode(DataFrame(payload)))
    BY <1>3, KissAssumption DEF SendFails
  <2>2. bytes \in Seq(Bytes)
    BY <2>1, FramesAreFramed, WireTypes
  <2>3. far' = PushBytes(far, bytes).decoder /\ config' = config
    BY <1>3 DEF SendFails, Write
  <2> HIDE DEF bytes
  <2>4. PushBytes(far, bytes) \in Pushing
    BY <2>2, PushBytesTypes DEF SendInv
  <2> QED
    BY <2>3, <2>4 DEF SendInv, New, Pushing
<1>4. CASE UNCHANGED vars
  BY <1>1, <1>4 DEF vars, writing
<1>5. ASSUME NEW kind \in Polls, Poll(kind) PROVE SendInv'
  BY <1>1, <1>5 DEF Poll, writing
<1>6. CASE ReadByte
  BY <1>1, <1>6 DEF ReadByte, writing
<1>7. CASE ReadNothing \/ DrainFrame \/ DrainCommand \/ DrainCommandFails
  BY <1>1, <1>7 DEF ReadNothing, DrainFrame, DrainCommand, DrainCommandFails, writing
<1>8. CASE ModemReady \/ ModemSends \/ ModemDone
  BY <1>1, <1>8 DEF ModemReady, ModemSends, ModemDone, Transmit, writing
<1> QED
  BY <1>2, <1>3, <1>4, <1>5, <1>6, <1>7, <1>8 DEF Next, PollStep, Modem

\* What is sent with success comes out at the far end, after at most one
\* frame that a failed write began.
LEMMA SendsWhole ==
  ASSUME SendInv, NEW payload \in Payloads, MaySend(payload)
  PROVE  PushBytes(far, Encode(DataFrame(payload))) =
           Pushed(Begun, Buffered(far) \o <<DataFrame(payload)>>, FALSE)
<1>1. config \in Config /\ config.mtu + 1 <= FrameMax /\ Len(payload) <= config.mtu
  BY SerialAssumption DEF SendInv, New, MaySend
<1>2. payload \in Seq(Bytes) /\ DataFrame(payload).payload = payload
  BY SerialAssumption DEF DataFrame
<1>3. Len(DataFrame(payload).payload) < FrameMax
  BY <1>1, <1>2, KissAssumption, LenProperties DEF Config
<1> QED
  BY <1>3, FramesAreFramed, SentWhole DEF SendInv

\* send_gateway_bytes leaves on the line what a decoder reads as the frame,
\* whatever failed before it.
THEOREM SentStaysReadable == Spec => SentIsReadable
<1>1. ASSUME SendInv, [Next]_vars PROVE [SendStep]_vars
  <2> SUFFICES ASSUME NEW payload \in Payloads, SendGatewayBytes(payload)
               PROVE  PushBytes(far, Encode(DataFrame(payload))) =
                        Pushed(far', Buffered(far) \o <<DataFrame(payload)>>, FALSE)
    BY DEF SendStep
  <2> DEFINE p == PushBytes(far, Encode(DataFrame(payload)))
  <2>1. MaySend(payload) /\ far' = p.decoder
    BY DEF SendGatewayBytes, Write
  <2>2. p = Pushed(Begun, Buffered(far) \o <<DataFrame(payload)>>, FALSE)
    BY <1>1, <2>1, SendsWhole
  <2> HIDE DEF p
  <2>3. p.decoder = Begun
    BY <2>2 DEF Pushed
  <2> QED
    BY <2>1, <2>2, <2>3 DEF p
<1> QED
  BY <1>1, SendStart, SendInvStep, PTL DEF Spec, SentIsReadable

-----------------------------------------------------------------------------
(* Flow control.                                                           *)

ReadyFrame(frame) == frame.command = "READY"
NoReady(frames) == \A i \in 1..Len(frames) : ~ReadyFrame(frames[i])

\* The free modem's READY is in one place: on the line, decoded, or known to
\* the link.  A modem that is not free has none anywhere.
OneReady ==
  /\ modem # "free" => /\ ~interface_ready /\ NoReady(due)
                       /\ \A frame \in pending : ~ReadyFrame(frame)
  /\ interface_ready => NoReady(due) /\ \A frame \in pending : ~ReadyFrame(frame)
  /\ (\E frame \in pending : ReadyFrame(frame)) => NoReady(due)
  /\ \A i \in 1..Len(due) : \A j \in 1..Len(due) :
       ReadyFrame(due[i]) /\ ReadyFrame(due[j]) => i = j
Undisturbed == config.flow_control /\ ~hurt /\ ~torn
ReadyInv == Undisturbed => OneReady

\* Before the first READY none is on its way.
LEMMA ReadyStart == Init => ReadyInv
<1> SUFFICES ASSUME Init, Undisturbed PROVE OneReady
  BY DEF ReadyInv
<1>1. due = << >> /\ pending = {} /\ ~interface_ready
  BY DEF Init, Undisturbed
<1>2. 1..Len(due) = {}
  BY <1>1
<1>3. NoReady(due)
  BY <1>2 DEF NoReady
<1> QED
  BY <1>1, <1>2, <1>3 DEF OneReady

\* Sending consumes the READY.
LEMMA SendKeepsReady ==
  ASSUME SendInv, ReadyInv, NEW payload \in Payloads, SendGatewayBytes(payload)
  PROVE  ReadyInv'
<1> SUFFICES ASSUME Undisturbed' PROVE OneReady'
  BY DEF ReadyInv
<1>1. UNCHANGED <<config, pending, due, hurt, torn>>
  BY DEF SendGatewayBytes
<1>2. Undisturbed /\ OneReady /\ config.flow_control
  BY <1>1 DEF Undisturbed, ReadyInv
<1>3. interface_ready /\ ~interface_ready'
  BY <1>2 DEF SendGatewayBytes, MaySend, CanTransmit, MarkTxStarted
<1>4. modem' = "busy"
  <2> DEFINE p == PushBytes(far, Encode(DataFrame(payload)))
  <2>1. p = Pushed(Begun, Buffered(far) \o <<DataFrame(payload)>>, FALSE)
    BY SendsWhole DEF SendGatewayBytes
  <2>2. modem' = IF p.frames = << >> THEN modem ELSE "busy"
    BY DEF SendGatewayBytes, Write
  <2> HIDE DEF p
  <2> DEFINE b == Buffered(far)
             f == <<DataFrame(payload)>>
  <2>3. b \in Seq(KissFrame) /\ f \in Seq(KissFrame) /\ Len(f) = 1
    <3>1. DataFrame(payload) \in KissFrame
      BY FramesAreFramed DEF Framed
    <3>2. far \in Sane
      BY DEF SendInv
    <3> QED
      BY <3>1, <3>2, BufferedTypes, FoundIsSeq
  <2>4. p.frames = b \o f
    BY <2>1 DEF Pushed
  <2> HIDE DEF b, f
  <2>5. Len(b \o f) = Len(b) + 1 /\ Len(b) \in Nat
    <3>1. Len(b \o f) = Len(b) + Len(f)
      BY <2>3, ConcatProperties, Zenon
    <3> QED
      BY <2>3, <3>1, LenProperties
  <2>6. p.frames # << >>
    BY <2>4, <2>5
  <2> QED
    BY <2>2, <2>6
<1>5. NoReady(due) /\ \A frame \in pending : ~ReadyFrame(frame)
  BY <1>2, <1>3 DEF OneReady
<1> QED
  BY <1>1, <1>3, <1>4, <1>5 DEF OneReady, NoReady

\* Reading moves it from the line to the pending frame.
LEMMA ReadKeepsReady ==
  ASSUME LineInv, ReadyInv, ReadByte
  PROVE  ReadyInv'
<1> SUFFICES ASSUME Undisturbed' PROVE OneReady'
  BY DEF ReadyInv
<1>1. UNCHANGED <<config, interface_ready, modem, hurt, torn>>
  BY DEF ReadByte, writing
<1>2. OneReady /\ ~hurt
  BY <1>1 DEF Undisturbed, ReadyInv
<1>3. PICK push : Saw(push)
  BY ReadKeepsLine
<1> DEFINE f == push.frames
<1>4. /\ pending = {} /\ pending' = {f[i] : i \in DOMAIN f}
      /\ due' = DueAfter(due, f)
      /\ f # << >> => due # << >> /\ f = <<Head(due)>>
  BY <1>2, <1>3 DEF Saw
<1> HIDE DEF f
<1>5. due \in Seq(KissFrame) /\ Len(due) \in Nat
  BY LenProperties DEF LineInv
<1>6. CASE f = << >>
  <2>1. due' = due
    BY <1>4, <1>6 DEF DueAfter
  <2>2. pending' = {}
    BY <1>4, <1>6
  <2> QED
    BY <1>1, <1>2, <2>1, <2>2 DEF OneReady, NoReady
<1>7. CASE f # << >>
  <2>1. due # << >> /\ f = <<Head(due)>> /\ due' = Tail(due)
    BY <1>4, <1>7 DEF DueAfter
  <2>2. DOMAIN <<Head(due)>> = {1} /\ <<Head(due)>>[1] = Head(due)
    OBVIOUS
  <2>3. pending' = {due[1]}
    <3>1. pending' = {Head(due)}
      BY <1>4, <2>1, <2>2
    <3> QED
      BY <1>5, <2>1, <3>1
  <2>4. 1 \in 1..Len(due)
    BY <1>5, <2>1
  <2>5. Len(due') = Len(due) - 1 /\ \A i \in 1..(Len(due) - 1) : due'[i] = due[i + 1]
    BY <1>5, <2>1, HeadTailProperties
  <2>6. \A i \in 1..(Len(due) - 1) : i + 1 \in 1..Len(due) /\ i + 1 # 1
    BY <1>5
  <2>7. NoReady(due) => NoReady(due') /\ ~ReadyFrame(due[1])
    BY <2>4, <2>5, <2>6 DEF NoReady
  <2>8. ReadyFrame(due[1]) => NoReady(due')
    BY <1>2, <2>4, <2>5, <2>6 DEF NoReady, OneReady
  <2>9. ASSUME NEW i \in 1..(Len(due) - 1), NEW j \in 1..(Len(due) - 1),
               ReadyFrame(due'[i]), ReadyFrame(due'[j])
        PROVE  i = j
    <3>1. i + 1 = j + 1
      BY <1>2, <2>5, <2>6, <2>9 DEF OneReady
    <3> QED
      BY <1>5, <3>1
  <2> QED
    BY <1>1, <1>2, <2>3, <2>5, <2>7, <2>8, <2>9 DEF OneReady
<1> QED
  BY <1>6, <1>7

\* A frame that is not READY changes nothing; a READY comes when there is none.
LEMMA TransmitKeepsReady ==
  ASSUME LineInv, ReadyInv, NEW frame \in Framed, NEW bytes \in OnLine(frame),
         Transmit(frame, bytes),
         \/ modem' = modem /\ ~ReadyFrame(frame)
         \/ modem = "owes" /\ modem' = "free"
  PROVE  ReadyInv'
<1> SUFFICES ASSUME Undisturbed' PROVE OneReady'
  BY DEF ReadyInv
<1>1. UNCHANGED <<config, interface_ready, pending, torn>>
  BY DEF Transmit, writing
<1>2. bytes = Encode(frame) /\ hurt' = hurt
  BY DEF Transmit, Undisturbed
<1>3. OneReady
  BY <1>1, <1>2 DEF Undisturbed, ReadyInv
<1>4. due' = due \/ due' = Append(due, frame)
  BY <1>2 DEF Transmit
<1>5. due \in Seq(KissFrame) /\ Len(due) \in Nat /\ frame \in KissFrame
  BY LenProperties DEF LineInv, Framed
<1>6. CASE due' = due
  <2>1. CASE modem' = modem
    BY <1>1, <1>3, <1>6, <2>1 DEF OneReady, NoReady
  <2>2. CASE modem = "owes" /\ modem' = "free"
    BY <1>1, <1>3, <1>6, <2>2 DEF OneReady, NoReady
  <2> QED
    BY <2>1, <2>2
<1>7. CASE due' = Append(due, frame)
  <2>1. /\ Len(due') = Len(due) + 1 /\ due'[Len(due) + 1] = frame
        /\ \A i \in 1..Len(due) : due'[i] = due[i]
    BY <1>5, <1>7, AppendProperties
  <2>2. \A i \in 1..(Len(due) + 1) : i \in 1..Len(due) \/ i = Len(due) + 1
    BY <1>5
  <2>3. CASE modem' = modem /\ ~ReadyFrame(frame)
    <3>1. NoReady(due) => NoReady(due')
      BY <2>1, <2>2, <2>3 DEF NoReady
    <3>2. ASSUME NEW i \in 1..(Len(due) + 1), NEW j \in 1..(Len(due) + 1),
                 ReadyFrame(due'[i]), ReadyFrame(due'[j])
          PROVE  i = j
      <4>1. i \in 1..Len(due) /\ j \in 1..Len(due)
        BY <2>1, <2>2, <2>3, <3>2
      <4> QED
        BY <1>3, <2>1, <3>2, <4>1 DEF OneReady
    <3> QED
      BY <1>1, <1>3, <2>1, <2>3, <3>1, <3>2 DEF OneReady
  <2>4. CASE modem = "owes" /\ modem' = "free"
    <3>1. ~interface_ready /\ NoReady(due) /\ \A g \in pending : ~ReadyFrame(g)
      BY <1>3, <2>4 DEF OneReady
    <3>2. ASSUME NEW i \in 1..(Len(due) + 1), NEW j \in 1..(Len(due) + 1),
                 ReadyFrame(due'[i]), ReadyFrame(due'[j])
          PROVE  i = j
      BY <2>1, <2>2, <3>1, <3>2 DEF NoReady
    <3> QED
      BY <1>1, <2>1, <2>4, <3>1, <3>2 DEF OneReady
  <2> QED
    BY <2>3, <2>4
<1> QED
  BY <1>4, <1>6, <1>7

\* Every step keeps the one READY in one place.
LEMMA ReadyStep ==
  ASSUME LineInv, SendInv, ReadyInv, [Next]_vars
  PROVE  ReadyInv'
<1> DEFINE none == UNCHANGED <<config, interface_ready, modem, due, hurt, torn>>
<1>1. ASSUME none, pending' = pending \/ pending' = {} PROVE ReadyInv'
  BY <1>1 DEF ReadyInv, OneReady, Undisturbed, NoReady
<1>2. ASSUME NEW payload \in Payloads, SendGatewayBytes(payload) PROVE ReadyInv'
  BY <1>2, SendKeepsReady
<1>3. ASSUME NEW payload \in Payloads, NEW n \in 0..(2 * FrameMax), SendFails(payload, n)
      PROVE  ReadyInv'
  BY <1>3 DEF SendFails, ReadyInv, Undisturbed
<1>4. CASE UNCHANGED vars
  BY <1>1, <1>4 DEF vars, line, writing
<1>5. ASSUME NEW kind \in Polls, Poll(kind) PROVE ReadyInv'
  BY <1>1, <1>5 DEF Poll, line, writing
<1>6. CASE ReadByte
  BY <1>6, ReadKeepsReady
<1>7. CASE ReadNothing
  BY <1>1, <1>7 DEF ReadNothing, line, writing
<1>8. CASE DrainFrame
  BY <1>1, <1>8 DEF DrainFrame, line, writing
<1>9. CASE DrainCommandFails
  BY <1>1, <1>9 DEF DrainCommandFails, line, writing
<1>10. CASE DrainCommand
  <2>1. PICK frame \in pending : ApplyEvent(frame)
    BY <1>10 DEF DrainCommand
  <2>2. pending' = {} /\ UNCHANGED <<config, modem, due, hurt, torn>>
    BY <1>10 DEF DrainCommand, line, writing
  <2>3. interface_ready' => ReadyFrame(frame) \/ interface_ready
    BY <2>1 DEF ApplyEvent, ReadyFrame
  <2>4. \A g \in pending' : FALSE
    BY <2>2
  <2> QED
    BY <2>2, <2>3, <2>4 DEF ReadyInv, OneReady, Undisturbed, NoReady
<1>11. CASE ModemReady
  <2> DEFINE ready == [command |-> "READY", payload |-> << >>]
  <2>1. ready \in Framed
    BY FramesAreFramed
  <2>2. modem = "owes" /\ modem' = "free" /\ \E bytes \in OnLine(ready) : Transmit(ready, bytes)
    BY <1>11 DEF ModemReady
  <2> HIDE DEF ready
  <2>3. PICK bytes \in OnLine(ready) : Transmit(ready, bytes)
    BY <2>2
  <2> QED
    BY <2>1, <2>2, <2>3, TransmitKeepsReady
<1>12. CASE ModemSends
  <2>1. PICK frame \in ModemFrames : \E bytes \in OnLine(frame) : Transmit(frame, bytes)
    BY <1>12 DEF ModemSends
  <2>2. PICK bytes \in OnLine(frame) : Transmit(frame, bytes)
    BY <2>1
  <2>3. frame \in Framed /\ ~ReadyFrame(frame) /\ modem' = modem
    BY <1>12, FramesAreFramed, SerialAssumption DEF ModemSends, ReadyFrame
  <2> QED
    BY <2>2, <2>3, TransmitKeepsReady
<1>13. CASE ModemDone
  <2>1. UNCHANGED <<config, interface_ready, pending, due, hurt, torn>>
        /\ modem = "busy" /\ modem' = "owes"
    BY <1>13 DEF ModemDone, writing
  <2> QED
    BY <2>1 DEF ReadyInv, OneReady, Undisturbed, NoReady
<1> QED
  BY <1>2, <1>3, <1>4, <1>5, <1>6, <1>7, <1>8, <1>9, <1>10, <1>11, <1>12, <1>13
     DEF Next, PollStep, Modem

\* With flow control, and as long as nothing is damaged and no write fails,
\* a link that is ready has a modem that is free (mark_tx_started,
\* apply_event).
THEOREM ReadyStaysTrue == Spec => []ReadyMeansFree
<1> DEFINE IInv == LineInv /\ SendInv /\ ReadyInv
<1>1. Init => IInv
  BY LineStart, SendStart, ReadyStart
<1>2. ASSUME IInv, [Next]_vars PROVE IInv'
  BY <1>2, LineStep, SendInvStep, ReadyStep
<1>3. IInv => ReadyMeansFree
  BY DEF ReadyInv, OneReady, Undisturbed, ReadyMeansFree
<1> QED
  BY <1>1, <1>2, <1>3, PTL DEF Spec

-----------------------------------------------------------------------------
(* The loop of a poll.                                                     *)

\* What a poll has before it: to read the bytes and to drain a frame.
Work == 2 * Len(rx) + IF pending = {} THEN 0 ELSE 1

\* While a poll runs no call comes between its steps: the modem may send, and
\* a step of the poll returns or leaves less to do.
PollShrinks ==
  call # "none" => \/ Modem
                   \/ call' = "none"
                   \/ call' = call /\ Work' < Work

\* A step during a poll.
LEMMA StepOfPoll ==
  ASSUME LineInv, [Next]_vars
  PROVE  PollShrinks \/ UNCHANGED vars
<1> SUFFICES ASSUME call # "none", ~UNCHANGED vars, ~Modem PROVE PollShrinks
  BY DEF PollShrinks
<1>0. rx \in Seq(Bytes) /\ Len(rx) \in Nat
  BY DEF LineInv
<1>1. PollStep
  <2>1. ASSUME NEW payload \in Payloads,
               \/ SendGatewayBytes(payload)
               \/ \E n \in 0..(2 * FrameMax) : SendFails(payload, n)
        PROVE  FALSE
    BY <2>1 DEF SendGatewayBytes, SendFails, MaySend
  <2>2. ASSUME NEW kind \in Polls, Poll(kind) PROVE FALSE
    BY <2>2 DEF Poll
  <2> QED
    BY <2>1, <2>2 DEF Next
<1>2. CASE ReadByte
  <2>1. /\ pending = {} /\ rx # << >> /\ rx' = Tail(rx)
        /\ call' = "none" \/ call' = call
    BY <1>2 DEF ReadByte, Return
  <2>2. Len(rx') = Len(rx) - 1
    BY <1>0, <2>1, HeadTailProperties
  <2>3. Work = 2 * Len(rx)
    BY <1>0, <2>1 DEF Work
  <2>4. Work' <= 2 * Len(rx') + 1 /\ Work' \in Int
    BY <1>0, <2>2 DEF Work
  <2> QED
    BY <1>0, <2>1, <2>2, <2>3, <2>4 DEF PollShrinks
<1>3. CASE DrainCommand
  <2>1. /\ pending # {} /\ pending' = {} /\ rx' = rx
        /\ call' = "none" \/ call' = call
    BY <1>3 DEF DrainCommand, Return, line
  <2>2. Work = 2 * Len(rx) + 1 /\ Work' = 2 * Len(rx)
    BY <1>0, <2>1 DEF Work
  <2> QED
    BY <1>0, <2>1, <2>2 DEF PollShrinks
<1>4. CASE ReadNothing \/ DrainFrame \/ DrainCommandFails
  BY <1>4 DEF ReadNothing, DrainFrame, DrainCommandFails, Return, PollShrinks
<1> QED
  BY <1>1, <1>2, <1>3, <1>4 DEF PollStep

\* A poll ends after at most two steps for each byte that it has to read,
\* whatever the bytes are and whatever frames they make (read_until_pending
\* and the loops of poll_gateway_frame_at and its variants).
THEOREM PollLoopShrinks == Spec => [][PollShrinks]_vars
<1>1. ASSUME LineInv, [Next]_vars PROVE [PollShrinks]_vars
  BY <1>1, StepOfPoll
<1> QED
  BY <1>1, LineStart, LineStep, PTL DEF Spec
=============================================================================
