-------------------------------- MODULE Kiss --------------------------------
(***************************************************************************)
(* KISS framing (hyf_link_kiss/src/encode.rs, decode.rs): how a frame is   *)
(* put on a serial line and how the decoder finds it again, byte by byte.  *)
(* Of the 256 bytes only the four that framing treats specially have a     *)
(* name here; every other byte is one of OtherBytes.                       *)
(***************************************************************************)
EXTENDS Naturals, Sequences

CONSTANTS OtherBytes,  \* bytes without a meaning for framing, commands included
          FrameMax     \* N of KissDecoder: room for the command and its payload

ASSUME KissAssumption ==
  /\ OtherBytes \cap {"FEND", "FESC", "TFEND", "TFESC"} = {}
  /\ FrameMax \in Nat

Bytes == OtherBytes \cup {"FEND", "FESC", "TFEND", "TFESC"}

\* KissFrameRef
KissFrame == [command: Bytes, payload: Seq(Bytes)]

-----------------------------------------------------------------------------
(* encode_command_frame, and write_kiss_frame of the serial link           *)

\* Mutant: FESC itself is not escaped.
EscapedFendOnly(byte) == IF byte = "FEND" THEN <<"FESC", "TFEND">> ELSE <<byte>>

Escaped(byte) ==
  CASE byte = "FEND" -> <<"FESC", "TFEND">>
    [] byte = "FESC" -> <<"FESC", "TFESC">>
    [] OTHER -> <<byte>>

\* The command is written as it is.
Encode(frame) ==
  LET escaped[n \in 0..Len(frame.payload)] ==
        IF n = 0 THEN << >> ELSE escaped[n - 1] \o Escaped(frame.payload[n])
  IN <<"FEND", frame.command>> \o escaped[Len(frame.payload)] \o <<"FEND">>

-----------------------------------------------------------------------------
(* KissDecoder                                                             *)

Decoder == [buffer: Seq(Bytes), in_frame: BOOLEAN, escape_pending: BOOLEAN]

\* new, reset
Fresh == [buffer |-> << >>, in_frame |-> FALSE, escape_pending |-> FALSE]

\* What push_byte does: the decoder afterwards, the frames handed to
\* on_frame (none or one), and whether an error is returned.
Pushed(d, frames, error) == [decoder |-> d, frames |-> frames, error |-> error]

\* push_decoded_byte: FrameTooLarge resets.
PushDecodedByte(d, byte) ==
  IF Len(d.buffer) = FrameMax THEN Pushed(Fresh, << >>, TRUE)
  ELSE Pushed([d EXCEPT !.buffer = Append(@, byte)], << >>, FALSE)

\* The frame in the buffer; an empty buffer holds none.
Buffered(d) ==
  IF d.buffer = << >> THEN << >>
  ELSE <<[command |-> Head(d.buffer), payload |-> Tail(d.buffer)]>>

\* Mutants: a frame end inside an escape leaves the escape pending; the
\* buffer is not emptied.
PushFendKeepsEscape(d) ==
  Pushed([d EXCEPT !.buffer = << >>, !.in_frame = TRUE],
         IF d.in_frame THEN Buffered(d) ELSE << >>, FALSE)

PushFendKeepsBuffer(d) ==
  Pushed([d EXCEPT !.in_frame = TRUE, !.escape_pending = FALSE],
         IF d.in_frame THEN Buffered(d) ELSE << >>, FALSE)

\* A frame end finishes the frame, if there is one, and begins the next.
PushFend(d) ==
  Pushed([Fresh EXCEPT !.in_frame = TRUE],
         IF d.in_frame THEN Buffered(d) ELSE << >>, FALSE)

\* The byte after FESC; any but two are a MalformedEscape, which resets.
PushEscape(d, byte) ==
  LET unescaped == [d EXCEPT !.escape_pending = FALSE]
  IN CASE byte = "TFEND" -> PushDecodedByte(unescaped, "FEND")
       [] byte = "TFESC" -> PushDecodedByte(unescaped, "FESC")
       [] OTHER -> Pushed(Fresh, << >>, TRUE)

\* push_byte; bytes outside a frame are skipped.
PushByte(d, byte) ==
  CASE byte = "FEND" -> PushFend(d)
    [] byte # "FEND" /\ ~d.in_frame -> Pushed(d, << >>, FALSE)
    [] byte # "FEND" /\ d.in_frame /\ d.escape_pending -> PushEscape(d, byte)
    [] byte = "FESC" /\ d.in_frame /\ ~d.escape_pending ->
         Pushed([d EXCEPT !.escape_pending = TRUE], << >>, FALSE)
    [] OTHER -> PushDecodedByte(d, byte)

\* push_bytes on one decoder, with every frame it finds; it stops at the
\* first error.
PushOn(p, byte) ==
  LET q == PushByte(p.decoder, byte)
  IN IF p.error THEN p ELSE Pushed(q.decoder, p.frames \o q.frames, q.error)
PushBytes(d, bytes) ==
  LET push[n \in 0..Len(bytes)] ==
        IF n = 0 THEN Pushed(d, << >>, FALSE) ELSE PushOn(push[n - 1], bytes[n])
  IN push[Len(bytes)]
=============================================================================
