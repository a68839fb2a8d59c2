--------------------------- MODULE RNodeCommands ---------------------------
(***************************************************************************)
(* hyf_link_rnode: the commands a host sends to an RNode modem, the events *)
(* it reads from the modem's frames, and the readiness probe.  Numbers of  *)
(* four bytes stay byte strings; of the KISS bytes see module Kiss.        *)
(***************************************************************************)
EXTENDS Bytes

LOCAL INSTANCE TLC

CONSTANTS
    RNodeFrameMax,      \* N of the KissDecoder
    MaxReads            \* RNODE_HIL_READINESS_MAX_READS

\* Bytes as module Kiss names them
KissSpecial == 192 :> "FEND" @@ 219 :> "FESC" @@ 220 :> "TFEND" @@ 221 :> "TFESC"
KissName == [b \in 0..255 |-> IF b \in DOMAIN KissSpecial THEN KissSpecial[b] ELSE ToString(b)]
KissByte == [name \in {KissName[b] : b \in 0..255} |-> CHOOSE b \in 0..255 : KissName[b] = name]
K == INSTANCE Kiss WITH FrameMax <- RNodeFrameMax,
                        OtherBytes <- {KissName[b] : b \in 0..255 \ DOMAIN KissSpecial}
ToKiss(bytes) == [i \in DOMAIN bytes |-> KissName[bytes[i]]]
FromKiss(names) == [i \in DOMAIN names |-> KissByte[names[i]]]

-----------------------------------------------------------------------------
(* Commands: a name and the bytes of the value.                            *)

CommandByte ==
    [data |-> 0, frequency |-> 1, bandwidth |-> 2, tx_power |-> 3, spreading_factor |-> 4,
     coding_rate |-> 5, radio_state |-> 6, detect |-> 8, leave |-> 10, ready |-> 15,
     stat_rx |-> 33, stat_tx |-> 34, rssi |-> 35, snr |-> 36, platform |-> 72, mcu |-> 73,
     firmware |-> 80, error |-> 144]
RadioStates == {0, 1, 255}              \* off, on, ask
RssiOffset == 157

\* validate_frequency_hz to validate_coding_rate
Least == [frequency |-> <<8, 42, 116, 64>>, bandwidth |-> <<0, 0, 30, 120>>,
          tx_power |-> <<0>>, spreading_factor |-> <<5>>, coding_rate |-> <<5>>]
Greatest == [frequency |-> <<178, 208, 94, 0>>, bandwidth |-> <<0, 24, 203, 168>>,
             tx_power |-> <<37>>, spreading_factor |-> <<12>>, coding_rate |-> <<8>>]
AtMost(a, b) ==
    \/ a = b
    \/ \E i \in DOMAIN a : a[i] < b[i] /\ \A j \in 1..(i - 1) : a[j] = b[j]
InRange(name, value) == AtMost(Least[name], value) /\ AtMost(value, Greatest[name])

\* encode_command_frame: the room is looked at first.
EncodeFrame(command, payload, room) ==
    LET wire == K!Encode([command |-> KissName[command], payload |-> ToKiss(payload)]) IN
    IF room < Len(wire) THEN Err("OutputBufferTooShort") ELSE Ok(FromKiss(wire))

\* encode_command
CommandPayload(command) ==
    CASE command.name = "detect" -> <<115>>
      [] command.name = "leave" -> <<255>>
      [] OTHER -> command.value
EncodeCommand(command, room) ==
    IF command.name \in DOMAIN Least /\ ~InRange(command.name, command.value)
    THEN Err("InvalidParameter")
    ELSE EncodeFrame(CommandByte[command.name], CommandPayload(command), room)

-----------------------------------------------------------------------------
(* Events: a kind and its bytes, an RSSI or an SNR as a number.            *)

Event(kind, value) == [kind |-> kind, value |-> value]

\* firmware_supported
FirmwareSupported(version) == AtMost(<<1, 52>>, version)

\* The length that expect_len demands; others take any payload.
PayloadLen ==
    [frequency |-> 4, bandwidth |-> 4, tx_power |-> 1, spreading_factor |-> 1,
     coding_rate |-> 1, radio_state |-> 1, stat_rx |-> 4, stat_tx |-> 4, rssi |-> 1,
     snr |-> 1, platform |-> 1, mcu |-> 1, firmware |-> 2, error |-> 1]

\* parse_command_frame.  A hardware error is its byte.
ParseCommandFrame(command, payload) ==
    LET names == {name \in DOMAIN CommandByte \ {"detect", "leave"} :
                     CommandByte[name] = command}
        name == CHOOSE n \in names : TRUE
        unknown == Ok(Event("unknown", <<command>> \o payload))
    IN  CASE names = {} -> unknown
          [] "data" \in names -> Ok(Event("data", payload))
          [] "ready" \in names ->
                 IF Len(payload) <= 1 THEN Ok(Event("ready", <<>>))
                                      ELSE Err("InvalidPayloadLength")
          [] OTHER ->
                 CASE Len(payload) /= PayloadLen[name] -> Err("InvalidPayloadLength")
                   [] name = "radio_state" /\ payload[1] \notin RadioStates -> unknown
                   [] name = "rssi" -> Ok(Event(name, <<payload[1] - RssiOffset>>))
                   [] name = "snr" /\ payload[1] > 127 -> Ok(Event(name, <<payload[1] - 256>>))
                   [] OTHER -> Ok(Event(name, payload))

\* What the frames that a decoder finds are parsed to
ParseFrames(frames) ==
    [i \in DOMAIN frames |->
        ParseCommandFrame(KissByte[frames[i].command], FromKiss(frames[i].payload))]

\* A host that reads one command from the line
ReadCommand(wire) ==
    LET pushed == K!PushBytes(K!Fresh, ToKiss(wire)) IN
    CASE pushed.error -> Err("Kiss")
      [] pushed.frames = <<>> -> Err("NoFrame")
      [] OTHER -> Head(ParseFrames(pushed.frames))

-----------------------------------------------------------------------------
(* The readiness probe.                                                    *)

\* RNodeHilReadiness
NotReady == [ready |-> FALSE, firmware |-> None, radio_state |-> None, bytes_read |-> 0]

\* apply_readiness_event
ReadinessError(parsed) ==
    CASE ~IsOk(parsed) -> parsed.error
      [] IsOk(parsed) /\ parsed.value.kind = "error" -> "DeviceError"
      [] IsOk(parsed) /\ parsed.value.kind = "firmware"
             /\ ~FirmwareSupported(parsed.value.value) -> "UnsupportedFirmware"
      [] OTHER -> "none"
ApplyReadiness(readiness, parsed) ==
    CASE ReadinessError(parsed) /= "none" -> readiness
      [] OTHER ->
            CASE parsed.value.kind = "ready" -> [readiness EXCEPT !.ready = TRUE]
              [] parsed.value.kind \in {"firmware", "radio_state"} ->
                     [readiness EXCEPT ![parsed.value.kind] = Some(parsed.value.value)]
              [] OTHER -> readiness

\* read_rnode_readiness.  The reads take so many bytes off the line, none
\* when they time out; a failed read is FailedRead.  A read is looked at as
\* a whole: an error in it wins over a READY before it.
FailedRead == -1
Ended(p, result) == [p EXCEPT !.result = result, !.ended = TRUE]
AfterEvents(p, events, errors) ==
    LET after == FoldLeft(ApplyReadiness, p.readiness, events)
    IN  CASE errors /= <<>> -> Ended(p, Err(Last(errors)))
          [] errors = <<>> /\ after.ready -> Ended(p, Ok(after))
          [] OTHER -> [p EXCEPT !.readiness = after]
AfterPush(p, pushed) ==
    IF pushed.error THEN Ended(p, Err("Kiss"))
    ELSE LET events == ParseFrames(pushed.frames)
         IN  AfterEvents([p EXCEPT !.decoder = pushed.decoder], events,
                 SelectSeq([i \in DOMAIN events |-> ReadinessError(events[i])],
                           LAMBDA e : e /= "none"))
AfterRead(p, chunk) ==
    AfterPush([p EXCEPT !.at = @ + Len(chunk), !.readiness.bytes_read = @ + Len(chunk)],
              K!PushBytes(p.decoder, ToKiss(chunk)))
ReadReadiness(line, reads) ==
    LET chunk(at, size) ==
            SubSeq(line, at + 1, IF at + size > Len(line) THEN Len(line) ELSE at + size)
        read(p, size) ==
            CASE p.ended -> p
              [] ~p.ended /\ size = FailedRead -> Ended(p, Err("Io"))
              [] OTHER -> AfterRead(p, chunk(p.at, size))
        start == [at |-> 0, decoder |-> K!Fresh, readiness |-> NotReady,
                  result |-> Err("NoReady"), ended |-> FALSE]
    IN  FoldLeft(read, start, Take(reads, IF Len(reads) < MaxReads THEN Len(reads)
                                                                   ELSE MaxReads)).result
=============================================================================
