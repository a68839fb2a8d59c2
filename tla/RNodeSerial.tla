----------------------------- MODULE RNodeSerial ----------------------------
(***************************************************************************)
(* RNodeSerialLink (hyf_link_rnode_serial/src/link.rs) and its raw RNS     *)
(* driver: HYF frames over a radio modem on a serial line.  A poll reads   *)
(* the line byte by byte until a frame is complete; each byte is a step,   *)
(* while the modem goes on sending.  The line may damage what the modem    *)
(* sends, and a write may stop anywhere in a frame.  The modem is external *)
(* and modelled by what the link expects of it: a modem that is free says  *)
(* so once, by READY, and is busy with every frame that reaches it.        *)
(***************************************************************************)
EXTENDS Kiss

CONSTANTS Configs,       \* RNodeSerialConfig a link is asked to be built with
          Envelopes,     \* payloads that decode as a HYF envelope
          Packets,       \* payloads that validate as an RNS packet
          Payloads,      \* what the gateway asks to be sent
          ModemFrames,   \* what the modem sends besides READY
          Backlog        \* bound: bytes left unread when the modem sends

Config == [mtu: Nat, flow_control: BOOLEAN,
           data_mode: {"HyfEnvelope", "RawRnsPacket"}]

ASSUME SerialAssumption ==
  /\ {"DATA", "READY", "ERROR", "BYTE", "FIRMWARE", "WORD"} \subseteq OtherBytes
  /\ Configs \subseteq Config
  /\ Payloads \subseteq Seq(Bytes)
  /\ ModemFrames \subseteq KissFrame
  /\ \A frame \in ModemFrames : frame.command \in OtherBytes \ {"READY"}
  /\ Backlog \in Nat

VARIABLES config,           \* fixed by new()
          interface_ready,  \* RNodeState
          decoder,          \* KissDecoder
          pending,          \* Option<PendingFrame>, as a set
          call,             \* the poll that is running
          rx,               \* bytes on their way from the modem
          far,              \* what a decoder makes of the bytes written so far
          modem,            \* "owes" a READY, "free" or "busy"
          due,              \* history: undamaged frames still to be decoded
          hurt,             \* history: something was damaged on the line
          torn              \* history: some write failed

line == <<rx, modem, due, hurt>>
writing == <<far, torn>>
vars == <<config, interface_ready, decoder, pending, call, line, writing>>

\* Polls that take any event, a frame of the gateway, or an RNS packet with
\* the parameters that wrap it.
Polls == {"event", "frame", "packet"}
DataFrame(payload) == [command |-> "DATA", payload |-> payload]

\* new() accepts a configuration: the decoder holds the command and the mtu.
New(c) == c.mtu > 0 /\ c.mtu + 1 <= FrameMax

-----------------------------------------------------------------------------
(* Sending.                                                                *)

CanTransmit == ~config.flow_control \/ interface_ready

\* payload_for_send: the gateway's envelope, or the RNS packet it carries.
Sendable(payload) ==
  payload \in IF config.data_mode = "HyfEnvelope" THEN Envelopes ELSE Packets

\* write_kiss_frame: the bytes that reach the line, up to the first failure.
Write(bytes) ==
  LET landing == PushBytes(far, bytes)
  IN /\ far' = landing.decoder
     /\ modem' = IF landing.frames = << >> THEN modem ELSE "busy"

\* What send_gateway_bytes checks before it writes; it returns an error and
\* changes nothing when one of these fails.
MaySend(payload) ==
  /\ call = "none"
  /\ Sendable(payload)
  /\ Len(payload) <= config.mtu
  /\ CanTransmit

\* Mutant: the next frame does not wait for READY.
MarkTxStartedNot == interface_ready' = interface_ready

\* mark_tx_started
MarkTxStarted == interface_ready' = (interface_ready /\ ~config.flow_control)

\* send_gateway_bytes
SendGatewayBytes(payload) ==
  /\ MaySend(payload)
  /\ Write(Encode(DataFrame(payload)))
  /\ MarkTxStarted
  /\ UNCHANGED <<config, decoder, pending, call, rx, due, hurt, torn>>

\* A write fails after n bytes.  The link stays ready.
SendFails(payload, n) ==
  LET bytes == Encode(DataFrame(payload))
  IN /\ MaySend(payload)
     /\ n < Len(bytes)
     /\ Write(SubSeq(bytes, 1, n))
     /\ torn' = TRUE
     /\ UNCHANGED <<config, interface_ready, decoder, pending, call, rx, due, hurt>>

-----------------------------------------------------------------------------
(* Polling.                                                                *)

\* A poll begins: poll_event_at; poll_gateway_frame_at and poll_frame of the
\* link; poll_gateway_frame_with_rns_params_at and poll_frame of the raw RNS
\* driver.  A packet poll of a link in the other mode is refused at once.
Poll(kind) ==
  /\ call = "none"
  /\ kind = "packet" => config.data_mode = "RawRnsPacket"
  /\ call' = kind
  /\ UNCHANGED <<config, interface_ready, decoder, pending, line, writing>>

Return == call' = "none"

\* read_until_pending reads one byte, which may complete a frame.  A decoder
\* error ends the poll.
ReadByte ==
  LET push == PushByte(decoder, Head(rx))
  IN /\ call # "none" /\ pending = {} /\ rx # << >>
     /\ rx' = Tail(rx)
     /\ decoder' = push.decoder
     /\ pending' = {push.frames[i] : i \in DOMAIN push.frames}
     /\ due' = IF due # << >> /\ push.frames = <<Head(due)>> THEN Tail(due) ELSE due
     /\ IF push.error THEN Return ELSE UNCHANGED call
     /\ UNCHANGED <<config, interface_ready, modem, hurt, writing>>

\* Nothing to read, or the read fails.
ReadNothing ==
  /\ call # "none" /\ pending = {}
  /\ Return
  /\ UNCHANGED <<config, interface_ready, decoder, pending, line, writing>>

\* What becomes of a data frame: drain_pending_frame, drain_pending_hyf_frame,
\* drain_pending_raw_rns_frame and its variant with a provider.  usable: the
\* caller's buffer has room and, for a packet, there are parameters that wrap
\* it.  The room is checked before an envelope is decoded, and after a packet
\* is validated; a link in raw mode gives no frame to a frame poll.
Kept(frame, usable) ==
  CASE call = "event" -> ~usable
    [] call = "frame" -> ~usable \/ config.data_mode = "RawRnsPacket"
    [] call = "packet" -> ~usable /\ frame.payload \in Packets

DrainFrame ==
  \E frame \in pending, usable \in BOOLEAN :
    /\ call # "none" /\ frame.command = "DATA"
    /\ pending' = IF Kept(frame, usable) THEN pending ELSE {}
    /\ Return
    /\ UNCHANGED <<config, interface_ready, decoder, line, writing>>

\* parse_command_frame: the length of the payload is all that can be wrong.
\* BYTE and WORD stand for the reports and statistics of one and of four
\* bytes; any other command is "unknown", whatever it holds.
Parses(frame) ==
  LET len == Len(frame.payload)
  IN CASE frame.command = "READY" -> len <= 1
       [] frame.command \in {"ERROR", "BYTE"} -> len = 1
       [] frame.command = "FIRMWARE" -> len = 2
       [] frame.command = "WORD" -> len = 4
       [] OTHER -> TRUE

\* apply_event
ApplyEvent(frame) ==
  interface_ready' = (frame.command = "READY"
                        \/ (interface_ready /\ frame.command # "ERROR"))

\* Mutant: the command stays pending.
DrainCommandKeeps ==
  \E frame \in pending :
    /\ call # "none" /\ frame.command # "DATA" /\ Parses(frame)
    /\ ApplyEvent(frame)
    /\ IF call = "event" THEN Return ELSE UNCHANGED call
    /\ UNCHANGED <<config, decoder, pending, line, writing>>

\* drain_pending_command.  Only poll_event_at returns with it; the other
\* polls go on reading.
DrainCommand ==
  \E frame \in pending :
    /\ call # "none" /\ frame.command # "DATA" /\ Parses(frame)
    /\ ApplyEvent(frame)
    /\ pending' = {}
    /\ IF call = "event" THEN Return ELSE UNCHANGED call
    /\ UNCHANGED <<config, decoder, line, writing>>

\* The error of parse_command_frame is returned before pending is cleared.
DrainCommandFails ==
  \E frame \in pending :
    /\ call # "none" /\ frame.command # "DATA" /\ ~Parses(frame)
    /\ Return
    /\ UNCHANGED <<config, interface_ready, decoder, pending, line, writing>>

PollStep ==
  ReadByte \/ ReadNothing \/ DrainFrame \/ DrainCommand \/ DrainCommandFails

-----------------------------------------------------------------------------
(* The modem and the line (external).                                      *)

\* What can be left of a frame: it is cut short, or loses one byte.
Damaged(bytes) ==
  {SubSeq(bytes, 1, n) : n \in 0..(Len(bytes) - 1)} \cup
  {SubSeq(bytes, 1, i - 1) \o SubSeq(bytes, i + 1, Len(bytes)) : i \in 1..Len(bytes)}

Transmit(frame, bytes) ==
  /\ Len(rx) <= Backlog
  /\ rx' = rx \o bytes
  /\ IF bytes = Encode(frame)
     THEN /\ due' = IF Len(frame.payload) < FrameMax THEN Append(due, frame)
                    ELSE due
          /\ UNCHANGED hurt
     ELSE hurt' = TRUE /\ UNCHANGED due
  /\ UNCHANGED <<config, interface_ready, decoder, pending, call, writing>>

OnLine(frame) == {Encode(frame)} \cup Damaged(Encode(frame))

ModemReady ==
  LET ready == [command |-> "READY", payload |-> << >>]
  IN /\ modem = "owes"
     /\ modem' = "free"
     /\ \E bytes \in OnLine(ready) : Transmit(ready, bytes)

ModemSends ==
  /\ UNCHANGED modem
  /\ \E frame \in ModemFrames : \E bytes \in OnLine(frame) : Transmit(frame, bytes)

\* The modem has worked off what it was given.
ModemDone ==
  /\ modem = "busy" /\ modem' = "owes"
  /\ UNCHANGED <<config, interface_ready, decoder, pending, call, rx, due,
                 hurt, writing>>

Modem == ModemReady \/ ModemSends \/ ModemDone

-----------------------------------------------------------------------------

Init ==
  /\ config \in {c \in Configs : New(c)}
  /\ interface_ready = ~config.flow_control
  /\ decoder = Fresh
  /\ pending = {}
  /\ call = "none"
  /\ rx = << >>
  /\ far = Fresh
  /\ modem = "owes"
  /\ due = << >>
  /\ hurt = FALSE /\ torn = FALSE

Next ==
  \/ \E payload \in Payloads :
       \/ SendGatewayBytes(payload)
       \/ \E n \in 0..(2 * FrameMax) : SendFails(payload, n)
  \/ \E kind \in Polls : Poll(kind)
  \/ PollStep
  \/ Modem

\* The loop of a poll runs; nothing is assumed of the modem or the caller.
Spec == Init /\ [][Next]_vars /\ WF_vars(PollStep)

-----------------------------------------------------------------------------
(* What makes the link correct.                                            *)

\* Every frame that the line left whole and that fits the decoder has been
\* decoded, in its place, once its bytes are read, whatever was damaged
\* before or after it: cut frames, lost delimiters, half escapes and frames
\* too large never take another frame with them (KissDecoder::push_byte).
WholeFramesArrive == rx = << >> => due = << >>

\* On a line that damages nothing, the link sees the modem's frames, in
\* order, and no other.
SeeStep ==
  ~hurt /\ pending = {} /\ pending' # {} =>
    due # << >> /\ pending' = {Head(due)}
NothingElseArrives == [][SeeStep]_vars

\* What is sent with success can be read off the line exactly, with at most
\* one frame before it: the beginning of a frame whose write failed
\* (write_kiss_frame, and the mtu against FRAME_MAX in new).
SendStep ==
  \A payload \in Payloads : SendGatewayBytes(payload) =>
    PushBytes(far, Encode(DataFrame(payload))) =
      Pushed(far', Buffered(far) \o <<DataFrame(payload)>>, FALSE)
SentIsReadable == [][SendStep]_vars

\* With flow control the link is ready only when the modem is free, as long
\* as the line damages nothing and no write fails (mark_tx_started,
\* apply_event): READY is consumed by the frame that it admits.
ReadyMeansFree ==
  config.flow_control /\ interface_ready /\ ~hurt /\ ~torn => modem = "free"

\* A poll returns, unless the modem never falls silent: the loops over
\* commands make progress on the line with every round.
PollsReturn == []<>(call = "none") \/ []<><<Modem>>_vars
=============================================================================
