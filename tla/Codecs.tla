------------------------------- MODULE Codecs -------------------------------
(***************************************************************************)
(* The codecs at work: a value is encoded, the wire image may be changed   *)
(* on its way, and the other side decodes what arrives.  Each codec is a   *)
(* pair of operators of the modules below; this module says which ones     *)
(* belong together.                                                        *)
(***************************************************************************)
EXTENDS Converters, FipsControl, NostrMessages, RNodeCommands

CONSTANTS
    Values,     \* for each codec, the values that are sent
    FlippedBits \* the bits of a byte that a fault flips

VARIABLES
    stage,      \* "idle", "sent", "refused" by the encoder, "delivered"
    codec, value, sent,
    change,     \* what happened to the wire image: "none" or a disturbance
    received, got

codecVars == <<stage, codec, value, sent, change, received, got>>

CodecNames == DOMAIN Values
Texts == {"client", "relay"}                \* JSON, as tokens
Objects == {"nostr_room", "fips_status"}    \* records with a member per field
ByteCodecs == CodecNames \ (Texts \cup Objects \cup {"rnode_probe"})

-----------------------------------------------------------------------------
(* Both ends of each codec.                                                *)

\* No wire image of the instance is longer.
Ample == 200

\* What a Reticulum peer sends: it encrypts to the identity's key or to one
\* of the ratchets that the identity announced.
PeerSeals(v, room) ==
    LET recipient == PublicIdentity(v.secret)
    IN  IF v.ratchet = 0
        THEN EncryptForIdentity(recipient, v.plaintext, v.ephemeral, v.iv, room)
        ELSE EncryptWithSecret(recipient, PublicOf(v.ratchets[v.ratchet]), v.plaintext,
                               v.ephemeral, v.iv, room)

\* What a modem writes: frames of a command byte and a payload
ModemWrites(frames, room) ==
    LET line == FlattenSeq([i \in DOMAIN frames |->
                    EncodeFrame(frames[i][1], frames[i][2], Ample).value])
    IN  IF room < Len(line) THEN Err("OutputBufferTooShort") ELSE Ok(line)

\* What the FIPS daemon answers to show_status: addresses in the notation of
\* FipsControl, without a gap, and the optional members that it knows.
Json(t, v) == [t |-> t, v |-> v]
DaemonAnswers(v) ==
    LET ipv6 == DeriveIpv6Addr(v.node_addr)
        digits == [i \in 1..(2 * AddrLen) |->
                     IF i % 2 = 1 THEN v.node_addr[(i + 1) \div 2] \div 16
                                  ELSE v.node_addr[i \div 2] % 16]
        groups == [i \in 1..(AddrLen \div 2) |-> 256 * ipv6[2 * i - 1] + ipv6[2 * i]]
        members == [node_addr |-> Json("string", digits),
                    ipv6_addr |-> Json("string", groups),
                    tun_state |-> Json("string", v.tun_state)]
        counts == [f \in DOMAIN v.counts |-> Json("u64", v.counts[f])]
    IN  Ok([len |-> v.len, utf8 |-> TRUE,
            json |-> Json("object", [status |-> Json("string", v.status),
                                     data |-> Json("object", counts @@ members)])])

InEnvelope(wrapped, room) == AndThen(wrapped, LAMBDA e : EncodeEnvelope(e, room))

EncodeIn(c, v, room) ==
    CASE c = "envelope" -> EncodeEnvelope(v, room)
      [] c = "packet" -> EncodePacket(v, room)
      [] c = "announce" -> EncodeAnnounce(v.secret, v.app_name, v.aspects, v.app_data,
                                          v.random, v.now, room)
      [] c = "token" -> TokenEncrypt(v.key, v.plaintext, v.iv, room)
      [] c = "sealed" -> PeerSeals(v, room)
      [] c = "ifac" -> IfacApply(v.raw, v.secret, v.key, v.size, room)
      [] c = "bitchat" -> EncodeBitchat(v, room)
      [] c = "lxmf" -> EncodeLxmf(v.destination, v.source, v.signature, v.payload, room)
      [] c = "bridge" -> EncodeBridgeMessage(v, room)
      [] c = "rns_carrier" ->
             InEnvelope(WrapRns(v.raw, v.message_id, v.destination, v.params), room)
      [] c = "bitchat_carrier" ->
             InEnvelope(WrapBitchat(v.raw, v.message_id, v.destination, v.params), room)
      [] c = "lxmf_carrier" -> InEnvelope(WrapLxmf(v.raw, v.message_id, v.params), room)
      [] c = "bridge_carrier" -> InEnvelope(WrapBridgeMessage(v.raw, v.params), room)
      [] c = "bitchat_room" -> BridgeToBitchat(v.message, v.sender_id, v.ttl, room)
      [] c = "lxmf_room" ->
             BridgeToLxmf(v.message, v.destination, v.source, v.signature, room)
      [] c = "nostr_room" ->
             AndThen(EncodeBridgeMessage(v.message, room), LAMBDA raw :
                 BridgeToNostr(raw, v.secret, v.created_at))
      [] c = "fips_status" -> DaemonAnswers(v)
      [] c = "rnode" -> EncodeCommand(v, room)
      [] c = "rnode_probe" -> ModemWrites(v.frames, room)
      [] c \in Texts -> WriteMessage(v, room)

Encode(c, v) == EncodeIn(c, v, Ample)

\* The other side shares the keys and the parameters in v.
Decode(c, v, wire) ==
    CASE c = "envelope" -> DecodeEnvelope(wire)
      [] c = "packet" -> DecodePacket(wire)
      [] c = "announce" -> AndThen(DecodePacket(wire), ValidateAnnounce)
      [] c = "token" -> TokenDecrypt(v.key, wire, Ample)
      [] c = "sealed" -> DecryptForIdentity(v.secret, wire, v.ratchets, v.enforce, Ample)
      [] c = "ifac" -> IfacVerify(wire, v.secret, v.key, v.size, Ample)
      [] c = "bitchat" -> DecodeBitchat(wire)
      [] c = "lxmf" -> DecodeLxmf(wire)
      [] c = "bridge" -> DecodeBridgeMessage(wire)
      [] c = "rns_carrier" -> AndThen(DecodeEnvelope(wire), UnwrapRns)
      [] c = "bitchat_carrier" -> AndThen(DecodeEnvelope(wire), UnwrapBitchat)
      [] c = "lxmf_carrier" -> AndThen(DecodeEnvelope(wire), UnwrapLxmf)
      [] c = "bridge_carrier" -> AndThen(DecodeEnvelope(wire), UnwrapBridgeMessage)
      [] c = "bitchat_room" -> BitchatToBridge(wire, v.message)
      [] c = "lxmf_room" -> LxmfToBridge(wire, v.message)
      [] c = "nostr_room" -> NostrToBridge(wire)
      [] c = "fips_status" -> ParseShowStatusResponse(wire)
      [] c = "rnode" -> ReadCommand(wire)
      [] c = "rnode_probe" -> ReadReadiness(wire, v.reads)
      [] c = "client" -> DecodeClientMessage(wire)
      [] c = "relay" -> DecodeRelayMessage(wire)

-----------------------------------------------------------------------------

Nothing == <<>>

\* An encoder writes the wire image, or refuses the value.
Send ==
    /\ stage = "idle"
    /\ \E c \in CodecNames : \E v \in Values[c] : \E wire \in {Encode(c, v)} :
          /\ codec' = c /\ value' = v
          /\ IF IsOk(wire)
             THEN stage' = "sent" /\ sent' = wire.value /\ received' = wire.value
             ELSE stage' = "refused" /\ sent' = Nothing /\ received' = Nothing
    /\ change' = "none"
    /\ got' = Nothing

InFlight == stage = "sent" /\ change = "none"
Disturb(what, wire) ==
    /\ change' = what
    /\ received' = wire
    /\ UNCHANGED <<stage, codec, value, sent, got>>

FlipBit(i, bit) ==
    /\ InFlight /\ codec \in ByteCodecs
    /\ i \in DOMAIN received
    /\ Disturb("flip", [received EXCEPT ![i] = Xor(@, bit)])

\* The end is lost, or something follows it.
CutTail ==
    /\ InFlight /\ codec \in ByteCodecs \cup Texts
    /\ Disturb("cut", Take(received, Len(received) - 1))
AppendByte ==
    /\ InFlight /\ codec \in ByteCodecs
    /\ Disturb("append", Append(received, 0))

\* A token of a text is lost, doubled or another one.
OtherToken(token) ==
    CASE token.t = "num" -> Num(token.v + 1)
      [] token.t = "str" -> Str(token.v \o <<"more">>)
      [] token.t = "bool" -> Bool(~token.v)
      [] OTHER -> [t |-> "null", v |-> 0]
ChangeToken(i) ==
    /\ InFlight /\ codec \in Texts
    /\ i \in DOMAIN received
    /\ \E middle \in {<<>>, <<received[i], received[i]>>, <<OtherToken(received[i])>>} :
          Disturb("token", Take(received, i - 1) \o middle \o Drop(received, i))

\* A transport node sends a packet on, or puts it into transport.
Transport(id) ==
    /\ InFlight /\ codec = "packet"
    /\ value.hops < 255
    /\ Disturb("transport",
           EncodePacket([value EXCEPT !.hops = @ + 1, !.flags.header_type = Header2,
                                      !.flags.transport_type = 1,
                                      !.transport_id = Some(id)], Mtu).value)

\* A propagation node adds a stamp to an LXMF message.
Stamp ==
    /\ InFlight /\ codec = "lxmf"
    /\ Disturb("stamp", Append([received EXCEPT ![LxmfHeaderLen + 1] = 149], 1))

\* A relay serves another event than the one that was published.
AlterEvent(field, other) ==
    /\ InFlight /\ codec = "nostr_room"
    /\ Disturb("event", [received EXCEPT ![field] = other])
OtherFields ==
    {<<"pubkey", 9>>, <<"created_at", 9>>, <<"kind", 9>>, <<"tags", <<HyfTag, AltTag>> >>,
     <<"content", Hex(<<9>>)>>}

\* A daemon of another version leaves a member out, adds one, or gives one
\* another value; the response may be too long or no text.
OtherMembers(field, json) ==
    CASE field = "node_addr" ->
             {Json("string", [json.v EXCEPT ![i] = d]) : i \in DOMAIN json.v, d \in {0, 15, 16}}
             \cup {Json("string", Tail(json.v))}
      [] field = "ipv6_addr" ->
             {Json("string", [json.v EXCEPT ![i] = g]) : i \in DOMAIN json.v,
                                                        g \in {0, 65536, Gap}}
             \cup {Json("string", Append(json.v, 0))}
      [] OTHER -> {Json("u64", 0), Json("u64", MaxU16), Json("u64", MaxU16 + 1),
                   Json("i64", 0), Json("null", 0), Json("string", "active")}
Changed(object) ==
    {[f \in DOMAIN object \ {field} |-> object[f]] : field \in DOMAIN object}
    \cup UNION {{[object EXCEPT ![field] = json] : json \in OtherMembers(field, object[field])} :
                field \in DOMAIN object}
    \cup {("later" :> Json("null", 0)) @@ object}
ChangeMember ==
    /\ InFlight /\ codec = "fips_status"
    /\ \E other \in {[received EXCEPT !.len = ControlMaxResponse + 1],
                     [received EXCEPT !.utf8 = FALSE],
                     [received EXCEPT !.json = Json("array", <<>>)]}
                 \cup {[received EXCEPT !.json.v = o] : o \in Changed(received.json.v)}
                 \cup {[received EXCEPT !.json.v.data.v = o] :
                          o \in Changed(received.json.v.data.v)} :
          Disturb("member", other)

Receive ==
    /\ stage = "sent"
    /\ stage' = "delivered"
    /\ got' = Decode(codec, value, received)
    /\ UNCHANGED <<codec, value, sent, change, received>>

CodecInit ==
    /\ stage = "idle" /\ codec = "none" /\ change = "none"
    /\ value = Nothing /\ sent = Nothing /\ received = Nothing /\ got = Nothing

\* The codecs keep nothing between two values.
NextValue ==
    /\ stage \in {"refused", "delivered"}
    /\ stage' = "idle" /\ codec' = "none" /\ change' = "none"
    /\ value' = Nothing /\ sent' = Nothing /\ received' = Nothing /\ got' = Nothing

CodecNext ==
    \/ Send
    \/ \E i \in DOMAIN received, bit \in FlippedBits : FlipBit(i, bit)
    \/ CutTail
    \/ AppendByte
    \/ \E i \in DOMAIN received : ChangeToken(i)
    \/ \E id \in {<<1>>, <<2>>} : Transport(id)
    \/ Stamp
    \/ \E other \in OtherFields : AlterEvent(other[1], other[2])
    \/ ChangeMember
    \/ Receive
    \/ NextValue

-----------------------------------------------------------------------------
(* What the two ends promise each other.                                   *)

\* The frames that a probe has got after r reads, and the reads after which
\* it may say that the modem is ready: a READY has come and, up to there,
\* no error, no firmware too old, no frame that does not parse.
BytesAfter(v, r) == Min({FoldLeft(LAMBDA a, b : a + b, 0, Take(v.reads, r)),
                         Len(ModemWrites(v.frames, Ample).value)})
FramesAfter(v, r) ==
    LET end(i) == Len(ModemWrites(Take(v.frames, i), Ample).value)
    IN  {i \in DOMAIN v.frames : end(i) <= BytesAfter(v, r)}
ParsedFrame(v, i) == ParseCommandFrame(v.frames[i][1], v.frames[i][2])
ReadyAfter(v) ==
    {r \in DOMAIN v.reads :
        /\ r <= MaxReads
        /\ \A j \in 1..r : v.reads[j] /= FailedRead
        /\ \A i \in FramesAfter(v, r) : ReadinessError(ParsedFrame(v, i)) = "none"
        /\ \E i \in FramesAfter(v, r) : ParsedFrame(v, i) = Ok(Event("ready", <<>>))}
LastReport(v, kind, r) ==
    LET reports == {i \in FramesAfter(v, r) : ParsedFrame(v, i).value.kind = kind}
    IN  IF reports = {} THEN None ELSE Some(ParsedFrame(v, Max(reports)).value.value)

\* Values that the encoder takes and the other side does not: a request
\* without filters, a packet to the identity where ratchets are enforced, a
\* room message whose Nostr author is not the one who signs, a modem that
\* is not ready, a daemon's answer that is too long, an error, or has a
\* number that does not fit.
Undeliverable(c, v) ==
    \/ c = "rnode_probe" /\ ReadyAfter(v) = {}
    \/ /\ c = "fips_status"
       /\ \/ v.status /= "ok" \/ v.len > ControlMaxResponse
          \/ \E f \in DOMAIN v.counts : v.counts[f] > MaxU16
    \/ c = "client" /\ v.kind = "REQ" /\ v.filters = <<>>
    \/ c = "sealed" /\ v.enforce /\ v.ratchet = 0
    \/ /\ c = "nostr_room"
       /\ v.message.author.network = NostrNetwork
       /\ v.message.author.id /= <<PublicKeyOf(v.secret)>>

\* A time that went through an LXMF message.  While the significand has a bit
\* to spare (ms < 2^52 in the code) it is the same or one millisecond older.
\* From there on it may be older or newer by one and a half times the distance
\* of the floats around it.
SameTime(ms, arrived) ==
    IF ms < 2^(Precision - 1) THEN arrived \in {ms - 1, ms}
    ELSE 2 * (arrived - ms) \in (-3 * Unit(ms))..(3 * Unit(ms))

\* `arrived` is what was sent: all of it, or what the code keeps of it
Arrived(c, v, arrived) ==
    CASE c = "bitchat" -> arrived = [v EXCEPT !.flags = CanonicalFlags(v)]
      [] c = "lxmf" ->
             /\ [arrived EXCEPT !.packed = 0] =
                    [destination |-> v.destination, source |-> v.source,
                     signature |-> v.signature, packed |-> 0,
                     payload |-> [v.payload EXCEPT !.stamp = None]]
      [] c = "announce" ->
             /\ arrived.public_identity = PublicIdentityBytes(PublicIdentity(v.secret))
             /\ arrived.name_hash = NameHash(v.app_name, v.aspects).value
             /\ arrived.random_hash = Append(v.random, v.now)
             /\ arrived.ratchet = None /\ arrived.app_data = v.app_data
      [] c = "token" -> arrived = v.plaintext
      [] c = "sealed" -> arrived = [plaintext |-> v.plaintext, ratchet |-> v.ratchet]
      [] c \in {"ifac", "rns_carrier", "bitchat_carrier", "lxmf_carrier", "bridge_carrier"} ->
             arrived = v.raw
      [] c = "bitchat_room" ->
             arrived = RoomMessage(v.message, BitchatNetwork, v.sender_id,
                                   v.message.created_at, v.message.payload)
      [] c = "lxmf_room" ->
             /\ arrived = RoomMessage(v.message, LxmfNetwork, v.source,
                                      arrived.created_at, v.message.payload)
             /\ SameTime(v.message.created_at, arrived.created_at)
      [] c = "nostr_room" -> arrived = v.message
      [] c = "fips_status" ->
             LET count(f) == IF f \in DOMAIN v.counts THEN Some(v.counts[f]) ELSE None IN
             arrived = [node_addr |-> v.node_addr, ipv6_addr |-> DeriveIpv6Addr(v.node_addr),
                        tun_state |-> TunState(v.tun_state),
                        effective_ipv6_mtu |-> count("effective_ipv6_mtu"),
                        peer_count |-> count("peer_count")]
      [] c = "rnode" ->            \* the modem answers with the same frame
             arrived = CASE v.name = "ready" -> Event("ready", <<>>)
                         [] v.name = "detect" -> Event("unknown", <<8, 115>>)
                         [] v.name = "leave" -> Event("unknown", <<10, 255>>)
                         [] OTHER -> Event(v.name, v.value)
      [] c = "rnode_probe" ->
             \E r \in {Min(ReadyAfter(v))} :
             arrived = [ready |-> TRUE, firmware |-> LastReport(v, "firmware", r),
                        radio_state |-> LastReport(v, "radio_state", r),
                        bytes_read |-> BytesAfter(v, r)]
      [] OTHER -> arrived = v

\* What is encoded is decoded again on the other side, with the losses that
\* Arrived and Undeliverable name and no other; the encoder needs exactly the
\* room that its image takes.  A packet keeps its hash and its content through
\* transport, and an LXMF message its id and its signed bytes when a stamp is
\* added.  A probe calls a modem ready after the first read with a READY in
\* it, whichever way the reads cut the frames, and never after an error
\* (encode_*, decode_*, *_encoded_len, packet_hash, lxmf_message_id,
\* parse_command_frame, read_rnode_readiness).
RoundTrip ==
    stage = "delivered" =>
        /\ change = "none" =>
              /\ IsOk(got) <=> ~Undeliverable(codec, value)
              /\ IsOk(got) => Arrived(codec, value, got.value)
        /\ change = "none" /\ codec \notin Objects =>
              \A room \in {Len(sent), Len(sent) - 1} :
                 \E image \in {EncodeIn(codec, value, room)} :
                    IF room < Len(sent) THEN ~IsOk(image) ELSE image = Ok(sent)
        /\ change = "none" /\ codec = "client" /\ "event" \in DOMAIN value =>
              AndThen(BridgeEventJson(value.event, Ample), LAMBDA text :
                  AndThen(ParseText(text), ParseEvent)) = Ok(value.event)
        /\ change = "transport" =>
              /\ PacketHash(received) = PacketHash(sent)
              /\ IsOk(got)
              /\ got.value.data = value.data
              /\ got.value.destination_hash = value.destination_hash
        /\ change = "stamp" =>
              LET message == DecodeLxmf(sent).value IN
              /\ IsOk(got)
              /\ [got.value.payload EXCEPT !.stamp = None] = message.payload
              /\ LxmfMessageId(got.value) = LxmfMessageId(message)
              /\ LxmfSignatureInput(got.value, Ample) = LxmfSignatureInput(message, Ample)

\* Codecs with one image for each value; BitChat has it in version 2.
HasOneImage(c, decoded) ==
    \/ c \in {"envelope", "packet", "bridge"}
    \/ c = "bitchat" /\ decoded.version = 2 /\ ~decoded.payload.compressed

\* Whatever bytes a decoder accepts, a gateway can send on what it decoded:
\* the image is the same where a value has one image only, and where it has
\* several the next decoder sees the same value (decode_envelope,
\* decode_packet, decode_bridge_message, decode_bitchat_packet,
\* decode_lxmf_message, decode_client_message, decode_relay_message).
AcceptedIsForwardable ==
    stage = "delivered" /\ IsOk(got) =>
        /\ HasOneImage(codec, got.value) =>
              EncodeIn(codec, got.value, Len(received)) = Ok(received)
        /\ codec = "lxmf" =>
              LET message == got.value IN
              \E again \in {AndThen(EncodeLxmf(message.destination, message.source,
                                              message.signature, message.payload, Ample),
                                   DecodeLxmf)} :
                 /\ IsOk(again)
                 /\ again.value.payload = [message.payload EXCEPT !.stamp = None]
        /\ codec \in Texts =>
              AndThen(WriteMessage(got.value, Ample), LAMBDA text :
                  IF codec = "client" THEN DecodeClientMessage(text)
                                      ELSE DecodeRelayMessage(text)) = got

\* Codecs that authenticate what they carry
Authenticated == {"announce", "token", "sealed", "ifac", "nostr_room"}
ErrorsOf(c) ==
    CASE c \in {"token", "sealed"} -> CryptoErrors
      [] c \in {"announce", "ifac"} -> WireErrors
      [] c = "nostr_room" -> NostrErrors \cup {"WrongKind", "MissingCommunityTag"}

\* A wire image that was changed on the way is refused with an error of its
\* crate, or carries what was sent all the same, because the change hit what
\* no signature covers (hops, context).  An event with another field has
\* another canonical text and with it another id.  A status response has no
\* signature but states the node's address twice: with one of its members
\* changed, it is refused or has the IPv6 address of the node that answered
\* (validate_announce_packet, token_decrypt, decrypt_for_identity,
\* ifac_verify_inbound, verify_event, write_canonical_event,
\* parse_show_status_response).
TamperRefused ==
    stage = "delivered" =>
        /\ codec \in Authenticated /\ change /= "none" =>
              IF IsOk(got) THEN Arrived(codec, value, got.value)
                           ELSE got.error \in ErrorsOf(codec)
        /\ codec = "fips_status" =>
              IF IsOk(got) THEN got.value.ipv6_addr = DeriveIpv6Addr(value.node_addr)
                           ELSE got.error \in ControlErrors
        /\ codec \in Texts /\ IsOk(got) =>
              LET unsigned(event) == [event EXCEPT !.id = 0, !.sig = 0] IN
              "event" \in DOMAIN got.value \cap DOMAIN value =>
                 \/ unsigned(got.value.event) = unsigned(value.event)
                 \/ CanonicalText(got.value.event) /= CanonicalText(value.event)
=============================================================================
