----------------------------- MODULE Converters -----------------------------
(***************************************************************************)
(* What other networks meet a gateway with.  hyf_link_rns,                 *)
(* hyf_link_bitchat and hyf_link_lxmf carry their packets whole in a HYF   *)
(* envelope; hyf_bridge_bitchat, hyf_bridge_lxmf and hyf_bridge_nostr      *)
(* convert a room message out to another network and back in.              *)
(***************************************************************************)
EXTENDS EnvelopeCodec, RnsWire, ForeignCodecs, NostrEvents

CONSTANTS
    CarrierMaxPacket,   \* BITCHAT_CARRIER_PACKET_MAX_LEN
    Precision,          \* the bits of a float's significand
    BridgeEventKind     \* HYF_NOSTR_BRIDGE_EVENT_KIND

-----------------------------------------------------------------------------
(* Packets carried whole.                                                  *)

\* PayloadKind::wire_tag of the carried packets
ForeignRnsPacket == 16
ForeignLxmfMessage == 17
ForeignBitchatPacket == 18

\* domain_hash: the length of the domain keeps domains apart
DomainHash(domain, payload) == FullHash(<<Len(domain)>> \o domain \o payload)

\* validate_rns_packet, validate_bitchat_packet, validate_lxmf_message: the
\* bitchat carrier takes fewer bytes than the codec would
ValidRns(raw) == DecodePacket(raw)
ValidBitchat(raw) ==
    IF Len(raw) > CarrierMaxPacket THEN Err("PacketTooLargeForCarrier")
                                   ELSE DecodeBitchat(raw)
ValidLxmf(raw) == DecodeLxmf(raw)

\* wrap_rns_packet and wrap_bitchat_packet: destination and id are the
\* caller's
WrapRns(raw, message_id, destination, params) ==
    AndThen(ValidRns(raw), LAMBDA packet :
        WrapAs(ForeignRnsPacket, raw, message_id, destination, params))
WrapBitchat(raw, message_id, destination, params) ==
    AndThen(ValidBitchat(raw), LAMBDA packet :
        WrapAs(ForeignBitchatPacket, raw, message_id, destination, params))

\* wrap_lxmf_message: the destination is the message's own
WrapLxmf(raw, message_id, params) ==
    AndThen(ValidLxmf(raw), LAMBDA message :
        WrapAs(ForeignLxmfMessage, raw, message_id,
               [kind |-> "foreign", network |-> LxmfNetwork, id |-> message.destination],
               params))

\* unwrap_rns_packet, unwrap_bitchat_packet, unwrap_lxmf_message
UnwrapRns(envelope) ==
    AndThen(Validated(envelope), LAMBDA valid :
        IF valid.payload_kind /= ForeignRnsPacket THEN Err("NotForeignRnsPacket")
        ELSE AndThen(ValidRns(valid.payload), LAMBDA packet : Ok(valid.payload)))
UnwrapBitchat(envelope) ==
    AndThen(Validated(envelope), LAMBDA valid :
        IF valid.payload_kind /= ForeignBitchatPacket THEN Err("WrongPayloadKind")
        ELSE AndThen(ValidBitchat(valid.payload), LAMBDA packet : Ok(valid.payload)))
UnwrapLxmf(envelope) ==
    AndThen(Validated(envelope), LAMBDA valid :
        IF valid.payload_kind /= ForeignLxmfMessage THEN Err("WrongPayloadKind")
        ELSE AndThen(ValidLxmf(valid.payload), LAMBDA message : Ok(valid.payload)))

-----------------------------------------------------------------------------
(* Room messages converted.                                                *)

\* What the ingress of a network makes of a packet: a room message with the
\* room and the id that the caller chose.
RoomMessage(params, network, author, created_at, payload) ==
    [version |-> BridgeVersion, room_id |-> params.room_id,
     message_id |-> params.message_id,
     author |-> [kind |-> "foreign", network |-> network, id |-> author],
     created_at |-> created_at, payload_kind |-> TextUtf8, payload |-> payload]

\* What the egress of bitchat and of LXMF asks of a message's text
TextEgressError(message, empty, not_utf8) ==
    CASE message.payload_kind /= TextUtf8 -> "UnsupportedBridgePayloadKind"
      [] message.payload = <<>> -> empty
      [] ~IsUtf8(message.payload) -> not_utf8
      [] OTHER -> "none"

\* bridge_message_encoded_len, as a check
UnencodableError(message) == EncodeBridgeMessage(message, BridgeMaxMessage).error

-----------------------------------------------------------------------------
(* BitChat.                                                                *)

PublicMessage == 2

\* validate_egress_message
BitchatEgressError(message) ==
    LET text == TextEgressError(message, "EmptyPayload", "InvalidPayloadUtf8") IN
    CASE text /= "none" -> text
      [] message.created_at = 0 -> "TimestampZero"
      [] OTHER -> UnencodableError(message)

\* bridge_message_to_bitchat_packet_v2
BridgeToBitchat(message, sender_id, ttl, room) ==
    IF BitchatEgressError(message) /= "none" THEN Err(BitchatEgressError(message))
    ELSE EncodeBitchat(
            [version |-> 2, packet_type |-> PublicMessage, ttl |-> ttl,
             timestamp |-> message.created_at, flags |-> FlagsOf(0),
             sender_id |-> sender_id, recipient_id |-> None, route |-> None,
             payload |-> [compressed |-> FALSE, bytes |-> message.payload],
             signature |-> None], room)

\* validate_ingress_packet
BitchatIngressError(packet) ==
    CASE packet.version /= 2 -> "UnsupportedVersion"
      [] packet.packet_type /= PublicMessage -> "UnsupportedPacketType"
      [] packet.flags.has_signature \/ IsSome(packet.signature) -> "SignedPacket"
      [] packet.flags.is_compressed \/ packet.payload.compressed -> "CompressedPacket"
      [] packet.flags.has_recipient \/ IsSome(packet.recipient_id) -> "DirectedPacket"
      [] packet.flags.has_route \/ IsSome(packet.route) -> "RoutedPacket"
      [] packet.flags.is_rsr -> "RsrPacket"
      [] packet.timestamp = 0 -> "TimestampZero"
      [] packet.payload.bytes = <<>> -> "EmptyPayload"
      [] ~IsUtf8(packet.payload.bytes) -> "InvalidPayloadUtf8"
      [] OTHER -> "none"

\* bitchat_packet_to_bridge_message
BitchatToBridge(raw, params) ==
    AndThen(DecodeBitchat(raw), LAMBDA packet :
        IF BitchatIngressError(packet) /= "none" THEN Err(BitchatIngressError(packet))
        ELSE Ok(RoomMessage(params, BitchatNetwork, packet.sender_id, packet.timestamp,
                            packet.payload.bytes)))

-----------------------------------------------------------------------------
(* LXMF.  Its times are floating-point seconds, the room's are whole       *)
(* milliseconds.  <<k, m>> is the float m / 2^k, whose significand m has   *)
(* Precision bits; k from SignByte on is a negative one.                   *)

SignByte == 128

\* n / d to the nearest, to the even one of two
Nearest(n, d) ==
    LET q == n \div d
        r == 2 * (n % d)
    IN  IF r > d \/ (r = d /\ q % 2 = 1) THEN q + 1 ELSE q
Bits(n) == CHOOSE b \in 0..30 : n < 2^b /\ (b = 0 \/ 2^(b - 1) <= n)

\* An integer as a float: what the significand has no room for is rounded.
\* Unit is the distance of the floats around n, or of the integers where the
\* floats lie closer.
Unit(n) == IF Bits(n) > Precision THEN 2^(Bits(n) - Precision) ELSE 1
AsFloat(n) == Nearest(n, Unit(n)) * Unit(n)

\* created_at_ms as f64 / 1000.0 rounds twice
SecondsOf(created_at) ==
    LET ms == AsFloat(created_at)
        enough(k) == 1000 * 2^(Precision - 1) <= ms * 2^k
        k == CHOOSE k \in 0..30 : enough(k) /\ \A j \in 0..(k - 1) : ~enough(j)
        m == Nearest(ms * 2^k, 1000)
    IN  CASE ms = 0 -> <<0, 0>>
          [] m = 2^Precision -> <<k - 1, m \div 2>>
          [] OTHER -> <<k, m>>

\* timestamp_secs * 1000.0 rounds to a float again, and `as u64` cuts the
\* fraction off
MillisOf(secs) ==
    LET k == secs[1]
        product == secs[2] * 1000
        bits == Bits(product \div 2^k)
        drop == k + bits - Precision    \* the binary digits that rounding takes away
    IN  CASE k > 30 -> 0
          [] drop <= 0 -> product \div 2^k
          [] bits > Precision -> Nearest(product, 2^drop) * 2^(bits - Precision)
          [] OTHER -> Nearest(product, 2^drop) \div 2^(Precision - bits)

\* timestamp_secs_to_ms: -0.0 is not below zero; the limit is u64::MAX as a
\* float, one more than u64::MAX, and `as u64` saturates there
TimestampMs(secs) ==
    CASE secs[1] >= SignByte /\ secs[2] > 0 -> Err("NegativeTimestamp")
      [] MillisOf(secs) > AsFloat(MaxU64) -> Err("TimestampOverflow")
      [] OTHER -> Ok(Min({MillisOf(secs), MaxU64}))

EmptyFieldsMap == <<128>>

\* bridge_message_to_lxmf_message_fixture, with validate_egress_message
BridgeToLxmf(message, destination, source, signature, room) ==
    LET text == TextEgressError(message, "EmptyContent", "InvalidContentUtf8") IN
    CASE text /= "none" -> Err(text)
      [] UnencodableError(message) /= "none" -> Err(UnencodableError(message))
      [] OTHER -> EncodeLxmf(destination, source, signature,
                     [timestamp |-> SecondsOf(message.created_at), title |-> <<>>,
                      content |-> message.payload, fields |-> EmptyFieldsMap,
                      stamp |-> None], room)

\* validate_content_only_payload
ContentOnlyError(payload) ==
    CASE payload.title /= <<>> -> "NonEmptyTitle"
      [] payload.fields /= EmptyFieldsMap -> "NonEmptyFields"
      [] IsSome(payload.stamp) -> "StampPresent"
      [] payload.content = <<>> -> "EmptyContent"
      [] ~IsUtf8(payload.content) -> "InvalidContentUtf8"
      [] OTHER -> "none"

\* lxmf_message_to_bridge_message
LxmfToBridge(raw, params) ==
    AndThen(DecodeLxmf(raw), LAMBDA message :
        IF ContentOnlyError(message.payload) /= "none"
        THEN Err(ContentOnlyError(message.payload))
        ELSE AndThen(TimestampMs(message.payload.timestamp), LAMBDA created_at :
            Ok(RoomMessage(params, LxmfNetwork, message.source, created_at,
                           message.payload.content))))

-----------------------------------------------------------------------------
(* Nostr: the whole message in the content, its room once more in a tag.   *)

Hex(bytes) == [hex |-> "lower", chars |-> 2 * Len(bytes), of |-> bytes]
HyfTag == [name |-> "hyf", value |-> [text |-> <<"bridge", "v0">>]]
AltTag == [name |-> "alt", value |-> [text |-> <<"HYF bridge message">>]]

\* bridge_message_to_nostr_event, with encode_bridge_nostr_content
BridgeToNostr(raw, secret, created_at) ==
    AndThen(DecodeBridgeMessage(raw), LAMBDA message :
        Ok(SignEvent([pubkey |-> PublicKeyOf(secret), created_at |-> created_at,
                      kind |-> BridgeEventKind,
                      tags |-> <<HyfTag,
                                 [name |-> "community", value |-> Hex(message.room_id)],
                                 AltTag>>,
                      content |-> Hex(raw)], secret).event))

\* decode_fixed_lower_hex, for an id of `length` bytes
DecodeFixedHex(content, length) ==
    CASE content.chars /= 2 * length -> Err("HexError")
      [] content.hex /= "lower" -> Err("HexError")
      [] OTHER -> Ok(content.of)

\* decode_bridge_nostr_content
DecodeBridgeContent(content) ==
    LET decoded == DecodeHex(content, BridgeMaxMessage) IN
    IF decoded.error /= "none" THEN Err(decoded.error)
    ELSE AndThen(DecodeBridgeMessage(decoded.frame), LAMBDA message : Ok(decoded.frame))

\* require_static_tag
HasTag(tags, tag) == \E i \in DOMAIN tags : tags[i] = tag

\* require_community_tag: the first one counts
CommunityOf(tags) ==
    LET communities == SelectSeq(tags, LAMBDA tag : tag.name = "community") IN
    IF communities = <<>> THEN Err("MissingCommunityTag")
                          ELSE DecodeFixedHex(communities[1].value, CommunityIdLen)

\* nostr_event_to_bridge_message, with validate_nostr_author_rule
NostrToBridge(event) ==
    CASE VerifyError(event) /= "none" -> Err(VerifyError(event))
      [] event.kind /= BridgeEventKind -> Err("WrongKind")
      [] ~HasTag(event.tags, HyfTag) -> Err("MissingHyfTag")
      [] ~HasTag(event.tags, AltTag) -> Err("MissingAltTag")
      [] OTHER ->
            AndThen(CommunityOf(event.tags), LAMBDA room :
            AndThen(DecodeBridgeContent(event.content), LAMBDA raw :
            AndThen(DecodeBridgeMessage(raw), LAMBDA message :
                CASE room /= message.room_id -> Err("CommunityTagMismatch")
                  [] /\ message.author.kind = "foreign"
                     /\ message.author.network = NostrNetwork
                     /\ message.author.id /= <<event.pubkey>> ->
                         Err("NostrAuthorPubkeyMismatch")
                  [] OTHER -> Ok(message))))
=============================================================================
