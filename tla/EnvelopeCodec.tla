---------------------------- MODULE EnvelopeCodec ----------------------------
(***************************************************************************)
(* hyf_wire and hyf_bridge_core: the wire image of a HYF envelope, and the *)
(* room message that every bridge converts to and from, with the envelope  *)
(* it travels in.  Lengths of ids and of times are parameters; tags and    *)
(* length fields have the width of the code.                               *)
(***************************************************************************)
EXTENDS Bytes

CONSTANTS
    MessageIdLen, NodeIdLen, CommunityIdLen,
    TimeLen,            \* U64_LEN
    EndpointMaxLen,     \* FOREIGN_ENDPOINT_MAX_LEN
    EnvelopeMaxPayload, \* HYF_ENVELOPE_MAX_PAYLOAD_LEN
    BitchatAuthorLen, LxmfAuthorLen, NostrAuthorLen,
    BridgeMaxMessage,   \* HYF_BRIDGE_MESSAGE_MAX_LEN
    BridgeMaxPayload,   \* HYF_BRIDGE_PAYLOAD_MAX_LEN
    NotUtf8             \* bytes that no UTF-8 text has

\* The lengths that travel in one byte or in a u16 fit there, and no number
\* that is read is so large that Huge stands for it.
ASSUME EnvelopeAssumption ==
    /\ {MessageIdLen, NodeIdLen, CommunityIdLen, TimeLen, EndpointMaxLen,
        EnvelopeMaxPayload, BitchatAuthorLen, LxmfAuthorLen, NostrAuthorLen,
        BridgeMaxMessage, BridgeMaxPayload} \subseteq Nat
    /\ {EndpointMaxLen, NodeIdLen, BitchatAuthorLen, LxmfAuthorLen, NostrAuthorLen}
          \subseteq 0..255
    /\ FitsIn(EnvelopeMaxPayload, 2) /\ FitsIn(BridgeMaxPayload, 2)
    /\ ~FitsIn(Huge, 2) /\ ~FitsIn(Huge, TimeLen)

\* HYF_WIRE_VERSION_0
WireVersion == 0

\* The tags of PayloadKind and of ForeignNetworkKind
PayloadTags == {0, 1, 16, 17, 18}
NetworkTags == 0..4

\* HyfDestination::wire_tag
DestinationTag(destination) ==
    CASE destination.kind = "node" -> 0
      [] destination.kind = "community" -> 1
      [] destination.kind = "foreign" -> 2

\* ForeignEndpointId::new
EndpointError(bytes) ==
    CASE bytes = <<>> -> "EndpointEmpty"
      [] Len(bytes) > EndpointMaxLen -> "EndpointTooLong"
      [] OTHER -> "none"

\* validate_envelope
EnvelopeError(envelope) ==
    CASE envelope.version /= WireVersion -> "InvalidVersion"
      [] envelope.expires_at <= envelope.created_at -> "InvalidExpiry"
      [] Len(envelope.payload) > EnvelopeMaxPayload -> "EnvelopeTooLarge"
      [] OTHER -> "none"

\* encode_destination
EncodeDestination(destination) ==
    <<DestinationTag(destination)>> \o
    (IF destination.kind = "foreign"
     THEN <<destination.network, Len(destination.id)>> ELSE <<>>) \o
    destination.id

\* encode_envelope, with the length that envelope_encoded_len announces
EncodeEnvelope(envelope, room) ==
    LET wire == <<envelope.version>> \o envelope.message_id \o envelope.source
                \o EncodeDestination(envelope.destination)
                \o BeBytes(envelope.created_at, TimeLen)
                \o BeBytes(envelope.expires_at, TimeLen)
                \o <<envelope.hop_limit, envelope.payload_kind>>
                \o BeBytes(Len(envelope.payload), 2) \o envelope.payload
    IN  CASE EnvelopeError(envelope) /= "none" -> Err(EnvelopeError(envelope))
          [] room < Len(wire) -> Err("OutputBufferTooShort")
          [] OTHER -> Ok(wire)

\* ReadCursor
Short(c, n) == Read(c, n, "InputTooShort")

\* The layout: a foreign destination has its network and the length of its
\* id behind the tag
EnvelopeFields ==
    <<"version", "message_id", "source", "tag", "network", "length", "id", "created_at",
      "expires_at", "hop_limit", "payload_kind", "payload_len", "payload">>
EnvelopeFieldLen(name, fields) ==
    CASE name \in {"version", "tag", "hop_limit", "payload_kind"} -> 1
      [] name = "message_id" -> MessageIdLen
      [] name = "source" -> NodeIdLen
      [] name \in {"network", "length"} -> IF fields.tag = <<2>> THEN 1 ELSE 0
      [] name = "id" -> (CASE fields.tag = <<0>> -> NodeIdLen
                           [] fields.tag = <<1>> -> CommunityIdLen
                           [] OTHER -> Number(fields.length))
      [] name \in {"created_at", "expires_at"} -> TimeLen
      [] name = "payload_len" -> 2
      [] name = "payload" -> Number(fields.payload_len)

\* What decode_envelope and decode_destination check as they read
EnvelopeFieldError(name, fields) ==
    CASE name = "version" /\ fields.version /= <<WireVersion>> -> "InvalidVersion"
      [] name = "tag" /\ fields.tag[1] \notin 0..2 -> "InvalidDestinationTag"
      [] name = "network" /\ fields.tag = <<2>> /\ fields.network[1] \notin NetworkTags ->
             "InvalidNetworkTag"
      [] name = "id" /\ fields.tag = <<2>> -> EndpointError(fields.id)
      [] name = "payload_kind" /\ fields.payload_kind[1] \notin PayloadTags ->
             "InvalidPayloadKind"
      [] OTHER -> "none"

\* decode_destination
DestinationOf(fields) ==
    CASE fields.tag = <<0>> -> [kind |-> "node", id |-> fields.id]
      [] fields.tag = <<1>> -> [kind |-> "community", id |-> fields.id]
      [] OTHER -> [kind |-> "foreign", network |-> fields.network[1], id |-> fields.id]

\* validate_envelope as the decoder and the wrappers use it
Validated(envelope) ==
    IF EnvelopeError(envelope) /= "none" THEN Err(EnvelopeError(envelope)) ELSE Ok(envelope)

\* decode_envelope
DecodeEnvelope(input) ==
    Scanned(Scan(input, EnvelopeFields,
                 LAMBDA name, c : Short(c, EnvelopeFieldLen(name, c.fields)),
                 EnvelopeFieldError),
        "TrailingBytes",
        LAMBDA fields : Validated(
            [version |-> fields.version[1], message_id |-> fields.message_id,
             source |-> fields.source, destination |-> DestinationOf(fields),
             created_at |-> Number(fields.created_at),
             expires_at |-> Number(fields.expires_at), hop_limit |-> fields.hop_limit[1],
             payload_kind |-> fields.payload_kind[1], payload |-> fields.payload]))

-----------------------------------------------------------------------------
(* hyf_bridge_core: room messages.                                         *)

BridgeVersion == 0

\* BridgePayloadKind::wire_tag
TextUtf8 == 1
OpaqueBytes == 255

\* ForeignNetworkKind::wire_tag of the networks that can name an author
NostrNetwork == 2
LxmfNetwork == 3
BitchatNetwork == 4
AuthorNetworks == {NostrNetwork, LxmfNetwork, BitchatNetwork}

\* PayloadKind::HyfBridgeMessageV0
BridgeKind == 1

\* str::from_utf8
IsUtf8(bytes) == \A i \in DOMAIN bytes : bytes[i] \notin NotUtf8

IsZero(bytes) == \A i \in DOMAIN bytes : bytes[i] = 0

\* expected_author_id_len
AuthorLen(author) ==
    CASE author.kind = "hyf" -> NodeIdLen
      [] author.network = BitchatNetwork -> BitchatAuthorLen
      [] author.network = LxmfNetwork -> LxmfAuthorLen
      [] author.network = NostrNetwork -> NostrAuthorLen

\* validate_author_id_len
AuthorError(author) ==
    CASE author.kind = "foreign" /\ author.network \notin AuthorNetworks ->
             "UnsupportedAuthorNetwork"
      [] Len(author.id) /= AuthorLen(author) -> "InvalidAuthorIdLen"
      [] OTHER -> "none"

\* Mutant: the network of a HYF author is not looked at.
AuthorTagErrorAnyNetwork(kind, network) ==
    CASE kind = 1 /\ network \notin NetworkTags -> "InvalidForeignNetworkTag"
      [] kind = 1 /\ network \notin AuthorNetworks -> "UnsupportedAuthorNetwork"
      [] kind \notin {0, 1} -> "UnknownAuthorKind"
      [] OTHER -> "none"

\* decode_author_kind: what is wrong with the two tags
AuthorTagError(kind, network) ==
    CASE kind = 0 /\ network /= 0 -> "UnexpectedHyfAuthorNetworkTag"
      [] kind = 1 /\ network \notin NetworkTags -> "InvalidForeignNetworkTag"
      [] kind = 1 /\ network \notin AuthorNetworks -> "UnsupportedAuthorNetwork"
      [] kind \notin {0, 1} -> "UnknownAuthorKind"
      [] OTHER -> "none"

\* validate_payload
TextError(kind, payload) ==
    IF kind = TextUtf8 /\ ~IsUtf8(payload) THEN "InvalidTextUtf8" ELSE "none"

\* validate_bridge_message_ref
BridgeMessageError(message) ==
    CASE message.version /= BridgeVersion -> "InvalidVersion"
      [] IsZero(message.room_id) -> "ZeroRoomId"
      [] IsZero(message.message_id) -> "ZeroMessageId"
      [] AuthorError(message.author) /= "none" -> AuthorError(message.author)
      [] Len(message.payload) > BridgeMaxPayload -> "PayloadTooLarge"
      [] OTHER -> TextError(message.payload_kind, message.payload)

\* encode_bridge_message, with bridge_message_encoded_len
EncodeBridgeMessage(message, room) ==
    LET author == message.author
        wire == <<message.version>> \o message.room_id \o message.message_id
                \o <<IF author.kind = "hyf" THEN 0 ELSE 1, author.network, Len(author.id)>>
                \o author.id \o BeBytes(message.created_at, TimeLen)
                \o <<message.payload_kind>> \o BeBytes(Len(message.payload), 2)
                \o message.payload
    IN  CASE BridgeMessageError(message) /= "none" -> Err(BridgeMessageError(message))
          [] Len(wire) > BridgeMaxMessage -> Err("MessageTooLarge")
          [] room < Len(wire) -> Err("OutputTooSmall")
          [] OTHER -> Ok(wire)

\* The layout of a room message
BridgeFields ==
    <<"version", "room_id", "message_id", "author_kind", "network", "length", "author",
      "created_at", "payload_kind", "payload_len", "payload">>
BridgeFieldLen(name, fields) ==
    CASE name = "room_id" -> CommunityIdLen
      [] name = "message_id" -> MessageIdLen
      [] name = "author" -> Number(fields.length)
      [] name = "created_at" -> TimeLen
      [] name = "payload_len" -> 2
      [] name = "payload" -> Number(fields.payload_len)
      [] OTHER -> 1

AuthorOf(fields, id) ==
    IF fields.author_kind = <<0>>
    THEN [kind |-> "hyf", network |-> 0, id |-> id]
    ELSE [kind |-> "foreign", network |-> fields.network[1], id |-> id]

\* The tags are looked at once the length of the id is read, and the length
\* before the id is
AuthorFieldError(fields) ==
    LET wrong == AuthorTagError(fields.author_kind[1], fields.network[1]) IN
    CASE wrong /= "none" -> wrong
      [] Number(fields.length) /= AuthorLen(AuthorOf(fields, <<>>)) -> "InvalidAuthorIdLen"
      [] OTHER -> "none"
BridgeFieldError(name, fields) ==
    CASE name = "version" /\ fields.version /= <<BridgeVersion>> -> "InvalidVersion"
      [] name = "room_id" /\ IsZero(fields.room_id) -> "ZeroRoomId"
      [] name = "message_id" /\ IsZero(fields.message_id) -> "ZeroMessageId"
      [] name = "length" -> AuthorFieldError(fields)
      [] name = "payload_kind" /\ fields.payload_kind[1] \notin {TextUtf8, OpaqueBytes} ->
             "UnknownPayloadKind"
      [] name = "payload_len" /\ Number(fields.payload_len) > BridgeMaxPayload ->
             "PayloadTooLarge"
      [] name = "payload" -> TextError(fields.payload_kind[1], fields.payload)
      [] OTHER -> "none"

\* decode_bridge_message
DecodeBridgeMessage(input) ==
    IF Len(input) > BridgeMaxMessage THEN Err("MessageTooLarge")
    ELSE Scanned(Scan(input, BridgeFields,
                      LAMBDA name, c : Short(c, BridgeFieldLen(name, c.fields)),
                      BridgeFieldError),
        "TrailingBytes",
        LAMBDA fields : Ok(
            [version |-> fields.version[1], room_id |-> fields.room_id,
             message_id |-> fields.message_id, author |-> AuthorOf(fields, fields.author),
             created_at |-> Number(fields.created_at),
             payload_kind |-> fields.payload_kind[1], payload |-> fields.payload]))

-----------------------------------------------------------------------------
(* The envelope around it.                                                 *)

\* An envelope around a foreign payload; `params` has the fields that the
\* caller chooses
WrapAs(kind, payload, message_id, destination, params) ==
    Validated([version |-> WireVersion, message_id |-> message_id,
               source |-> params.source, destination |-> destination,
               created_at |-> params.created_at, expires_at |-> params.expires_at,
               hop_limit |-> params.hop_limit, payload_kind |-> kind,
               payload |-> payload])

\* wrap_bridge_message: id and destination are the message's
WrapBridgeMessage(raw, params) ==
    AndThen(DecodeBridgeMessage(raw), LAMBDA message :
        WrapAs(BridgeKind, raw, message.message_id,
               [kind |-> "community", id |-> message.room_id], params))

\* unwrap_bridge_message: an envelope that names another id or another
\* room than its payload is refused
UnwrapBridgeMessage(envelope) ==
    AndThen(Validated(envelope), LAMBDA valid :
        IF valid.payload_kind /= BridgeKind THEN Err("WrongPayloadKind")
        ELSE AndThen(DecodeBridgeMessage(valid.payload), LAMBDA message :
            CASE valid.message_id /= message.message_id -> Err("EnvelopeMessageIdMismatch")
              [] valid.destination /= [kind |-> "community", id |-> message.room_id] ->
                     Err("EnvelopeRoomMismatch")
              [] OTHER -> Ok(valid.payload)))
=============================================================================
