------------------------------- MODULE ForeignCodecs ------------------------
(***************************************************************************)
(* The packets of two foreign networks, as they are on the wire.           *)
(***************************************************************************)
EXTENDS Bytes

-----------------------------------------------------------------------------
(* hyf_bitchat_core: BitChat packets of version 1 and 2.  Packets are      *)
(* encoded in version 2 and never compressed.                              *)

CONSTANTS
    PeerIdLen, BitchatSignatureLen, BitchatTimeLen,
    RouteMaxHops,       \* BITCHAT_ROUTE_MAX_HOPS
    BitchatMaxPacket,   \* BITCHAT_CORE_PACKET_MAX_LEN
    BitchatMaxPayload   \* BITCHAT_PAYLOAD_MAX_LEN

\* The errors of the crate
BitchatErrors ==
    {"PacketTooShort", "PacketTooLarge", "UnknownVersion", "ReservedFlags",
     "V1RouteFlag", "PayloadTooLarge", "RouteTooManyHops", "MissingField",
     "TrailingBytes", "CompressedOriginalLenMissing", "CompressedOriginalLenZero",
     "CompressedOriginalLenTooLarge", "CompressedBodyEmpty",
     "UnsupportedEncodeVersion", "UnsupportedCompressedEncode",
     "InvalidRouteByteLength", "LengthOverflow", "OutputTooSmall"}

\* BitchatFlags::from_wire_byte, once the reserved bits are known to be
\* clear, and to_wire_byte
FlagNames == <<"has_recipient", "has_signature", "is_compressed", "has_route", "is_rsr">>
ReservedFlag == 2^Len(FlagNames)
FlagsOf(byte) ==
    [name \in {FlagNames[i] : i \in DOMAIN FlagNames} |->
        \E i \in DOMAIN FlagNames : name = FlagNames[i] /\ (byte \div 2^(i - 1)) % 2 = 1]
FlagsByte(flags) ==
    LET upTo[i \in 0..Len(FlagNames)] ==
            IF i = 0 THEN 0
            ELSE upTo[i - 1] + (IF flags[FlagNames[i]] THEN 2^(i - 1) ELSE 0)
    IN  upTo[Len(FlagNames)]

\* BITCHAT_V1_HEADER_LEN, BITCHAT_V2_HEADER_LEN: all up to the sender id,
\* whose length field has two or four bytes
LengthWidth(version) == IF version = 1 THEN 2 ELSE 4
FixedHeaderLen(version) == 4 + BitchatTimeLen + LengthWidth(version)

\* DecodeCursor
Field(c, n) == Read(c, n, "MissingField")

\* decode_payload: a compressed payload starts with the length of the
\* original
PayloadError(version, flags, bytes) ==
    LET preamble == LengthWidth(version)
        original == Number(Take(bytes, preamble))
    IN  CASE ~flags.is_compressed -> "none"
          [] Len(bytes) < preamble -> "CompressedOriginalLenMissing"
          [] original = 0 -> "CompressedOriginalLenZero"
          [] original > BitchatMaxPayload -> "CompressedOriginalLenTooLarge"
          [] Len(bytes) = preamble -> "CompressedBodyEmpty"
          [] OTHER -> "none"
PayloadOf(version, flags, bytes) ==
    IF flags.is_compressed
    THEN [compressed |-> TRUE, original_len |-> Number(Take(bytes, LengthWidth(version))),
          bytes |-> Drop(bytes, LengthWidth(version))]
    ELSE [compressed |-> FALSE, bytes |-> bytes]

\* The layout: the flags say which of the later fields are there
BitchatFields ==
    <<"version", "packet_type", "ttl", "timestamp", "flags", "length", "sender_id",
      "recipient_id", "hops", "route", "payload", "signature">>
FlagsIn(fields) == FlagsOf(fields.flags[1])
BitchatFieldLen(name, fields) ==
    CASE name = "timestamp" -> BitchatTimeLen
      [] name = "length" -> LengthWidth(fields.version[1])
      [] name = "sender_id" -> PeerIdLen
      [] name = "recipient_id" -> IF FlagsIn(fields).has_recipient THEN PeerIdLen ELSE 0
      [] name = "hops" -> IF FlagsIn(fields).has_route THEN 1 ELSE 0
      [] name = "route" -> Number(fields.hops) * PeerIdLen
      [] name = "payload" -> Number(fields.length)
      [] name = "signature" ->
             IF FlagsIn(fields).has_signature THEN BitchatSignatureLen ELSE 0
      [] OTHER -> 1
BitchatFieldError(name, fields) ==
    CASE name = "flags" /\ fields.flags[1] >= ReservedFlag -> "ReservedFlags"
      [] name = "flags" /\ fields.version = <<1>> /\ FlagsIn(fields).has_route ->
             "V1RouteFlag"
      [] name = "length" /\ Number(fields.length) > BitchatMaxPayload -> "PayloadTooLarge"
      [] name = "hops" /\ Number(fields.hops) > RouteMaxHops -> "RouteTooManyHops"
      [] name = "payload" ->
             PayloadError(fields.version[1], FlagsIn(fields), fields.payload)
      [] OTHER -> "none"

\* decode_bitchat_packet
DecodeBitchat(input) ==
    LET option(present, field) == IF present THEN Some(field) ELSE None IN
    CASE Len(input) > BitchatMaxPacket -> Err("PacketTooLarge")
      [] input = <<>> -> Err("PacketTooShort")
      [] input[1] \notin {1, 2} -> Err("UnknownVersion")
      [] Len(input) < FixedHeaderLen(input[1]) -> Err("PacketTooShort")
      [] OTHER -> Scanned(
            Scan(input, BitchatFields,
                 LAMBDA name, c : Field(c, BitchatFieldLen(name, c.fields)),
                 BitchatFieldError),
            "TrailingBytes",
            LAMBDA fields : Ok(
                [version |-> fields.version[1], packet_type |-> fields.packet_type[1],
                 ttl |-> fields.ttl[1], timestamp |-> Number(fields.timestamp),
                 flags |-> FlagsIn(fields), sender_id |-> fields.sender_id,
                 recipient_id |-> option(FlagsIn(fields).has_recipient, fields.recipient_id),
                 route |-> option(FlagsIn(fields).has_route,
                                  [hop_count |-> Number(fields.hops),
                                   raw_hops |-> fields.route]),
                 payload |-> PayloadOf(fields.version[1], FlagsIn(fields), fields.payload),
                 signature |-> option(FlagsIn(fields).has_signature, fields.signature)]))

\* canonical_encode_flags: what is there decides, not what the flags say
CanonicalFlags(packet) ==
    [has_recipient |-> IsSome(packet.recipient_id), has_signature |-> IsSome(packet.signature),
     is_compressed |-> FALSE, has_route |-> IsSome(packet.route),
     is_rsr |-> packet.flags.is_rsr]

\* encode_plain_payload_len and encoded_route_len, in the order of
\* bitchat_packet_encoded_len_v2
BitchatEncodeError(packet) ==
    CASE packet.version /= 2 -> "UnsupportedEncodeVersion"
      [] packet.payload.compressed -> "UnsupportedCompressedEncode"
      [] Len(packet.payload.bytes) > BitchatMaxPayload -> "PayloadTooLarge"
      [] IsSome(packet.route) /\ packet.route[1].hop_count > RouteMaxHops ->
             "RouteTooManyHops"
      [] IsSome(packet.route)
             /\ Len(packet.route[1].raw_hops) /= packet.route[1].hop_count * PeerIdLen ->
             "InvalidRouteByteLength"
      [] OTHER -> "none"

Present(option) == IF IsSome(option) THEN option[1] ELSE <<>>

\* encode_bitchat_packet_v2
EncodeBitchat(packet, room) ==
    LET route == IF IsSome(packet.route)
                 THEN <<packet.route[1].hop_count>> \o packet.route[1].raw_hops ELSE <<>>
        wire == <<2, packet.packet_type, packet.ttl>>
                \o BeBytes(packet.timestamp, BitchatTimeLen)
                \o <<FlagsByte(CanonicalFlags(packet))>>
                \o BeBytes(Len(packet.payload.bytes), 4) \o packet.sender_id
                \o Present(packet.recipient_id) \o route
                \o packet.payload.bytes \o Present(packet.signature)
    IN  CASE BitchatEncodeError(packet) /= "none" -> Err(BitchatEncodeError(packet))
          [] Len(wire) > BitchatMaxPacket -> Err("PacketTooLarge")
          [] room < Len(wire) -> Err("OutputTooSmall")
          [] OTHER -> Ok(wire)

-----------------------------------------------------------------------------
(* hyf_lxmf_core: LXMF messages, their MessagePack payload and the message *)
(* id.  The eight bytes of a float are FloatLen bytes here; the first of   *)
(* them is NotFinite where the time is not a number of seconds.            *)

CONSTANTS
    LxmfDigest(_),      \* SHA-256 of a byte string, as one number
    LxmfHashLen, LxmfSignatureLen, LxmfIdLen, FloatLen, NotFinite,
    LxmfMaxMessage, MaxDepth, MaxTitle, MaxContent, MaxFields, MaxStamp

\* The errors of the crate
LxmfErrors ==
    {"MessageTooShort", "MessageTooLarge", "LxmfPayloadTooLarge",
     "InvalidPayloadArrayLen", "UnsupportedMsgpackType", "MsgpackTruncated",
     "MsgpackTrailingBytes", "MsgpackDepthExceeded", "InvalidTimestamp",
     "TitleTooLarge", "ContentTooLarge", "FieldsTooLarge", "StampTooLarge",
     "OutputTooSmall"}

LxmfHeaderLen == 2 * LxmfHashLen + LxmfSignatureLen
LxmfMaxPayload == LxmfMaxMessage - LxmfHeaderLen

-----------------------------------------------------------------------------
(* MsgpackCursor.                                                          *)

Mp(c, n) == Read(c, n, "MsgpackTruncated")

\* The markers by what follows them: nothing, so many bytes, or a length
\* of so many bytes and then that many bytes or values.
ImmediateMarkers == (0..127) \cup (224..255) \cup {192, 194, 195}
FixMap == 128..143
FixArray == 144..159
FixString == 160..191
ScalarLen(marker) ==
    CASE marker \in {204, 208} -> 1
      [] marker \in {205, 209} -> 2
      [] marker \in {202, 206, 210} -> 4
      [] marker = 203 -> FloatLen
      [] marker \in {207, 211} -> 8
      [] OTHER -> 0
FixExt == 212..216
LengthLen(marker) ==
    CASE marker \in {196, 199, 217} -> 1
      [] marker \in {197, 200, 218, 220, 222} -> 2
      [] marker \in {198, 201, 219, 221, 223} -> 4
      [] OTHER -> 0
Binary == {196, 197, 198, 217, 218, 219}
Ext == {199, 200, 201}
Array == {220, 221}
Map == {222, 223}

\* A marker is read, then what it announces.
Marked(c, ByMarker(_, _)) ==
    LET marked(at) == IF at.error = "none" THEN ByMarker(at, Value(at)) ELSE at
    IN  marked(Mp(c, 1))
\* read_len, and then what it counts
Counted(c, marker, Then(_, _)) ==
    LET counted(at) == IF at.error = "none" THEN Then(at, Value(at)) ELSE at
    IN  counted(Mp(c, LengthLen(marker)))

\* skip_value, skip_array, skip_map, skip_ext: the cursor behind the value
RECURSIVE SkipValue(_, _), SkipValues(_, _, _)
SkipValue(c, depth) ==
    IF depth > MaxDepth THEN Fail(c, "MsgpackDepthExceeded")
    ELSE Marked(c, LAMBDA at, marker :
        CASE marker \in ImmediateMarkers -> at
          [] marker \in FixMap -> SkipValues(at, 2 * (marker % 16), depth + 1)
          [] marker \in FixArray -> SkipValues(at, marker % 16, depth + 1)
          [] marker \in FixString -> Mp(at, marker % 32)
          [] ScalarLen(marker) > 0 -> Mp(at, ScalarLen(marker))
          [] marker \in FixExt -> Mp(at, 1 + 2^(marker - 212))
          [] marker \in Binary -> Counted(at, marker, Mp)
          [] marker \in Ext -> Counted(at, marker, LAMBDA d, n : Mp(d, 1 + n))
          [] marker \in Array ->
                 Counted(at, marker, LAMBDA d, n : SkipValues(d, n, depth + 1))
          [] marker \in Map ->
                 Counted(at, marker, LAMBDA d, n : SkipValues(d, 2 * n, depth + 1))
          [] OTHER -> Fail(at, "UnsupportedMsgpackType"))
SkipValues(c, n, depth) ==
    IF n = 0 \/ c.error /= "none" THEN c ELSE SkipValues(SkipValue(c, depth), n - 1, depth)

\* read_raw_value: the bytes of one value, whatever it is
ReadRawValue(c) ==
    LET raw(after) == IF after.error /= "none" THEN after
                      ELSE [after EXCEPT !.got = SubSeq(c.input, c.at + 1, after.at)]
    IN  raw(SkipValue(c, 1))

\* read_raw_map
ReadRawMap(c) ==
    Marked(c, LAMBDA at, marker : IF marker \in FixMap \cup Map THEN ReadRawValue(c)
                                  ELSE Fail(at, "UnsupportedMsgpackType"))

\* read_array_len: the number of elements in `got`
ReadArrayLen(c) ==
    Marked(c, LAMBDA at, marker :
        CASE marker \in FixArray -> [at EXCEPT !.got = <<marker % 16>>]
          [] marker \in Array -> Mp(at, LengthLen(marker))
          [] OTHER -> Fail(at, "UnsupportedMsgpackType"))

\* read_bin_or_str_bytes
ReadBytes(c) ==
    Marked(c, LAMBDA at, marker :
        CASE marker \in FixString -> Mp(at, marker % 32)
          [] marker \in Binary -> Counted(at, marker, Mp)
          [] OTHER -> Fail(at, "UnsupportedMsgpackType"))

\* read_float64
ReadFloat(c) ==
    Marked(c, LAMBDA at, marker : IF marker = 203 THEN Mp(at, FloatLen)
                                  ELSE Fail(at, "UnsupportedMsgpackType"))

-----------------------------------------------------------------------------
(* Payload and message.                                                    *)

Finite(float) == float[1] /= NotFinite

\* The elements of a payload; the stamp is there in an array of five
PayloadFields == <<"array", "timestamp", "title", "content", "fields", "stamp">>
Stamped(elements) == Number(elements.array) = 5
ReadElement(name, c) ==
    CASE name = "array" -> ReadArrayLen(c)
      [] name = "timestamp" -> ReadFloat(c)
      [] name \in {"title", "content"} -> ReadBytes(c)
      [] name = "fields" -> ReadRawMap(c)
      [] name = "stamp" -> IF Stamped(c.fields) THEN ReadRawValue(c) ELSE Mp(c, 0)
ElementError(name, elements) ==
    CASE name = "array" /\ Number(elements.array) \notin {4, 5} -> "InvalidPayloadArrayLen"
      [] name = "timestamp" /\ ~Finite(elements.timestamp) -> "InvalidTimestamp"
      [] name = "title" /\ Len(elements.title) > MaxTitle -> "TitleTooLarge"
      [] name = "content" /\ Len(elements.content) > MaxContent -> "ContentTooLarge"
      [] name = "fields" /\ Len(elements.fields) > MaxFields -> "FieldsTooLarge"
      [] name = "stamp" /\ Len(elements.stamp) > MaxStamp -> "StampTooLarge"
      [] OTHER -> "none"

\* decode_lxmf_payload
DecodeLxmfPayload(input) ==
    IF Len(input) > LxmfMaxPayload THEN Err("LxmfPayloadTooLarge")
    ELSE Scanned(Scan(input, PayloadFields, ReadElement, ElementError),
        "MsgpackTrailingBytes",
        LAMBDA elements : Ok(
            [timestamp |-> elements.timestamp, title |-> elements.title,
             content |-> elements.content, fields |-> elements.fields,
             stamp |-> IF Stamped(elements) THEN Some(elements.stamp) ELSE None]))

\* validate_payload_for_encode, validate_raw_map
LxmfEncodeError(payload) ==
    LET map == ReadRawMap(Cursor(payload.fields)) IN
    CASE ~Finite(payload.timestamp) -> "InvalidTimestamp"
      [] Len(payload.title) > MaxTitle -> "TitleTooLarge"
      [] Len(payload.content) > MaxContent -> "ContentTooLarge"
      [] map.error /= "none" -> map.error
      [] map.at /= Len(payload.fields) -> "MsgpackTrailingBytes"
      [] Len(payload.fields) > MaxFields -> "FieldsTooLarge"
      [] IsSome(payload.stamp) /\ Len(payload.stamp[1]) > MaxStamp -> "StampTooLarge"
      [] OTHER -> "none"

\* write_bin
WriteBin(bytes) ==
    (IF Len(bytes) <= 255 THEN <<196, Len(bytes)>> ELSE <<197>> \o BeBytes(Len(bytes), 2))
        \o bytes

\* encode_lxmf_payload: always four elements, so that a stamp is dropped
EncodeLxmfPayload(payload, room) ==
    LET wire == <<148, 203>> \o payload.timestamp \o WriteBin(payload.title)
                \o WriteBin(payload.content) \o payload.fields
    IN  CASE LxmfEncodeError(payload) /= "none" -> Err(LxmfEncodeError(payload))
          [] Len(wire) > LxmfMaxPayload -> Err("LxmfPayloadTooLarge")
          [] room < Len(wire) -> Err("OutputTooSmall")
          [] OTHER -> Ok(wire)

\* decode_lxmf_message
DecodeLxmf(input) ==
    LET packed == Drop(input, LxmfHeaderLen) IN
    CASE Len(input) < LxmfHeaderLen -> Err("MessageTooShort")
      [] Len(input) > LxmfMaxMessage -> Err("MessageTooLarge")
      [] OTHER -> AndThen(DecodeLxmfPayload(packed), LAMBDA payload :
             Ok([destination |-> Take(input, LxmfHashLen),
                 source |-> SubSeq(input, LxmfHashLen + 1, 2 * LxmfHashLen),
                 signature |-> SubSeq(input, 2 * LxmfHashLen + 1, LxmfHeaderLen),
                 packed |-> packed, payload |-> payload]))

\* encode_lxmf_message
EncodeLxmf(destination, source, signature, payload, room) ==
    AndThen(EncodeLxmfPayload(payload, LxmfMaxPayload), LAMBDA packed :
        LET required == LxmfHeaderLen + Len(packed) IN
        CASE required > LxmfMaxMessage -> Err("MessageTooLarge")
          [] room < required -> Err("OutputTooSmall")
          [] OTHER -> Ok(destination \o source \o signature \o packed))

\* SigningPayload::parse: what the id and the signature cover, which is the
\* payload as it came, or without its stamp
SigningPayload(packed) ==
    LET unstamped(array, four) == <<148>> \o SubSeq(packed, array.at + 1, four.at)
        parsed(array, four) ==
            LET stamped == Value(array) = 5
                all == SkipValues(four, IF stamped THEN 1 ELSE 0, 1)
            IN  CASE array.error /= "none" -> Err(array.error)
                  [] Value(array) \notin {4, 5} -> Err("InvalidPayloadArrayLen")
                  [] all.error /= "none" -> Err(all.error)
                  [] all.at /= Len(packed) -> Err("MsgpackTrailingBytes")
                  [] OTHER -> Ok(IF stamped THEN unstamped(array, four) ELSE packed)
        skipped(array) == parsed(array, SkipValues(array, 4, 1))
    IN  skipped(ReadArrayLen(Cursor(packed)))

\* lxmf_message_id and write_lxmf_signature_input
LxmfMessageId(message) ==
    AndThen(SigningPayload(message.packed), LAMBDA payload :
        Ok([i \in 1..LxmfIdLen |->
               LxmfDigest(<<i>> \o message.destination \o message.source \o payload)]))
LxmfSignatureInput(message, room) ==
    AndThen(SigningPayload(message.packed), LAMBDA payload :
        LET input == message.destination \o message.source \o payload
                     \o LxmfMessageId(message).value
        IN  IF room < Len(input) THEN Err("OutputTooSmall") ELSE Ok(input))
=============================================================================
