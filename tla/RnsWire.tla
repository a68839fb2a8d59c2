------------------------------ MODULE RnsWire ------------------------------
(***************************************************************************)
(* hyf_rns_core, hyf_rns_crypto and hyf_rns_wire: hashes, identities,      *)
(* signatures, tokens and the encryption of a single packet; Reticulum     *)
(* packets, their hashes, announces and interface access codes.  The       *)
(* primitives themselves are parameters; what the code does around them    *)
(* (lengths, order of checks, which key is tried) is translated.           *)
(***************************************************************************)
EXTENDS Bytes

CONSTANTS
    Digest(_),          \* SHA-256 of a byte string, as one number
    PublicOf(_),        \* the public key of a secret, X25519 or Ed25519
    Shared(_, _),       \* X25519 of a secret and a public key; 0 if not contributory
    InvalidPoints,      \* Ed25519 public keys that do not decode
    HashLen, NameHashLen,
    SignatureLen, BlockLen, IvLen, HmacLen,
    TokenKeyLen128, TokenKeyLen256,
    Mtu,                \* RNS_MTU
    IfacMaxSize,        \* RNS_IFAC_MAX_SIZE
    RatchetLen, RandomLen,
    MaxTimestamp        \* MAX_RETICULUM_RANDOM_HASH_TIMESTAMP

ASSUME RnsAssumption == HashLen \in Nat /\ Mtu \in Nat

\* The errors of hyf_rns_crypto
CryptoErrors ==
    {"InvalidPublicIdentity", "InvalidSecretIdentity", "InvalidSignature",
     "EmptyHkdfOutput", "EmptyHkdfInputKeyMaterial", "InvalidHkdfLength",
     "LengthOverflow", "OutputBufferTooShort", "InvalidPadding", "InvalidToken",
     "InvalidTokenKeyLength", "AuthenticationFailed", "RandomSourceFailed",
     "CipherFailed"}

\* `length` bytes that depend on a purpose and on all of `data`
Stream(purpose, data, length) == [i \in 1..length |-> Digest(<<purpose, i>> \o data)]

\* full_hash and truncated_hash: a prefix of the same digest
FullHash(data) == Stream(1, data, HashLen + NameHashLen)
TruncatedHash(data) == Take(FullHash(data), HashLen)

\* destination_name_hash: names are numbers here and 0 is the dot, which
\* separates them and may not occur in one.
NameHash(app_name, aspects) ==
    LET dotted[i \in 0..Len(aspects)] ==
            IF i = 0 THEN <<app_name>> ELSE dotted[i - 1] \o <<0, aspects[i]>>
    IN  CASE app_name = 0 -> Err("DestinationAppNameContainsDot")
          [] \E i \in DOMAIN aspects : aspects[i] = 0 -> Err("DestinationAspectContainsDot")
          [] OTHER -> Ok(Take(FullHash(dotted[Len(aspects)]), NameHashLen))

\* destination_hash
DestinationHash(name_hash, identity_hash) == TruncatedHash(name_hash \o identity_hash)

-----------------------------------------------------------------------------
(* Identities: an X25519 key followed by an Ed25519 key, a byte each.      *)

PublicIdentity(secret) == [x |-> PublicOf(secret.x), ed |-> PublicOf(secret.ed)]
PublicIdentityBytes(identity) == <<identity.x, identity.ed>>

\* public_identity_from_bytes: only the Ed25519 half is checked
PublicIdentityFromBytes(bytes) ==
    IF bytes[2] \in InvalidPoints THEN Err("InvalidPublicIdentity")
                                  ELSE Ok([x |-> bytes[1], ed |-> bytes[2]])

\* identity_hash
IdentityHash(identity) == TruncatedHash(PublicIdentityBytes(identity))

\* sign and verify: one signature for a key and a message
SignatureBy(public, message) == Stream(2, <<public>> \o message, SignatureLen)
Sign(secret, message) == SignatureBy(PublicOf(secret.ed), message)
Verify(identity, message, signature) ==
    CASE identity.ed \in InvalidPoints -> Err("InvalidPublicIdentity")
      [] signature /= SignatureBy(identity.ed, message) -> Err("InvalidSignature")
      [] OTHER -> Ok(TRUE)

\* rns_hkdf_sha256: an empty salt is the default one
Hkdf(length, material, salt) ==
    CASE length = 0 -> Err("EmptyHkdfOutput")
      [] material = <<>> -> Err("EmptyHkdfInputKeyMaterial")
      [] OTHER -> Ok(Stream(3, (IF salt = <<>> THEN <<0>> ELSE salt) \o <<0>> \o material,
                            length))

-----------------------------------------------------------------------------
(* Padding and tokens.                                                     *)

\* Mutant: a text that fills its last block gets no padding.
PaddedLenTight(length) == length + ((BlockLen - (length % BlockLen)) % BlockLen)

\* pkcs7_padded_len and pkcs7_pad
PaddedLen(length) == length + BlockLen - (length % BlockLen)
Pad(input) ==
    LET padding == PaddedLen(Len(input)) - Len(input)
    IN  input \o [i \in 1..padding |-> padding]

\* pkcs7_unpad
Unpad(input) ==
    LET padding == input[Len(input)] IN
    CASE input = <<>> \/ Len(input) % BlockLen /= 0 -> Err("InvalidPadding")
      [] padding = 0 \/ padding > BlockLen \/ padding > Len(input) -> Err("InvalidPadding")
      [] \E i \in Len(input) - padding + 1 .. Len(input) : input[i] /= padding ->
             Err("InvalidPadding")
      [] OTHER -> Ok(Take(input, Len(input) - padding))

\* TokenKeys::split: the first half signs, the second encrypts
SplitKey(key) ==
    IF Len(key) \in {TokenKeyLen128, TokenKeyLen256}
    THEN Ok([signing |-> Take(key, Len(key) \div 2),
             encryption |-> Drop(key, Len(key) \div 2)])
    ELSE Err("InvalidTokenKeyLength")

\* encrypt_cbc and decrypt_cbc: any cipher that the same key and iv undo
Cipher(keys, iv, text) ==
    LET mask == Stream(4, keys.encryption \o iv, Len(text))
    IN  [i \in DOMAIN text |-> Xor(text[i], mask[i])]
\* Mutant: the tag does not cover the iv.
HmacNoIv(keys, message) == Stream(5, keys.signing \o Drop(message, IvLen), HmacLen)

\* hmac_sha256, verify_hmac_sha256
Hmac(keys, message) == Stream(5, keys.signing \o message, HmacLen)

TokenOverhead == IvLen + HmacLen

\* token_encrypt_with_iv: iv, ciphertext, and a tag over both
TokenEncrypt(key, plaintext, iv, room) ==
    AndThen(SplitKey(key), LAMBDA keys :
        LET signed == iv \o Cipher(keys, iv, Pad(plaintext)) IN
        IF room < TokenOverhead + PaddedLen(Len(plaintext))
        THEN Err("OutputBufferTooShort")
        ELSE Ok(signed \o Hmac(keys, signed)))

\* token_decrypt: the tag is checked before the room and the padding
TokenDecrypt(key, token, room) ==
    AndThen(SplitKey(key), LAMBDA keys :
        LET length == Len(token) - TokenOverhead
            signed == Take(token, Len(token) - HmacLen)
            text == SubSeq(token, IvLen + 1, IvLen + length)
        IN  CASE length <= 0 -> Err("InvalidToken")
              [] length % IvLen /= 0 -> Err("InvalidToken")
              [] Hmac(keys, signed) /= Drop(token, Len(signed)) -> Err("AuthenticationFailed")
              [] room < length -> Err("OutputBufferTooShort")
              [] OTHER -> Unpad(Cipher(keys, Take(token, IvLen), text)))

-----------------------------------------------------------------------------
(* A single packet: an ephemeral public key, a byte here, and a token.     *)

\* derive_token_key
TokenKey(shared, recipient) ==
    IF shared = 0 THEN Err("InvalidPublicIdentity")
                  ELSE Hkdf(TokenKeyLen256, <<shared>>, IdentityHash(recipient))

\* encrypt_with_secret, for a random ephemeral secret and iv
EncryptWithSecret(recipient, key_x, plaintext, ephemeral, iv, room) ==
    IF room < 1 + TokenOverhead + PaddedLen(Len(plaintext))
    THEN Err("OutputBufferTooShort")
    ELSE AndThen(TokenKey(Shared(ephemeral, key_x), recipient), LAMBDA key :
         AndThen(TokenEncrypt(key, plaintext, iv, room - 1), LAMBDA token :
             Ok(<<PublicOf(ephemeral)>> \o token)))

\* encrypt_for_identity: to the key of the identity
EncryptForIdentity(recipient, plaintext, ephemeral, iv, room) ==
    EncryptWithSecret(recipient, recipient.x, plaintext, ephemeral, iv, room)

\* decrypt_with_secret_len
DecryptWith(secret, recipient, packet, room) ==
    AndThen(TokenKey(Shared(secret, packet[1]), recipient), LAMBDA key :
        TokenDecrypt(key, Drop(packet, 1), room))

\* decrypt_for_identity: the ratchets in order, then the identity's own key
\* unless ratchets are enforced.  Only a wrong key lets the next be tried;
\* index 0 stands for no ratchet.
DecryptForIdentity(secret, packet, ratchets, enforce, room) ==
    LET recipient == PublicIdentity(secret)
        with(i) == DecryptWith(ratchets[i], recipient, packet, room)
        decided == {i \in DOMAIN ratchets : with(i).error /= "AuthenticationFailed"}
        first == CHOOSE i \in decided : \A j \in decided : i <= j
        outcome(result, index) == AndThen(result, LAMBDA plaintext :
            Ok([plaintext |-> plaintext, ratchet |-> index]))
    IN  CASE Len(packet) <= 1 -> Err("InvalidToken")
          [] decided /= {} -> outcome(with(first), first)
          [] enforce -> Err("AuthenticationFailed")
          [] OTHER -> outcome(DecryptWith(secret.x, recipient, packet, room), 0)

-----------------------------------------------------------------------------
(* hyf_rns_wire.                                                           *)

\* The errors of hyf_rns_wire
WireErrors ==
    {"UnsupportedPacketAccessCode", "InvalidFlags", "InvalidHeaderType",
     "InvalidTransportType", "InvalidDestinationType", "InvalidPacketType",
     "PacketTooShort", "PacketTooLarge", "MissingTransportId",
     "UnexpectedTransportId", "OutputBufferTooShort", "MalformedAnnounce",
     "InvalidPublicIdentity", "InvalidSignature", "CryptoFailed",
     "InvalidIfacSize", "InvalidIfacKey", "MissingPacketAccessCode",
     "InvalidPacketAccessCode", "DestinationMismatch", "TimestampOverflow",
     "RandomSourceFailed", "InvalidDestinationName"}

\* map_crypto_error
MapCryptoError(error) ==
    CASE error = "InvalidPublicIdentity" -> "InvalidPublicIdentity"
      [] error \in {"InvalidSecretIdentity", "InvalidSignature"} -> "InvalidSignature"
      [] OTHER -> "CryptoFailed"

-----------------------------------------------------------------------------
(* Flags: the bits 6, 5, 4, 3-2 and 1-0; bit 7 marks an access code.       *)

IfacFlag == 128
Header1 == 0
Header2 == 1
Single == 0
DataPacket == 0
Announce == 1
ContextNone == 0

EncodeFlags(flags) ==
    64 * flags.header_type + (IF flags.context_flag THEN 32 ELSE 0)
        + 16 * flags.transport_type + 4 * flags.destination_type + flags.packet_type

DecodeFlags(byte) ==
    IF byte >= IfacFlag
    THEN Err("UnsupportedPacketAccessCode")
    ELSE Ok([header_type |-> (byte \div 64) % 2, context_flag |-> (byte \div 32) % 2 = 1,
             transport_type |-> (byte \div 16) % 2,
             destination_type |-> (byte \div 4) % 4, packet_type |-> byte % 4])

-----------------------------------------------------------------------------
(* Packets.  transport_id is an option, the rest of the fields are bytes.  *)

\* header_len
HeaderLen(header_type) == IF header_type = Header1 THEN HashLen + 3 ELSE 2 * HashLen + 3

\* decode_header_1_packet, decode_header_2_packet
Decoded(input, flags, transport_id, at) ==
    [flags |-> flags, hops |-> input[2], transport_id |-> transport_id,
     destination_hash |-> SubSeq(input, at + 1, at + HashLen),
     context |-> input[at + HashLen + 1], data |-> Drop(input, at + HashLen + 1)]
DecodeHeader1(input, flags) == Decoded(input, flags, None, 2)
DecodeHeader2(input, flags) ==
    Decoded(input, flags, Some(SubSeq(input, 3, 2 + HashLen)), 2 + HashLen)

\* decode_packet
DecodePacket(input) ==
    IF Len(input) > Mtu THEN Err("PacketTooLarge")
    ELSE IF input = <<>> THEN Err("PacketTooShort")
    ELSE AndThen(DecodeFlags(input[1]), LAMBDA flags :
        IF Len(input) < HeaderLen(flags.header_type) THEN Err("PacketTooShort")
        ELSE Ok(IF flags.header_type = Header1 THEN DecodeHeader1(input, flags)
                                               ELSE DecodeHeader2(input, flags)))

\* validate_transport_id
TransportError(packet) ==
    CASE packet.flags.header_type = Header1 /\ IsSome(packet.transport_id) ->
             "UnexpectedTransportId"
      [] packet.flags.header_type = Header2 /\ ~IsSome(packet.transport_id) ->
             "MissingTransportId"
      [] OTHER -> "none"

\* encode_packet: the room is looked at before the transport id
EncodePacket(packet, room) ==
    LET required == HeaderLen(packet.flags.header_type) + Len(packet.data) IN
    CASE required > Mtu -> Err("PacketTooLarge")
      [] room < required -> Err("OutputBufferTooShort")
      [] TransportError(packet) /= "none" -> Err(TransportError(packet))
      [] OTHER -> Ok(<<EncodeFlags(packet.flags), packet.hops>>
                     \o (IF IsSome(packet.transport_id) THEN packet.transport_id[1] ELSE <<>>)
                     \o packet.destination_hash \o <<packet.context>> \o packet.data)

\* write_packet_hashable_part: without hops, transport id and the bits
\* that a transport node changes
HashablePart(input) ==
    AndThen(DecodePacket(input), LAMBDA packet :
        Ok(<<input[1] % 16>> \o
           Drop(input, IF packet.flags.header_type = Header1 THEN 2 ELSE 2 + HashLen)))

\* packet_hash and packet_truncated_hash
PacketHash(input) ==
    AndThen(HashablePart(input), LAMBDA part : Ok(FullHash(part)))
PacketTruncatedHash(input) ==
    AndThen(PacketHash(input), LAMBDA hash : Ok(Take(hash, HashLen)))

-----------------------------------------------------------------------------
(* Announces.                                                              *)

\* The layout of an announce; what follows it is app data
AnnounceFields == <<"public_identity", "name_hash", "random_hash", "ratchet", "signature">>
AnnounceFieldLen(name, context_flag) ==
    CASE name = "public_identity" -> 2
      [] name = "name_hash" -> NameHashLen
      [] name = "random_hash" -> RandomLen
      [] name = "ratchet" -> IF context_flag THEN RatchetLen ELSE 0
      [] name = "signature" -> SignatureLen

\* decode_announce_packet, in the layout that the context flag selects
DecodeAnnounce(packet) ==
    LET context_flag == packet.flags.context_flag
        scan == Scan(packet.data, AnnounceFields,
                     LAMBDA name, c : Read(c, AnnounceFieldLen(name, context_flag),
                                           "MalformedAnnounce"),
                     LAMBDA name, fields : "none")
    IN  CASE packet.flags.packet_type /= Announce -> Err("InvalidPacketType")
          [] packet.flags.destination_type /= Single -> Err("InvalidDestinationType")
          [] scan.error /= "none" -> Err(scan.error)
          [] OTHER -> Ok([destination_hash |-> packet.destination_hash,
                          public_identity |-> scan.fields.public_identity,
                          name_hash |-> scan.fields.name_hash,
                          random_hash |-> scan.fields.random_hash,
                          ratchet |-> IF context_flag THEN Some(scan.fields.ratchet) ELSE None,
                          signature |-> scan.fields.signature,
                          app_data |-> Drop(packet.data, scan.at)])

\* build_announce_signed_data
SignedData(announce) ==
    announce.destination_hash \o announce.public_identity \o announce.name_hash
        \o announce.random_hash
        \o (IF IsSome(announce.ratchet) THEN announce.ratchet[1] ELSE <<>>)
        \o announce.app_data

\* reticulum_random_hash: random bytes, then the low bytes of the clock
RandomHash(random, now) ==
    IF now > MaxTimestamp THEN Err("TimestampOverflow") ELSE Ok(Append(random, now))

\* announce_encode_data_len, packet_len_for_announce_data
AnnouncePacketLen(app_data) ==
    HeaderLen(Header1) + 2 + NameHashLen + RandomLen + SignatureLen + Len(app_data)

\* encode_announce_packet: never with a ratchet
EncodeAnnounce(secret, app_name, aspects, app_data, random, now, room) ==
    LET public == PublicIdentity(secret)
        length == AnnouncePacketLen(app_data)
        name == NameHash(app_name, aspects)
    IN  CASE length > Mtu -> Err("PacketTooLarge")
          [] room < length -> Err("OutputBufferTooShort")
          [] ~IsOk(name) -> Err("InvalidDestinationName")
          [] OTHER -> AndThen(RandomHash(random, now), LAMBDA random_hash :
                 LET destination == DestinationHash(name.value, IdentityHash(public))
                     signed == destination \o PublicIdentityBytes(public) \o name.value
                               \o random_hash \o app_data
                 IN  EncodePacket(
                        [flags |-> [header_type |-> Header1, context_flag |-> FALSE,
                                    transport_type |-> 0, destination_type |-> Single,
                                    packet_type |-> Announce],
                         hops |-> 0, transport_id |-> None,
                         destination_hash |-> destination, context |-> ContextNone,
                         data |-> PublicIdentityBytes(public) \o name.value \o random_hash
                                  \o Sign(secret, signed) \o app_data], room))

\* validate_announce_packet
ValidateAnnounce(packet) ==
    AndThen(DecodeAnnounce(packet), LAMBDA announce :
        LET public == PublicIdentityFromBytes(announce.public_identity)
            expected == DestinationHash(announce.name_hash, IdentityHash(public.value))
            verified == Verify(public.value, SignedData(announce), announce.signature)
        IN  CASE ~IsOk(public) -> Err(MapCryptoError(public.error))
              [] expected /= announce.destination_hash -> Err("DestinationMismatch")
              [] ~IsOk(verified) -> Err(MapCryptoError(verified.error))
              [] OTHER -> Ok(announce))

-----------------------------------------------------------------------------
(* Interface access codes.                                                 *)

\* validate_ifac_size, validate_ifac_key
IfacError(key, size) ==
    CASE size \notin 1..IfacMaxSize -> "InvalidIfacSize"
      [] key = <<>> -> "InvalidIfacKey"
      [] OTHER -> "none"

\* The last bytes of the signature of the packet
Ifac(secret, raw, size) == Drop(Sign(secret, raw), SignatureLen - size)

\* The bits below the access flag, masked
Mask7(byte, mask) == Xor(byte % IfacFlag, mask % IfacFlag)

\* ifac_apply_outbound: the code goes behind the two header bytes, and
\* everything but the code and the flag is masked
IfacApply(raw, secret, key, size, room) ==
    LET required == Len(raw) + size
        ifac == Ifac(secret, raw, size)
        mask == Hkdf(required, ifac, key)
    IN  CASE IfacError(key, size) /= "none" -> Err(IfacError(key, size))
          [] Len(raw) <= 2 -> Err("PacketTooShort")
          [] Len(raw) > Mtu -> Err("PacketTooLarge")
          [] raw[1] >= IfacFlag -> Err("UnsupportedPacketAccessCode")
          [] required > Mtu -> Err("PacketTooLarge")
          [] room < required -> Err("OutputBufferTooShort")
          [] OTHER -> Ok([i \in 1..required |->
                 CASE i = 1 -> IfacFlag + Mask7(raw[1], mask.value[1])
                   [] i = 2 -> Xor(raw[2], mask.value[2])
                   [] i \in 3..(2 + size) -> ifac[i - 2]
                   [] OTHER -> Xor(raw[i - size], mask.value[i])])

\* ifac_verify_inbound
IfacVerify(masked, secret, key, size, room) ==
    LET required == Len(masked) - size
        ifac == SubSeq(masked, 3, 2 + size)
        mask == Hkdf(Len(masked), ifac, key)
        raw == [i \in 1..required |->
                   CASE i = 1 -> Mask7(masked[1], mask.value[1])
                     [] i = 2 -> Xor(masked[2], mask.value[2])
                     [] OTHER -> Xor(masked[i + size], mask.value[i + size])]
    IN  CASE IfacError(key, size) /= "none" -> Err(IfacError(key, size))
          [] Len(masked) > Mtu -> Err("PacketTooLarge")
          [] Len(masked) <= 2 + size -> Err("PacketTooShort")
          [] masked[1] % (2 * IfacFlag) < IfacFlag -> Err("MissingPacketAccessCode")
          [] room < required -> Err("OutputBufferTooShort")
          [] Ifac(secret, raw, size) /= ifac -> Err("InvalidPacketAccessCode")
          [] OTHER -> Ok(raw)
=============================================================================
