------------------------------ MODULE Envelope ------------------------------
(***************************************************************************)
(* The HYF envelope as the router, the store and the gateway see it        *)
(* (hyf_wire/src/envelope.rs).  Payload bytes, source and payload kind are *)
(* carried and never inspected by those components, so they are left out;  *)
(* what they do look at is kept.  "form" says what the codec makes of the  *)
(* envelope: "ok" encodes into the gateway's fixed frame buffer,           *)
(* "oversize" is valid but encodes to more than GATEWAY_FRAME_BUFFER_LEN   *)
(* bytes, "invalid" carries a version the codec refuses.                   *)
(***************************************************************************)
EXTENDS Integers

CONSTANTS Names   \* node, community and foreign endpoint identifiers

Kinds == {"node", "community", "foreign"}
Forms == {"ok", "oversize", "invalid"}
Destination == [kind: Kinds, name: Names]

\* hop_limit is a u8; message ids are ordered byte strings, here naturals.
HopLimits == 0..255

EnvelopeType == [id: Nat, dest: Destination, created: Nat, expires: Nat,
                 hop: HopLimits, form: Forms]

\* validate_envelope checks the version first, then the expiry.
VersionOk(e) == e.form # "invalid"
ExpiryOk(e) == e.expires > e.created
Valid(e) == VersionOk(e) /\ ExpiryOk(e)

\* encode_envelope into a GATEWAY_FRAME_BUFFER_LEN buffer succeeds.
Fits(e) == e.form = "ok"

IsCommunity(e) == e.dest.kind = "community"

\* seen_key_for: community messages are told apart by room and id, node and
\* foreign ones by id alone.
MessageOnly == [kind |-> "message_only"]
SeenKey(e) == [dest |-> IF IsCommunity(e) THEN e.dest ELSE MessageOnly,
               id |-> e.id]
SeenKeys == [dest: [kind: {"community"}, name: Names] \cup {MessageOnly},
             id: Nat]

NextHop(e) == [e EXCEPT !.hop = @ - 1]
=============================================================================
