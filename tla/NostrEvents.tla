---------------------------- MODULE NostrEvents ----------------------------
(***************************************************************************)
(* The NIP-01 events that carry HYF envelopes: hex content, event id,      *)
(* signature, filters, and what a relay copies of an event.  Operators     *)
(* only; NostrRelay keeps the state.                                       *)
(*                                                                         *)
(* A frame is a record [name, len, envelope]: `len` is its length in       *)
(* bytes and `envelope` says whether decode_envelope accepts it.  Content  *)
(* is a record [hex, chars, of]: how it is spelled, how long it is and     *)
(* which frame it spells.                                                  *)
(***************************************************************************)
EXTENDS Integers, Sequences, FiniteSets

CONSTANTS
    Sha256(_),          \* the hash of an unsigned event, compared as a number
    PublicKeyOf(_),     \* the x-only public key of a secret key
    BadKeys,            \* public keys that are no point of the curve
    EnvelopeKind,       \* HYF_NOSTR_ENVELOPE_KIND
    MaxEnvelopeBytes,   \* HYF_NOSTR_MAX_ENVELOPE_BYTES
    MaxTags,            \* HYF_NOSTR_MAX_TAGS and _MAX_P_TAGS
    MaxTagValues,       \* HYF_NOSTR_MAX_TAG_VALUES
    MaxU64              \* the largest time in milliseconds

\* HYF_NOSTR_MAX_CONTENT_CHARS: two characters for each byte
MaxContentChars == MaxEnvelopeBytes * 2

\* The errors that a caller can tell apart here; the relay adds those of
\* its tables.
NostrErrors ==
    {"ContentTooLarge", "Crypto", "EnvelopeTooLarge", "EventIdMismatch",
     "InvalidSignature", "MalformedEnvelope", "MissingRequiredTag", "HexError",
     "OutputTooSmall", "PublicKeyMismatch", "StoredStringTooLarge", "TagCountTooLarge",
     "TagValueCountTooLarge", "UnexpectedKind", "RelayEventStoreFull",
     "RelayOutputFull", "RelaySubscriptionFull"}

-----------------------------------------------------------------------------
(* Content: an envelope in lower-case hex.                                 *)

\* encode_lower_hex: two lower-case digits for each byte, if they fit.
EncodeHex(frame, room) ==
    IF room < frame.len * 2
    THEN [error |-> "OutputTooSmall"]
    ELSE [error |-> "none",
          content |-> [hex |-> "lower", chars |-> frame.len * 2, of |-> frame]]

\* decode_lower_hex: an odd length is refused before the room is looked at,
\* a digit that is not lower-case hex after it.
DecodeHex(content, room) ==
    IF content.chars % 2 /= 0 THEN [error |-> "HexError"]
    ELSE IF room < content.chars \div 2 THEN [error |-> "OutputTooSmall"]
    ELSE IF content.hex /= "lower" THEN [error |-> "HexError"]
    ELSE [error |-> "none", frame |-> content.of]

\* validate_content_len
ContentFits(content) == content.chars <= MaxContentChars

\* encode_hyf_envelope_content
EncodeContent(frame) ==
    IF frame.len > MaxEnvelopeBytes
    THEN [error |-> "EnvelopeTooLarge"]
    ELSE EncodeHex(frame, MaxContentChars)

\* decode_hyf_envelope_content
DecodeContent(content, room) ==
    IF ContentFits(content)
    THEN DecodeHex(content, room)
    ELSE [error |-> "ContentTooLarge"]

-----------------------------------------------------------------------------
(* Events.  A tag is a sequence of values, the first of them its name; the *)
(* value of a p tag is a public key.                                       *)

Unsigned(event) ==
    [pubkey |-> event.pubkey, created_at |-> event.created_at,
     kind |-> event.kind, tags |-> event.tags, content |-> event.content]

\* event_id: the hash of the canonical text, which names every field but
\* the signature, so that two events share an id only if they agree on all.
EventId(unsigned) == Sha256(unsigned)

\* sign_event with the secret of the author: the author of a signature is
\* the key it verifies against, and what it signs is the event id.
SignEvent(unsigned, secret) ==
    IF unsigned.pubkey /= PublicKeyOf(secret)
    THEN [error |-> "PublicKeyMismatch"]
    ELSE LET id == EventId(unsigned) IN
         [error |-> "none",
          event |-> [id |-> id, pubkey |-> unsigned.pubkey,
                     created_at |-> unsigned.created_at,
                     kind |-> unsigned.kind, tags |-> unsigned.tags,
                     content |-> unsigned.content,
                     sig |-> [by |-> PublicKeyOf(secret), of |-> id]]]

\* verify_event: the first thing that is wrong with an event
VerifyError(event) ==
    CASE event.id /= EventId(Unsigned(event)) -> "EventIdMismatch"
      [] event.pubkey \in BadKeys -> "Crypto"
      [] event.sig /= [by |-> event.pubkey, of |-> event.id] -> "InvalidSignature"
      [] OTHER -> "none"

\* The tags of an event that carries an envelope: who it is for, the topic
\* and what a client that does not know it may show.
HyfTags(recipient) ==
    << <<"p", recipient>>, <<"t", "hyf">>, <<"alt", "hyf gateway envelope">> >>

\* with_signed_hyf_nostr_event: the event that the uplink makes of a frame
HyfEvent(frame, secret, recipient, created_at) ==
    LET encoded == EncodeContent(frame) IN
    IF encoded.error /= "none"
    THEN encoded
    ELSE SignEvent([pubkey |-> PublicKeyOf(secret), created_at |-> created_at,
                    kind |-> EnvelopeKind,
                    tags |-> HyfTags(recipient),
                    content |-> encoded.content], secret)

\* has_p_tag: some p tag has a value that is not empty
HasPTag(tags) ==
    \E i \in DOMAIN tags :
        tags[i][1] = "p" /\ Len(tags[i]) > 1 /\ tags[i][2] /= ""

\* verify_and_decode_hyf_nostr_event: signature, kind, recipient, content,
\* envelope, in this order
VerifyAndDecode(event, room) ==
    LET decoded == DecodeContent(event.content, room) IN
    IF VerifyError(event) /= "none" THEN [error |-> VerifyError(event)]
    ELSE IF event.kind /= EnvelopeKind THEN [error |-> "UnexpectedKind"]
    ELSE IF ~HasPTag(event.tags) THEN [error |-> "MissingRequiredTag"]
    ELSE IF decoded.error /= "none" THEN decoded
    ELSE IF ~decoded.frame.envelope THEN [error |-> "MalformedEnvelope"]
    ELSE decoded

-----------------------------------------------------------------------------
(* What a relay keeps of an event, and which events a filter asks for.     *)

\* StoredNostrTag::from_ref, StoredNostrTags::from_ref: a record has room
\* for so many tags of so many values
TagFits(tag) == Len(tag) <= MaxTagValues
TagsError(tags) ==
    CASE Len(tags) > MaxTags -> "TagCountTooLarge"
      [] \E i \in DOMAIN tags : ~TagFits(tags[i]) -> "TagValueCountTooLarge"
      [] OTHER -> "none"

\* FakeNostrEventRecord::from_event: an owned copy, unless the content or
\* the tags are more than a record can hold
RecordError(event) ==
    IF ContentFits(event.content) THEN TagsError(event.tags) ELSE "StoredStringTooLarge"

\* collect_p_tags: the keys of the p tags that spell a key, as many as the
\* scan has room for
PTags(event, keys) ==
    LET tags == event.tags
        named == {i \in DOMAIN tags :
                     tags[i][1] = "p" /\ Len(tags[i]) > 1 /\ tags[i][2] \in keys}
        found(i) == Cardinality({j \in named : j <= i})
    IN  {tags[i][2] : i \in {j \in named : found(j) <= MaxTags}}

\* NostrFilter::matches_target: an empty list and a missing bound (-1) ask
\* for nothing
MatchesFilter(filter, event, keys) ==
    /\ filter.kinds = {} \/ event.kind \in filter.kinds
    /\ filter.authors = {} \/ event.pubkey \in filter.authors
    /\ filter.p_tags = {} \/ filter.p_tags \cap PTags(event, keys) /= {}
    /\ filter.since = -1 \/ event.created_at >= filter.since
    /\ filter.until = -1 \/ event.created_at <= filter.until

\* matches_any_filter
MatchesAny(filters, event, keys) ==
    \E i \in DOMAIN filters : MatchesFilter(filters[i], event, keys)

\* replay_limit: -1, no limit, as soon as one filter has none; the sum of
\* the limits otherwise, which is 0 where there is no filter
ReplayLimit(filters) ==
    IF \E i \in DOMAIN filters : filters[i].limit = -1
    THEN -1
    ELSE LET sum[n \in 0..Len(filters)] ==
                 IF n = 0 THEN 0 ELSE sum[n - 1] + filters[n].limit
         IN  sum[Len(filters)]

\* event_sorts_before: newest first, then the smaller id
SortsBefore(candidate, current) ==
    \/ candidate.created_at > current.created_at
    \/ /\ candidate.created_at = current.created_at
       /\ candidate.id < current.id
=============================================================================
