--------------------------- MODULE NostrMessages ---------------------------
(***************************************************************************)
(* hyf_link_nostr: the messages between a client and a relay, as JSON.     *)
(*                                                                         *)
(* A text is a sequence of tokens: punctuation [t |-> "["] and so on,      *)
(* [t |-> "num", v |-> n], [t |-> "bool", v |-> b] and [t |-> "str",       *)
(* v |-> s] for what stands between two quotes.  A string is a sequence of *)
(* strings, each of them a character that needs an escape (SpecialChars)   *)
(* or a run of characters that needs none.  A JSON value has the same      *)
(* shape as a token; arrays hold values and objects pairs in v.            *)
(***************************************************************************)
EXTENDS Bytes, FiniteSets, SequencesExt

CONSTANTS
    SubscriptionIdMaxLen,   \* NOSTR_SUBSCRIPTION_ID_MAX_LEN
    MaxNumber,              \* u64::MAX
    MaxKind                 \* u16::MAX

Token(t) == <<[t |-> t]>>
Num(n) == [t |-> "num", v |-> n]
Bool(b) == [t |-> "bool", v |-> b]
Str(s) == [t |-> "str", v |-> s]
Arr(values) == [t |-> "[", v |-> values]
Obj(fields) == [t |-> "{", v |-> fields]
Name(name) == Str(<<name>>)

-----------------------------------------------------------------------------
(* Strings: write_json_string, write_control_escape, parse_string,         *)
(* parse_escape, parse_unicode_escape.                                     *)

\* The letter that follows the backslash; "control" is any other control
\* character, written as \u00xx.
Escapes == [quote |-> "quote", backslash |-> "backslash", newline |-> "n", return |-> "r",
            tab |-> "t", backspace |-> "b", formfeed |-> "f"]
SpecialChars == DOMAIN Escapes \cup {"control"}

EscapeChar(char) ==
    CASE char \in DOMAIN Escapes -> <<"backslash", Escapes[char]>>
      [] char = "control" -> <<"backslash", "u", "control">>
      [] OTHER -> <<char>>
EscapeString(string) == FlattenSeq([i \in DOMAIN string |-> EscapeChar(string[i])])

RECURSIVE UnescapeString(_)
UnescapeString(text) ==
    LET letter == text[2]
        plain == {c \in DOMAIN Escapes : Escapes[c] = letter}
        then(char, used) == AndThen(UnescapeString(Drop(text, used)), LAMBDA rest :
                                        Ok(<<char>> \o rest))
    IN  CASE text = <<>> -> Ok(<<>>)
          [] text[1] \notin SpecialChars -> then(text[1], 1)
          [] text[1] /= "backslash" -> Err("MalformedMessage")
          [] Len(text) < 2 -> Err("MalformedMessage")
          [] plain /= {} -> then(CHOOSE c \in plain : TRUE, 2)
          [] letter = "slash" -> then("slash", 2)
          [] letter = "u" /\ Len(text) > 2 /\ text[3] = "control" -> then("control", 3)
          [] OTHER -> Err("MalformedMessage")

-----------------------------------------------------------------------------
(* JsonWriter: the tokens of a value.                                      *)

Separated(texts) ==
    FoldLeft(LAMBDA all, text : IF all = <<>> THEN text ELSE all \o Token(",") \o text,
             <<>>, texts)

RECURSIVE Text(_)
Text(value) ==
    CASE value.t = "[" ->
             Token("[") \o Separated([i \in DOMAIN value.v |-> Text(value.v[i])]) \o Token("]")
      [] value.t = "{" ->
             Token("{") \o Separated([i \in DOMAIN value.v |->
                 Text(Str(value.v[i].name)) \o Token(":") \o Text(value.v[i].value)])
             \o Token("}")
      [] value.t = "str" -> <<Str(EscapeString(value.v))>>
      [] OTHER -> <<value>>

-----------------------------------------------------------------------------
(* JsonParser: a value and what is left of the text behind it.             *)

Malformed == Err("MalformedMessage")
StartsWith(text, t) == text /= <<>> /\ text[1].t = t

\* parse_number: digits that fit into a u64
ParseNumber(text) ==
    IF text[1].v > MaxNumber THEN Malformed
    ELSE Ok([value |-> text[1], rest |-> Drop(text, 1)])

RECURSIVE ParseValue(_), ParseArray(_, _), ParseObject(_, _)
ParseValue(text) ==
    LET rest == Drop(text, 1) IN
    CASE text = <<>> -> Malformed
      [] text[1].t = "[" -> IF StartsWith(rest, "]")
                            THEN Ok([value |-> Arr(<<>>), rest |-> Drop(rest, 1)])
                            ELSE ParseArray(rest, <<>>)
      [] text[1].t = "{" -> IF StartsWith(rest, "}")
                            THEN Ok([value |-> Obj(<<>>), rest |-> Drop(rest, 1)])
                            ELSE ParseObject(rest, <<>>)
      [] text[1].t = "str" -> AndThen(UnescapeString(text[1].v), LAMBDA string :
                                  Ok([value |-> Str(string), rest |-> rest]))
      [] text[1].t = "num" -> ParseNumber(text)
      [] text[1].t \in {"bool", "null"} -> Ok([value |-> text[1], rest |-> rest])
      [] OTHER -> Malformed

\* parse_array: a comma asks for one more value
ParseArray(text, values) ==
    AndThen(ParseValue(text), LAMBDA parsed :
        LET all == Append(values, parsed.value)
            rest == Drop(parsed.rest, 1)
        IN  CASE StartsWith(parsed.rest, "]") -> Ok([value |-> Arr(all), rest |-> rest])
              [] StartsWith(parsed.rest, ",") -> ParseArray(rest, all)
              [] OTHER -> Malformed)

\* parse_object: names may occur more than once
ParseObject(text, fields) ==
    IF ~(StartsWith(text, "str") /\ StartsWith(Drop(text, 1), ":")) THEN Malformed
    ELSE AndThen(UnescapeString(text[1].v), LAMBDA name :
         AndThen(ParseValue(Drop(text, 2)), LAMBDA parsed :
            LET all == Append(fields, [name |-> name, value |-> parsed.value])
                rest == Drop(parsed.rest, 1)
            IN  CASE StartsWith(parsed.rest, "}") -> Ok([value |-> Obj(all), rest |-> rest])
                  [] StartsWith(parsed.rest, ",") -> ParseObject(rest, all)
                  [] OTHER -> Malformed))

\* JsonParser::parse
ParseText(text) ==
    AndThen(ParseValue(text), LAMBDA parsed :
        IF parsed.rest = <<>> THEN Ok(parsed.value) ELSE Malformed)

-----------------------------------------------------------------------------
(* The fields of an object.                                                *)

\* optional_field: the first of that name
Fields(object, name) == SelectSeq(object.v, LAMBDA field : field.name = <<name>>)
HasField(object, name) == Fields(object, name) /= <<>>
FieldOf(object, name) == Fields(object, name)[1].value

\* required_field, with expect_string, expect_number, expect_bool
Required(object, name, type) ==
    IF HasField(object, name) /\ FieldOf(object, name).t = type
    THEN Ok(FieldOf(object, name).v) ELSE Malformed
Typed(value, type) == IF value.t = type THEN Ok(value.v) ELSE Malformed

\* optional_number, optional_usize
OptionalNumber(object, name) ==
    CASE ~HasField(object, name) -> Ok(None)
      [] FieldOf(object, name).t = "num" -> Ok(Some(FieldOf(object, name).v))
      [] OTHER -> Malformed

\* optional_number_array, optional_key_array: no field, no values
OptionalArray(object, name, type, Invalid(_)) ==
    LET item(value) == AndThen(Typed(value, type), LAMBDA v :
                           IF Invalid(v) = "none" THEN Ok(v) ELSE Err(Invalid(v)))
    IN  IF ~HasField(object, name) THEN Ok(<<>>)
        ELSE AndThen(Typed(FieldOf(object, name), "["), LAMBDA values :
                 AllOk([i \in DOMAIN values |-> item(values[i])]))

-----------------------------------------------------------------------------
(* Events and filters.  Hex strings (ids, keys, signatures) are strings of *)
(* one element.                                                            *)

Pair(name, value) == [name |-> <<name>>, value |-> value]
IsHex(string) == Len(string) = 1 /\ string[1] \notin SpecialChars
HexError(string) == IF IsHex(string) THEN "none" ELSE "HexError"

\* number_to_u16
KindError(n) == IF n <= MaxKind THEN "none" ELSE "MalformedMessage"

\* write_tags
TagsValue(tags) ==
    Arr([i \in DOMAIN tags |-> Arr([j \in DOMAIN tags[i] |-> Str(tags[i][j])])])

\* write_event
EventValue(event) ==
    Obj(<<Pair("id", Str(event.id)), Pair("pubkey", Str(event.pubkey)),
          Pair("created_at", Num(event.created_at)), Pair("kind", Num(event.kind)),
          Pair("tags", TagsValue(event.tags)), Pair("content", Str(event.content)),
          Pair("sig", Str(event.sig))>>)

\* write_nostr_event_json of the bridge, a second writer of the same text
BridgeEventJson(event, room) ==
    LET text == Text(EventValue(event)) IN
    IF room < Len(text) THEN Err("OutputTooSmall") ELSE Ok(text)

\* parse_tags
ParseTags(tags) ==
    LET wrong == {i \in DOMAIN tags : \/ tags[i].t /= "["
                                      \/ tags[i].v = <<>>
                                      \/ \E j \in DOMAIN tags[i].v : tags[i].v[j].t /= "str"}
        first == CHOOSE i \in wrong : \A j \in wrong : i <= j
    IN  CASE wrong = {} -> Ok([i \in DOMAIN tags |->
                               [j \in DOMAIN tags[i].v |-> tags[i].v[j].v]])
          [] tags[first].t = "[" /\ tags[first].v = <<>> -> Err("TagEmpty")
          [] OTHER -> Malformed

\* parse_event
ParseEvent(value) ==
    LET Hexed(name) == AndThen(Required(value, name, "str"), LAMBDA hex :
                           IF IsHex(hex) THEN Ok(hex) ELSE Err("HexError"))
    IN  IF value.t /= "{" THEN Malformed
        ELSE AndThen(Hexed("id"), LAMBDA id :
             AndThen(Hexed("pubkey"), LAMBDA pubkey :
             AndThen(Required(value, "created_at", "num"), LAMBDA created_at :
             AndThen(Required(value, "kind", "num"), LAMBDA kind :
             IF KindError(kind) /= "none" THEN Malformed
             ELSE AndThen(Required(value, "tags", "["), LAMBDA raw :
                  AndThen(ParseTags(raw), LAMBDA tags :
                  AndThen(Required(value, "content", "str"), LAMBDA content :
                  AndThen(Hexed("sig"), LAMBDA sig :
                      Ok([id |-> id, pubkey |-> pubkey, created_at |-> created_at,
                          kind |-> kind, tags |-> tags, content |-> content,
                          sig |-> sig])))))))))

\* write_filter: empty lists and missing bounds are left out
FilterValue(filter) ==
    LET list(name, values, Make(_)) ==
            IF values = <<>> THEN <<>>
            ELSE <<Pair(name, Arr([i \in DOMAIN values |-> Make(values[i])]))>>
        option(name, value) == IF IsSome(value) THEN <<Pair(name, Num(value[1]))>> ELSE <<>>
    IN  Obj(list("kinds", filter.kinds, Num) \o list("authors", filter.authors, Str)
            \o list("#p", filter.p_tags, Str) \o option("since", filter.since)
            \o option("until", filter.until) \o option("limit", filter.limit))

\* parse_filter
ParseFilter(value) ==
    IF value.t /= "{" THEN Malformed
    ELSE AndThen(OptionalArray(value, "kinds", "num", KindError), LAMBDA kinds :
         AndThen(OptionalArray(value, "authors", "str", HexError), LAMBDA authors :
         AndThen(OptionalArray(value, "#p", "str", HexError), LAMBDA p_tags :
         AndThen(OptionalNumber(value, "since"), LAMBDA since :
         AndThen(OptionalNumber(value, "until"), LAMBDA until :
         AndThen(OptionalNumber(value, "limit"), LAMBDA limit :
             Ok([kinds |-> kinds, authors |-> authors, p_tags |-> p_tags,
                 since |-> since, until |-> until, limit |-> limit])))))))

\* event_id hashes this text
CanonicalText(event) ==
    Text(Arr(<<Num(0), Str(event.pubkey), Num(event.created_at), Num(event.kind),
               TagsValue(event.tags), Str(event.content)>>))

-----------------------------------------------------------------------------
(* Messages.  The kind of a message and its direction decide its fields.   *)

\* validate_subscription_id
SubscriptionError(id) ==
    CASE id = <<>> -> "InvalidSubscriptionId"
      [] Len(id) > SubscriptionIdMaxLen -> "SubscriptionIdTooLong"
      [] OTHER -> "none"
WithSubscription == {"REQ", "CLOSE", "EOSE", "CLOSED", "RELAY_EVENT"}

\* The values behind the name, in the order of the text; RELAY_EVENT and
\* CHALLENGE are the relay's EVENT and AUTH.
MessageValues(message) ==
    CASE message.kind \in {"EVENT", "AUTH"} -> <<EventValue(message.event)>>
      [] message.kind = "REQ" ->
             <<Str(message.subscription_id)>>
             \o [i \in DOMAIN message.filters |-> FilterValue(message.filters[i])]
      [] message.kind \in {"CLOSE", "EOSE"} -> <<Str(message.subscription_id)>>
      [] message.kind = "RELAY_EVENT" ->
             <<Str(message.subscription_id), EventValue(message.event)>>
      [] message.kind = "OK" ->
             <<Str(message.event_id), Bool(message.accepted), Str(message.message)>>
      [] message.kind = "CLOSED" -> <<Str(message.subscription_id), Str(message.message)>>
      [] message.kind \in {"NOTICE", "CHALLENGE"} -> <<Str(message.message)>>
WireName(kind) ==
    CASE kind = "RELAY_EVENT" -> "EVENT"
      [] kind = "CHALLENGE" -> "AUTH"
      [] OTHER -> kind

\* write_client_message and write_relay_message
WriteMessage(message, room) ==
    LET text == Text(Arr(<<Name(WireName(message.kind))>> \o MessageValues(message))) IN
    CASE /\ message.kind \in WithSubscription
         /\ SubscriptionError(message.subscription_id) /= "none" ->
             Err(SubscriptionError(message.subscription_id))
      [] room < Len(text) -> Err("OutputTooSmall")
      [] OTHER -> Ok(text)

\* The subscription id that a message of two or more values starts with
Subscribed(value, Then(_)) ==
    AndThen(Typed(value, "str"), LAMBDA id :
        IF SubscriptionError(id) /= "none" THEN Err(SubscriptionError(id)) ELSE Then(id))

\* decode_client_message
DecodeClientMessage(text) ==
    AndThen(ParseText(text), LAMBDA value :
        LET items == value.v
            kind == items[1].v
        IN  CASE value.t /= "[" -> Malformed
              [] items = <<>> -> Malformed
              [] items[1].t /= "str" -> Malformed
              [] kind \notin {<<"EVENT">>, <<"REQ">>, <<"CLOSE">>, <<"AUTH">>} ->
                     Err("UnsupportedMessage")
              [] kind = <<"REQ">> /\ Len(items) < 3 -> Malformed
              [] kind /= <<"REQ">> /\ Len(items) /= 2 -> Malformed
              [] kind = <<"REQ">> -> Subscribed(items[2], LAMBDA id :
                    AndThen(AllOk([i \in 1..(Len(items) - 2) |-> ParseFilter(items[i + 2])]),
                        LAMBDA filters : Ok([kind |-> "REQ", subscription_id |-> id,
                                             filters |-> filters])))
              [] kind = <<"CLOSE">> -> Subscribed(items[2], LAMBDA id :
                    Ok([kind |-> "CLOSE", subscription_id |-> id]))
              [] OTHER -> AndThen(ParseEvent(items[2]), LAMBDA event :
                    Ok([kind |-> kind[1], event |-> event])))

\* decode_relay_message
DecodeRelayMessage(text) ==
    LET length == [EVENT |-> 3, OK |-> 4, EOSE |-> 2, CLOSED |-> 3, NOTICE |-> 2, AUTH |-> 2]
    IN  AndThen(ParseText(text), LAMBDA value :
        LET items == value.v
            kind == items[1].v
        IN  CASE value.t /= "[" -> Malformed
              [] items = <<>> -> Malformed
              [] items[1].t /= "str" -> Malformed
              [] ~(Len(kind) = 1 /\ kind[1] \in DOMAIN length) -> Err("UnsupportedMessage")
              [] Len(items) /= length[kind[1]] -> Malformed
              [] kind = <<"EVENT">> -> Subscribed(items[2], LAMBDA id :
                    AndThen(ParseEvent(items[3]), LAMBDA event :
                        Ok([kind |-> "RELAY_EVENT", subscription_id |-> id,
                            event |-> event])))
              [] kind = <<"OK">> ->
                    AndThen(Typed(items[2], "str"), LAMBDA id :
                    IF ~IsHex(id) THEN Err("HexError")
                    ELSE AndThen(Typed(items[3], "bool"), LAMBDA accepted :
                         AndThen(Typed(items[4], "str"), LAMBDA message :
                            Ok([kind |-> "OK", event_id |-> id, accepted |-> accepted,
                                message |-> message]))))
              [] kind = <<"EOSE">> -> Subscribed(items[2], LAMBDA id :
                    Ok([kind |-> "EOSE", subscription_id |-> id]))
              [] kind = <<"CLOSED">> -> Subscribed(items[2], LAMBDA id :
                    AndThen(Typed(items[3], "str"), LAMBDA message :
                        Ok([kind |-> "CLOSED", subscription_id |-> id,
                            message |-> message])))
              [] OTHER -> AndThen(Typed(items[2], "str"), LAMBDA message :
                    Ok([kind |-> IF kind = <<"AUTH">> THEN "CHALLENGE" ELSE "NOTICE",
                        message |-> message])))
=============================================================================
