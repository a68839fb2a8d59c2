---------------------------- MODULE FipsControl ----------------------------
(***************************************************************************)
(* hyf_link_fips/src/control.rs: what the FIPS daemon answers to           *)
(* show_status, and how a gateway reads it.                                *)
(*                                                                         *)
(* A response has a length, may fail to be UTF-8, and is a JSON value      *)
(* [t, v]; an object has in v a function from member names to values.  A   *)
(* node address is written as a sequence of hexadecimal digits, those      *)
(* above 15 standing for the characters that are none; an IPv6 address as  *)
(* a sequence of groups, Gap standing for "::".                            *)
(***************************************************************************)
EXTENDS Bytes

CONSTANTS
    ControlMaxResponse,  \* HYF_FIPS_CONTROL_MAX_RESPONSE_BYTES
    AddrLen,             \* bytes of an address, 16 in the code
    MaxU16               \* u16::MAX

Gap == -1
ControlErrors == {"ControlResponseTooLarge", "Utf8", "MalformedControlStatus"}
MalformedStatus == Err("MalformedControlStatus")

TunStates ==
    [disabled |-> "Disabled", configured |-> "Configured", active |-> "Active",
     failed |-> "Failed"]

\* from_control_str: a daemon may know states that a gateway does not
TunState(name) == IF name \in DOMAIN TunStates THEN TunStates[name] ELSE "Unknown"

Member(object, field, type) == field \in DOMAIN object /\ object[field].t = type

RequiredStr(object, field) ==
    IF Member(object, field, "string") THEN Ok(object[field].v) ELSE MalformedStatus

\* optional_u16: a member that is there has to be a number that fits
OptionalU16(object, field) ==
    CASE field \notin DOMAIN object \/ Member(object, field, "null") -> Ok(None)
      [] Member(object, field, "u64") /\ object[field].v <= MaxU16 ->
             Ok(Some(object[field].v))
      [] OTHER -> MalformedStatus

\* parse_node_addr with decode_lower_nibble
ParseNodeAddr(digits) ==
    IF Len(digits) /= 2 * AddrLen \/ \E i \in DOMAIN digits : digits[i] \notin 0..15
    THEN MalformedStatus
    ELSE Ok([i \in 1..AddrLen |-> 16 * digits[2 * i - 1] + digits[2 * i]])

\* Ipv6Addr::from_str: at most one gap, which stands for one or more groups
ParseIpv6Addr(groups) ==
    LET n == AddrLen \div 2
        gaps == {i \in DOMAIN groups : groups[i] = Gap}
        full == CASE gaps = {} -> groups
                  [] \E i \in gaps : gaps = {i} ->
                         LET at == CHOOSE i \in gaps : TRUE IN
                         Take(groups, at - 1) \o [i \in 1..(n + 1 - Len(groups)) |-> 0]
                             \o Drop(groups, at)
                  [] OTHER -> <<>>
    IN  IF Len(full) /= n \/ \E i \in DOMAIN full : full[i] \notin 0..65535
        THEN MalformedStatus
        ELSE Ok(FlattenSeq([i \in 1..n |-> BeBytes(full[i], 2)]))

\* derive_fips_ipv6_addr: the last byte of the node address has no room
DeriveIpv6Addr(node_addr) == <<253>> \o Take(node_addr, AddrLen - 1)

\* parse_show_status_response from the data object on
ParseStatusData(data) ==
    AndThen(AndThen(RequiredStr(data, "node_addr"), ParseNodeAddr), LAMBDA node_addr :
    AndThen(AndThen(RequiredStr(data, "ipv6_addr"), ParseIpv6Addr), LAMBDA ipv6_addr :
        IF ipv6_addr /= DeriveIpv6Addr(node_addr) THEN MalformedStatus
        ELSE AndThen(RequiredStr(data, "tun_state"), LAMBDA tun_state :
             AndThen(OptionalU16(data, "effective_ipv6_mtu"), LAMBDA mtu :
             AndThen(OptionalU16(data, "peer_count"), LAMBDA peer_count :
                 Ok([node_addr |-> node_addr, ipv6_addr |-> ipv6_addr,
                     tun_state |-> TunState(tun_state), effective_ipv6_mtu |-> mtu,
                     peer_count |-> peer_count]))))))

\* parse_show_status_response
ParseShowStatusResponse(response) ==
    CASE response.len > ControlMaxResponse -> Err("ControlResponseTooLarge")
      [] ~response.utf8 -> Err("Utf8")
      [] response.json.t /= "object" -> MalformedStatus
      [] OTHER ->
             LET envelope == response.json.v IN
             IF RequiredStr(envelope, "status") /= Ok("ok") \/ ~Member(envelope, "data", "object")
             THEN MalformedStatus
             ELSE ParseStatusData(envelope.data.v)
=============================================================================
