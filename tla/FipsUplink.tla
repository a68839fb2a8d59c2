----------------------------- MODULE FipsUplink -----------------------------
(***************************************************************************)
(* FakeFipsSidecar, the bounded stand-in for the FIPS daemon, and the      *)
(* FipsGatewayExecutor that sends a gateway's frames through it.           *)
(*                                                                         *)
(* A public key stands for the first bytes of its hash and the rest of     *)
(* them: NodeAddr is both, the IPv6 address has room for all but the last  *)
(* byte, so that two keys may share it.                                    *)
(***************************************************************************)
EXTENDS Integers, Sequences, FiniteSets

CONSTANTS
    NodeAddr(_),        \* <<front, last byte>> of the hash of a public key
    PublicKeys,
    LocalKey, RemoteKey,
    PeerCapacity, QueueCapacity, FrameMax,
    FipsFrames,         \* the frames of the model: [name, len]
    SidecarMtu, FipsMtu,
    FipsBuffers,        \* lengths of the buffers that polls are given
    MaxInjected         \* bound of the model: datagrams the network brings in

VARIABLES
    peers,              \* the peer table, in the order of its slots
    outbound, inbound,  \* the two queues; a slot beyond their length is empty
    sidecar_up, fips_up,
    taken,              \* history: frames of outbound datagrams given to the network
    accepted,           \* history: the frames whose send returned Ok, in order
    injected,           \* history: frames that entered the inbound queue, with their source
    arrived             \* history: frames that polls gave to the gateway

fipsVars == <<peers, outbound, inbound, sidecar_up, fips_up,
              taken, accepted, injected, arrived>>

FipsErrors ==
    {"LinkDown", "UnknownPeer", "DuplicatePeer", "PeerTableFull",
     "InvalidEndpoint", "FrameTooLarge", "OutboundFull", "InboundFull",
     "OutputTooSmall"}

\* derive_fips_ipv6_addr: the prefix and all but the last byte
Ipv6Addr(node_addr) == <<"fd", node_addr[1]>>

\* derive_fips_endpoint
Endpoint(key) ==
    [public_key |-> key, node_addr |-> NodeAddr(key),
     ipv6_addr |-> Ipv6Addr(NodeAddr(key))]

\* FipsEndpoint::validate: both addresses follow from the key
ValidEndpoint(endpoint) ==
    /\ endpoint.node_addr = NodeAddr(endpoint.public_key)
    /\ endpoint.ipv6_addr = Ipv6Addr(NodeAddr(endpoint.public_key))

\* endpoints_overlap
Overlap(left, right) ==
    \/ left.public_key = right.public_key
    \/ left.node_addr = right.node_addr
    \/ left.ipv6_addr = right.ipv6_addr

Local == Endpoint(LocalKey)
Remote == Endpoint(RemoteKey)
HasPeer(endpoint) == \E i \in DOMAIN peers : peers[i] = endpoint

-----------------------------------------------------------------------------
\* Mutant of RegisterError: peers are told apart by their keys alone.
RegisterErrorByKey(endpoint) ==
    CASE ~ValidEndpoint(endpoint) -> "InvalidEndpoint"
      [] \E i \in DOMAIN peers : peers[i].public_key = endpoint.public_key ->
             "DuplicatePeer"
      [] Len(peers) >= PeerCapacity -> "PeerTableFull"
      [] OTHER -> "none"

\* register_peer
RegisterError(endpoint) ==
    CASE ~ValidEndpoint(endpoint) -> "InvalidEndpoint"
      [] Overlap(Local, endpoint) \/ \E i \in DOMAIN peers : Overlap(peers[i], endpoint) ->
             "DuplicatePeer"
      [] Len(peers) >= PeerCapacity -> "PeerTableFull"
      [] OTHER -> "none"
RegisterPeer(endpoint) ==
    /\ RegisterError(endpoint) = "none"
    /\ peers' = Append(peers, endpoint)
    /\ UNCHANGED <<outbound, inbound, sidecar_up, fips_up,
                   taken, accepted, injected, arrived>>

\* FipsDatagramRecord::new
DatagramError(source, destination, frame) ==
    CASE ~ValidEndpoint(source) \/ ~ValidEndpoint(destination) -> "InvalidEndpoint"
      [] frame.len > FrameMax -> "FrameTooLarge"
      [] OTHER -> "none"
Datagram(source, destination, frame) ==
    [source |-> source, destination |-> destination, frame |-> frame]

\* send_to and inject_from check the same things in the same order, each
\* for its own queue.
SidecarError(endpoint, frame, queue, full) ==
    CASE ~sidecar_up -> "LinkDown"
      [] ~HasPeer(endpoint) -> "UnknownPeer"
      [] frame.len > SidecarMtu -> "FrameTooLarge"
      [] Len(queue) >= QueueCapacity -> full
      [] OTHER -> DatagramError(Local, endpoint, frame)

\* map_fips_send_error and map_fips_receive_error
FipsSendErrorKind(error) ==
    CASE error = "LinkDown" -> "LinkDown"
      [] error \in {"OutboundFull", "InboundFull"} -> "Backpressure"
      [] error = "FrameTooLarge" -> "FrameTooLarge"
      [] error = "OutputTooSmall" -> "OutputTooSmall"
      [] OTHER -> "Protocol"
FipsReceiveErrorKind(error) ==
    IF error = "FrameTooLarge" THEN "Protocol" ELSE FipsSendErrorKind(error)

\* FipsGatewayExecutor::send_link_bytes: "none", or the kind of the error
FipsSendResult(frame) ==
    LET error == SidecarError(Remote, frame, outbound, "OutboundFull") IN
    CASE ~fips_up -> "LinkDown"
      [] frame.len > FipsMtu -> "FrameTooLarge"
      [] error /= "none" -> FipsSendErrorKind(error)
      [] OTHER -> "none"
SendFipsBytes(frame) ==
    /\ FipsSendResult(frame) = "none"
    /\ outbound' = Append(outbound, Datagram(Local, Remote, frame))
    /\ accepted' = Append(accepted, frame)
    /\ UNCHANGED <<peers, inbound, sidecar_up, fips_up, taken, injected, arrived>>

\* inject_from: the network brings a datagram
InjectFrom(source, frame) ==
    /\ Len(injected) < MaxInjected
    /\ SidecarError(source, frame, inbound, "InboundFull") = "none"
    /\ inbound' = Append(inbound, Datagram(source, Local, frame))
    /\ injected' = Append(injected, [source |-> source, frame |-> frame])
    /\ UNCHANGED <<peers, outbound, sidecar_up, fips_up, taken, accepted, arrived>>

\* poll_queue: the head leaves if the buffer holds it
CanPoll(queue, room) == queue /= <<>> /\ Head(queue).frame.len <= room

\* poll_outbound: the network takes a datagram.  The link need not be up.
PollOutbound(room) ==
    /\ CanPoll(outbound, room)
    /\ outbound' = Tail(outbound)
    /\ taken' = Append(taken, Head(outbound).frame)
    /\ UNCHANGED <<peers, inbound, sidecar_up, fips_up, accepted, injected, arrived>>

\* Mutant of PollSidecarFrame: the datagram leaves before its length is
\* compared with the buffer.
PollSidecarFrameShiftsFirst(room) ==
    LET datagram == Head(inbound) IN
    /\ fips_up /\ inbound /= <<>>
    /\ inbound' = Tail(inbound)
    /\ arrived' = IF datagram.source /= Remote \/ datagram.frame.len > room
                  THEN arrived ELSE Append(arrived, datagram.frame)
    /\ UNCHANGED <<peers, outbound, sidecar_up, fips_up, taken, accepted, injected>>

\* poll_sidecar_frame: the datagram is off the queue before its endpoints
\* are looked at, so one of another peer's is gone with an error
PollSidecarFrame(room) ==
    LET datagram == Head(inbound) IN
    /\ fips_up
    /\ CanPoll(inbound, room)
    /\ inbound' = Tail(inbound)
    /\ arrived' = IF datagram.source /= Remote \/ datagram.destination /= Local
                  THEN arrived ELSE Append(arrived, datagram.frame)
    /\ UNCHANGED <<peers, outbound, sidecar_up, fips_up, taken, accepted, injected>>

\* FipsGatewayExecutor::set_up sets both flags, FakeFipsSidecar::set_up,
\* through sidecar_mut, its own only
SetFipsUp(up) ==
    /\ fips_up' = up /\ sidecar_up' = up
    /\ UNCHANGED <<peers, outbound, inbound, taken, accepted, injected, arrived>>
SetSidecarUp(up) ==
    /\ sidecar_up' = up
    /\ UNCHANGED <<peers, outbound, inbound, fips_up, taken, accepted, injected, arrived>>

\* FakeFipsSidecar::new, with the peer registered that the executor's
\* validate asks for
FipsInit ==
    /\ peers = <<Remote>>
    /\ outbound = <<>> /\ inbound = <<>>
    /\ sidecar_up = TRUE /\ fips_up = FALSE
    /\ taken = <<>> /\ accepted = <<>> /\ injected = <<>> /\ arrived = <<>>

\* FipsGatewayExecutor::validate
FipsAssumption ==
    /\ FipsMtu \in 1..SidecarMtu /\ SidecarMtu <= FrameMax
    /\ ~Overlap(Local, Remote) /\ PeerCapacity > 0

FipsNext ==
    \/ \E key \in PublicKeys : RegisterPeer(Endpoint(key))
    \/ \E frame \in FipsFrames :
          \/ Len(accepted) < MaxInjected /\ SendFipsBytes(frame)
          \/ \E key \in PublicKeys : InjectFrom(Endpoint(key), frame)
    \/ \E room \in FipsBuffers : PollOutbound(room) \/ PollSidecarFrame(room)
    \/ \E up \in BOOLEAN : SetFipsUp(up) \/ SetSidecarUp(up)

-----------------------------------------------------------------------------
(* Properties.                                                             *)

FramesOf(entries) == [i \in DOMAIN entries |-> entries[i].frame]

\* The frames of the entries that came from the remote peer, in their order.
FromRemote(entries) ==
    LET kept[n \in 0..Len(entries)] ==
            IF n = 0 THEN <<>>
            ELSE IF entries[n].source = Remote
                 THEN Append(kept[n - 1], entries[n].frame) ELSE kept[n - 1]
    IN  kept[Len(entries)]

\* What the gateway got from its peer, and what is still queued of it, is
\* what the network brought from that peer (inject_from, poll_sidecar_frame).
ReceivedInOrder == arrived \o FromRemote(inbound) = FromRemote(injected)
\* What the gateway was told it had sent is with the network or queued
\* (send_link_bytes, send_to, poll_outbound).
SentInOrder == taken \o FramesOf(outbound) = accepted

\* No datagram is lost, repeated or overtaken on the way, in either
\* direction, though the flags of executor and sidecar may differ.
NothingLostOnFips == ReceivedInOrder /\ SentInOrder

\* An address names one endpoint: no two of the peers and the local one
\* share a key, a node address or the shorter IPv6 address, in whatever
\* order they were registered.
AddressesDistinct ==
    /\ \A i, j \in DOMAIN peers : i /= j => ~Overlap(peers[i], peers[j])
    /\ \A i \in DOMAIN peers : ~Overlap(peers[i], Local)
=============================================================================
