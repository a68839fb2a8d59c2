# TLA+ verification of hyf

hyf is a Rust workspace for a small delay-tolerant mesh: envelopes with an expiry
time and a hop limit are routed between links, stored while no link is up, and
bridged to BitChat, LXMF and Nostr; frames travel over loopback pairs, RNode modems, Nostr relays and a
FIPS sidecar. All of its core is synchronous, allocation-free
code over fixed-size arrays; what makes it hard is what happens *between* calls: links that
come and go, sends that fail one by one, clocks that callers report, rings and
tables that fill up, and two components (router and store) that each decide
whether a message is new.

This directory holds the model. Every definition that models code is listed in
`PROJECT.json` under `map` with the lines it stands for.

## 1. The system

| part | state | operations | talks to |
|---|---|---|---|
| `hyf_core` | none (ids, `UnixMillis`) | - | everyone |
| `hyf_wire` envelope | none | encode, decode, validate | router, store, gateway |
| `hyf_router` | link table, ring of seen keys (`seen`, `next_seen`), `now_ms` | `set_link_state`, `set_now`, `handle_frame`, `handle_envelope`, `forward_stored`, `commit_seen` | returns commands; performs no I/O |
| `hyf_store` | array of optional records | `put_frame`, `put_envelope`, `remove`, `first_pending`, `pending`, `expire` | gateway |
| `hyf_gateway` core | router, store, metrics, last delivery | `submit`, `ingest_link_frame`, `handle_link_event`, `tick`, `flush_store` | executes router commands through a `LinkExecutor` |
| `hyf_gateway` executors (`runtime`, `nostr`, `fips`) | a core and a link driver | poll the driver, feed the core, send its bytes | core, link drivers |
| `hyf_link`, `hyf_link_loopback` | two bounded frame queues | send, poll, `set_up` | runtime |
| `hyf_link_fips` | peer table, two datagram queues, link state | `register_peer`, `send_to`, `inject_from`, polls; `parse_show_status_response` | FIPS executor |
| `hyf_link_nostr` | relay: event store, subscriptions, output queue, armed rejection | `publish`, `subscribe`, `close`, poll; message and event codecs | Nostr executor |
| `hyf_link_kiss`, `hyf_link_rnode`, `hyf_link_rnode_serial` | decoder buffer, pending frame, flow control | `push`, `poll_transmit`, `write_all` | serial port |
| `hyf_bridge_core`, `hyf_bridge_bitchat`, `_lxmf`, `_nostr` | none | the room message and its conversions | bridge runtime |
| `hyf_bridge_runtime` | ring of bridged message keys | `ingest_bitchat`, `ingest_lxmf`, `ingest_nostr` | converters; returns commands |
| `hyf_config` | none | validation of a configuration | gateway, bridge |
| `hyf_rns_core`, `hyf_rns_crypto`, `hyf_rns_wire`, `hyf_bitchat_core`, `hyf_lxmf_core`, carrier wrappers | none | codecs, hashes, signatures, encryption | bridge, conformance tool |
| `hyf_rns_conformance` | files: fixtures, captures, a report | generate, validate, capture gate | two source trees, a Python oracle |

Behaviours that are hard to test, each listed at its line in `PROJECT.json` under
`hazards`: a batch of sends of which some fail; a link that comes up while the store is
full; a flush interrupted by an error that leaves records behind; a message evicted
from the ring of seen keys and received again; a clock reported out of order;
an envelope the router takes for new and the store does not; counters at their
limit; a ring that wraps; a bridged message that comes back on another network; a queue
that fills between two sends; a serial line that cuts frames and a write that stops in one; a relay that has
stored an event and cannot say so; a decoder more lenient than the encoder behind it; evidence about one commit read
for another.

What makes each part correct, in a sentence:

* router: a message counts as seen only after something was done with it, and then for the next
  `MAX_SEEN` messages;
* store: a bounded set, each id once, listed by deadline, nothing expired;
* gateway core: what it accepts it keeps until it is sent, delivered, expired or out of hops;
  every flush ends; a record waits only for a link or after a failure;
* runtime and loopback: the driver and the core agree on which links are up, and no frame
  is lost between them;
* bridge: one message in, one batch out, once per window, all or nothing;
* serial link: damage stays within the frame it hits; polls return; READY is obeyed;
* Nostr uplink: what a send reports as accepted is in the relay; a poll loses nothing that a larger buffer
  would have made a frame; outputs refer to events that exist;
* FIPS uplink: an address names one peer, and the peer's datagrams arrive in order, none lost among refused ones;
* codecs, carriers and converters: what is encoded is decoded on the other side, what is accepted can be sent
  on, what is altered on the way is refused;
* configuration: what it lets through, the router can fan out;
* conformance tool: what it accepts as final evidence was really shown, about the commits it names.

## 2. The modules

| module | models | its state and actions |
|---|---|---|
| `Envelope` | `hyf_wire/src/envelope.rs`, `destination.rs` | the fields that routing reads; `Valid`, `Fits`, `NextHop`, `SeenKey` |
| `SeenWindow` | (abstract) what a ring of keys promises | the last keys committed, oldest first; a repeat does not renew its place |
| `Store` | `hyf_store` as a set of records | `PutError`, `Put`, `Without`, `Unexpired`, `FirstPending` |
| `StoreSpec` | (abstract) one action per operation on that set | `DoPut`, `DoRemove`, `DoExpire`, ... |
| `SlotStore` | `hyf_store/src/store.rs` as written | the slot array; put in the first free slot, scans by slot index |
| `Router` | `hyf_router/src/router.rs` | link table, ring of seen keys, clock; the decision for an envelope as a record |
| `GatewayCore` | `hyf_gateway/src/core.rs` | composes `Router` and `Store`; `Submit`, `Ingest`, `Tick`, `LinkUp`, `LinkDown`, and the flush loop as steps of its own |
| `Custody` | (abstract) what store-and-forward promises the network | records and a clock |
| `DeliveryHistory` | observer of `GatewayCore` | when each message was last delivered |
| `LoopbackRuntime` | `hyf_gateway/src/runtime.rs`, `hyf_link_loopback` | composes `GatewayCore` with two endpoints and their queues |
| `Bridge` | `hyf_bridge_runtime` (orchestrator, dedupe, policy) and which messages the converters refuse | the dedupe ring; one action per ingress |
| `Kiss` | `hyf_link_kiss` | encoder and decoder, byte by byte, as operators |
| `RNodeSerial` | `hyf_link_rnode_serial/src/link.rs`, `hyf_link_rnode` state and command parsing | pending frame, decoder, flow control; sends that may break off, polls as loops of steps, the modem and the line |
| `NostrEvents` | `hyf_link_nostr`: content, ids, signatures, filters, stored events | operators |
| `NostrRelay` | `hyf_link_nostr/src/fake_relay.rs` | the relay as one record; each operation maps it to the relay after it and an outcome |
| `NostrUplink` | `hyf_gateway/src/nostr.rs` over that relay | the executor's sends and polls; other clients, injections, rejections and control messages through `relay_mut` |
| `FipsUplink` | `hyf_link_fips` sidecar and identity, `hyf_gateway/src/fips.rs` | peers, two queues, two flags; register, send, inject, the polls, `set_up` of executor and of sidecar |
| `Uplinks` | the two executors of a gateway | a behaviour is about one of them |
| `Bytes` | - | results, options, big-endian numbers, exclusive or, the reading cursor that the codecs share |
| `EnvelopeCodec` | `hyf_wire`, `hyf_bridge_core` | encoders and decoders of envelopes and of bridge messages, as operators |
| `RnsWire` | `hyf_rns_core`, `hyf_rns_crypto`, `hyf_rns_wire` | identities, tokens, sealed packets, ratchets; packets, announces, interface access codes |
| `ForeignCodecs` | `hyf_bitchat_core`, `hyf_lxmf_core` | packets with optional fields and routes; messages in MessagePack, depth and trailing data included |
| `Converters` | carrier wrappers (`hyf_link_rns`, `_bitchat`, `_lxmf`) and `hyf_bridge_bitchat`, `_lxmf`, `_nostr` | compositions of the codecs |
| `NostrMessages` | `hyf_link_nostr/src/messages.rs`, `canonical.rs` | a JSON printer and parser over tokens, client and relay messages, the canonical text |
| `RNodeCommands` | `hyf_link_rnode` commands, events, readiness probe | operators; the probe as a fold over what each read returned |
| `FipsControl` | `hyf_link_fips/src/control.rs` | the daemon's status response over JSON members |
| `Codecs` | the codecs at work | a value is encoded, its image may be changed on the way, the other side decodes it |
| `Startup` | `hyf_config`, `GatewayCore::new` | validation as an operator, then links reported up and down; decisions are those of `Router` |
| `Fixtures`, `Conformance` | `hyf_rns_conformance` and its report tool | fixture rows of the three profiles; generate, capture, validate as actions, with the trees, the binary, captures and report changing in between |
| `GatewayProofs`, `RuntimeProofs`, `StoreProofs`, `BridgeProofs`, `UplinkProofs`, `SerialProofs`, `HostProofs` | the theorems | - |
| `LibraryProofs` | lemmas that several of them need | induction and recursion up to a bound, rings, windows |
| `MC...` | instances for TLC | small sets of envelopes, messages, bytes, events, trees |

`GatewayCore` EXTENDS `Router` and `Store`. The router's ring is there as the array and the
cursor of the code, and `SeenWindowSpec` shows that it keeps the promise of `SeenWindow`; the
store is there as the set that `SlotStore` is shown to implement
(`ImplementsStoreSpec`). `LoopbackRuntime` EXTENDS `GatewayCore` and replaces the free answers of
the executor by what the endpoints do; `ImplementsCore` says that each of its steps is one of
`GatewayCore` (`NextOn`) for traffic that has lost some hops on its way, so that what is checked and proved of the core holds of the runtime. The dedupe ring of
`Bridge` is a second implementation of `SeenWindow` (`DedupeWindow`). `Codecs` EXTENDS all the codecs; `MCCodecs` puts it
beside `Startup` and `Conformance`, with which it shares no state: one of the three moves in a behaviour.

**Atomicity.** `GatewayCore` takes `&mut self`, so calls do not overlap. A call is
one step up to the point where it enters `flush_store`; each iteration of the loop
is a step (`FlushDrained`, `FlushUnroutable`, `FlushRecord`), and `pc` keeps other
calls out until the loop has returned. The intermediate states of a flush are visible to
the invariants. A call of the bridge is one step. A poll of the serial link is a step for every
byte it reads and every frame it works off, because the modem goes on sending meanwhile. A call of the relay or the
sidecar is one step (`&mut self` again); what other clients and the network do falls between calls. A run of the conformance tool
is one step; trees, binary and files change between runs.

**What is external.** In `GatewayCore`, the executor: each send of a batch independently succeeds,
fails recoverably or fails for good (`is_recoverable_send_failure`). Links come up and go
down at any time between calls. Callers report any time in `0..MaxTime`, in any order. In
`RNodeSerial`, the modem (it announces itself free once, by READY, and is busy with each
frame that reaches it) and the line (it cuts a frame short or loses one of its bytes). In `Uplinks`, the relay's other clients
and the network behind the sidecar. In `Codecs`, the wire, which flips a bit, cuts or adds a byte, changes a token or a member,
and the peers: a transport node, a propagation node that stamps, a modem, a FIPS daemon. Cryptographic primitives are
constants: a hash is a function that is injective on the bytes of the instance, a signature or MAC is right or it is not,
a shared secret is a function of both keys. In `Conformance`, the Python oracle and git.

**Abstractions.** Identifiers are small naturals and names. A record is its
envelope: the bytes are left out, and whether they fit a buffer is the field
that `Fits` reads. An envelope that fails validation is one of form `"invalid"` (a bad version)
or one whose expiry does not lie after its creation. `bytes_sent`, `last_delivered_payload_len`,
`RNodeState.last_error` and the receive time of a serial frame are left out: nothing
reads them back. A counter is followed only where a run asks about it
(`MetricMax`, where it saturates). The variables `stop`, `arrival`, `io`, `reply` only observe;
`since`, `taken`, `handed`, `due`, `hurt`, `torn` and those of `DeliveryHistory` are history. Of a
serial byte, the model knows the four that framing treats specially, the commands, and one other. In the codecs the lengths of ids,
hashes, keys and times are constants of one to four bytes, tags and length fields have the width of the code; JSON is
a sequence of tokens, a string a sequence of plain runs and characters that need an escape; a double has `Precision` bits of significand (11 in `codecs`, against times of 16 bits, as 53 against 64), and an integer is rounded when it becomes one.
A fixture file is its own checksum. Error values are names: what they say in words is left out.

## 3. What TLC checks

| run | question | properties | bounds |
|---|---|---|---|
| `slot_store` | does the slot array implement a bounded set listed by deadline, whatever holes removals leave? | `IdsInOneSlot`, `ImplementsStoreSpec` | 3 slots, 9 frames with ties, equal ids, invalid, oversize and expired ones; 4 instants |
| `gateway_traffic` | over links that fail in every combination: is nothing expired or local held, do records leave only when handled, does only executed work count as seen, does the store keep custody, is the ring a window? | `TypeOK`, `SeenIsQueue`, `StoreSound`, `LocalNeverStored`, `StrandedOnlyByFailure`, `CommitOnlyAfterSuccess`, `ReleasedOnlyWhenHandled`, `CustodySpec`, `SeenWindowSpec` | 2 links, 2 slots, ring of 2 for 4 keys, 3 instants |
| `gateway_refused` | with every limit reached, is a link ever in the table twice, or one too many? | `LinkTableSound` | 3 links for 2 slots of the table, 1 slot in the store, ring of 1, 1 command slot; invalid, oversize, expired, exhausted envelopes |
| `gateway_flush` | over time: does every flush loop end, do the two places that expire records count one of them twice, is a message delivered again only after `MaxSeen` others? | `ExpiredCountedOnce`, `FlushTerminates`, `DeliveredOnceInWindow` | 1 link, ring of 2, store of 2, 3 instants; the counters of stored and expired records saturate at 3, which is reached |
| `bridge` | is a message bridged once per window, all or nothing, whatever fails and wherever a copy comes from? | `DedupeIsQueue`, `BatchSound`, `RememberedIffBridged`, `BridgedOnceInWindow`, `DedupeWindow` | ring of 2, 3 keys, 3 policies (repetitions, gaps, echo, none), buffers of 0, 2 and 3 commands |
| `loopback` | is anything lost between core and endpoints; is every step one of the core? | `FlightSound`, `EndpointsMatchTable`, `NothingLost`, `ImplementsCore` | queues of 1 frame, ring of 1, 2 instants, a message too long for the links |
| `serial` | does damage stay in its frame, is what is sent readable, is flow control obeyed, do polls return? | `WholeFramesArrive`, `ReadyMeansFree`, `NothingElseArrives`, `SentIsReadable`, `PollsReturn` | buffer of 2 bytes (command and payload), payloads of FEND and FESC, frames of every length up to one too many, one byte of backlog |
| `uplinks` | is what the relay acknowledged stored, do outputs and slots agree, does a poll drop only what is no frame; do datagrams arrive in order, and addresses name one peer? | `AcknowledgedIsStored`, `RelaySound`, `OnlyInvalidDropped`, `ReplayIsPrefix`, `NothingLostOnFips`, `AddressesDistinct` | relay with 2 events, 1 subscription, 2 outputs; frames of 1 and 2 bytes against buffers of 1 and 2; sends on both sides of a second; sidecar with queues of 2, 4 keys of which two share an IPv6 address, 3 datagrams in each direction (`MaxInjected`) |
| `codecs` | do encoders and decoders agree, on values at their limits and on images changed on the way; does an accepted configuration fit the router; is accepted evidence true? | `RoundTrip`, `AcceptedIsForwardable`, `TamperRefused`, `FanOutFits`, `EvidenceGate` | 21 codecs; bits 1, 4 and 128 of every byte, one byte less and one more; frames of 5 bytes and 3 reads for the probe; all tables of 4 links; 2 commits, one of them with bad fixtures |

Two links suffice for a partial failure of a fan-out and for the difference between
the ingress link and another; a third is there where the table must overflow. Two
store slots give an order between records, one gives a full store. Three instants
give a clock that jumps over a deadline, meets it and stays before it. A ring of two with three or four
keys wraps and evicts. A serial buffer of two holds each kind of frame that the decoder tells apart:
empty, a command, one escaped byte, and one byte too many; damage accumulates without bound,
since the modem never stops, and the backlog bound only says how much is unread when it sends.
Link ids are symmetric where the run's property is (safety only). Two outputs for two events make a replay break off in each place, and two
stored events are enough for an order and a limit. One change to a wire image is what the authenticated codecs have to detect; longer
fields would repeat the same cases, because no decoder looks at a byte of an id, a key or a text. `codecs` does not
check for deadlock: a configuration that is refused really stops the gateway.

**Fairness.** `WF_vars(FlushStep)` in the gateway and `WF_vars(PollStep)` in the serial link, and nothing
else: each is an ordinary loop in a synchronous function, so once entered it is run on.
No fairness is assumed of links, clients, modem or time. `gateway_flush` and `serial` use it
for `FlushTerminates` and `PollsReturn`; no safety property depends on it. `PollsReturn` allows for a modem that
never falls silent: a frame poll goes on through command frames as long as there are bytes.

### Findings

Three runs expect a violation, each of a statement the repository itself makes.

* `finding_echo` (`EchoFree`): a transit message whose ingress link is the only one up is stored,
  and the flush at the end of the *same* call sends it back on that link, since the
  store does not keep where a record came from.
* `finding_hop_zero` (`ExhaustedNeverSent`): a locally submitted community message with hop limit 0 is put
  on the links; the check exists for every other path.
* `finding_shared_id` (`NewNotRefusedAsDuplicate`): one message id in two communities is two messages to the
  router and one to the store, so the second is refused as `Duplicate`.

### Observations that are not findings

* A message submitted to a community of this node while no link is up is delivered locally
  and not stored, so it is never propagated (`LocalNeverStored` records this).
* The local branches of `forward_stored` are never taken, for the same reason.
* An inbound message for a local community with a hop limit of 1 is dropped before
  it is delivered.
* `put_frame` checks for a duplicate before expiry, `put_envelope` does the same after
  encoding; the error a caller sees for a message that is both depends on the entry.
* The flush tries the record with the nearest deadline first and stops at the first
  failure: a record that keeps failing blocks those behind it until it expires
  (`StrandedOnlyByFailure` says that this is the only way a record waits).
* A community record whose sends never all succeed in one flush is sent again on the links that
  accepted it, at each flush, until it expires; receivers have to drop the repeats.
* `poll_loopback` takes the frame out of the queue before it is ingested: an ingest error loses it.
* A message from LXMF whose timestamp is 0 fails the whole bridge call when BitChat is among the
  egress protocols, so the other networks do not get it either.
* A modem command that does not parse, such as an ERROR frame cut short by the line, stays pending in
  `drain_pending_command`: every later poll returns the same error and the line is not read any more.
* A serial write that fails on the last delimiter only has put a whole frame on the line. The
  delimiter of the next frame completes it: the modem gets the frame although the send failed, and a
  second one on the same READY.
* With flow control, a READY lost on the line blocks the link until the modem sends another one: the link has no timeout.
* `publish` stores an event before it queues the answer. With a full output queue the caller gets an error for an event
  that is stored; a retry within the same second finds it as a duplicate, one in the next second has another id and stores a second copy.
* A subscription whose replay overflows stays open although the call failed; the client misses the end of the replay and its EOSE.
* The readiness probe reads frames in batches: a READY followed by an error in the same read is an error, in the
  next read it is never seen.
* A room message that goes out to LXMF and comes back may be one millisecond older: the float of seconds is truncated. This holds for times
  below 2^52 ms. From there on `created_at_ms as f64` and the two operations behind it round by more than a millisecond, and the message may come
  back older or newer, by up to one and a half times the distance of two floats (2^60 + 100 comes back as 2^60). The largest times are
  rounded up to 2^64, which `timestamp_secs_to_ms` lets through, and saturate. `SameTime` states these bounds.
* A node address and the IPv6 address in a status response are compared over all but the last byte, which the IPv6 form has no room for.
* The row `fixture_replay` of profile 2 is passed whatever the replays say: `from_capture_dir` reads only command, mode and commit of
  `hkdf_vector`, `token_fixture_decrypt`, `identity_fixture_decrypt` and `ifac_fixture_verify`, and the oracle answers `"valid": false` under the
  same command and mode. Only the IFAC replay is refused when it failed, because it then has no `unmasked_hex`. The row does not claim to be a
  compatibility proof; the runs have such replays, and `EvidenceGate` promises nothing about them. Profile 1 reads `kiss_decode` only.
* Every capture names the commit that the oracle script was written for; a replay does not look at the Reticulum tree.
* A conformance report names the commit that is checked out, while fixtures are compiled into the binary, which may be older.

## 4. What is proved

The theorems hold for every value of the constants that satisfies the named assumptions, all of which TLC evaluates on
the instances it checks:

* `StoreAssumption`, `SlotStoreAssumption`, `RouterAssumption`, `GatewayAssumption`, `LoopbackAssumption`, `BridgeAssumption`: natural
  bounds (rings, tables and stores without slots included), at least one command slot, a finite set of links, two of them for
  the loopback pair, `NoLink` not a link, `NoKey` not a key, `NoRecord` not a record;
* `UplinkAssumption`: of FIPS what `FipsGatewayExecutor::validate` checks; of Nostr the sizes of arrays, the unsigned fields of an event, limits of filters that are natural or absent (-1), room for
  at least one tag, and that two published events that differ have different SHA-256 digests (the relay knows an event by its
  digest, so without this an acknowledged frame could be another one's);
* `KissAssumption`, `SerialAssumption`: framing bytes are not commands, the modem announces itself free only by the READY
  that the model sends for it;
* `StartupAssumption`, `ConformanceAssumption`: the links of a configuration are an array, capacities are natural; a tree is a
  commit and a dirty flag, `git` names a commit, a command line names one of the three profiles or none;
* `BytesAssumption`, `EnvelopeAssumption`, `RnsAssumption`: lengths are natural; what travels in one byte or in a `u16` fits there; `Huge`, which stands for
  every number too large to be a length, does not fit into a field that is read (`u64` times, `u16` lengths). The code's own lengths satisfy this,
  and so do the shorter ones of the instance.

### Gateway

`GatewayProofs`:

* `GatewayInvariant`: `Spec => []IInv`, with `IInv = TypeOK /\ SeenIsQueue /\ StoreSound /\
  LinkTableSound /\ LocalNeverStored /\ StrandedOnlyByFailure`;
* its parts as theorems of their own: `GatewayTypes`, `SeenStaysQueue`, `StoreStaysSound`,
  `LinkTableStaysSound`, `LocalMessagesAreNeverStored`, `RecordsWaitOnlyAfterFailure`.

Why the conjunction: `StoreSound` alone is not inductive. That a flush removes exactly
one record needs distinct ids; that the record to flush exists and is the first by
deadline needs a finite store; that `StrandedOnlyByFailure` survives
`FlushUnroutable` needs to know that an empty decision of `forward_stored` means no
link is up, which for a community holds only while no local record is held and the
record is not expired (`LocalNeverStored`, `StoreSound`). That the ring's cursor stays within it needs
`SeenIsQueue`: the first empty slot is where the cursor stands. The argument has one lemma per action;
the facts they share are lemmas about the operators: what `HandleEnvelope` may
decide (`DecisionSound`), what put, removal and expiry leave of a sound
set of records, and what marking a key leaves of the ring (`MarkedSlot`, `CommitSeenSound`).

and, from that invariant:

* `FlushLoopShrinks`: `Spec => [][FlushShrinks]_vars`. While `flush_store` runs no other call comes in, and each of its iterations leaves the loop with the store
  as it is or goes on with one record less. Of `FlushTerminates`, this is what is not about fairness: what is left to assume is that a running loop goes on;
* `OwedRecordsStay`: `Spec => ReleasedOnlyWhenHandled`. A call expires records and puts one, so what it loses is overdue
  (`CallReleases`); a flush step releases one record, and then the decision asked for one link, or for every link that is up
  (`ForwardAsksEnough`), all of which took it;
* `SeenOnlyAfterSuccess`: `Spec => CommitOnlyAfterSuccess`. Every decision delivers the message it sends on
  (`DecisionsDeliverOut`: a hop less does not change the key), and a batch that changes the ring has sent, delivered or stored
  (`ExecuteRemembers`, `StoredIsNew`);
* `GatewayKeepsCustody`: `Spec => CustodySpec`, the refinement. A call maps to an observation of the clock followed by at most one put, a flush
  step to the removal of the record with the nearest deadline;
* `SeenIsWindow`: `Spec => SeenWindowSpec`, the refinement of the ring of seen keys;
* `ExpiryIsCountedOnce`: `Spec => []ExpiredCountedOnce`. The induction is over the balance of the counters: each call adds to `stored` what it puts
  and to `expired` what it drops, and records kept and records counted are different ones (`KeptAndGone`); the inequality survives
  the saturation of `expired`, not that of `stored`, which the property leaves out;
* `RepeatsAreNotDelivered`: `HistorySpec => DeliveredOnceInWindow`. The history of a delivered key covers what the ring shows behind
  it (`HistorySound`): as long as the key is in the ring nothing delivers it again, and when it leaves, `MaxSeen` other keys have entered since.

`RuntimeProofs`, over the endpoints of the loopback pair, from
`RInv = IInv /\ RuntimeTypeOK /\ FlightOk /\ EndpointsMatchTable /\ NothingLost`:

* `FlightStaysSound`, `EndpointsStayMatched`, `NothingIsLost`: the three invariants of the run `loopback`. `NothingLost` is not inductive alone: that a record which leaves
  the store went into a queue rests on `ReleasedOnlyWhenHandled` and on the table's view of the links being the endpoints' (`EndpointsMatchTable`);
* `RuntimeIsGateway`: `RuntimeSpec => ImplementsCore`, and by it `RuntimeOwedRecordsStay`, `RuntimeSeenOnlyAfterSuccess` and `RuntimeKeepsCustody`, the
  step theorems of the core over real endpoints.

`StoreProofs`:

* `IdsStayInOneSlot`: `Spec => []IdsInOneSlot`;
* `SlotsImplementStore`: `Spec => ImplementsStoreSpec`, the refinement of the set of records by the slot array. It needs that the scan of `first_pending`
  ends with the least record, and that the insertion sort of `pending` yields the sequence of all records in their order,
  for any number of slots: both are recursive functions, unfolded with `RecursionUpTo` and followed with `UpTo`.

### Bridge

`BridgeProofs`:

* `DedupeStaysQueue`: `Spec => []DedupeIsQueue`, from `IInv = DedupeTypeOK /\ DedupeIsQueue`;
* `KeysEnterWithTheirBatch`: `Spec => RememberedIffBridged`, the action property that a call which fails leaves no trace in
  the ring. It rests on `InsertSound` (an insertion adds its key, once, where the queue ends) and on
  `IngestCases` (what a call can be);
* `DedupeIsWindow`: `Spec => DedupeWindow`, the refinement of the dedupe ring;
* `BatchesAreSound`: `Spec => []BatchSound`. The batch is the subsequence of the policy's protocols that are to be answered; counting the chosen
  indices numbers them without gaps (`RankNumbers`), so the batch answers each once;
* `RepeatsStayInTheWindow`: `Spec => BridgedOnceInWindow`, by the argument of `RepeatsAreNotDelivered`.

`LibraryProofs` has what the rings share. A ring is an array of `M` slots of which `n` are filled, and a cursor; read from the
oldest slot on, it is a sequence of `n` keys (`RingOrderIsSeq`). Writing at the cursor appends to that sequence, after its
`Tail` when the ring is full (`RingAppend`, `RingStep`); in between lies one fact of modular arithmetic, that going around
once meets each slot once (`AroundOnce`). The router finds its slot by searching for an empty one and the bridge by its length; that both are the
cursor is `SeenIsQueue` and `DedupeIsQueue`. `Covers` relates a key's history to the window behind it and is kept by every commit (`CoversStep`).

### Uplinks

`UplinkProofs`:

* `PeersStayApart`: `Spec => []AddressesDistinct`, whatever keys hash to. Only `register_peer` changes the table, and what it takes overlaps with no
  peer; overlap is symmetric, which is what makes the order of registration irrelevant;
* `SentStaysInOrder` and `ReceivedStaysInOrder`, together `FipsLosesNothing`: `Spec => []NothingLostOnFips`. Taking the frames of a queue commutes with
  appending to it and with taking its head off (`FramesOfAppend`, `FramesOfTail`); on the way in, only those of the
  remote peer count, so the filter is a recursive function and its two laws are proved by induction over the queue;
* `RelayStaysSound`: `Spec => []RelaySound`, from `RelayOK`: queued outputs can be shown, owned slots are those that outputs name, ids are
  distinct, events verify, subscriptions are counted. Each operation of the relay has a lemma that it keeps `RelayOK`; a replay keeps it by induction over its rounds;
* `AcknowledgedStaysStored`: `Spec => []AcknowledgedIsStored`. A send that is answered Ok stored its event, or found its id stored: then a verified event
  with the same digest, hence the same unsigned part, which decodes alike (`DecodesAlike`), and no operation takes a stored event out (`KeepsEvents`);
* `DroppedWasInvalid`: `Spec => []OnlyInvalidDropped`;
* `RepliesArePrefixes`: `Spec => ReplayIsPrefix`. The rank of a matching event is the number of matching events that sort before it; ranks
  order the events (`RanksOrder`), and the first event not yet shown is the one of the next rank (`FirstIsNext`). By induction over the
  rounds of the loop (`OneMore`, `RoundsEmit`), after n rounds the relay has shown the events of rank below n. `RelayOK` bounds the store for this: the loop runs
  `EventCapacity` times, and has shown every event only if there are no more.

### Serial link

`SerialProofs`, for every buffer size, payload, sequence of frames and damage:

* `WholeFramesAllArrive`: `Spec => []WholeFramesArrive`, and `OnlyWholeFramesArrive`: `Spec => NothingElseArrives`. A run of the decoder is the sequence of its states, one after each byte
  (`Run`); runs compose (`RunsCompose`). Whatever state damage left the decoder in, a frame on the line is read as that frame:
  its opening delimiter ends what was before, its body is read without a word (`BodyIsQuiet`, by induction over the
  payload through escapes and the buffer's limit), its closing delimiter yields it (`WireIsRead`). The invariant `LineInv` says that what is on the line is, to the decoder
  as it stands, the frames that are due, in order, and on a line without damage nothing else (`Owed`); a send appends to both, a read takes a byte off;
* `SentStaysReadable`: `Spec => SentIsReadable`, the same lemma for the decoder at the far end, which may be in the middle of
  a frame that broke off;
* `ReadyStaysTrue`: `Spec => []ReadyMeansFree`. `ReadyMeansFree` is not inductive: the link gets ready by a frame that was sent long before. The invariant `OneReady` says
  where READY can be: on the line, decoded and pending, or known to the link, in one of these places, once, and only
  while the modem is free. That the frames that come out are those that are due is `OnlyWholeFramesArrive`;
* `PollLoopShrinks`: `Spec => [][PollShrinks]_vars`. A step of a poll returns or lowers `Work`, two for each byte that waits and one for a frame that was
  decoded and is to be drained; in between, only the modem acts, by sending. This is the part of `PollsReturn` that is not about fairness: a modem that
  sends without end could keep a poll busy, which is why `PollsReturn` allows for it.

### Codecs

`HostProofs`, for every byte string, every value of the types that the code declares, every room and every length of ids, times and payloads:

* `DecodedEnvelopes`, `DecodedMessages`, `DecodedPackets`: what a decoder accepts is a value of its type that the encoder's validation takes;
* `EnvelopeExact`, `MessageExact`, `PacketExact`: `Decode(wire) = Ok(v) <=> Encode(v, Len(wire)) = Ok(wire)`. From left to right, whatever is accepted is
  encoded to the same bytes, so no value has two images; from right to left, whatever is encoded is decoded;
* `EnvelopeReturns`, `MessageReturns`, `PacketReturns`: the same of an encoder with more room than it needs;
* `EnvelopeForwarded`: a gateway sends a decoded envelope on with another hop limit in the bytes that it came in, and the next one decodes it;
* `UnwrapExact`: `UnwrapBridgeMessage(e) = Ok(raw) <=> WrapBridgeMessage(raw, e) = Ok(e)`, and from it `MessageCarried`: a room message that is wrapped, encoded,
  decoded and unwrapped is the one that was sent, whatever became of the hop limit;
* `HashedAlike`: what is hashed of two packets is the same if and only if their destination, its type, the packet type, the context and the data are; by it
  `TransportKeepsHash`: hops, header type, transport id and type do not count.

The decoders of `EnvelopeCodec` are scans: a list of field names, and for each field how much to read, which may depend on the fields before. The argument has
three parts. A scan that ends well has cut its input into pieces, one for each name, each as long as it should be and without an error, and any input that is
cut like this is scanned to these pieces (an image: by induction over the names, with `UpTo` and `RecursionUpTo`). The fields of a value, written one behind the
other, are such an image, and the fields of an image are those of the value it is read as; that needs `to_be_bytes` and `from_be_bytes` to be inverse,
by induction over the width, as long as the number fits (`FitsIn`) and is not `Huge`. And the encoder's concatenation is the sequence of the pieces. Packets have
five parts at fixed places (`FiveParts`), and the flags are a sum of digits of different weight (`FlagsExact`).

### Startup and conformance tool

`HostProofs`:

* `StartedFanOutFits`: `StartupSpec => []FanOutFits`, for every set of configurations. The invariant `StartInv` says that a started gateway has a configuration that
  validation let through and a link table that lists enabled links only, each once. Such a table has no more rows than there are
  enabled links (`TableIsShort`, by an injection), which are no more than the configured maximum (`LinksAreFew`), which
  validation holds against the command capacity; so the fan-out to a room fits in a batch (`BatchFits`), and there is a slot for a link that is not in the table yet (`EventKeepsTable`);
* `AcceptedIsEvidence`: `ConformanceSpec => []EvidenceGate`, for every set of trees, binaries, captures and edits. The first part is about one state: a report that is
  accepted has each required row once and passed (`FinalReport`, `RequiredPassed`). The second needs `ToolInv`: until somebody edits
  it, a report of the tool is `Honest`, that is, a fixture that did not pass, or an oracle or capture that did not answer, is a row that
  is not passed (`GeneratedIsHonest`, profile by profile). What a capture must show for that is in `Backed`: for profile 2 the answers of the shim and of
  Reticulum, not the fixture replays, whose `valid` the code does not read. What is recorded of its making does not change when trees, binary or captures change later, which they may.

### Method

Recursive definitions of modules that are proved about are recursive functions. `LibraryProofs` has induction up to a bound (`UpTo`: a set of indices that holds 0 and with each
index the next holds them all, from `LeastNatural`) and the existence of the function a recursion describes (`RecursionUpTo`); sets and functions take the place of the
operator parameters of the library's induction theorems. Steps of a proof about sequences compare them entry by entry.

### Only model-checked

* Liveness (`FlushTerminates`, `PollsReturn`): fairness is out of the prover's reach. That the loops run out of work is proved (`FlushLoopShrinks`, `PollLoopShrinks`).
* `RoundTrip`, `AcceptedIsForwardable`, `TamperRefused`, as the formulas that the run checks: they speak of all codecs at once, and those of LXMF (nested values) and
  Nostr (JSON) are recursive operators, out of the prover's reach. What they say of envelopes, of room messages and their carrier and of RNS packets is
  proved for all bytes; announces, tokens, access codes, BitChat, LXMF, Nostr, the modem's commands and the daemon's status are
  checked for the values of the instance, with each change of their image.
* The three findings: a violation needs one behaviour, which TLC shows.

## 5. Not modelled

* Wording: `Display` of errors, log lines, the text of reports, the options of command lines.
* Cryptographic strength: primitives are constants, so that nothing is said about what they resist.
* The manifest that the hardware-in-the-loop tool writes, and `RNodeState.last_error`: nothing reads them back.
* Capability records of `hyf_link`: plain data with a range check each.
* UTF-8 and JSON syntax where a library reads them (`FipsControl`, reports); hex digits, except of a node address.
* Tests, benches and build files. Reticulum's links, resources and path finding are not in the repository.

## 6. Plan

1. A mesh of several gateways over links that lose and repeat: delivery at most once in a window per node, hop limits
   bound the copies, no message circulates for ever. It needs a smaller `GatewayCore` state to be within TLC's reach.
2. A gateway whose store is flushed into an uplink, as `LoopbackRuntime` is composed with endpoints: every record that leaves
   by a send is in the relay, and copies of a frame are bounded by the seconds in which it was sent.

Theorems, next: announces, tokens and access codes, which need that exclusive or with the same mask twice changes nothing; BitChat packets of version 2, which have one
image like envelopes have.
