------------------------------ MODULE MCCodecs ------------------------------
(***************************************************************************)
(* A small instance of the codecs, of the start of a gateway and of the    *)
(* conformance tool.  The three share no state: `part` picks the one that  *)
(* a behaviour is about, the others stay where they are.                   *)
(***************************************************************************)
EXTENDS Codecs, Startup, Conformance

VARIABLE part

vars == <<part, codecVars, startupVars, conformanceVars>>

Init ==
    /\ part \in {"codecs", "startup", "conformance"}
    /\ CodecInit
    /\ IF part = "startup" THEN StartupInit
       ELSE config = 0 /\ started = "no" /\ table = <<>>
    /\ IF part = "conformance" THEN ConformanceInit
       ELSE /\ hyf = 0 /\ reticulum = 0 /\ binary = 0 /\ captures = 0
            /\ report = None /\ made = [by |-> "none"]

Next ==
    \/ /\ part = "codecs" /\ CodecNext
       /\ UNCHANGED <<part, startupVars, conformanceVars>>
    \/ /\ part = "startup" /\ StartupNext
       /\ UNCHANGED <<part, codecVars, conformanceVars>>
    \/ /\ part = "conformance" /\ ConformanceNext
       /\ UNCHANGED <<part, codecVars, startupVars>>

Spec == Init /\ [][Next]_vars

-----------------------------------------------------------------------------
(* The conformance tool.  Commit 1 has good fixtures.  At commit 2 an      *)
(* announce of profile 0 is not the one its case describes and the KISS    *)
(* vectors of profile 1 miss a case.                                       *)

MCDigest(bytes) ==
    LET sum[i \in 0..Len(bytes)] ==
            IF i = 0 THEN 0 ELSE (31 * sum[i - 1] + bytes[i] + 7) % 65521
    IN  sum[Len(bytes)]
MCPublicOf(secret) == secret + 100
MCShared(secret, public) == secret * (public - 100)

Secret == [x |-> 3, ed |-> 4]
MCAspects == <<2>>
Identity == PublicIdentity(Secret)

-----------------------------------------------------------------------------
(* The fixtures.                                                           *)

MCCaseCounts ==
    [destination_hash |-> 2, packet_header |-> 1, packet_hash |-> 3, announce |-> 1,
     announce_negative |-> 1, kiss |-> 1, kiss_negative |-> 1, rnode_command |-> 1,
     rnode_config_validation |-> 1, rnode_stat |-> 1, hkdf |-> 1, token |-> 1,
     token_negative |-> 1, identity_encrypt |-> 1, identity_decrypt |-> 1, ifac |-> 1,
     ifac_negative |-> 1, identity_signature |-> 1]

Case(category) ==
    [id |-> category, category |-> category, deterministic |-> TRUE,
     private_test_material |-> category \in PrivateCategories]
File(schema, profile, cases) ==
    [schema |-> schema, profile |-> profile, repo |-> "Reticulum", commit |-> PinnedCommit,
     cases |-> cases]

Named(app_name, aspects, identity_hash) ==
    LET name_hash == NameHash(app_name, aspects).value IN
    [app_name |-> app_name, aspects |-> aspects, expanded_name |-> <<app_name>> \o aspects,
     name_hash |-> name_hash, identity_hash |-> identity_hash,
     destination_hash |-> DestinationHash(name_hash, IF IsSome(identity_hash)
                                                     THEN identity_hash[1] ELSE <<>>)]

Packet(header_type, hops, transport_id) ==
    [flags |-> [header_type |-> header_type, context_flag |-> FALSE,
                transport_type |-> header_type, destination_type |-> 0, packet_type |-> 0],
     hops |-> hops, transport_id |-> transport_id, destination_hash |-> <<5>>,
     context |-> 0, data |-> <<1, 2>>]
Hashed(packet) ==
    LET raw == EncodePacket(packet, Mtu).value IN
    [raw_packet |-> raw, transport_id |-> packet.transport_id,
     hashable_part |-> HashablePart(raw).value, full_hash |-> PacketHash(raw).value,
     truncated_hash |-> PacketTruncatedHash(raw).value]

Announced(app_data) ==
    LET raw == EncodeAnnounce(Secret, TestApp, TestAspects, app_data, <<2>>, 3, Mtu).value
        announce == DecodeAnnounce(DecodePacket(raw).value).value
    IN  [inputs |-> [secret |-> Secret, app_name |-> TestApp, aspects |-> TestAspects,
                     app_data |-> app_data, random_hash |-> announce.random_hash],
         context_flag |-> FALSE, raw_packet |-> raw, announce |-> announce]

GoodFiles ==
    LET header == Packet(0, 1, None)
        raw == EncodePacket(header, Mtu).value
        announced == Announced(<<6>>)
        cut == [announced.raw_packet EXCEPT ![Len(announced.raw_packet)] = 7]
        one(category, fields) == fields @@ Case(category)
        few(profile) == [name \in FilesOf(profile) |-> File(ManyCases, profile, <<Case(name)>>)]
    IN  [identity_signature |-> File(OneCase, Profile0,
             <<one("identity_signature",
                   [secret |-> Secret, public_identity |-> PublicIdentityBytes(Identity),
                    identity_hash |-> IdentityHash(Identity), message |-> <<1>>,
                    signature |-> Sign(Secret, <<1>>)])>>),
         destination_hash |-> File(ManyCases, Profile0,
             <<one("destination_hash", Named(1, <<2>>, None)),
               one("destination_hash", Named(1, <<2, 3>>, Some(IdentityHash(Identity))))>>),
         packet_header |-> File(ManyCases, Profile0,
             <<one("packet_header", [raw_packet |-> raw, flags |-> raw[1],
                                     packet |-> header])>>),
         packet_hash |-> File(ManyCases, Profile0,
             <<one("packet_hash", Hashed(header)),
               one("packet_hash", Hashed(Packet(1, 1, Some(<<8>>)))),
               one("packet_hash", Hashed(Packet(1, 2, Some(<<9>>))))>>),
         announce |-> File(ManyCases, Profile0, <<one("announce", announced)>>),
         announce_negative |-> File(ManyCases, Profile0,
             <<one("announce_negative", [raw_packet |-> cut, mutation |-> "app_data",
                                         expected_error |-> "InvalidSignature"])>>)]
        @@ few(Profile1) @@ few(Profile2)

Manifest(files, profile) ==
    LET names == FileList(profile) IN
    [schema |-> ManifestSchema, profile |-> profile, repo |-> "Reticulum",
     commit |-> PinnedCommit, generated |-> TRUE,
     fixtures |-> [i \in DOMAIN names |->
         [file |-> names[i], category |-> names[i], case_count |-> MCCaseCounts[names[i]],
          sha256 |-> files[names[i]]]]]
WithManifests(files) ==
    [files |-> files,
     manifest |-> [p \in {Profile0, Profile1, Profile2} |-> Manifest(files, p)]]
GoodFixtures == WithManifests(GoodFiles)
BadFixtures ==
    WithManifests([GoodFiles EXCEPT !.announce.cases[1].announce.app_data = <<9>>,
                                    !.kiss.cases = <<>>])
MCFixturesOf(commit) == IF commit = 1 THEN GoodFixtures ELSE BadFixtures

MCProofIv(commit) == <<commit, 0>>
MCProofKey == <<1, 2, 3, 4>>
MCProofText == <<1>>

-----------------------------------------------------------------------------
(* The commands and the environment.                                       *)

GoodProbe ==
    [status |-> "passed", cryptography |-> "49.0.0", pyserial |-> "3.5",
     rns_version |-> Some("1.3.5"), module |-> "absolute", under_tree |-> TRUE]
MCProbes == {GoodProbe, [GoodProbe EXCEPT !.rns_version = None],
             [GoodProbe EXCEPT !.under_tree = FALSE]}
MCCaptureRuns ==
    {[probe |-> GoodProbe, bad |-> "none"], [probe |-> GoodProbe, bad |-> "kiss_decode"],
     [probe |-> GoodProbe, bad |-> "ifac_python_verify"],
     [probe |-> GoodProbe, bad |-> "token_fixture_decrypt"],
     [probe |-> GoodProbe, bad |-> "ifac_fixture_verify"],
     [probe |-> [GoodProbe EXCEPT !.rns_version = None], bad |-> "none"]}
MCHyfTrees == {[head |-> 1, dirty |-> FALSE], [head |-> 1, dirty |-> TRUE],
               [head |-> 2, dirty |-> FALSE]}
MCReticulumTrees ==
    {[head |-> PinnedCommit, dirty |-> FALSE], [head |-> PinnedCommit, dirty |-> TRUE],
     [head |-> PinnedCommit + 1, dirty |-> FALSE]}
MCAnswers ==
    {[ran |-> TRUE, header_1 |-> TRUE, header_2 |-> TRUE, announce_valid |-> TRUE],
     [ran |-> TRUE, header_1 |-> TRUE, header_2 |-> FALSE, announce_valid |-> TRUE]}

MCGenerateArgs ==
    LET base == [flags |-> RequiredFlags, profile |-> Profile0, run_id |-> "run",
                 started_at |-> <<2024, 2, 29, 23, 59, 59>>, environment |-> "linux",
                 expected_commit |-> None, require_oracle |-> FALSE,
                 reticulum_path |-> FALSE, capture_dir |-> FALSE,
                 report_path_root |-> "none"]
        oracle == [base EXCEPT !.require_oracle = TRUE, !.reticulum_path = TRUE,
                               !.report_path_root = "root"]
        captured == [base EXCEPT !.capture_dir = TRUE, !.profile = Profile1]
    IN  {base, oracle, [oracle EXCEPT !.expected_commit = Some(1)],
         [oracle EXCEPT !.report_path_root = "elsewhere"],
         [base EXCEPT !.started_at = <<2023, 2, 29, 0, 0, 0>>],
         [base EXCEPT !.flags = {}], [base EXCEPT !.reticulum_path = TRUE],
         captured, [captured EXCEPT !.capture_dir = FALSE],
         [captured EXCEPT !.profile = Profile2, !.report_path_root = "root"]}

MCValidateArgs ==
    LET base == [input |-> TRUE, require_final_profile |-> None, require_final_profile0 |-> FALSE,
                 require_final_provenance |-> FALSE, hyf_repo_path |-> FALSE,
                 reticulum_path |-> FALSE, expected_path |-> None]
        full(p) == [base EXCEPT !.require_final_profile = Some(p),
                                !.require_final_provenance = TRUE,
                                !.hyf_repo_path = TRUE, !.reticulum_path = TRUE]
    IN  {base, [base EXCEPT !.input = FALSE], [base EXCEPT !.require_final_profile0 = TRUE],
         [base EXCEPT !.expected_path = Some("other")], [base EXCEPT !.hyf_repo_path = TRUE],
         [base EXCEPT !.require_final_profile = Some(Profile1)],
         full(Profile0), full(Profile1), full(Profile2)}

\* A row is marked as passed, left out, doubled, or has a status that is none.
MCEdits(r) ==
    LET failed == {i \in DOMAIN r.results : r.results[i].status /= "passed"} IN
    {[r EXCEPT !.results = [i \in DOMAIN @ |-> [@[i] EXCEPT !.status = "passed"]]],
     [r EXCEPT !.results = Tail(@)],
     [r EXCEPT !.results[1].status = "skipped"],
     [r EXCEPT !.results = SubSeq(@, 1, Len(@) - 1) \o <<@[1]>>]}
    \cup {[r EXCEPT !.hyf_commit = 2] : i \in IF failed = {} THEN {1} ELSE {}}

-----------------------------------------------------------------------------
(* Values of each codec, some that its encoder refuses among them.         *)

Params == [source |-> <<2>>, created_at |-> 1, expires_at |-> 300, hop_limit |-> 3]
MCDestinations ==
    {[kind |-> "node", id |-> <<3>>], [kind |-> "community", id |-> <<4>>],
     [kind |-> "foreign", network |-> 2, id |-> <<5, 6>>]}
MCEnvelopes ==
    LET envelope(destination) == WrapAs(0, <<7, 8>>, <<1>>, destination, Params).value
        node == envelope([kind |-> "node", id |-> <<3>>])
    IN  {envelope(d) : d \in MCDestinations}
        \cup {[node EXCEPT !.expires_at = 1], [node EXCEPT !.version = 1],
              [node EXCEPT !.payload_kind = 18, !.payload = <<>>],
              [node EXCEPT !.payload = [i \in 1..40 |-> i]]}

MCPackets ==
    LET plain == Packet(0, 1, None) IN
    {plain, [plain EXCEPT !.flags.context_flag = TRUE, !.data = <<>>],
     [plain EXCEPT !.hops = 255, !.flags.packet_type = 3, !.flags.destination_type = 2],
     Packet(1, 2, Some(<<8>>)), Packet(1, 2, None), Packet(0, 2, Some(<<8>>)),
     [plain EXCEPT !.data = [i \in 1..20 |-> i]]}

MCAnnounces ==
    LET announce == [secret |-> Secret, app_name |-> 1, aspects |-> <<2>>,
                     app_data |-> <<6>>, random |-> <<2>>, now |-> 3]
    IN  {announce, [announce EXCEPT !.app_data = <<>>, !.now = 100],
         [announce EXCEPT !.now = 101], [announce EXCEPT !.app_name = 0],
         [announce EXCEPT !.aspects = <<2, 0>>],
         [announce EXCEPT !.app_data = [i \in 1..20 |-> i]]}

MCTokens ==
    [key : {<<1, 2>>, <<1, 2, 3, 4>>, <<1, 2, 3>>}, plaintext : {<<>>, <<1>>, <<1, 2>>},
     iv : {<<5, 6>>}]
MCSealed ==
    [secret : {Secret}, ratchets : {<<>>, <<5, 6>>}, ratchet : {0}, enforce : BOOLEAN,
     plaintext : {<<1>>}, ephemeral : {7}, iv : {<<5, 6>>}]
    \cup [secret : {Secret}, ratchets : {<<5, 6>>}, ratchet : {1, 2}, enforce : BOOLEAN,
          plaintext : {<<>>, <<1, 2>>}, ephemeral : {7}, iv : {<<5, 6>>}]
MCIfacs ==
    [raw : {EncodePacket(Packet(0, 1, None), Mtu).value, <<1, 2>>, <<128, 2, 3>>},
     secret : {Secret}, key : {<<>>, <<1>>}, size : 0..3]

MCBitchats ==
    LET plain == [version |-> 2, packet_type |-> 2, ttl |-> 3, timestamp |-> 500,
                  flags |-> FlagsOf(0), sender_id |-> <<1>>, recipient_id |-> None,
                  route |-> None, payload |-> [compressed |-> FALSE, bytes |-> <<65>>],
                  signature |-> None]
        routed == [plain EXCEPT !.route = Some([hop_count |-> 2, raw_hops |-> <<3, 4>>])]
    IN  {plain, routed, [plain EXCEPT !.flags = FlagsOf(31), !.payload.bytes = <<>>],
         [routed EXCEPT !.recipient_id = Some(<<2>>), !.signature = Some(<<9>>)],
         [plain EXCEPT !.version = 1], [plain EXCEPT !.payload.compressed = TRUE],
         [plain EXCEPT !.payload.bytes = <<1, 2, 3, 4, 5>>],
         [routed EXCEPT !.route[1].hop_count = 1], [routed EXCEPT !.route[1].hop_count = 3]}

MCLxmfs ==
    LET payload == [timestamp |-> <<3, 700>>, title |-> <<>>, content |-> <<66, 67>>,
                    fields |-> <<128>>, stamp |-> None]
        payloads == {payload, [payload EXCEPT !.title = <<65>>, !.fields = <<129, 1, 2>>],
                     [payload EXCEPT !.stamp = Some(<<1>>)],
                     [payload EXCEPT !.timestamp = <<255, 0>>],
                     [payload EXCEPT !.fields = <<1>>],
                     [payload EXCEPT !.fields = <<129, 1, 145, 145, 1>>]}
    IN  [destination : {<<1, 2>>}, source : {<<3, 4>>}, signature : {<<5>>},
         payload : payloads]

RoomText(author, created_at) ==
    [version |-> 0, room_id |-> <<4>>, message_id |-> <<5>>, author |-> author,
     created_at |-> created_at, payload_kind |-> 1, payload |-> <<65>>]
Hyf == [kind |-> "hyf", network |-> 0, id |-> <<2>>]
Foreign(network, id) == [kind |-> "foreign", network |-> network, id |-> id]
Authors == {Hyf, Foreign(2, <<109>>), Foreign(2, <<8>>), Foreign(3, <<1, 2>>),
            Foreign(4, <<1>>)}
MCBridgeMessages ==
    LET message == RoomText(Hyf, 500) IN
    {RoomText(author, 500) : author \in Authors \cup {Foreign(1, <<1>>), Foreign(3, <<1>>)}}
    \cup {[message EXCEPT !.payload_kind = 255, !.payload = <<255, 1>>],
          [message EXCEPT !.payload = <<255>>], [message EXCEPT !.room_id = <<0>>],
          [message EXCEPT !.payload = <<>>], [message EXCEPT !.payload = <<1, 2, 3, 4>>]}

MCRawBitchats ==
    {<<1, 2, 3, 0, 5, 0, 0, 1, 1, 65>>, <<1, 2, 3, 0, 5, 4, 0, 3, 1, 0, 2, 9>>}
Carried(raws) ==
    [raw : raws, message_id : {<<1>>}, destination : {[kind |-> "node", id |-> <<3>>]},
     params : {Params}]
Wires(results) == {r.value : r \in {s \in results : IsOk(s)}}

\* Times below, at and beyond what a significand of 11 bits holds, up to the
\* largest one, which is rounded up and saturates.
RoomTimes == (0..7) \cup {127, 253, 500, 1011, 1023, 1024, 2001, 2022, 2047, 2048, 2049,
                          2123, 4045, 4083, 32767, 32769, 64720, 65328, 65534, 65535}
Rooms1 == {RoomText(Hyf, t) : t \in RoomTimes} \cup MCBridgeMessages

-----------------------------------------------------------------------------
(* Nostr messages.                                                         *)

Plain(s) == <<s>>
MCEvent ==
    [id |-> Plain("id"), pubkey |-> Plain("key"), created_at |-> 5, kind |-> 7,
     tags |-> << <<Plain("p"), Plain("key")>>, <<Plain("t"), <<>>>> >>,
     content |-> <<"hello", "quote", "newline", "control">>, sig |-> Plain("sig")]
MCFilter ==
    [kinds |-> <<1, 7>>, authors |-> <<Plain("key")>>, p_tags |-> <<>>, since |-> Some(1),
     until |-> None, limit |-> Some(2)]
Subscription == Plain("sub")
MCClientMessages ==
    {[kind |-> k, event |-> MCEvent] : k \in {"EVENT", "AUTH"}}
    \cup [kind : {"REQ"}, subscription_id : {Subscription},
          filters : {<<>>, <<MCFilter>>,
                     <<[MCFilter EXCEPT !.kinds = <<>>, !.since = None,
                                        !.p_tags = <<Plain("key")>>], MCFilter>>}]
    \cup [kind : {"CLOSE"}, subscription_id : {Subscription, <<>>, <<"a", "b", "c">>}]
MCRelayMessages ==
    {[kind |-> "RELAY_EVENT", subscription_id |-> Subscription,
      event |-> [MCEvent EXCEPT !.tags = <<>>]],
     [kind |-> "OK", event_id |-> Plain("id"), accepted |-> TRUE,
      message |-> <<"backslash", "tab">>],
     [kind |-> "EOSE", subscription_id |-> Subscription],
     [kind |-> "CLOSED", subscription_id |-> Subscription, message |-> <<>>],
     [kind |-> "NOTICE", message |-> Plain("hi")],
     [kind |-> "CHALLENGE", message |-> Plain("hi")]}

-----------------------------------------------------------------------------
(* RNode commands, the limits of the parameters and escaped bytes among    *)
(* them, and what a modem may say to a probe, cut into reads.              *)

MCParameters ==
    [name : {"frequency"}, value : {<<54, 137, 202, 192>>, <<8, 42, 116, 64>>,
                                    <<8, 42, 116, 63>>, <<178, 208, 94, 0>>,
                                    <<178, 208, 94, 1>>, <<9, 219, 192, 221>>}]
    \cup [name : {"bandwidth"}, value : {<<0, 0, 30, 120>>, <<0, 0, 30, 119>>,
                                         <<0, 24, 203, 168>>, <<0, 24, 203, 169>>}]
    \cup [name : {"tx_power"}, value : {<<0>>, <<37>>, <<38>>}]
    \cup [name : {"spreading_factor"}, value : {<<4>>, <<5>>, <<12>>, <<13>>}]
    \cup [name : {"coding_rate"}, value : {<<4>>, <<5>>, <<8>>, <<9>>}]
    \cup [name : {"radio_state"}, value : {<<0>>, <<1>>, <<255>>}]
    \cup [name : {"detect", "leave"}, value : {<<>>}]
    \cup [name : {"ready"}, value : {<<0>>, <<1>>}]

ModemFrames ==
    {<<15, <<1>>>>, <<15, <<>>>>, <<80, <<1, 52>>>>, <<80, <<1, 51>>>>, <<80, <<2, 0>>>>,
     <<6, <<1>>>>, <<6, <<7>>>>, <<144, <<4>>>>, <<144, <<>>>>, <<35, <<192>>>>}
MCReadinessProbes ==
    [frames : {<<a, b>> : a \in ModemFrames, b \in ModemFrames},
     reads : {<<99>>, <<3, 99>>, <<4, 0, 99>>, <<5, 2, 99>>, <<2, 2, 2, 99>>,
              <<6, FailedRead>>}]

\* Answers of a FIPS daemon: an address with zeros at its end, a state and a
\* response of an unknown kind, numbers at their limit.
MCStatuses ==
    LET status == [status |-> "ok", len |-> 4, node_addr |-> <<27, 71, 0, 0>>,
                   tun_state |-> "active",
                   counts |-> [effective_ipv6_mtu |-> 5, peer_count |-> 0]]
    IN  {status, [status EXCEPT !.node_addr = <<0, 0, 160, 255>>],
         [status EXCEPT !.counts = <<>>, !.tun_state = "warming"],
         [status EXCEPT !.counts = [peer_count |-> MaxU16 + 1]],
         [status EXCEPT !.status = "error"], [status EXCEPT !.len = ControlMaxResponse],
         [status EXCEPT !.len = ControlMaxResponse + 1]}

MCSha256(unsigned) == unsigned

MCValues ==
    [envelope |-> MCEnvelopes, packet |-> MCPackets, announce |-> MCAnnounces,
     token |-> MCTokens, sealed |-> MCSealed, ifac |-> MCIfacs, bitchat |-> MCBitchats,
     lxmf |-> MCLxmfs, bridge |-> MCBridgeMessages,
     rns_carrier |-> Carried(Wires({EncodePacket(p, Mtu) : p \in MCPackets})),
     bitchat_carrier |-> Carried(MCRawBitchats \cup Wires({EncodeBitchat(p, Ample) : p \in MCBitchats})),
     lxmf_carrier |-> Carried(Wires({EncodeLxmf(m.destination, m.source, m.signature, m.payload, Ample) :
                                     m \in MCLxmfs})),
     bridge_carrier |-> Carried(Wires({EncodeBridgeMessage(m, Ample) : m \in MCBridgeMessages})),
     bitchat_room |-> [message : Rooms1, sender_id : {<<6>>}, ttl : {7}],
     lxmf_room |-> [message : Rooms1, destination : {<<1, 2>>}, source : {<<3, 4>>},
                    signature : {<<5>>}],
     nostr_room |-> [message : MCBridgeMessages, secret : {9}, created_at : {5}],
     fips_status |-> MCStatuses, rnode |-> MCParameters, rnode_probe |-> MCReadinessProbes,
     client |-> MCClientMessages, relay |-> MCRelayMessages]

-----------------------------------------------------------------------------
(* Configurations: every table of four links, each slot empty, with its    *)
(* own link, that link disabled or without an mtu, or the link of slot 1.  *)

MCSlot(i) ==
    LET link(id, mtu, enabled) == Some([link_id |-> id, mtu |-> mtu, enabled |-> enabled])
    IN  {None, link(i, 1, TRUE), link(i, 1, FALSE), link(i, 0, TRUE), link(1, 1, TRUE)}
MCTables ==
    {<<a, b, c, d>> : a \in MCSlot(1), b \in MCSlot(2), c \in MCSlot(3), d \in MCSlot(4)}
MCConfigs ==
    LET base(t) == [node_id |-> 1, router |-> [max_links |-> 4, max_seen_messages |-> 1],
                    store_capacity |-> 1, local_communities |-> <<Some(1), None>>,
                    links |-> t]
        pair == base([i \in 1..4 |-> Some([link_id |-> i, mtu |-> 1, enabled |-> i < 3])])
    IN  {base(t) : t \in MCTables}
        \cup {[pair EXCEPT !.node_id = 0], [pair EXCEPT !.router.max_links = 0],
              [pair EXCEPT !.router.max_links = 1], [pair EXCEPT !.router.max_links = 5],
              [pair EXCEPT !.router.max_seen_messages = 0], [pair EXCEPT !.store_capacity = 0],
              [pair EXCEPT !.store_capacity = 9],
              [pair EXCEPT !.local_communities = <<Some(0), None>>],
              [pair EXCEPT !.local_communities = <<Some(1), Some(1)>>],
              [pair EXCEPT !.local_communities = <<Some(2), Some(1)>>]}
=============================================================================
