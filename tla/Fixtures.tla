------------------------------ MODULE Fixtures ------------------------------
(***************************************************************************)
(* hyf_rns_conformance: the fixture rows of a report.  A fixture file is a *)
(* record [schema, profile, repo, commit, cases]; what a fixture says in   *)
(* hex is the bytes here, and a file is its own checksum.  A row holds or  *)
(* fails; which message a failed row carries is left out.                  *)
(***************************************************************************)
EXTENDS RnsWire, FiniteSets

CONSTANTS
    PinnedCommit,       \* EXPECTED_RETICULUM_COMMIT
    CaseCounts,         \* the number of cases that each file must have
    TestSecret, TestApp, TestAspects    \* the identity and the name that announce

\* The zero commit is no commit.
ZeroCommit == 0
OneCase == "fixture_case"
ManyCases == "fixture_cases"
ManifestSchema == "fixture_manifest"

Profile0 == "profile_0_packet_announce"
Profile1 == "profile_1_kiss_rnode"
Profile2 == "profile_2_crypto_ifac"
Profiles == {Profile0, Profile1, Profile2}

\* validate_reticulum_provenance, with reticulum_commit_is_valid
ProvenanceOk(file) ==
    /\ file.repo = "Reticulum"
    /\ file.commit /= ZeroCommit
    /\ file.commit = PinnedCommit

\* parse_fixture_case_for_profile, parse_fixture_cases_for_profile
FileOk(file, schema, profile) ==
    file.schema = schema /\ file.profile = profile /\ ProvenanceOk(file)

\* validate_fixture_cases: profiles 1 and 2 only count their cases
CountRow(file, name, profile) ==
    FileOk(file, ManyCases, profile) /\ Len(file.cases) = CaseCounts[name]

-----------------------------------------------------------------------------
(* The manifest.                                                           *)

\* The files of each profile; a file is named for the category of its cases
Files0 == <<"identity_signature", "destination_hash", "packet_header", "packet_hash",
            "announce", "announce_negative">>
Files1 == <<"kiss", "kiss_negative", "rnode_command", "rnode_config_validation", "rnode_stat">>
Files2 == <<"hkdf", "token", "token_negative", "identity_encrypt", "identity_decrypt",
            "ifac", "ifac_negative">>
FileList(profile) ==
    CASE profile = Profile0 -> Files0
      [] profile = Profile1 -> Files1
      [] profile = Profile2 -> Files2
FilesOf(profile) == Range(FileList(profile))

\* assert_manifest_entry
EntryOk(entry, name, file) ==
    /\ entry.category = name
    /\ entry.case_count = CaseCounts[name]
    /\ entry.sha256 = file

\* parse_manifest_for_profile and assert_exact_manifest_entries: each file
\* once, with its checksum, and no other
ManifestRow(manifest, files, profile) ==
    LET at(name) == {i \in DOMAIN manifest.fixtures : manifest.fixtures[i].file = name} IN
    /\ FileOk(manifest, ManifestSchema, profile)
    /\ manifest.generated
    /\ \A name \in FilesOf(profile) :
          /\ Cardinality(at(name)) = 1
          /\ \A i \in at(name) : EntryOk(manifest.fixtures[i], name, files[name])
    /\ \A i \in DOMAIN manifest.fixtures : manifest.fixtures[i].file \in FilesOf(profile)

-----------------------------------------------------------------------------
(* The rows of profile 0 run the codec against their cases.                *)

PrivateCategories == {"identity_signature", "announce", "announce_negative"}

\* validate_case_metadata, and the id that a case of the category has
CaseOk(case, category) ==
    /\ case.category = category
    /\ case.deterministic
    /\ case.private_test_material = (category \in PrivateCategories)
    /\ case.id = category

\* A file of cases that all pass
AllCases(files, category, Passes(_)) ==
    /\ CountRow(files[category], category, Profile0)
    /\ \A i \in DOMAIN files[category].cases :
          /\ CaseOk(files[category].cases[i], category)
          /\ Passes(files[category].cases[i])

\* validate_identity_fixture
IdentityCase(case) ==
    LET derived == PublicIdentity(case.secret)
        public == PublicIdentityFromBytes(case.public_identity)
    IN  /\ IsOk(public)
        /\ PublicIdentityBytes(derived) = case.public_identity
        /\ derived = public.value
        /\ IdentityHash(public.value) = case.identity_hash
        /\ Sign(case.secret, case.message) = case.signature
        /\ IsOk(Verify(public.value, case.message, case.signature))
IdentityRow(files) ==
    LET file == files["identity_signature"] IN
    /\ FileOk(file, OneCase, Profile0)
    /\ CaseOk(file.cases[1], "identity_signature")
    /\ IdentityCase(file.cases[1])

\* validate_destination_hash_fixtures: half of the cases without an identity
DestinationCase(case) ==
    LET name == NameHash(case.app_name, case.aspects) IN
    /\ case.expanded_name = <<case.app_name>> \o case.aspects
    /\ IsOk(name)
    /\ name.value = case.name_hash
    /\ DestinationHash(name.value, IF IsSome(case.identity_hash)
                                   THEN case.identity_hash[1] ELSE <<>>)
           = case.destination_hash
DestinationRow(files) ==
    LET cases == files["destination_hash"].cases
        bound == {i \in DOMAIN cases : IsSome(cases[i].identity_hash)}
    IN  /\ AllCases(files, "destination_hash", DestinationCase)
        /\ 2 * Cardinality(bound) = CaseCounts["destination_hash"]

\* validate_packet_header_fixtures
HeaderCase(case) ==
    LET packet == DecodePacket(case.raw_packet) IN
    /\ IsOk(packet)
    /\ case.raw_packet[1] = case.flags
    /\ EncodeFlags(packet.value.flags) = case.flags
    /\ packet.value = case.packet
    /\ EncodePacket(packet.value, Mtu) = Ok(case.raw_packet)
HeaderRow(files) == AllCases(files, "packet_header", HeaderCase)

\* validate_packet_hash_fixtures: packets that two transport nodes sent on
\* hash alike
HashCase(case) ==
    /\ HashablePart(case.raw_packet) = Ok(case.hashable_part)
    /\ PacketHash(case.raw_packet) = Ok(case.full_hash)
    /\ PacketTruncatedHash(case.raw_packet) = Ok(case.truncated_hash)
HashRow(files) ==
    LET cases == files["packet_hash"].cases
        moved == SelectSeq(cases, LAMBDA case : IsSome(case.transport_id))
    IN  /\ AllCases(files, "packet_hash", HashCase)
        /\ \A i \in DOMAIN moved : i > 1 =>
              /\ moved[i].transport_id /= moved[1].transport_id
              /\ moved[i].hashable_part = moved[1].hashable_part
              /\ moved[i].full_hash = moved[1].full_hash
              /\ moved[i].truncated_hash = moved[1].truncated_hash

\* validate_announce_fixtures
AnnounceCase(case) ==
    LET packet == DecodePacket(case.raw_packet)
        announce == AndThen(packet, ValidateAnnounce)
        signed == SignedData(announce.value)
    IN  /\ case.inputs.secret = TestSecret
        /\ case.inputs.app_name = TestApp /\ case.inputs.aspects = TestAspects
        /\ case.inputs.app_data = case.announce.app_data
        /\ case.inputs.random_hash = case.announce.random_hash
        /\ IsOk(announce)
        /\ packet.value.flags.context_flag = case.context_flag
        /\ announce.value = case.announce
        /\ Take(signed, HashLen) = case.announce.destination_hash
        /\ Drop(signed, Len(signed) - Len(case.announce.app_data)) = case.announce.app_data
AnnounceRow(files) == AllCases(files, "announce", AnnounceCase)

\* validate_announce_negative_fixtures, with expected_wire_error
Mutations ==
    {"destination", "public_identity", "name_hash", "random_hash", "signature",
     "app_data", "destination_type", "context_flag"}
NegativeCase(case) ==
    LET packet == DecodePacket(case.raw_packet) IN
    /\ case.mutation \in Mutations
    /\ IsOk(packet)
    /\ case.expected_error \in {"DestinationMismatch", "InvalidDestinationType",
                                "InvalidSignature", "MalformedAnnounce"}
    /\ ValidateAnnounce(packet.value) = Err(case.expected_error)
NegativeRow(files) == AllCases(files, "announce_negative", NegativeCase)

-----------------------------------------------------------------------------
(* profile_0_fixture_results, profile_1_fixture_results and                *)
(* profile_2_fixture_results.                                              *)

FixtureRowList(profile) ==
    CASE profile = Profile0 ->
             <<"fixture_manifest", "identity_signature", "destination_hash", "packet_header",
               "packet_hash", "announce", "announce_negative">>
      [] profile = Profile1 ->
             <<"fixture_manifest", "kiss", "rnode_command", "rnode_config_validation",
               "rnode_stat">>
      [] profile = Profile2 ->
             <<"fixture_manifest", "hkdf", "token", "identity_encrypt", "identity_decrypt",
               "ifac">>
FixtureRows(profile) == Range(FixtureRowList(profile))
\* The negative vectors that a row counts with its own
NegativeFile(row) ==
    CASE row = "kiss" -> {"kiss_negative"}
      [] row = "token" -> {"token_negative"}
      [] row = "ifac" -> {"ifac_negative"}
      [] OTHER -> {}

RowPasses(fixtures, profile, row) ==
    LET files == fixtures.files IN
    CASE row = "fixture_manifest" -> ManifestRow(fixtures.manifest[profile], files, profile)
      [] row = "identity_signature" -> IdentityRow(files)
      [] row = "destination_hash" -> DestinationRow(files)
      [] row = "packet_header" -> HeaderRow(files)
      [] row = "packet_hash" -> HashRow(files)
      [] row = "announce" -> AnnounceRow(files)
      [] row = "announce_negative" -> NegativeRow(files)
      [] OTHER -> \A name \in {row} \cup NegativeFile(row) :
                     CountRow(files[name], name, profile)
=============================================================================
