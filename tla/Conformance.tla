---------------------------- MODULE Conformance ----------------------------
(***************************************************************************)
(* hyf-rns-conformance-report: reports that say which fixture and oracle   *)
(* checks passed, and the validation that lets a report through as final   *)
(* evidence for a profile.  Between the runs of the tool the two source    *)
(* trees, the built binary, the captures and the report file change.       *)
(* Fixtures are compiled into the binary.                                  *)
(***************************************************************************)
EXTENDS Fixtures, SequencesExt

CONSTANTS
    Commits,            \* commits of this repository
    FixturesOf(_),      \* the fixtures of a commit
    ProofIv(_),         \* the iv of the proof inputs of a commit
    ProofKey, ProofText, ProofRecipient, ProofEphemeral,
    Probes,             \* what the readiness script can print
    Answers,            \* what the oracle can answer about the profile 0 packets
    GenerateArgs, ValidateArgs,
    HyfTrees, ReticulumTrees,   \* the states of the two source trees: [head, dirty]
    Edits(_),           \* the reports that a hand edit makes of one
    CaptureRuns         \* runs of the evidence tooling: [probe, bad]

\* A tree is a commit and whether it is dirty, ReportProfile has three values.
ASSUME ConformanceAssumption ==
    /\ \A tree \in HyfTrees \cup ReticulumTrees :
          tree = [head |-> tree.head, dirty |-> tree.dirty] /\ tree.dirty \in BOOLEAN
    /\ \A tree \in HyfTrees : tree.head \in Commits
    /\ \A args \in GenerateArgs : args.profile \in Profiles
    /\ \A args \in ValidateArgs :
          args.require_final_profile \in {None} \cup {Some(p) : p \in Profiles}

VARIABLES
    hyf,        \* the worktree of this repository: [head, dirty]
    reticulum,  \* the checkout of Reticulum: [head, dirty]
    binary,     \* the tool as it was last built: a member of Binaries
    captures,   \* the capture directory: a function from files to documents
    report,     \* the report on disk, or None
    made        \* observed: how that report came about

conformanceVars == <<hyf, reticulum, binary, captures, report, made>>

\* Bound: a behaviour makes one report.  Another one would replace it, and
\* nothing reads the binary or the captures before that.
OneReport == report = None

-----------------------------------------------------------------------------
(* Required rows.  An id is a row of a profile.                            *)

OracleRows(profile) ==
    CASE profile = Profile0 -> <<"python_oracle_packet", "python_oracle_announce">>
      [] profile = Profile1 -> <<"fixture_replay">>
      [] profile = Profile2 ->
             <<"fixture_replay", "shim_token_generation", "python_token",
               "shim_identity_generation", "python_identity", "python_ifac">>
RequiredRows(profile) == FixtureRows(profile) \cup Range(OracleRows(profile))

\* Rows of profile 2 share the category of their oracle.
Category(row) ==
    CASE row \in {"shim_token_generation", "shim_identity_generation"} -> "test_only_shim"
      [] row \in {"python_token", "python_identity", "python_ifac"} -> "python_reticulum"
      [] OTHER -> row

\* PROFILE_1_FINAL_RESULTS, PROFILE_2_FINAL_RESULTS: oracle_detail as the
\* fields that parse_detail_fields reads back
Detail(profile, row) ==
    CASE profile = Profile0 \/ row \in FixtureRows(profile) -> None
      [] row = "fixture_replay" ->
             Some([mode |-> "fixture_replay", role |-> "fixture_replay", proof |-> FALSE])
      [] Category(row) = "test_only_shim" ->
             Some([mode |-> "test_only_oracle_shim", role |-> "deterministic_generation",
                   proof |-> FALSE])
      [] row = "python_ifac" ->
             Some([mode |-> "python_reticulum", role |-> "reticulum_validation",
                   proof |-> TRUE])
      [] OTHER -> Some([mode |-> "python_reticulum",
                        role |-> "rust_output_reticulum_validation", proof |-> TRUE])

\* A check that stands before the rest of a command
After(error, rest) == IF error = "none" THEN rest ELSE Err(error)
FirstOf(error, next) == IF error = "none" THEN next ELSE error

\* The detail of a result that is only a text
Message(text) == Some([text |-> text])

Result(row, status, detail) ==
    [id |-> row, category |-> Category(row), status |-> status, detail |-> detail]

\* profile_2_rust_proof_inputs
ProofInputs(commit) ==
    LET token == TokenEncrypt(ProofKey, ProofText, ProofIv(commit), Mtu)
        sealed == EncryptForIdentity(ProofRecipient, ProofText, ProofEphemeral,
                                     ProofIv(commit), Mtu)
    IN  [command |-> "profile2-rust-proof-inputs", mode |-> "rust_implementation",
         good |-> TRUE, plaintext |-> ProofText, token |-> token.value,
         ciphertext |-> sealed.value, ephemeral |-> Take(sealed.value, 1)]

\* What is compiled into a binary settles which rows pass and which proof
\* inputs it writes.
Binaries ==
    [commit \in Commits |->
        [passes |-> [profile \in Profiles |->
             {row \in FixtureRows(profile) : RowPasses(FixturesOf(commit), profile, row)}],
         proof |-> ProofInputs(commit)]]

\* fixture_result, for the fixture rows of a profile
FixtureResults(profile) ==
    LET rows == FixtureRowList(profile)
    IN  [i \in DOMAIN rows |->
            IF rows[i] \in binary.passes[profile]
            THEN Result(rows[i], "passed", None)
            ELSE Result(rows[i], "failed", Message("mismatch"))]
OracleResults(profile, Status(_), DetailOf(_)) ==
    LET rows == OracleRows(profile)
    IN  [i \in DOMAIN rows |-> Result(rows[i], Status(rows[i]), DetailOf(rows[i]))]

\* profile_0_oracle_unavailable_results and those of profiles 1 and 2
UnavailableResults(profile) ==
    OracleResults(profile, LAMBDA row : "invalid_environment", LAMBDA row : Message("text"))

\* profile_1_final_results, profile_2_final_results
PassedOracleResults(profile) ==
    OracleResults(profile, LAMBDA row : "passed", LAMBDA row : Detail(profile, row))

\* ConformanceRun::new_profile
NewReport(args, oracle, results) ==
    Ok([schema |-> "conformance_run", profile |-> args.profile, run_id |-> args.run_id,
        hyf_commit |-> hyf.head, reticulum_commit |-> PinnedCommit,
        started_at |-> args.started_at, environment |-> args.environment,
        oracle |-> oracle, results |-> results])

-----------------------------------------------------------------------------
(* Source trees and the oracle.                                            *)

\* validate_git_source_state
GitStateError(tree, expected) ==
    CASE tree.head = ZeroCommit -> "InvalidCommit"
      [] tree.dirty -> "DirtyWorktree"
      [] IsSome(expected) /\ expected[1] /= tree.head -> "ExpectedCommitMismatch"
      [] OTHER -> "none"

\* validate_oracle_probe_output
ProbeError(probe) ==
    CASE probe.status /= "passed" -> "OracleProbeFailed"
      [] "" \in {probe.cryptography, probe.pyserial} \/ probe.rns_version = Some("") ->
             "OracleProbeFailed"
      [] probe.cryptography /= "49.0.0" \/ probe.pyserial /= "3.5" ->
             "OraclePackageVersionMismatch"
      [] ~probe.under_tree -> "OracleModulePathMismatch"
      [] OTHER -> "none"

\* validate_reticulum_git_state
ReticulumError ==
    CASE reticulum.head /= PinnedCommit -> "ReticulumCommitMismatch"
      [] reticulum.dirty -> "ReticulumWorktreeDirty"
      [] OTHER -> "none"

\* check_oracle_environment_with_command; a probe that was not printed has
\* the reason in its status
OracleEnvironmentError(probe) ==
    CASE probe.status \in {"ReticulumPathNotDirectory", "OracleCommandUnavailable"} ->
             probe.status
      [] OTHER -> FirstOf(ProbeError(probe), ReticulumError)

\* OracleEnvironmentMetadata, the module's path still absolute
Metadata(probe) ==
    [path |-> probe.module, commit |-> PinnedCommit, rns_version |-> probe.rns_version,
     cryptography |-> probe.cryptography, pyserial |-> probe.pyserial]

\* packet_oracle_result, announce_oracle_result: an oracle that does not
\* answer fails both rows
OracleStatus(answer) ==
    LET status(good) == IF answer.ran /\ good THEN "passed" ELSE "failed"
    IN  [python_oracle_packet |-> status(answer.header_1 /\ answer.header_2),
         python_oracle_announce |-> status(answer.announce_valid)]

-----------------------------------------------------------------------------
(* Captures of profiles 1 and 2.                                           *)

\* Command and mode of each capture
Expected1 ==
    [kiss_encode |-> <<"kiss-encode", "fixture_replay">>,
     kiss_decode |-> <<"kiss-decode", "fixture_replay">>,
     rnode_command |-> <<"rnode-command", "fixture_replay">>]
Expected2 ==
    [hkdf_vector |-> <<"hkdf-vector", "fixture_replay">>,
     token_fixture_decrypt |-> <<"token-decrypt", "fixture_replay">>,
     identity_fixture_decrypt |-> <<"identity-decrypt", "fixture_replay">>,
     ifac_fixture_verify |-> <<"ifac-verify", "fixture_replay">>,
     probe |-> <<"probe", "python_reticulum">>,
     token_generation |-> <<"token-encrypt", "test_only_oracle_shim">>,
     token_python_decrypt |-> <<"token-decrypt", "python_reticulum">>,
     identity_generation |-> <<"identity-encrypt", "test_only_oracle_shim">>,
     identity_python_decrypt |-> <<"identity-decrypt", "python_reticulum">>,
     ifac_python_apply |-> <<"ifac-apply", "python_reticulum">>,
     ifac_python_verify |-> <<"ifac-verify", "python_reticulum">>]

\* Captures for which the oracle only looks a fixture up, and the files of
\* profile 2 whose `valid`, or status, is read
Replays2 == {file \in DOMAIN Expected2 : Expected2[file][2] = "fixture_replay"}
Answers2 == (DOMAIN Expected2 \ Replays2) \cup {"rust_proof_inputs"}

\* load_capture, expect_capture
CapturesOk(expected) ==
    \A file \in DOMAIN expected :
        /\ file \in DOMAIN captures
        /\ captures[file].command = expected[file][1]
        /\ captures[file].mode = expected[file][2]
        /\ captures[file].commit = PinnedCommit

\* Profile1FinalEvidence::from_capture_dir: only the decoded frame is
\* looked at
Evidence1Ok == CapturesOk(Expected1) /\ captures["kiss_decode"].good

\* Mutant: the decrypted token is not compared.
Evidence2OkUncompared ==
    /\ CapturesOk(Expected2)
    /\ \A file \in Answers2 : captures[file].good

\* Profile2FinalEvidence::from_capture_dir: what Reticulum or the shim
\* answered is good and is about the proof inputs in the directory.  Of a
\* replay only the command, the mode and the commit count, and of the IFAC
\* one the two packets, which must be there.
Evidence2Ok ==
    /\ CapturesOk(Expected2)
    /\ "rust_proof_inputs" \in DOMAIN captures
    /\ \A file \in Answers2 : captures[file].good
    /\ LET rust == captures["rust_proof_inputs"]
           generated == captures["identity_generation"]
       IN  /\ rust.command = "profile2-rust-proof-inputs"
           /\ rust.mode = "rust_implementation"
           /\ captures["token_generation"].plaintext = rust.plaintext
           /\ captures["token_generation"].token = rust.token
           /\ captures["token_python_decrypt"].token = rust.token
           /\ captures["token_python_decrypt"].plaintext = rust.plaintext
           /\ generated.plaintext = rust.plaintext
           /\ generated.ciphertext = rust.ciphertext
           /\ generated.ephemeral = rust.ephemeral
           /\ Take(generated.ciphertext, 1) = generated.ephemeral
           /\ captures["identity_python_decrypt"].ciphertext = rust.ciphertext
           /\ captures["identity_python_decrypt"].plaintext = rust.plaintext
    /\ captures["ifac_python_apply"].masked = captures["ifac_fixture_verify"].masked
    /\ captures["ifac_python_verify"].masked = captures["ifac_python_apply"].masked
    /\ IsSome(captures["ifac_fixture_verify"].unmasked)
    /\ captures["ifac_python_verify"].unmasked = captures["ifac_fixture_verify"].unmasked

-----------------------------------------------------------------------------
(* What a final report must be.                                            *)

IsLeapYear(year) == year % 4 = 0 /\ (year % 100 /= 0 \/ year % 400 = 0)
DaysInMonth(year, month) ==
    CASE month \in {1, 3, 5, 7, 8, 10, 12} -> 31
      [] month \in {4, 6, 9, 11} -> 30
      [] month = 2 -> IF IsLeapYear(year) THEN 29 ELSE 28
      [] OTHER -> 0

\* is_final_started_at: <<year, month, day, hour, minute, second>>, or
\* something else where the text does not have that shape
IsFinalStartedAt(at) ==
    /\ Len(at) = 6
    /\ at[3] \in 1..DaysInMonth(at[1], at[2])
    /\ at[4] <= 23 /\ at[5] <= 59 /\ at[6] <= 59

Ids(results) == [i \in DOMAIN results |-> results[i].id]
HasDuplicates(names) == Cardinality(Range(names)) < Len(names)

\* validate_final_oracle_metadata of the reports of profile 2, whose path is
\* relative to the repository; the versions are those of the pinned oracle
OracleVersionsOk(oracle) ==
    /\ oracle.commit = PinnedCommit
    /\ oracle.rns_version = Some("1.3.5")
    /\ oracle.cryptography = "49.0.0"
    /\ oracle.pyserial = "3.5"
OracleMetadataOk(oracle) == oracle.path \notin {"", "absolute"} /\ OracleVersionsOk(oracle)

\* validate_detail: parsed into fields, a detail has each expected field once
\* and no other
DetailOk(detail, expected) == detail = expected

\* validate_final_results
FinalResultsError(profile, results) ==
    LET wrong(row) == \E i \in DOMAIN results :
            /\ results[i].id = row
            /\ \/ results[i].category /= Category(row)
               \/ results[i].status /= "passed"
               \/ ~DetailOk(results[i].detail, Detail(profile, row))
    IN  CASE Len(results) /= Cardinality(RequiredRows(profile)) -> "result count mismatch"
          [] HasDuplicates(Ids(results)) -> "duplicate result id"
          [] ~(RequiredRows(profile) \subseteq Range(Ids(results))) -> "missing result id"
          [] \E row \in RequiredRows(profile) : wrong(row) -> "wrong result"
          [] OTHER -> "none"

\* validate_final_profile0_results
Profile0ResultsError(results) ==
    CASE Len(results) /= Cardinality(RequiredRows(Profile0)) -> "result count mismatch"
      [] HasDuplicates(Ids(results)) -> "duplicate result id"
      [] HasDuplicates([i \in DOMAIN results |-> results[i].category]) ->
             "duplicate result category"
      [] ~(Range(Ids(results)) \subseteq RequiredRows(Profile0)) -> "unexpected result id"
      [] \E i \in DOMAIN results : results[i].category /= Category(results[i].id) ->
             "category mismatch"
      [] OTHER -> "none"

\* required_string_is_populated, optional_string_is_populated and the checks
\* of the environment, the results and the oracle that call them
Populated(string) == string /= ""
ResultsPopulated(results) ==
    \A i \in DOMAIN results : results[i].detail /= Message("")
OraclePopulated(oracle) ==
    /\ Populated(oracle.path) /\ Populated(oracle.cryptography) /\ Populated(oracle.pyserial)
    /\ IsSome(oracle.rns_version) => Populated(oracle.rns_version[1])

\* validate_final_oracle_metadata of the tool: any path, or the expected one
Oracle0MetadataOk(oracle, expected_path) ==
    /\ IsSome(expected_path) => oracle.path = expected_path[1]
    /\ OracleVersionsOk(oracle)

\* validate_final_profile0_report
Final0Error(r, expected_path) ==
    LET has(status) == \E i \in DOMAIN r.results : r.results[i].status = status IN
    CASE r.schema /= "conformance_run" -> "schema mismatch"
      [] r.profile /= Profile0 -> "profile mismatch"
      [] ~Populated(r.run_id) -> "empty run id"
      [] r.hyf_commit = ZeroCommit -> "invalid hyf commit"
      [] r.reticulum_commit /= PinnedCommit -> "reticulum commit mismatch"
      [] ~IsFinalStartedAt(r.started_at) -> "invalid started_at"
      [] ~Populated(r.environment) -> "empty environment field"
      [] ~ResultsPopulated(r.results) -> "empty result field"
      [] has("failed") -> "failed result present"
      [] has("invalid_environment") -> "invalid environment result present"
      [] OTHER -> FirstOf(Profile0ResultsError(r.results),
             CASE ~IsSome(r.oracle) -> "missing oracle metadata"
               [] ~OraclePopulated(r.oracle[1]) -> "empty oracle field"
               [] ~Oracle0MetadataOk(r.oracle[1], expected_path) -> "oracle metadata mismatch"
               [] OTHER -> "none")

\* validate_profile_1_final_report
Final1Error(r) ==
    CASE r.profile /= Profile1 -> "wrong profile"
      [] r.reticulum_commit /= PinnedCommit -> "wrong Reticulum commit"
      [] IsSome(r.oracle) -> "unexpected oracle metadata"
      [] OTHER -> FinalResultsError(Profile1, r.results)

\* validate_profile_2_final_report
Final2Error(r) ==
    CASE r.profile /= Profile2 -> "wrong profile"
      [] r.reticulum_commit /= PinnedCommit -> "wrong Reticulum commit"
      [] ~IsSome(r.oracle) -> "missing oracle metadata"
      [] ~OracleMetadataOk(r.oracle[1]) -> "oracle metadata mismatch"
      [] OTHER -> FinalResultsError(Profile2, r.results)
FinalError(r, profile) == IF profile = Profile1 THEN Final1Error(r) ELSE Final2Error(r)

-----------------------------------------------------------------------------
(* generate.                                                               *)

\* Args::parse: flags that must be there
RequiredFlags == {"--run-id", "--hyf-repo-path", "--started-at", "--rust-toolchain",
                  "--output"}
ParseError(args) == IF RequiredFlags \subseteq args.flags THEN "none" ELSE "MissingRequired"

\* report_relative_path: a path under the root becomes a relative one
Relative(path, root) ==
    IF root = "elsewhere" THEN Err("ReportPathRootMismatch") ELSE Ok("relative")

\* build_profile0_report and profile_0_report_with_required_oracle
OracleReport(args, probe, status) ==
    NewReport(args, Some(Metadata(probe)),
        FixtureResults(Profile0) \o
        OracleResults(Profile0, LAMBDA row : status[row],
            LAMBDA row : IF status[row] = "passed" THEN None ELSE Message("text")))
OracleArgsError(args) ==
    CASE args.capture_dir -> "CaptureDirUnsupportedForProfile"
      [] args.require_oracle /\ ~args.reticulum_path -> "MissingRequired"
      [] args.reticulum_path /\ ~args.require_oracle -> "OraclePathRequiresOracle"
      [] OTHER -> "none"
BuildProfile0(args, probe, answer) ==
    After(OracleArgsError(args),
        IF args.require_oracle
        THEN After(OracleEnvironmentError(probe),
                   OracleReport(args, probe, OracleStatus(answer)))
        ELSE NewReport(args, None, FixtureResults(Profile0)
                                   \o UnavailableResults(Profile0)))

\* The oracle of a final report: the probe of profile 2 names the module
FinalOracle(args) ==
    CASE args.profile = Profile1 -> IF Evidence1Ok THEN Ok(None) ELSE Err("InvalidEvidence")
      [] args.report_path_root = "none" -> Err("MissingRequired")
      [] ~Evidence2Ok -> Err("InvalidEvidence")
      [] OTHER -> AndThen(Relative("absolute", args.report_path_root), LAMBDA path :
             Ok(Some([Metadata(captures["probe"].probe) EXCEPT !.path = path])))

\* build_report, for profiles 1 and 2; profile_1_final_report and
\* profile_2_final_report are validated as they are made
BuildCaptured(args) ==
    IF args.require_oracle \/ args.reticulum_path
    THEN Err("OracleNotSupportedForProfile")
    ELSE IF ~args.capture_dir
    THEN NewReport(args, None, FixtureResults(args.profile)
                               \o UnavailableResults(args.profile))
    ELSE AndThen(FinalOracle(args), LAMBDA oracle :
         AndThen(NewReport(args, oracle, FixtureResults(args.profile)
                                         \o PassedOracleResults(args.profile)),
                 LAMBDA r : IF FinalError(r, args.profile) = "none" THEN Ok(r)
                            ELSE Err("InvalidEvidence")))

\* apply_report_overrides
Overridden(r, args) ==
    IF args.report_path_root = "none"
    THEN IF args.require_oracle THEN Err("MissingRequired") ELSE Ok(r)
    ELSE IF ~IsSome(r.oracle) THEN Err("ReportPathRootRequiresOracle")
    ELSE IF r.oracle[1].path # "absolute" THEN Ok(r)
    ELSE AndThen(Relative("absolute", args.report_path_root), LAMBDA path :
             Ok([r EXCEPT !.oracle = Some([r.oracle[1] EXCEPT !.path = path])]))

\* Observed: what the oracle rows of the report rest on.  Profile 0: an
\* oracle that answered.  Profile 1: a replay of the decoded frame that is
\* good, whatever the other two replays say.  Profile 2: good answers of the
\* shim and of Reticulum, about the token and the ciphertext of one file of
\* proof inputs, and an IFAC packet that Reticulum masks and unmasks as the
\* replay has it; the replays themselves need not be good.
Backed(args, answer) ==
    \/ args.profile = Profile0 /\ args.require_oracle /\ answer.ran
    \/ args.profile = Profile1 /\ args.capture_dir /\ captures["kiss_decode"].good
    \/ /\ args.profile = Profile2 /\ args.capture_dir
       /\ \A file \in Answers2 : captures[file].good
       /\ \A file \in {"token_generation", "token_python_decrypt"} :
             captures[file].token = captures["rust_proof_inputs"].token
       /\ \A file \in {"identity_generation", "identity_python_decrypt"} :
             captures[file].ciphertext = captures["rust_proof_inputs"].ciphertext
       /\ captures["ifac_python_apply"].masked = captures["ifac_fixture_verify"].masked
       /\ captures["ifac_python_verify"].unmasked = captures["ifac_fixture_verify"].unmasked

\* run_generate: a command that fails leaves the report on disk alone
Generated(args, probe, answer) ==
    After(ParseError(args), After(GitStateError(hyf, args.expected_commit),
        AndThen(IF args.profile = Profile0 THEN BuildProfile0(args, probe, answer)
                                           ELSE BuildCaptured(args),
                LAMBDA r : Overridden(r, args))))
Generate(args, probe, answer) ==
    /\ OneReport
    /\ \E result \in {Generated(args, probe, answer)} :
          IF IsOk(result)
          THEN /\ report' = Some(result.value)
               /\ made' = [by |-> "tool", rows |-> binary.passes[args.profile],
                           backed |-> Backed(args, answer)]
          ELSE UNCHANGED <<report, made>>
    /\ UNCHANGED <<hyf, reticulum, binary, captures>>

-----------------------------------------------------------------------------
(* validate.                                                               *)

\* The profile that run_validate asks for; None is no final report
FinalProfile(args) ==
    CASE IsSome(args.require_final_profile) -> args.require_final_profile
      [] \/ args.require_final_profile0 \/ args.require_final_provenance
         \/ IsSome(args.expected_path) -> Some(Profile0)
      [] OTHER -> None

\* ConformanceStatus
Statuses == {"passed", "failed", "invalid_environment"}

\* What serde_json reads as a ConformanceRun
Parses(r) ==
    /\ Len(r.results) \in Nat /\ DOMAIN r.results = 1..Len(r.results)
    /\ \A i \in DOMAIN r.results : r.results[i].status \in Statuses

\* validate_report_bytes, validate_profile2_oracle_path
ReportError(r, profile, expected_path) ==
    IF ~Parses(r) THEN "Json" ELSE
    CASE profile = None -> "none"
      [] profile = Some(Profile0) -> Final0Error(r, expected_path)
      [] OTHER -> FirstOf(FinalError(r, profile[1]),
             IF /\ profile = Some(Profile2) /\ IsSome(expected_path)
                /\ r.oracle[1].path /= expected_path[1]
             THEN "oracle path mismatch" ELSE "none")

\* validate_final_report_provenance
ProvenanceError(r, args) ==
    LET path == args.expected_path IN
    IF ~args.hyf_repo_path THEN "MissingRequired"
    ELSE FirstOf(GitStateError(hyf, Some(r.hyf_commit)),
         IF ~args.reticulum_path THEN "MissingRequired"
         ELSE FirstOf(GitStateError(reticulum, Some(r.reticulum_commit)),
              CASE ~IsSome(path) -> "none"
                [] ~IsSome(r.oracle) -> "missing oracle metadata"
                [] r.oracle[1].path /= path[1] -> "ExpectedOracleModulePathMismatch"
                [] OTHER -> "none"))

\* ValidateArgs::parse
ValidateParseError(args) == IF args.input THEN "none" ELSE "MissingRequired"

\* run_validate, which changes nothing
ValidateError(args) ==
    CASE ValidateParseError(args) /= "none" -> ValidateParseError(args)
      [] ~args.require_final_provenance /\ (args.hyf_repo_path \/ args.reticulum_path) ->
             "RepoPathRequiresFinalProvenance"
      [] ~IsSome(report) -> "Io"
      [] OTHER -> FirstOf(ReportError(report[1], FinalProfile(args), args.expected_path),
             IF args.require_final_provenance THEN ProvenanceError(report[1], args)
             ELSE "none")
Accepts(args) == ValidateError(args) = "none"

\* run_profile2_proof_inputs
WriteProofInputs ==
    /\ OneReport
    /\ captures' = ("rust_proof_inputs" :> binary.proof) @@ captures
    /\ UNCHANGED <<hyf, reticulum, binary, report, made>>

-----------------------------------------------------------------------------
(* Around the tool.                                                        *)

\* A commit, a checkout, an edit or its revert in either tree
ChangeTrees ==
    /\ \/ hyf' \in HyfTrees /\ UNCHANGED reticulum
       \/ reticulum' \in ReticulumTrees /\ UNCHANGED hyf
    /\ UNCHANGED <<binary, captures, report, made>>

\* cargo build, at what is checked out
Rebuild ==
    /\ OneReport
    /\ binary' = Binaries[hyf.head]
    /\ UNCHANGED <<hyf, reticulum, captures, report, made>>

\* The oracle script answers about the proof inputs that are there; `run.bad`
\* is a capture that shows a failure, and an IFAC packet that fails has no
\* unmasked form.  Every capture names the pinned commit.  What needs
\* Reticulum is refused in any other tree, and an old capture then stays.
Capture(run) ==
    LET rust == captures["rust_proof_inputs"]
        document(file, expected) ==
            [command |-> expected[1], mode |-> expected[2], commit |-> PinnedCommit,
             good |-> file /= run.bad, probe |-> run.probe, plaintext |-> rust.plaintext,
             token |-> rust.token, ciphertext |-> rust.ciphertext,
             ephemeral |-> rust.ephemeral, masked |-> <<1, 2>>,
             unmasked |-> IF file = run.bad THEN None ELSE Some(<<2>>)]
        answered == IF ReticulumError = "none" THEN DOMAIN Expected2 ELSE Replays2
    IN  /\ OneReport
        /\ "rust_proof_inputs" \in DOMAIN captures
        /\ captures' = [file \in DOMAIN Expected1 |-> document(file, Expected1[file])]
                       @@ [file \in answered |-> document(file, Expected2[file])]
                       @@ captures
        /\ UNCHANGED <<hyf, reticulum, binary, report, made>>

\* A hand edit of the report
Edit ==
    /\ IsSome(report) /\ made.by = "tool"
    /\ \E r \in Edits(report[1]) : report' = Some(r)
    /\ made' = [by |-> "hand"]
    /\ UNCHANGED <<hyf, reticulum, binary, captures>>

ConformanceInit ==
    /\ hyf \in HyfTrees
    /\ reticulum \in ReticulumTrees
    /\ binary = Binaries[hyf.head]
    /\ captures = <<>>
    /\ report = None
    /\ made = [by |-> "none"]

ConformanceNext ==
    \/ \E args \in GenerateArgs, probe \in Probes, answer \in Answers :
          Generate(args, probe, answer)
    \/ WriteProofInputs
    \/ ChangeTrees
    \/ Rebuild
    \/ \E run \in CaptureRuns : Capture(run)
    \/ Edit
ConformanceSpec == ConformanceInit /\ [][ConformanceNext]_conformanceVars

-----------------------------------------------------------------------------
(* What a reader of the final evidence relies on.                          *)

\* A report that `validate` accepts as final for a profile has every row of
\* that profile once, all of them passed, whoever wrote it.  If the tool
\* wrote it, the fixtures of that binary really pass and the oracle rows rest
\* on what Backed says: an oracle that answered, or captures of its answers
\* that are good and about one set of proof inputs, although those may be
\* older than the binary.  A passed fixture_replay row says no more than
\* that the replays are there.  With provenance both trees are clean, and at
\* the commits that the report names (validate_report_bytes,
\* validate_final_report_provenance, build_report).
EvidenceGate ==
    \A args \in ValidateArgs : Accepts(args) =>
        LET profile == FinalProfile(args)
            r == report[1]
            passed == {r.results[i].id : i \in {j \in DOMAIN r.results :
                                                   r.results[j].status = "passed"}}
        IN  /\ IsSome(profile) =>
                  /\ passed = RequiredRows(profile[1])
                  /\ Len(r.results) = Cardinality(passed)
            /\ IsSome(profile) /\ made.by = "tool" =>
                  /\ made.rows = FixtureRows(profile[1])
                  /\ made.backed
            /\ args.require_final_provenance =>
                  /\ hyf = [head |-> r.hyf_commit, dirty |-> FALSE]
                  /\ reticulum = [head |-> PinnedCommit, dirty |-> FALSE]
=============================================================================
