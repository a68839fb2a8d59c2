----------------------------- MODULE HostProofs -----------------------------
(***************************************************************************)
(* What holds around the gateway: of the start of one, for every           *)
(* configuration, capacity and order of link events; of the conformance    *)
(* tool, for every state of its trees, captures and reports; and of the    *)
(* codecs of envelopes, room messages and RNS packets, for every byte      *)
(* string and every length of ids, times and payloads.                     *)
(***************************************************************************)
EXTENDS Startup, Conformance, EnvelopeCodec, LibraryProofs

-----------------------------------------------------------------------------
(* Validation.                                                             *)

\* Validation ends with one of its errors, or none.
LEMMA ErrorsAreKnown ==
    ASSUME NEW c
    PROVE  NewCoreError(c) \in ConfigErrors \cup {"RuntimeCapacity", "none"}
<1>1. LinksError(c.links) \in ConfigErrors \cup {"none"}
  BY DEF LinksError, FirstError, ConfigErrors
<1>2. PolicyError(c.local_communities) \in ConfigErrors \cup {"none"}
  BY DEF PolicyError, FirstError, ConfigErrors
<1>3. RouterConfigError(c.router) \in ConfigErrors \cup {"none"}
  BY DEF RouterConfigError, ConfigErrors
<1>4. ConfigError(c) \in ConfigErrors \cup {"none"}
  BY <1>1, <1>2, <1>3 DEF ConfigError, ConfigErrors
<1> QED
  BY <1>4 DEF NewCoreError, CapacityError

\* A configuration that is let through has no more links than the router has
\* slots, nor than a fan-out has commands left for links.
LEMMA LinksAreFew ==
    ASSUME NEW c \in Configs, NewCoreError(c) = "none"
    PROVE  /\ IsFiniteSet(EnabledLinks(c)) /\ Cardinality(EnabledLinks(c)) \in Nat
           /\ Cardinality(EnabledLinks(c)) <= RouterCommandCapacity - 2
           /\ Cardinality(EnabledLinks(c)) <= TableSlots
<1> DEFINE S == EnabledSlots(c.links)
           T == EnabledLinks(c)
           f == [i \in S |-> c.links[i][1].link_id]
<1>1. /\ ~(EnabledCount(c.links) > c.router.max_links)
      /\ ~(EnabledCount(c.links) > RouterCommandCapacity - 2)
      /\ ~(c.router.max_links > TableSlots)
  <2>1. ConfigError(c) = "none" /\ CapacityError(c) = "none"
    BY DEF NewCoreError
  <2> QED
    BY <2>1 DEF ConfigError, CapacityError, FanoutLinkMax
<1>2. IsFiniteSet(S)
  <2>1. S \subseteq 1..Len(c.links) /\ Len(c.links) \in Nat
    BY StartupAssumption DEF EnabledSlots
  <2>2. IsFiniteSet(1..Len(c.links))
    BY <2>1, FS_Interval
  <2> QED
    BY <2>1, <2>2, FS_Subset
<1>3. f \in Surjection(S, T)
  BY DEF Surjection, EnabledLinks
<1> HIDE DEF f, S, T
<1>4. IsFiniteSet(T) /\ Cardinality(T) <= Cardinality(S)
  BY <1>2, <1>3, FS_Surjection
<1>5. Cardinality(S) \in Nat /\ Cardinality(T) \in Nat
  BY <1>2, <1>4, FS_CardinalityType
<1>6. EnabledCount(c.links) = Cardinality(S)
  BY DEF EnabledCount, S
<1>7. c.router.max_links \in Nat /\ RouterCommandCapacity \in Nat /\ TableSlots \in Nat
  BY StartupAssumption
<1> QED
  BY <1>1, <1>4, <1>5, <1>6, <1>7 DEF T

-----------------------------------------------------------------------------
(* The link table.                                                         *)

\* A table with a slot for each of some links, and for none twice
Slots(S) == [id : S, up : BOOLEAN]
Table(t, S) ==
    /\ t \in Seq(Slots(S))
    /\ \A i, j \in DOMAIN t : t[i].id = t[j].id => i = j

\* Each slot of it is for one of the links.
LEMMA TableSlot ==
    ASSUME NEW S, NEW t, Table(t, S)
    PROVE  /\ Len(t) \in Nat /\ DOMAIN t = 1..Len(t) /\ t \in Seq(Slots(S))
           /\ \A i \in DOMAIN t : t[i] \in Slots(S) /\ t[i].id \in S
<1>1. t \in Seq(Slots(S))
  BY DEF Table
<1>2. Len(t) \in Nat /\ DOMAIN t = 1..Len(t) /\ \A i \in DOMAIN t : t[i] \in Slots(S)
  BY <1>1
<1>3. \A slot \in Slots(S) : slot.id \in S
  BY DEF Slots
<1> QED
  BY <1>1, <1>2, <1>3

\* It is not longer than there are links, and shorter while one is missing.
LEMMA TableIsShort ==
    ASSUME NEW S, NEW t, IsFiniteSet(S), Table(t, S), NEW l \in S
    PROVE  /\ Len(t) \in Nat /\ Cardinality(S) \in Nat
           /\ (\A i \in DOMAIN t : t[i].id # l) => Len(t) < Cardinality(S)
<1> DEFINE R == S \ {l}
           D == 1..Len(t)
           f == [i \in D |-> t[i].id]
<1>1. Len(t) \in Nat /\ DOMAIN t = D /\ \A i \in D : t[i].id \in S
  BY TableSlot
<1>2. IsFiniteSet(R) /\ Cardinality(R) = Cardinality(S) - 1 /\ Cardinality(S) \in Nat
  BY FS_RemoveElement, FS_CardinalityType
<1>3. ASSUME \A i \in DOMAIN t : t[i].id # l PROVE Len(t) < Cardinality(S)
  <2>1. f \in Injection(D, R)
    <3>1. f \in [D -> R]
      BY <1>1, <1>3
    <3>2. \A i, j \in D : f[i] = f[j] => i = j
      BY <1>1 DEF Table
    <3> QED
      BY <3>1, <3>2 DEF Injection, IsInjective
  <2> HIDE DEF f, D, R
  <2>2. Cardinality(D) <= Cardinality(R)
    BY <1>2, <2>1, FS_Injection
  <2>3. Cardinality(D) = Len(t)
    <3>1. 1 \in Int /\ Len(t) \in Int /\ Len(t) >= 0
      BY <1>1
    <3>2. Cardinality(1..Len(t)) = IF 1 > Len(t) THEN 0 ELSE Len(t) - 1 + 1
      BY <3>1, FS_Interval
    <3> QED
      BY <3>1, <3>2 DEF D
  <2> QED
    BY <1>1, <1>2, <2>2, <2>3
<1> QED
  BY <1>1, <1>2, <1>3

\* A link event keeps the table, and finds a slot.
LEMMA EventKeepsTable ==
    ASSUME NEW S, IsFiniteSet(S), Cardinality(S) <= TableSlots, Table(table, S),
           NEW l \in S, NEW up \in BOOLEAN, NEW communities
    PROVE  /\ Table(RouterOf(communities)!SetLinkState(l, up), S)
           /\ ~RouterOf(communities)!LinkTableFull(l)
<1> DEFINE new == RouterOf(communities)!SetLinkState(l, up)
           known == \E i \in DOMAIN table : table[i].id = l
<1>1. /\ Len(table) \in Nat /\ DOMAIN table = 1..Len(table) /\ Cardinality(S) \in Nat
      /\ \A i \in DOMAIN table : table[i] \in Slots(S)
      /\ ~known => Len(table) < Cardinality(S)
  BY TableIsShort, TableSlot
<1>2. ~RouterOf(communities)!LinkTableFull(l)
  <2>1. ~known => Len(table) # TableSlots
    <3>1. TableSlots \in Nat
      BY StartupAssumption
    <3>2. Len(table) \in Nat /\ Cardinality(S) \in Nat
      BY <1>1
    <3>3. ~known => Len(table) < Cardinality(S)
      BY <1>1
    <3> HIDE DEF known
    <3> QED
      BY <3>1, <3>2, <3>3
  <2> QED
    BY <2>1 DEF RouterOf!LinkTableFull, RouterOf!LinkKnown
<1>3. CASE known
  <2>1. new = [i \in DOMAIN table |->
                 IF table[i].id = l THEN [id |-> l, up |-> up] ELSE table[i]]
    BY <1>3 DEF RouterOf!SetLinkState, RouterOf!LinkKnown
  <2> HIDE DEF new
  <2>2. new \in Seq(Slots(S)) /\ DOMAIN new = DOMAIN table
    <3>1. [id |-> l, up |-> up] \in Slots(S)
      BY DEF Slots
    <3> QED
      BY <1>1, <2>1, <3>1
  <2>3. \A i \in DOMAIN table : new[i].id = table[i].id
    BY <2>1
  <2>4. Table(new, S)
    BY <2>2, <2>3 DEF Table
  <2> QED
    BY <1>2, <2>4 DEF new
<1>4. CASE ~known /\ up
  <2> DEFINE slot == [id |-> l, up |-> TRUE]
  <2>1. new = Append(table, slot)
    BY <1>2, <1>4 DEF RouterOf!SetLinkState, RouterOf!LinkKnown
  <2> HIDE DEF new
  <2>2. table \in Seq(Slots(S)) /\ slot \in Slots(S)
    BY TableSlot DEF Slots
  <2>3. /\ new \in Seq(Slots(S)) /\ DOMAIN new = 1..(Len(table) + 1)
        /\ new[Len(table) + 1].id = l
        /\ \A i \in DOMAIN table : new[i].id = table[i].id
    BY <1>1, <2>1, <2>2
  <2>4. Table(new, S)
    BY <1>1, <1>4, <2>3 DEF Table
  <2> QED
    BY <1>2, <2>4 DEF new
<1>5. CASE ~known /\ ~up
  <2>1. new = table
    BY <1>5 DEF RouterOf!SetLinkState, RouterOf!LinkKnown
  <2> QED
    BY <1>2, <2>1
<1> QED
  BY <1>3, <1>4, <1>5

-----------------------------------------------------------------------------
(* Fan-out.                                                                *)

\* A batch for links of the configuration, with at most one local copy, fits.
LEMMA BatchFits ==
    ASSUME NEW S, IsFiniteSet(S), Cardinality(S) <= RouterCommandCapacity - 2,
           NEW sends \in SUBSET S, NEW e, NEW local, local = {} \/ local = {e},
           NEW out, NEW communities
    PROVE  RouterOf(communities)!FanOut(out, local, sends).error = "Ok"
<1>1. Cardinality(sends) <= Cardinality(S) /\ Cardinality(sends) \in Nat
      /\ Cardinality(S) \in Nat
  BY FS_Subset, FS_CardinalityType
<1>2. Cardinality(local) \in {0, 1}
  BY FS_EmptySet, FS_Singleton
<1>3. ~(Cardinality(sends) + Cardinality(local) > RouterCommandCapacity)
  BY <1>1, <1>2, StartupAssumption
<1>4. /\ RouterOf(communities)!Cardinality(sends) = Cardinality(sends)
      /\ RouterOf(communities)!Cardinality(local) = Cardinality(local)
  BY DEF RouterOf!Cardinality, Cardinality
<1> QED
  BY <1>3, <1>4 DEF RouterOf!FanOut, RouterOf!Forward, RouterOf!Nothing

\* The links that are up are links of the table.
LEMMA UpAreListed ==
    ASSUME NEW S, Table(table, S), NEW ingress, NEW communities
    PROVE  /\ RouterOf(communities)!UpLinksExcept(ingress) \subseteq S
           /\ RouterOf(communities)!UpLinks \subseteq S
BY TableSlot DEF RouterOf!UpLinks, RouterOf!UpLinksExcept

\* A message to a room is taken in or sent on, wherever it comes from.
LEMMA RoomIsServed ==
    ASSUME NEW S, IsFiniteSet(S), Cardinality(S) <= RouterCommandCapacity - 2,
           Table(table, S), NEW ingress, NEW communities, NEW room
    PROVE  /\ RouterOf(communities)!ForwardStored(RoomEnvelope(room)).error = "Ok"
           /\ RouterOf(communities)!HandleEnvelope(RoomEnvelope(room), ingress, 0).error = "Ok"
<1> DEFINE e == RoomEnvelope(room)
           local == RouterOf(communities)!LocalCopy(e)
           sends == RouterOf(communities)!UpLinksExcept(ingress)
           up == RouterOf(communities)!UpLinks
<1>1. sends \in SUBSET S /\ up \in SUBSET S
  BY UpAreListed
<1>2. local = {} \/ local = {e}
  BY DEF RouterOf!LocalCopy
<1>3. \A out : /\ RouterOf(communities)!FanOut(out, local, sends).error = "Ok"
               /\ RouterOf(communities)!FanOut(out, local, up).error = "Ok"
  <2> HIDE DEF local, sends, up, e
  <2> QED
    BY <1>1, <1>2, BatchFits
<1>4. /\ RouterOf(communities)!VersionOk(e) /\ RouterOf(communities)!ExpiryOk(e)
      /\ RouterOf(communities)!IsCommunity(e) /\ e.expires = 2 /\ e.hop = 2
  BY DEF RouterOf!VersionOk, RouterOf!ExpiryOk, RouterOf!IsCommunity, RoomEnvelope
<1> HIDE DEF e
<1>5. RouterOf(communities)!HandleCommunity(e, ingress).error = "Ok"
  <2>1. RouterOf(communities)!CommunityFallback(e, ingress).error = "Ok"
    BY DEF RouterOf!CommunityFallback, RouterOf!StorePut, RouterOf!Drop, RouterOf!Nothing
  <2>2. RouterOf(communities)!Drop(e, "HopLimitExhausted").error = "Ok"
    BY DEF RouterOf!Drop, RouterOf!Nothing
  <2> QED
    BY <1>3, <2>1, <2>2 DEF RouterOf!HandleCommunity
<1>6. RouterOf(communities)!ForwardStoredCommunity(e).error = "Ok"
  <2>1. RouterOf(communities)!Nothing(e).error = "Ok"
    BY DEF RouterOf!Nothing
  <2> QED
    BY <1>3, <2>1 DEF RouterOf!ForwardStoredCommunity
<1>7. RouterOf(communities)!ForwardStored(e).error = "Ok"
  BY <1>4, <1>6 DEF RouterOf!ForwardStored, RouterOf!RejectTerminal,
     RouterOf!RejectInvalidOrExpired
<1>8. RouterOf(communities)!HandleEnvelope(e, ingress, 0).error = "Ok"
  <2>1. RouterOf(communities)!Drop(e, "Duplicate").error = "Ok"
    BY DEF RouterOf!Drop, RouterOf!Nothing
  <2> QED
    BY <1>4, <1>5, <2>1 DEF RouterOf!HandleEnvelope, RouterOf!RejectInvalidOrExpired
<1> QED
  BY <1>7, <1>8 DEF e

-----------------------------------------------------------------------------
(* The gateway.                                                            *)

\* What startup and link events keep: the router starts only with a
\* configuration that is let through, and lists only its enabled links.
StartInv ==
    /\ config \in Configs
    /\ started \in ConfigErrors \cup {"no", "RuntimeCapacity", "none"}
    /\ started = "none" => NewCoreError(config) = "none"
    /\ Table(table, EnabledLinks(config))

\* Startup begins in it.
LEMMA StartInvInit == StartupInit => StartInv
BY DEF StartupInit, StartInv, Table

\* Validation and link events keep it.
LEMMA StartInvStep == StartInv /\ [StartupNext]_startupVars => StartInv'
<1> SUFFICES ASSUME StartInv, [StartupNext]_startupVars PROVE StartInv'
  OBVIOUS
<1>1. CASE UNCHANGED startupVars
  BY <1>1 DEF StartInv, startupVars
<1>2. CASE Start
  BY <1>2, ErrorsAreKnown DEF StartInv, Start
<1>3. ASSUME NEW l \in ConfiguredLinks, NEW up \in BOOLEAN, LinkEvent(l, up)
      PROVE  StartInv'
  <2> DEFINE S == EnabledLinks(config)
  <2>1. /\ started = "none" /\ l \in S /\ config' = config
        /\ \E communities \in Policies :
              /\ table' = RouterOf(communities)!SetLinkState(l, up)
              /\ started' = IF up /\ RouterOf(communities)!LinkTableFull(l)
                            THEN "TooManyLinks" ELSE "none"
    BY <1>3 DEF LinkEvent
  <2>2. PICK communities \in Policies :
              /\ table' = RouterOf(communities)!SetLinkState(l, up)
              /\ started' = IF up /\ RouterOf(communities)!LinkTableFull(l)
                            THEN "TooManyLinks" ELSE "none"
    BY <2>1
  <2>3. config \in Configs /\ NewCoreError(config) = "none" /\ Table(table, S)
    BY <2>1 DEF StartInv
  <2>4. IsFiniteSet(S) /\ Cardinality(S) <= TableSlots
    BY <2>3, LinksAreFew
  <2>5. Table(table', S) /\ started' = "none"
    <3> HIDE DEF S
    <3> QED
      BY <2>1, <2>2, <2>3, <2>4, EventKeepsTable
  <2> QED
    BY <2>1, <2>3, <2>5 DEF StartInv
<1> QED
  BY <1>1, <1>2, <1>3 DEF StartupNext

\* Whatever configuration a host starts with, and whichever of its links go
\* up and down, no message to a room is refused for lack of commands and no
\* link for lack of a slot (GatewayConfig::validate).
THEOREM StartedFanOutFits == StartupSpec => []FanOutFits
<1>1. StartInv => FanOutFits
  <2> SUFFICES ASSUME StartInv, started = "none" PROVE FanOutFits
    BY DEF StartInv, FanOutFits
  <2> DEFINE S == EnabledLinks(config)
  <2>1. /\ IsFiniteSet(S) /\ Cardinality(S) <= RouterCommandCapacity - 2 /\ Table(table, S)
    BY LinksAreFew DEF StartInv
  <2> HIDE DEF S
  <2>2. \A communities \in Policies, room \in Rooms :
          /\ RouterOf(communities)!ForwardStored(RoomEnvelope(room)).error = "Ok"
          /\ \A ingress : RouterOf(communities)!HandleEnvelope(RoomEnvelope(room), ingress, 0).error = "Ok"
          /\ RouterOf(communities)!UpLinks \subseteq S
    BY <2>1, RoomIsServed, UpAreListed
  <2> QED
    BY <2>2 DEF FanOutFits, S
<1> QED
  BY <1>1, StartInvInit, StartInvStep, PTL DEF StartupSpec

-----------------------------------------------------------------------------
(* Rows.                                                                   *)

\* A list of some kind of rows
Listed(rows) ==
    /\ Len(rows) \in Nat /\ DOMAIN rows = 1..Len(rows)
    /\ rows = [i \in 1..Len(rows) |-> rows[i]]

\* A sequence is one.
LEMMA SequenceIsListed ==
    ASSUME NEW S, NEW s \in Seq(S)
    PROVE  Listed(s)
<1>1. Len(s) \in Nat /\ DOMAIN s = 1..Len(s) /\ s \in [1..Len(s) -> S]
  BY LenProperties, SeqDef
<1> QED
  BY <1>1 DEF Listed

\* The rows of a profile are lists.
LEMMA RowsAreListed ==
    ASSUME NEW profile \in Profiles
    PROVE  Listed(FixtureRowList(profile)) /\ Listed(OracleRows(profile))
           /\ Len(OracleRows(profile)) > 0
<1>1. profile = Profile0 \/ profile = Profile1 \/ profile = Profile2
  BY DEF Profiles
<1>2. Profile0 # Profile1 /\ Profile0 # Profile2 /\ Profile1 # Profile2
  BY DEF Profile0, Profile1, Profile2
<1>3. \/ FixtureRowList(profile) =
             <<"fixture_manifest", "identity_signature", "destination_hash", "packet_header",
               "packet_hash", "announce", "announce_negative">>
      \/ FixtureRowList(profile) =
             <<"fixture_manifest", "kiss", "rnode_command", "rnode_config_validation",
               "rnode_stat">>
      \/ FixtureRowList(profile) =
             <<"fixture_manifest", "hkdf", "token", "identity_encrypt", "identity_decrypt",
               "ifac">>
  BY <1>1, <1>2, Zenon DEF FixtureRowList
<1>4. \/ OracleRows(profile) = <<"python_oracle_packet", "python_oracle_announce">>
      \/ OracleRows(profile) = <<"fixture_replay">>
      \/ OracleRows(profile) =
             <<"fixture_replay", "shim_token_generation", "python_token",
               "shim_identity_generation", "python_identity", "python_ifac">>
  BY <1>1, <1>2, Zenon DEF OracleRows
<1> DEFINE F == {"fixture_manifest", "identity_signature", "destination_hash", "packet_header",
                 "packet_hash", "announce", "announce_negative", "kiss", "rnode_command",
                 "rnode_config_validation", "rnode_stat", "hkdf", "token",
                 "identity_encrypt", "identity_decrypt", "ifac"}
           O == {"python_oracle_packet", "python_oracle_announce", "fixture_replay",
                 "shim_token_generation", "python_token", "shim_identity_generation",
                 "python_identity", "python_ifac"}
<1>5. FixtureRowList(profile) \in Seq(F)
  <2>1. /\ <<"fixture_manifest", "identity_signature", "destination_hash", "packet_header",
              "packet_hash", "announce", "announce_negative">> \in Seq(F)
        /\ <<"fixture_manifest", "kiss", "rnode_command", "rnode_config_validation",
              "rnode_stat">> \in Seq(F)
        /\ <<"fixture_manifest", "hkdf", "token", "identity_encrypt", "identity_decrypt",
              "ifac">> \in Seq(F)
    OBVIOUS
  <2> QED
    BY <1>3, <2>1, Zenon
<1>6. OracleRows(profile) \in Seq(O)
  <2>1. /\ <<"python_oracle_packet", "python_oracle_announce">> \in Seq(O)
        /\ <<"fixture_replay">> \in Seq(O)
        /\ <<"fixture_replay", "shim_token_generation", "python_token",
              "shim_identity_generation", "python_identity", "python_ifac">> \in Seq(O)
    OBVIOUS
  <2> QED
    BY <1>4, <2>1, Zenon
<1>7. Len(OracleRows(profile)) > 0
  BY <1>4, SMT
<1> HIDE DEF F, O
<1> QED
  BY <1>5, <1>6, <1>7, SequenceIsListed

\* There are finitely many.
LEMMA RangeIsFinite ==
    ASSUME NEW rows, Listed(rows)
    PROVE  /\ IsFiniteSet(Range(rows)) /\ Cardinality(Range(rows)) \in Nat
           /\ Cardinality(Range(rows)) <= Len(rows)
<1> DEFINE D == 1..Len(rows)
           f == [i \in D |-> rows[i]]
<1>0. 1 \in Int /\ Len(rows) \in Int /\ Len(rows) >= 0
  BY DEF Listed
<1>1. IsFiniteSet(D) /\ Cardinality(D) = Len(rows)
  <2>1. /\ IsFiniteSet(1..Len(rows))
        /\ Cardinality(1..Len(rows)) = IF 1 > Len(rows) THEN 0 ELSE Len(rows) - 1 + 1
    BY <1>0, FS_Interval
  <2> QED
    BY <1>0, <2>1
<1>2. f \in Surjection(D, Range(rows))
  BY DEF Surjection, Range, Listed
<1> HIDE DEF D, f
<1>3. IsFiniteSet(Range(rows)) /\ Cardinality(Range(rows)) <= Cardinality(D)
  BY <1>1, <1>2, FS_Surjection
<1> QED
  BY <1>1, <1>3, FS_CardinalityType

\* So are the rows that a final report needs.
LEMMA RequiredIsFinite ==
    ASSUME NEW profile \in Profiles
    PROVE  IsFiniteSet(RequiredRows(profile))
BY RowsAreListed, RangeIsFinite, FS_Union DEF RequiredRows, FixtureRows

-----------------------------------------------------------------------------
(* Validation of a report.                                                 *)

\* What an accepted report is let through by
LEMMA AcceptedParts ==
    ASSUME NEW args \in ValidateArgs, Accepts(args)
    PROVE  /\ ReportError(report[1], FinalProfile(args), args.expected_path) = "none"
           /\ args.require_final_provenance => ProvenanceError(report[1], args) = "none"
<1>1. ValidateError(args) = "none"
  BY DEF Accepts
<1>2. FirstOf(ReportError(report[1], FinalProfile(args), args.expected_path),
             IF args.require_final_provenance THEN ProvenanceError(report[1], args)
             ELSE "none") = "none"
  BY <1>1, Zenon DEF ValidateError
<1> QED
  BY <1>2 DEF FirstOf

\* The profile that a validation asks for is one of the three, and one is
\* asked for with provenance.
LEMMA ProfileIsKnown ==
    ASSUME NEW args \in ValidateArgs
    PROVE  /\ FinalProfile(args) \in {None} \cup {Some(p) : p \in Profiles}
           /\ args.require_final_provenance => IsSome(FinalProfile(args))
<1>1. args.require_final_profile \in {None} \cup {Some(p) : p \in Profiles}
  BY ConformanceAssumption
<1>2. Profile0 \in Profiles /\ Some(Profile0) # None
  BY DEF Profiles, Some, None
<1>3. \/ FinalProfile(args) = args.require_final_profile /\ IsSome(args.require_final_profile)
      \/ FinalProfile(args) = Some(Profile0)
      \/ FinalProfile(args) = None /\ ~args.require_final_provenance
  <2> DEFINE wanted == \/ args.require_final_profile0 \/ args.require_final_provenance
                       \/ IsSome(args.expected_path)
  <2>1. FinalProfile(args) =
           CASE IsSome(args.require_final_profile) -> args.require_final_profile
             [] wanted -> Some(Profile0)
             [] OTHER -> None
    BY DEF FinalProfile
  <2>2. ~wanted => ~args.require_final_provenance
    OBVIOUS
  <2> HIDE DEF wanted
  <2> QED
    BY <2>1, <2>2, Zenon
<1> QED
  BY <1>1, <1>2, <1>3, Zenon DEF IsSome

\* As many rows as are required, none twice, and the required ones passed
RowsInOrder(p, results) ==
    /\ Len(results) = Cardinality(RequiredRows(p))
    /\ ~HasDuplicates(Ids(results))
    /\ \/ RequiredRows(p) \subseteq Range(Ids(results))
       \/ Range(Ids(results)) \subseteq RequiredRows(p)
    /\ \A i \in DOMAIN results :
          results[i].id \in RequiredRows(p) => results[i].status = "passed"

\* The checks of a final report of profile 1 or 2 ask for that.
LEMMA FinalRows ==
    ASSUME NEW p, NEW results, FinalResultsError(p, results) = "none"
    PROVE  RowsInOrder(p, results)
<1>1. /\ ~(Len(results) /= Cardinality(RequiredRows(p)))
      /\ ~HasDuplicates(Ids(results))
      /\ RequiredRows(p) \subseteq Range(Ids(results))
      /\ ~\E row \in RequiredRows(p) : \E i \in DOMAIN results :
            /\ results[i].id = row
            /\ \/ results[i].category /= Category(row)
               \/ results[i].status /= "passed"
               \/ ~DetailOk(results[i].detail, Detail(p, row))
  BY Zenon DEF FinalResultsError
<1> QED
  BY <1>1, Zenon DEF RowsInOrder

\* Those of profile 0 do so in another way: no status but passed is left.
LEMMA FinalRows0 ==
    ASSUME NEW r, NEW path, Parses(r), Final0Error(r, path) = "none"
    PROVE  /\ RowsInOrder(Profile0, r.results)
           /\ r.profile = Profile0 /\ r.reticulum_commit = PinnedCommit
<1>1. /\ r.profile = Profile0 /\ r.reticulum_commit = PinnedCommit
      /\ ~\E i \in DOMAIN r.results : r.results[i].status = "failed"
      /\ ~\E i \in DOMAIN r.results : r.results[i].status = "invalid_environment"
      /\ FirstOf(Profile0ResultsError(r.results),
             CASE ~IsSome(r.oracle) -> "missing oracle metadata"
               [] ~OraclePopulated(r.oracle[1]) -> "empty oracle field"
               [] ~Oracle0MetadataOk(r.oracle[1], path) -> "oracle metadata mismatch"
               [] OTHER -> "none") = "none"
  BY Zenon DEF Final0Error
<1>2. Profile0ResultsError(r.results) = "none"
  BY <1>1, Zenon DEF FirstOf
<1>3. /\ Len(r.results) = Cardinality(RequiredRows(Profile0))
      /\ ~HasDuplicates(Ids(r.results))
      /\ Range(Ids(r.results)) \subseteq RequiredRows(Profile0)
  BY <1>2, Zenon DEF Profile0ResultsError
<1>4. \A i \in DOMAIN r.results : r.results[i].status = "passed"
  BY <1>1, Zenon DEF Parses, Statuses
<1> QED
  BY <1>1, <1>3, <1>4, Zenon DEF RowsInOrder

\* A report that is final for a profile is of that profile and of the pinned
\* commit, its rows in order.
LEMMA FinalReport ==
    ASSUME NEW r, NEW path, NEW p \in Profiles, ReportError(r, Some(p), path) = "none"
    PROVE  /\ Parses(r) /\ RowsInOrder(p, r.results)
           /\ r.profile = p /\ r.reticulum_commit = PinnedCommit
<1>1. p = Profile0 \/ p = Profile1 \/ p = Profile2
  BY DEF Profiles
<1>2. /\ Some(p) # None /\ Profile0 # Profile1 /\ Profile0 # Profile2 /\ Profile1 # Profile2
      /\ Some(p)[1] = p /\ (Some(p) = Some(Profile0) => p = Profile0)
  BY SMT DEF Profile0, Profile1, Profile2, Some, None
<1>3. Parses(r)
  BY Zenon DEF ReportError
<1>4. \/ p = Profile0 /\ Final0Error(r, path) = "none"
      \/ p # Profile0 /\ FinalError(r, p) = "none"
  BY <1>2, <1>3, Zenon DEF ReportError, FirstOf
<1>5. CASE p = Profile0 /\ Final0Error(r, path) = "none"
  BY <1>3, <1>5, FinalRows0
<1>6. CASE p # Profile0 /\ FinalError(r, p) = "none"
  <2>1. CASE p = Profile1
    <3>1. Final1Error(r) = "none"
      BY <1>6, <2>1 DEF FinalError
    <3>2. /\ r.profile = Profile1 /\ r.reticulum_commit = PinnedCommit
          /\ FinalResultsError(Profile1, r.results) = "none"
      BY <3>1, Zenon DEF Final1Error
    <3> QED
      BY <1>3, <2>1, <3>2, FinalRows
  <2>2. CASE p # Profile1
    <3>1. Final2Error(r) = "none"
      BY <1>6, <2>2 DEF FinalError
    <3>2. /\ r.profile = Profile2 /\ r.reticulum_commit = PinnedCommit
          /\ FinalResultsError(Profile2, r.results) = "none"
      BY <3>1, Zenon DEF Final2Error
    <3> QED
      BY <1>1, <1>3, <1>6, <2>2, <3>2, FinalRows
  <2> QED
    BY <2>1, <2>2
<1> QED
  BY <1>4, <1>5, <1>6

\* Such a report has the required rows, each once and passed.
LEMMA RequiredPassed ==
    ASSUME NEW r, NEW p \in Profiles, Parses(r), RowsInOrder(p, r.results)
    PROVE  LET passed == {r.results[i].id : i \in {j \in DOMAIN r.results :
                                                      r.results[j].status = "passed"}}
           IN  /\ passed = RequiredRows(p) /\ Len(r.results) = Cardinality(passed)
               /\ \A i \in DOMAIN r.results : r.results[i].status = "passed"
<1> DEFINE ids == Ids(r.results)
           R == RequiredRows(p)
<1>1. Listed(ids) /\ Len(ids) = Len(r.results) /\ DOMAIN ids = DOMAIN r.results
      /\ \A i \in DOMAIN ids : ids[i] = r.results[i].id
  BY DEF Listed, Ids, Parses
<1>2. Range(ids) = {r.results[i].id : i \in DOMAIN r.results}
  BY <1>1 DEF Range
<1> HIDE DEF ids
<1>3. /\ IsFiniteSet(Range(ids)) /\ Cardinality(Range(ids)) \in Nat
      /\ Cardinality(Range(ids)) <= Len(ids) /\ Len(ids) \in Nat
  BY <1>1, RangeIsFinite DEF Listed
<1>4. IsFiniteSet(R) /\ Len(ids) = Cardinality(R) /\ ~(Cardinality(Range(ids)) < Len(ids))
  BY <1>1, RequiredIsFinite DEF RowsInOrder, HasDuplicates, ids
<1>5. Cardinality(Range(ids)) = Cardinality(R)
  BY <1>3, <1>4
<1>6. Range(ids) = R
  <2>1. R \subseteq Range(ids) \/ Range(ids) \subseteq R
    BY DEF RowsInOrder, ids
  <2> HIDE DEF R
  <2> QED
    BY <1>3, <1>4, <1>5, <2>1, FS_Subset
<1>7. \A i \in DOMAIN r.results : r.results[i].status = "passed"
  <2>1. \A i \in DOMAIN r.results : r.results[i].id \in R
    BY <1>2, <1>6
  <2> QED
    BY <2>1 DEF RowsInOrder
<1>8. {j \in DOMAIN r.results : r.results[j].status = "passed"} = DOMAIN r.results
  BY <1>7
<1> QED
  BY <1>1, <1>2, <1>4, <1>6, <1>7, <1>8

\* A tree that passes the check is clean and at the expected commit.
LEMMA CleanTree ==
    ASSUME NEW tree \in HyfTrees \cup ReticulumTrees, NEW commit,
           GitStateError(tree, Some(commit)) = "none"
    PROVE  tree = [head |-> commit, dirty |-> FALSE]
<1>1. /\ tree = [head |-> tree.head, dirty |-> tree.dirty] /\ tree.dirty \in BOOLEAN
  BY ConformanceAssumption
<1>2. IsSome(Some(commit)) /\ Some(commit)[1] = commit
  BY DEF IsSome, Some, None
<1>3. ~tree.dirty /\ ~(IsSome(Some(commit)) /\ Some(commit)[1] /= tree.head)
  BY Zenon DEF GitStateError
<1> QED
  BY <1>1, <1>2, <1>3

-----------------------------------------------------------------------------
(* Reports of the tool.                                                    *)

Shortfall(r) == \E i \in DOMAIN r.results : r.results[i].status # "passed"

\* What a report says of the rows that passed and of the oracle is so: a
\* fixture that does not pass, or rows of the oracle that nobody answered
\* for, show as a row that is not passed.
Honest(r, how) ==
    /\ r.profile \in Profiles
    /\ how.rows \subseteq FixtureRows(r.profile)
    /\ how.rows = FixtureRows(r.profile) \/ Shortfall(r)
    /\ how.backed \/ Shortfall(r)

BinaryOK == binary \in {Binaries[commit] : commit \in Commits}

\* The fixture rows of a report: one that the binary does not pass is not
\* passed.
LEMMA FixtureRowsTold ==
    ASSUME BinaryOK, NEW profile \in Profiles
    PROVE  /\ Listed(FixtureResults(profile))
           /\ binary.passes[profile] \subseteq FixtureRows(profile)
           /\ \/ binary.passes[profile] = FixtureRows(profile)
              \/ \E i \in DOMAIN FixtureResults(profile) :
                    FixtureResults(profile)[i].status # "passed"
<1> DEFINE rows == FixtureRowList(profile)
           results == FixtureResults(profile)
           passes == binary.passes[profile]
<1>1. Listed(rows)
  BY RowsAreListed
<1>2. passes \subseteq FixtureRows(profile)
  <2>1. PICK commit \in Commits : binary = Binaries[commit]
    BY DEF BinaryOK
  <2>2. passes = {row \in FixtureRows(profile) : RowPasses(FixturesOf(commit), profile, row)}
    BY <2>1 DEF Binaries
  <2> QED
    BY <2>2
<1>3. /\ Listed(results) /\ DOMAIN results = DOMAIN rows
      /\ \A i \in DOMAIN rows : rows[i] \notin passes => results[i].status = "failed"
  BY <1>1 DEF FixtureResults, Result, Listed
<1>4. FixtureRows(profile) = {rows[i] : i \in DOMAIN rows}
  BY DEF FixtureRows, Range
<1> HIDE DEF rows, results, passes
<1>5. ASSUME passes # FixtureRows(profile)
      PROVE  \E i \in DOMAIN results : results[i].status # "passed"
  <2>1. PICK row \in FixtureRows(profile) : row \notin passes
    BY <1>2, <1>5
  <2>2. PICK i \in DOMAIN rows : rows[i] = row
    BY <1>4, <2>1
  <2> QED
    BY <1>3, <2>1, <2>2
<1> QED
  BY <1>2, <1>3, <1>5 DEF results, passes

\* Results that follow others keep what they say.
LEMMA FollowingResults ==
    ASSUME NEW a, NEW b, Listed(a), Listed(b)
    PROVE  /\ Listed(a \o b)
           /\ \A i \in DOMAIN a : i \in DOMAIN (a \o b) /\ (a \o b)[i] = a[i]
           /\ \A i \in DOMAIN b : /\ Len(a) + i \in DOMAIN (a \o b)
                                  /\ (a \o b)[Len(a) + i] = b[i]
<1> DEFINE S == Range(a) \cup Range(b)
<1>1. a \in Seq(S) /\ b \in Seq(S)
  <2>1. \A s : Listed(s) /\ Range(s) \subseteq S => s \in Seq(S)
    <3> SUFFICES ASSUME NEW s, Listed(s), Range(s) \subseteq S PROVE s \in Seq(S)
      OBVIOUS
    <3>1. Len(s) \in Nat /\ \A i \in 1..Len(s) : s[i] \in S
      BY DEF Listed, Range
    <3> HIDE DEF S
    <3> QED
      BY <3>1 DEF Listed
  <2> QED
    BY <2>1
<1>2. /\ a \o b \in Seq(S) /\ Len(a \o b) = Len(a) + Len(b)
      /\ \A i \in 1..(Len(a) + Len(b)) :
            (a \o b)[i] = IF i <= Len(a) THEN a[i] ELSE b[i - Len(a)]
  <2> HIDE DEF S
  <2> QED
    BY <1>1, ConcatProperties
<1>3. DOMAIN (a \o b) = 1..(Len(a) + Len(b)) /\ Len(a) \in Nat /\ Len(b) \in Nat
      /\ DOMAIN a = 1..Len(a) /\ DOMAIN b = 1..Len(b)
  BY <1>2, LenProperties DEF Listed
<1> DEFINE c == a \o b
<1> HIDE DEF c
<1>4. Listed(c)
  <2>1. c \in Seq(S)
    BY <1>2 DEF c
  <2> HIDE DEF S
  <2> QED
    BY <2>1, SequenceIsListed
<1>5. \A i \in 1..Len(a) : c[i] = a[i]
  BY <1>2, <1>3 DEF c
<1>6. ASSUME NEW i \in 1..Len(b) PROVE Len(a) + i \in 1..(Len(a) + Len(b)) /\ c[Len(a) + i] = b[i]
  <2>1. /\ Len(a) + i \in 1..(Len(a) + Len(b)) /\ ~(Len(a) + i <= Len(a))
        /\ (Len(a) + i) - Len(a) = i
    BY <1>3
  <2> QED
    BY <1>2, <2>1 DEF c
<1>7. \A i \in 1..Len(a) : i \in 1..(Len(a) + Len(b))
  BY <1>3
<1> QED
  BY <1>3, <1>4, <1>5, <1>6, <1>7 DEF c

\* A report made of the fixture rows and of rows of the oracle, of which one
\* is not passed unless somebody answered
MadeOf(r, args, answer) ==
    \E oracle, rest :
        /\ r = NewReport(args, oracle, FixtureResults(args.profile) \o rest).value
        /\ Listed(rest)
        /\ Backed(args, answer) \/ \E i \in DOMAIN rest : rest[i].status # "passed"

\* Rows of the oracle that are all unavailable are not passed.
LEMMA UnavailableTold ==
    ASSUME NEW profile \in Profiles
    PROVE  /\ Listed(UnavailableResults(profile))
           /\ \E i \in DOMAIN UnavailableResults(profile) :
                 UnavailableResults(profile)[i].status # "passed"
<1> DEFINE rows == OracleRows(profile)
<1>1. Listed(rows) /\ 1 \in DOMAIN rows
  BY RowsAreListed DEF Listed
<1>2. UnavailableResults(profile) =
        [i \in DOMAIN rows |-> Result(rows[i], "invalid_environment", Message("text"))]
  BY DEF UnavailableResults, OracleResults
<1> HIDE DEF rows
<1>3. /\ Listed(UnavailableResults(profile))
      /\ UnavailableResults(profile)[1].status = "invalid_environment"
      /\ 1 \in DOMAIN UnavailableResults(profile)
  BY <1>1, <1>2 DEF Listed, Result
<1> QED
  BY <1>3

\* build_profile0_report makes such a report.
LEMMA BuiltProfile0 ==
    ASSUME NEW args, NEW probe, NEW answer, args.profile = Profile0,
           IsOk(BuildProfile0(args, probe, answer))
    PROVE  MadeOf(BuildProfile0(args, probe, answer).value, args, answer)
<1> DEFINE built == BuildProfile0(args, probe, answer)
           status == OracleStatus(answer)
           asked == OracleReport(args, probe, status)
           rows == OracleRows(Profile0)
           rest == [i \in DOMAIN rows |->
                      Result(rows[i], status[rows[i]],
                             IF status[rows[i]] = "passed" THEN None ELSE Message("text"))]
           alone == NewReport(args, None, FixtureResults(Profile0)
                                          \o UnavailableResults(Profile0))
<1>1. OracleArgsError(args) = "none"
  <2>1. ~IsOk(Err(OracleArgsError(args))) \/ OracleArgsError(args) = "none"
    BY DEF IsOk, Err
  <2> QED
    BY <2>1, Zenon DEF BuildProfile0, After
<1>2. \/ args.require_oracle /\ built = After(OracleEnvironmentError(probe), asked)
      \/ ~args.require_oracle /\ built = alone
  BY <1>1, Zenon DEF BuildProfile0, After
<1>3. CASE args.require_oracle /\ built = After(OracleEnvironmentError(probe), asked)
  <2>1. built = asked
    <3> HIDE DEF asked
    <3> QED
      BY <1>3 DEF After, IsOk, Err
  <2>2. asked = NewReport(args, Some(Metadata(probe)), FixtureResults(Profile0) \o rest)
    BY Zenon DEF OracleReport, OracleResults
  <2>3. rows = <<"python_oracle_packet", "python_oracle_announce">>
    <3>1. Profile0 # Profile1 /\ Profile0 # Profile2
      BY DEF Profile0, Profile1, Profile2
    <3> QED
      BY <3>1, Zenon DEF OracleRows
  <2>4. Listed(rest) /\ 1 \in DOMAIN rest
        /\ rest[1].status = status["python_oracle_packet"]
    BY <2>3 DEF Listed, Result
  <2>5. ~answer.ran => status["python_oracle_packet"] = "failed"
    BY DEF OracleStatus
  <2>6. Backed(args, answer) \/ \E i \in DOMAIN rest : rest[i].status # "passed"
    <3>1. CASE answer.ran
      BY <1>3, <3>1 DEF Backed
    <3>2. CASE ~answer.ran
      BY <2>4, <2>5, <3>2
    <3> QED
      BY <3>1, <3>2
  <2> HIDE DEF rest, asked
  <2> QED
    BY <2>1, <2>2, <2>4, <2>6, Zenon DEF MadeOf
<1>4. CASE ~args.require_oracle /\ built = alone
  <2>1. Profile0 \in Profiles
    BY DEF Profiles
  <2> QED
    <3> DEFINE none == UnavailableResults(Profile0)
    <3>1. /\ built.value = NewReport(args, None, FixtureResults(args.profile) \o none).value
          /\ Listed(none) /\ \E i \in DOMAIN none : none[i].status # "passed"
      BY <1>4, <2>1, UnavailableTold, Zenon
    <3> HIDE DEF none, built
    <3> QED
      BY <3>1, Zenon DEF MadeOf, built
<1> QED
  BY <1>2, <1>3, <1>4

\* Captures that are let through back the rows that they are taken for.
LEMMA CapturesBack ==
    ASSUME NEW args \in GenerateArgs, NEW answer, args.profile # Profile0,
           args.capture_dir, IsOk(FinalOracle(args))
    PROVE  Backed(args, answer)
<1>1. args.profile = Profile1 \/ args.profile = Profile2
  BY ConformanceAssumption DEF Profiles
<1>2. Profile1 # Profile2
  BY DEF Profile1, Profile2
<1>3. ~IsOk(Err("InvalidEvidence")) /\ ~IsOk(Err("MissingRequired"))
  BY DEF IsOk, Err
<1>4. CASE args.profile = Profile1
  <2>1. Evidence1Ok
    BY <1>2, <1>3, <1>4, Zenon DEF FinalOracle
  <2> QED
    BY <1>4, <2>1 DEF Evidence1Ok, Backed
<1>5. CASE args.profile = Profile2
  <2>1. Evidence2Ok
    BY <1>2, <1>3, <1>5, Zenon DEF FinalOracle
  <2> QED
    BY <1>5, <2>1 DEF Evidence2Ok, Backed
<1> QED
  BY <1>1, <1>4, <1>5

\* So does build_report for profiles 1 and 2.
LEMMA BuiltCaptured ==
    ASSUME NEW args \in GenerateArgs, NEW answer, args.profile # Profile0,
           IsOk(BuildCaptured(args))
    PROVE  MadeOf(BuildCaptured(args).value, args, answer)
<1> DEFINE built == BuildCaptured(args)
           none == UnavailableResults(args.profile)
           passed == PassedOracleResults(args.profile)
           alone == NewReport(args, None, FixtureResults(args.profile) \o none)
           full(oracle) == NewReport(args, oracle, FixtureResults(args.profile) \o passed)
<1>0. args.profile \in Profiles
  BY ConformanceAssumption
<1>1. \A error : IsOk(Err(error)) => error = "none"
  BY DEF IsOk, Err
<1>2. \A oracle : IsOk(full(oracle))
  BY DEF NewReport, Ok, IsOk
<1>3. CASE ~args.capture_dir
  <2>1. built = alone
    BY <1>1, <1>3, Zenon DEF BuildCaptured
  <2>2. Listed(none) /\ \E i \in DOMAIN none : none[i].status # "passed"
    BY <1>0, UnavailableTold
  <2>3. built.value = NewReport(args, None, FixtureResults(args.profile) \o none).value
    BY <2>1
  <2> HIDE DEF none, built
  <2> QED
    BY <2>2, <2>3, Zenon DEF MadeOf, built
<1>4. CASE args.capture_dir
  <2> DEFINE oracle == FinalOracle(args).value
             r == full(oracle).value
             after == IF FinalError(r, args.profile) = "none" THEN Ok(r)
                      ELSE Err("InvalidEvidence")
             found == AndThen(FinalOracle(args), LAMBDA o :
                        AndThen(full(o), LAMBDA s :
                          IF FinalError(s, args.profile) = "none" THEN Ok(s)
                          ELSE Err("InvalidEvidence")))
  <2>1. built = found
    BY <1>1, <1>4, Zenon DEF BuildCaptured
  <2>2. IsOk(FinalOracle(args)) /\ built = after
    <3>1. IsOk(FinalOracle(args))
      <4>1. ~IsOk(FinalOracle(args)) => found = FinalOracle(args)
        BY Zenon DEF AndThen
      <4> QED
        BY <2>1, <4>1
    <3>2. found = after
      BY <1>2, <3>1, Zenon DEF AndThen
    <3> QED
      BY <2>1, <3>1, <3>2
  <2>3. built = Ok(r)
    <3> HIDE DEF r, built
    <3> QED
      BY <1>1, <2>2 DEF built
  <2>4. built.value = full(oracle).value
    <3> HIDE DEF r, built
    <3>1. built.value = r
      BY <2>3 DEF Ok
    <3> QED
      BY <3>1 DEF r
  <2>5. Listed(passed)
    <3>1. Listed(OracleRows(args.profile))
      BY <1>0, RowsAreListed
    <3> QED
      BY <3>1 DEF PassedOracleResults, OracleResults, Listed
  <2>6. Backed(args, answer)
    BY <1>4, <2>2, CapturesBack
  <2> HIDE DEF passed, built, oracle
  <2> QED
    BY <2>4, <2>5, <2>6, Zenon DEF MadeOf, built
<1> QED
  BY <1>3, <1>4

\* What is taken from the report's path leaves rows and profile alone.
LEMMA OverriddenKeeps ==
    ASSUME NEW args, NEW r, NEW oracle, NEW results,
           r = NewReport(args, oracle, results).value, IsOk(Overridden(r, args))
    PROVE  LET s == Overridden(r, args).value
           IN  s.profile = args.profile /\ s.results = results
<1>1. /\ r.profile = args.profile /\ r.results = results
      /\ \A x : [r EXCEPT !.oracle = x].profile = args.profile
      /\ \A x : [r EXCEPT !.oracle = x].results = results
  BY DEF NewReport, Ok
<1>2. \A error : IsOk(Err(error)) => error = "none"
  BY DEF IsOk, Err
<1>3. \/ Overridden(r, args) = Ok(r)
      \/ \E x : Overridden(r, args) = Ok([r EXCEPT !.oracle = x])
  <2> DEFINE moved(path) == Ok([r EXCEPT !.oracle = Some([r.oracle[1] EXCEPT !.path = path])])
             root == Relative("absolute", args.report_path_root)
  <2>1. \/ Overridden(r, args) = Ok(r)
        \/ Overridden(r, args) = AndThen(root, moved)
    BY <1>2, Zenon DEF Overridden
  <2>2. ASSUME Overridden(r, args) = AndThen(root, moved)
        PROVE  Overridden(r, args) = moved(root.value)
    BY <2>2, Zenon DEF AndThen
  <2> QED
    BY <2>1, <2>2, Zenon
<1>4. \A x : Ok(x).value = x
  BY DEF Ok
<1>5. CASE Overridden(r, args) = Ok(r)
  <2>1. Overridden(r, args).value = r
    BY <1>4, <1>5, Zenon
  <2> QED
    BY <1>1, <2>1, Zenon
<1>6. ASSUME NEW x, Overridden(r, args) = Ok([r EXCEPT !.oracle = x])
      PROVE  LET s == Overridden(r, args).value
             IN  s.profile = args.profile /\ s.results = results
  <2> DEFINE t == [r EXCEPT !.oracle = x]
  <2>1. t.profile = args.profile /\ t.results = results
    BY <1>1, Zenon
  <2> HIDE DEF t
  <2>2. Overridden(r, args).value = t
    BY <1>4, <1>6, Zenon DEF t
  <2> QED
    BY <2>1, <2>2, Zenon
<1> QED
  BY <1>3, <1>5, <1>6, Zenon

\* A report that the tool writes is honest.
LEMMA GeneratedIsHonest ==
    ASSUME BinaryOK, NEW args \in GenerateArgs, NEW probe, NEW answer,
           IsOk(Generated(args, probe, answer))
    PROVE  Honest(Generated(args, probe, answer).value,
                  [by |-> "tool", rows |-> binary.passes[args.profile],
                   backed |-> Backed(args, answer)])
<1> DEFINE p == args.profile
           built == IF p = Profile0 THEN BuildProfile0(args, probe, answer)
                                    ELSE BuildCaptured(args)
           s == Generated(args, probe, answer).value
           rows == binary.passes[p]
           backed == Backed(args, answer)
<1>0. p \in Profiles
  BY ConformanceAssumption
<1>1. \A error : IsOk(Err(error)) => error = "none"
  BY DEF IsOk, Err
<1>2. /\ IsOk(built) /\ Generated(args, probe, answer) = Overridden(built.value, args)
  <2> DEFINE last == AndThen(built, LAMBDA r : Overridden(r, args))
  <2>1. Generated(args, probe, answer) = last
    <3>1. Generated(args, probe, answer) =
            After(ParseError(args), After(GitStateError(hyf, args.expected_commit), last))
      BY Zenon DEF Generated
    <3> HIDE DEF last
    <3> QED
      BY <1>1, <3>1, Zenon DEF After
  <2>2. ~IsOk(built) => last = built
    BY Zenon DEF AndThen
  <2>3. IsOk(built) => last = Overridden(built.value, args)
    BY Zenon DEF AndThen
  <2> HIDE DEF last, built
  <2> QED
    BY <2>1, <2>2, <2>3, Zenon
<1>3. MadeOf(built.value, args, answer)
  BY <1>2, BuiltProfile0, BuiltCaptured
<1> HIDE DEF built
<1>4. PICK oracle, rest :
        /\ built.value = NewReport(args, oracle, FixtureResults(p) \o rest).value
        /\ Listed(rest)
        /\ backed \/ \E i \in DOMAIN rest : rest[i].status # "passed"
  BY <1>3, Zenon DEF MadeOf
<1> DEFINE results == FixtureResults(p) \o rest
<1>5. s.profile = p /\ s.results = results
  <2> DEFINE t == Overridden(built.value, args).value
  <2>1. built.value = NewReport(args, oracle, results).value
    BY <1>4, Zenon
  <2>2. IsOk(Overridden(built.value, args))
    BY <1>2, Zenon
  <2> HIDE DEF results
  <2>3. t.profile = args.profile /\ t.results = results
    BY <2>1, <2>2, OverriddenKeeps
  <2>4. s = t
    BY <1>2, Zenon
  <2> QED
    BY <2>3, <2>4, Zenon
<1>6. /\ Listed(FixtureResults(p)) /\ rows \subseteq FixtureRows(p)
      /\ \/ rows = FixtureRows(p)
         \/ \E i \in DOMAIN FixtureResults(p) : FixtureResults(p)[i].status # "passed"
  BY <1>0, FixtureRowsTold
<1>7. /\ \A i \in DOMAIN FixtureResults(p) :
            i \in DOMAIN results /\ results[i] = FixtureResults(p)[i]
      /\ \A i \in DOMAIN rest : /\ Len(FixtureResults(p)) + i \in DOMAIN results
                                /\ results[Len(FixtureResults(p)) + i] = rest[i]
  BY <1>4, <1>6, FollowingResults
<1> HIDE DEF results, s, rows, backed, p
<1>8. (\E i \in DOMAIN FixtureResults(p) : FixtureResults(p)[i].status # "passed") => Shortfall(s)
  BY <1>5, <1>7 DEF Shortfall
<1>9. (\E i \in DOMAIN rest : rest[i].status # "passed") => Shortfall(s)
  BY <1>5, <1>7, Zenon DEF Shortfall
<1> DEFINE how == [by |-> "tool", rows |-> rows, backed |-> backed]
<1>10. how.rows = rows /\ how.backed = backed
  OBVIOUS
<1> HIDE DEF how
<1>11. Honest(s, how)
  BY <1>0, <1>4, <1>5, <1>6, <1>8, <1>9, <1>10, Zenon DEF Honest
<1> QED
  BY <1>11 DEF s, how, rows, backed, p

-----------------------------------------------------------------------------
(* The gate.                                                               *)

\* What the runs of the tool keep: trees and binary are what a checkout can
\* be, and a report that the tool wrote is honest until it is edited.
ToolInv ==
    /\ hyf \in HyfTrees /\ reticulum \in ReticulumTrees /\ BinaryOK
    /\ made.by = "tool" => Honest(report[1], made)

\* The first state is one of these.
LEMMA ToolInvInit == ConformanceInit => ToolInv
BY ConformanceAssumption DEF ConformanceInit, ToolInv, BinaryOK

\* The tool, its trees and hand edits keep it.
LEMMA ToolInvStep == ToolInv /\ [ConformanceNext]_conformanceVars => ToolInv'
<1> SUFFICES ASSUME ToolInv, [ConformanceNext]_conformanceVars PROVE ToolInv'
  OBVIOUS
<1> USE DEF ToolInv
<1>1. CASE UNCHANGED conformanceVars
  BY <1>1 DEF conformanceVars, BinaryOK, Honest, Shortfall
<1>2. ASSUME NEW args \in GenerateArgs, NEW probe \in Probes, NEW answer \in Answers,
             Generate(args, probe, answer)
      PROVE  ToolInv'
  <2> DEFINE result == Generated(args, probe, answer)
             how == [by |-> "tool", rows |-> binary.passes[args.profile],
                     backed |-> Backed(args, answer)]
  <2>1. /\ UNCHANGED <<hyf, reticulum, binary>>
        /\ \/ IsOk(result) /\ report' = Some(result.value) /\ made' = how
           \/ UNCHANGED <<report, made>>
    BY <1>2, Zenon DEF Generate
  <2>2. CASE UNCHANGED <<report, made>>
    BY <2>1, <2>2 DEF BinaryOK, Honest, Shortfall
  <2>3. CASE IsOk(result) /\ report' = Some(result.value) /\ made' = how
    <3>1. Honest(result.value, how)
      BY <2>3, GeneratedIsHonest, Zenon
    <3> HIDE DEF result, how
    <3>2. report'[1] = result.value
      BY <2>3 DEF Some
    <3>3. Honest(report'[1], made')
      BY <2>3, <3>1, <3>2
    <3> QED
      BY <2>1, <3>3, Zenon DEF BinaryOK, Honest, Shortfall
  <2> QED
    BY <2>1, <2>2, <2>3
<1>3. CASE WriteProofInputs
  BY <1>3 DEF WriteProofInputs, BinaryOK, Honest, Shortfall
<1>4. CASE ChangeTrees
  BY <1>4 DEF ChangeTrees, BinaryOK, Honest, Shortfall
<1>5. CASE Rebuild
  <2>1. hyf.head \in Commits
    BY ConformanceAssumption
  <2> QED
    BY <1>5, <2>1 DEF Rebuild, BinaryOK, Honest, Shortfall
<1>6. ASSUME NEW run \in CaptureRuns, Capture(run) PROVE ToolInv'
  <2>1. UNCHANGED <<hyf, reticulum, binary, report, made>>
    BY <1>6, Zenon DEF Capture
  <2> QED
    BY <2>1 DEF BinaryOK, Honest, Shortfall
<1>7. CASE Edit
  BY <1>7 DEF Edit, BinaryOK
<1> QED
  BY <1>1, <1>2, <1>3, <1>4, <1>5, <1>6, <1>7 DEF ConformanceNext

\* Whatever the trees, the binary, the captures and hand edits do, a report
\* that `validate` lets through as final for a profile has each required row
\* once and passed; if the tool wrote it, its fixtures passed and its oracle
\* rows rest on what Backed says (good answers about one file of proof
\* inputs, not good replays), and with provenance both trees are clean and
\* at the commits that it names (run_generate, run_validate).
THEOREM AcceptedIsEvidence == ConformanceSpec => []EvidenceGate
<1>1. ToolInv => EvidenceGate
  <2> SUFFICES ASSUME ToolInv, NEW args \in ValidateArgs, Accepts(args)
      PROVE  LET profile == FinalProfile(args)
                 r == report[1]
                 passed == {r.results[i].id : i \in {j \in DOMAIN r.results :
                                                        r.results[j].status = "passed"}}
             IN  /\ IsSome(profile) =>
                       /\ passed = RequiredRows(profile[1])
                       /\ Len(r.results) = Cardinality(passed)
                 /\ IsSome(profile) /\ made.by = "tool" =>
                       /\ made.rows = FixtureRows(profile[1])
                       /\ made.backed
                 /\ args.require_final_provenance =>
                       /\ hyf = [head |-> r.hyf_commit, dirty |-> FALSE]
                       /\ reticulum = [head |-> PinnedCommit, dirty |-> FALSE]
    BY DEF EvidenceGate
  <2> DEFINE profile == FinalProfile(args)
             p == profile[1]
             r == report[1]
             passed == {r.results[i].id : i \in {j \in DOMAIN r.results :
                                                    r.results[j].status = "passed"}}
  <2>1. ASSUME IsSome(profile)
        PROVE  /\ passed = RequiredRows(p) /\ Len(r.results) = Cardinality(passed)
               /\ ~Shortfall(r) /\ r.profile = p /\ r.reticulum_commit = PinnedCommit
    <3>1. PICK q \in Profiles : profile = Some(q)
      BY <2>1, ProfileIsKnown DEF IsSome
    <3>2. p = q
      BY <3>1 DEF Some
    <3> HIDE DEF profile
    <3>3. ReportError(r, Some(p), args.expected_path) = "none"
      BY <3>1, <3>2, AcceptedParts DEF profile
    <3> HIDE DEF p, r
    <3>4. Parses(r) /\ RowsInOrder(p, r.results) /\ r.profile = p
          /\ r.reticulum_commit = PinnedCommit
      BY <3>2, <3>3, FinalReport
    <3>5. /\ passed = RequiredRows(p) /\ Len(r.results) = Cardinality(passed)
          /\ \A i \in DOMAIN r.results : r.results[i].status = "passed"
      BY <3>2, <3>4, RequiredPassed
    <3> QED
      BY <3>4, <3>5 DEF Shortfall
  <2>2. ASSUME IsSome(profile), made.by = "tool"
        PROVE  made.rows = FixtureRows(p) /\ made.backed
    <3>1. Honest(r, made)
      BY <2>2 DEF ToolInv
    <3> HIDE DEF r, p, profile
    <3> QED
      BY <2>1, <2>2, <3>1, Zenon DEF Honest
  <2>3. ASSUME args.require_final_provenance
        PROVE  /\ hyf = [head |-> r.hyf_commit, dirty |-> FALSE]
               /\ reticulum = [head |-> PinnedCommit, dirty |-> FALSE]
    <3>1. ProvenanceError(r, args) = "none"
      BY <2>3, AcceptedParts
    <3>2. IsSome(profile)
      BY <2>3, ProfileIsKnown
    <3> HIDE DEF r, profile
    <3>3. GitStateError(hyf, Some(r.hyf_commit)) = "none"
      BY <3>1, Zenon DEF ProvenanceError, FirstOf
    <3>4. GitStateError(reticulum, Some(r.reticulum_commit)) = "none"
      BY <3>1, <3>3, Zenon DEF ProvenanceError, FirstOf
    <3>5. hyf \in HyfTrees /\ reticulum \in ReticulumTrees
      BY DEF ToolInv
    <3> QED
      BY <2>1, <3>2, <3>3, <3>4, <3>5, CleanTree
  <2> QED
    BY <2>1, <2>2, <2>3
<1> QED
  BY <1>1, ToolInvInit, ToolInvStep, PTL DEF ConformanceSpec

-----------------------------------------------------------------------------
(* The wire images.                                                        *)

Byte == 0..255

-----------------------------------------------------------------------------
(* Big-endian numbers.                                                     *)

\* A byte appended to a number, and taken off again.
LEMMA LastByte ==
    /\ \A v \in Nat, b \in Byte : /\ 256 * v + b \in Nat
                                /\ (256 * v + b) \div 256 = v /\ (256 * v + b) % 256 = b
    /\ \A s \in Nat : /\ s \div 256 \in Nat /\ s % 256 \in Byte
                     /\ 256 * (s \div 256) + (s % 256) = s
  BY DEF Byte

\* Shifting is dividing by 256, so many times.
ShiftRun(f, n, i) ==
    f[0] = n /\ \A j \in 0..i : f[j] \in Nat /\ (j > 0 => f[j] = f[j - 1] \div 256)

\* Shifted is the end of such a run.
LEMMA ShiftedRun ==
    ASSUME NEW n \in Nat, NEW i \in Nat
    PROVE  \E f : ShiftRun(f, n, i) /\ Shifted(n, i) = f[i]
<1> DEFINE Rec(f) == f = [j \in 0..i |-> IF j = 0 THEN n ELSE f[j - 1] \div 256]
           step == [j \in 1..i |-> [v \in Nat |-> v \div 256]]
<1>1. IsStep(step, i, Nat)
  BY DEF IsStep
<1>2. PICK f : FollowsStep(f, i, Nat, n, step)
  <2> HIDE DEF step
  <2> QED BY <1>1, RecursionUpTo
<1>3. Rec(f)
  <2>1. f \in [0..i -> Nat] /\ f[0] = n /\ \A j \in 1..i : f[j] = step[j][f[j - 1]]
    BY <1>2 DEF FollowsStep
  <2>2. ASSUME NEW j \in 1..i PROVE f[j] = f[j - 1] \div 256
    <3>1. f[j - 1] \in Nat
      BY <2>1
    <3> QED BY <2>1, <3>1
  <2>3. \A j \in 0..i : f[j] = IF j = 0 THEN n ELSE f[j - 1] \div 256
    BY <2>1, <2>2
  <2> QED BY <2>1, <2>3
<1> DEFINE g == CHOOSE h : Rec(h)
<1>4. Rec(g)
  <2> HIDE DEF Rec
  <2> QED BY <1>3
<1>5. Shifted(n, i) = g[i]
  BY DEF Shifted
<1> HIDE DEF g
<1>6. \A j \in 0..i : g[j] = IF j = 0 THEN n ELSE g[j - 1] \div 256
  BY <1>4
<1> HIDE DEF Rec
<1> DEFINE P == {j \in 0..i : g[j] \in Nat}
<1>7. \A j \in 0..i : j \in P
  <2>1. 0 \in P
    BY <1>6
  <2>2. ASSUME NEW j \in 0..(i - 1), j \in P PROVE j + 1 \in P
    <3>1. j + 1 \in 0..i /\ g[j + 1] = g[j] \div 256
      BY <1>6
    <3> QED BY <2>2, <3>1
  <2> HIDE DEF P
  <2> QED BY <2>1, <2>2, UpTo
<1> QED
  BY <1>5, <1>6, <1>7 DEF ShiftRun

\* Two runs from one number are the same.
LEMMA ShiftRunsAgree ==
    ASSUME NEW n \in Nat, NEW i \in Nat, NEW f, ShiftRun(f, n, i), NEW k \in 0..i,
           NEW g, ShiftRun(g, n, k)
    PROVE  f[k] = g[k]
<1> DEFINE P == {j \in 0..k : f[j] = g[j]}
<1>1. 0 \in P
  BY DEF ShiftRun
<1>2. ASSUME NEW j \in 0..(k - 1), j \in P PROVE j + 1 \in P
  <2>1. j + 1 \in 0..k /\ j + 1 \in 0..i /\ j + 1 > 0 /\ (j + 1) - 1 = j
    OBVIOUS
  <2>2. f[j + 1] = f[j] \div 256 /\ g[j + 1] = g[j] \div 256
    BY <2>1 DEF ShiftRun
  <2> QED BY <1>2, <2>1, <2>2
<1>3. k \in Nat
  OBVIOUS
<1> HIDE DEF P
<1>4. \A j \in 0..k : j \in P
  BY <1>1, <1>2, <1>3, UpTo
<1> QED
  BY <1>3, <1>4 DEF P

\* A number shifted once more is divided once more.
LEMMA ShiftedStep ==
    \A n, i \in Nat : /\ Shifted(n, 0) = n
                      /\ Shifted(n, i) \in Nat
                      /\ Shifted(n, i + 1) = Shifted(n, i) \div 256
<1> SUFFICES ASSUME NEW n \in Nat, NEW i \in Nat
             PROVE  /\ Shifted(n, 0) = n
                    /\ Shifted(n, i) \in Nat
                    /\ Shifted(n, i + 1) = Shifted(n, i) \div 256
  OBVIOUS
<1>1. PICK f : ShiftRun(f, n, i + 1) /\ Shifted(n, i + 1) = f[i + 1]
  BY ShiftedRun
<1>2. PICK g : ShiftRun(g, n, i) /\ Shifted(n, i) = g[i]
  BY ShiftedRun
<1>3. PICK h : ShiftRun(h, n, 0) /\ Shifted(n, 0) = h[0]
  BY ShiftedRun
<1>4. f[i] = g[i]
  <2>1. i \in 0..(i + 1) /\ i + 1 \in Nat
    OBVIOUS
  <2> QED BY <1>1, <1>2, <2>1, ShiftRunsAgree
<1>5. g[i] \in Nat
  BY <1>2 DEF ShiftRun
<1>6. f[i + 1] = f[i] \div 256
  <2>1. i + 1 \in 0..(i + 1) /\ i + 1 > 0 /\ (i + 1) - 1 = i
    OBVIOUS
  <2> QED BY <1>1, <2>1 DEF ShiftRun
<1>7. h[0] = n
  BY <1>3 DEF ShiftRun
<1> QED
  BY <1>1, <1>2, <1>3, <1>4, <1>5, <1>6, <1>7

\* What is shifted out does not come back; a shift keeps the order; a number
\* with a byte appended is that number after one shift.
LEMMA ShiftedFacts ==
    ASSUME NEW w \in Nat
    PROVE  \A i \in 0..w, m, n \in Nat, b \in Byte :
              /\ m <= n => Shifted(m, i) <= Shifted(n, i)
              /\ Shifted(n, i) <= n
              /\ FitsIn(n, i) => FitsIn(n, w)
              /\ Shifted(256 * n + b, i + 1) = Shifted(n, i)
<1> DEFINE P == {i \in 0..w : \A m, n \in Nat, b \in Byte :
                    /\ m <= n => Shifted(m, i) <= Shifted(n, i)
                    /\ Shifted(n, i) <= n
                    /\ Shifted(256 * n + b, i + 1) = Shifted(n, i)}
<1>1. 0 \in P
  <2> SUFFICES ASSUME NEW m \in Nat, NEW n \in Nat, NEW b \in Byte
               PROVE  /\ m <= n => Shifted(m, 0) <= Shifted(n, 0)
                      /\ Shifted(n, 0) <= n
                      /\ Shifted(256 * n + b, 0 + 1) = Shifted(n, 0)
    OBVIOUS
  <2>1. Shifted(m, 0) = m /\ Shifted(n, 0) = n
    BY ShiftedStep
  <2>2. 256 * n + b \in Nat /\ (256 * n + b) \div 256 = n
    BY DEF Byte
  <2>3. 0 \in Nat
    OBVIOUS
  <2>4. Shifted(256 * n + b, 0) = 256 * n + b
    BY <2>2, <2>3, ShiftedStep
  <2>5. Shifted(256 * n + b, 0 + 1) = Shifted(256 * n + b, 0) \div 256
    BY <2>2, <2>3, ShiftedStep
  <2> QED
    BY <2>1, <2>2, <2>4, <2>5
<1>2. ASSUME NEW i \in 0..(w - 1), i \in P PROVE i + 1 \in P
  <2> SUFFICES ASSUME NEW m \in Nat, NEW n \in Nat, NEW b \in Byte
               PROVE  /\ m <= n => Shifted(m, i + 1) <= Shifted(n, i + 1)
                      /\ Shifted(n, i + 1) <= n
                      /\ Shifted(256 * n + b, (i + 1) + 1) = Shifted(n, i + 1)
    OBVIOUS
  <2>3. /\ m <= n => Shifted(m, i) <= Shifted(n, i)
        /\ Shifted(n, i) <= n
        /\ Shifted(256 * n + b, i + 1) = Shifted(n, i)
    BY <1>2
  <2> HIDE DEF P
  <2>0. i \in Nat /\ i + 1 \in Nat /\ 256 * n + b \in Nat
    BY DEF Byte
  <2>1. /\ Shifted(m, i) \in Nat /\ Shifted(m, i + 1) = Shifted(m, i) \div 256
        /\ Shifted(n, i) \in Nat /\ Shifted(n, i + 1) = Shifted(n, i) \div 256
    <3>0. i \in Nat
      OBVIOUS
    <3>1. Shifted(m, i) \in Nat /\ Shifted(m, i + 1) = Shifted(m, i) \div 256
      BY <3>0, ShiftedStep
    <3>2. Shifted(n, i) \in Nat /\ Shifted(n, i + 1) = Shifted(n, i) \div 256
      BY <3>0, ShiftedStep
    <3> QED BY <3>1, <3>2
  <2>2. Shifted(256 * n + b, (i + 1) + 1) = Shifted(256 * n + b, i + 1) \div 256
    BY <2>0, ShiftedStep
  <2>4. \A x, y \in Nat : x <= y => x \div 256 <= y \div 256 /\ y \div 256 <= y
    OBVIOUS
  <2>5. m <= n => Shifted(m, i + 1) <= Shifted(n, i + 1)
    BY <2>1, <2>3, <2>4
  <2>6. Shifted(n, i + 1) <= n
    <3>1. Shifted(n, i) \div 256 <= Shifted(n, i) /\ Shifted(n, i) \div 256 \in Nat
      BY <2>1
    <3> QED
      BY <2>1, <2>3, <3>1
  <2> QED
    BY <2>1, <2>2, <2>3, <2>5, <2>6
<1>3. \A i \in 0..w : i \in P
  <2> HIDE DEF P
  <2> QED BY <1>1, <1>2, UpTo
<1>4. ASSUME NEW i \in 0..w, NEW n \in Nat, FitsIn(n, i) PROVE FitsIn(n, w)
  <2> DEFINE Q == {k \in 0..(w - i) : Shifted(n, i + k) = 0}
  <2>0. w - i \in Nat /\ i + (w - i) = w
    OBVIOUS
  <2>1. 0 \in Q
    BY <1>4 DEF FitsIn
  <2>2. ASSUME NEW k \in 0..(w - i - 1), k \in Q PROVE k + 1 \in Q
    <3>1. Shifted(n, (i + k) + 1) = Shifted(n, i + k) \div 256
      BY ShiftedStep
    <3> QED
      BY <2>2, <3>1
  <2>3. \A k \in 0..(w - i) : k \in Q
    <3> HIDE DEF Q
    <3> QED BY <2>0, <2>1, <2>2, UpTo
  <2> QED
    BY <2>0, <2>3 DEF FitsIn
<1> QED
  BY <1>3, <1>4

\* Reading a number goes through its bytes.
Capped(n) == IF n > Huge THEN Huge ELSE n
NumberRun(f, bytes) ==
    /\ f[0] = 0 /\ f[Len(bytes)] = Number(bytes)
    /\ \A i \in 0..Len(bytes) : f[i] \in Nat
    /\ \A i \in 1..Len(bytes) : f[i] = Capped(256 * f[i - 1] + bytes[i])

\* Number is the end of such a run.
LEMMA NumberRuns ==
    ASSUME NEW bytes \in Seq(Nat)
    PROVE  \E f : NumberRun(f, bytes)
<1> DEFINE K == Len(bytes)
           Rec(f) == f = [i \in 0..K |-> IF i = 0 THEN 0
                            ELSE IF 256 * f[i - 1] + bytes[i] > Huge THEN Huge
                                 ELSE 256 * f[i - 1] + bytes[i]]
           step == [i \in 1..K |-> [v \in Nat |-> Capped(256 * v + bytes[i])]]
<1>0. K \in Nat /\ \A i \in 1..K : bytes[i] \in Nat
  OBVIOUS
<1>1. IsStep(step, K, Nat)
  BY <1>0, BytesAssumption DEF IsStep, Capped
<1>2. PICK f : FollowsStep(f, K, Nat, 0, step)
  <2>1. 0 \in Nat
    OBVIOUS
  <2> HIDE DEF step, K
  <2> QED BY <1>0, <1>1, <2>1, RecursionUpTo
<1>3. Rec(f)
  <2>1. f \in [0..K -> Nat] /\ f[0] = 0 /\ \A i \in 1..K : f[i] = step[i][f[i - 1]]
    BY <1>2 DEF FollowsStep
  <2>2. ASSUME NEW i \in 1..K PROVE f[i] = Capped(256 * f[i - 1] + bytes[i])
    <3>1. i - 1 \in 0..K
      BY <1>0
    <3>2. f[i - 1] \in Nat
      BY <2>1, <3>1
    <3> QED BY <2>1, <3>2
  <2>3. \A i \in 0..K : f[i] = IF i = 0 THEN 0 ELSE Capped(256 * f[i - 1] + bytes[i])
    BY <1>0, <2>1, <2>2
  <2> QED BY <2>1, <2>3 DEF Capped
<1> DEFINE g == CHOOSE h : Rec(h)
<1>4. Rec(g)
  <2> HIDE DEF Rec
  <2> QED BY <1>3
<1>5. Number(bytes) = g[K]
  BY DEF Number
<1> HIDE DEF g
<1>6. \A i \in 0..K : g[i] = IF i = 0 THEN 0 ELSE Capped(256 * g[i - 1] + bytes[i])
  BY <1>4 DEF Capped
<1> HIDE DEF Rec
<1> DEFINE P == {i \in 0..K : g[i] \in Nat}
<1>7. \A i \in 0..K : i \in P
  <2>1. 0 \in P
    BY <1>0, <1>6
  <2>2. ASSUME NEW i \in 0..(K - 1), i \in P PROVE i + 1 \in P
    <3>1. i + 1 \in 0..K /\ i + 1 \in 1..K /\ i + 1 # 0 /\ (i + 1) - 1 = i
      BY <1>0
    <3>2. g[i + 1] = Capped(256 * g[i] + bytes[i + 1])
      BY <1>6, <3>1
    <3>3. g[i] \in Nat /\ bytes[i + 1] \in Nat
      BY <1>0, <2>2, <3>1
    <3>4. Capped(256 * g[i] + bytes[i + 1]) \in Nat
      BY <3>3, BytesAssumption DEF Capped
    <3> QED BY <3>1, <3>2, <3>4
  <2> HIDE DEF P
  <2> QED BY <1>0, <2>1, <2>2, UpTo
<1>8. g[0] = 0 /\ \A i \in 1..K : g[i] = Capped(256 * g[i - 1] + bytes[i])
  BY <1>0, <1>6
<1> QED
  BY <1>5, <1>7, <1>8 DEF NumberRun

\* A number in big-endian bytes is read again, if it fits into them.
LEMMA NumberOfBytes ==
    ASSUME NEW n \in Nat, n <= Huge, NEW w \in Nat, FitsIn(n, w)
    PROVE  /\ BeBytes(n, w) \in Seq(Byte) /\ Len(BeBytes(n, w)) = w
           /\ Number(BeBytes(n, w)) = n
<1> DEFINE bytes == BeBytes(n, w)
<1>0. \A i \in 0..w : Shifted(n, i) \in Nat /\ Shifted(n, i + 1) = Shifted(n, i) \div 256
  <2> SUFFICES ASSUME NEW i \in 0..w
               PROVE  Shifted(n, i) \in Nat /\ Shifted(n, i + 1) = Shifted(n, i) \div 256
    OBVIOUS
  <2>1. i \in Nat
    OBVIOUS
  <2>2. Shifted(n, i) \in Nat
    BY <2>1, ShiftedStep
  <2>3. Shifted(n, i + 1) = Shifted(n, i) \div 256
    BY <2>1, ShiftedStep
  <2> QED BY <2>2, <2>3
<1>1. \A i \in 1..w : bytes[i] = Shifted(n, w - i) % 256 /\ bytes[i] \in Byte
  <2> SUFFICES ASSUME NEW i \in 1..w
               PROVE bytes[i] = Shifted(n, w - i) % 256 /\ bytes[i] \in Byte
    OBVIOUS
  <2>1. w - i \in 0..w
    OBVIOUS
  <2>2. Shifted(n, w - i) \in Nat
    BY <1>0, <2>1
  <2>3. Shifted(n, w - i) % 256 \in 0..255
    BY <2>2
  <2> QED BY <2>3 DEF BeBytes, Byte
<1>2. bytes \in [1..w -> Byte]
  BY <1>1 DEF BeBytes
<1>3. bytes \in Seq(Byte) /\ Len(bytes) = w /\ bytes \in Seq(Nat)
  <2>1. Byte \subseteq Nat
    BY DEF Byte
  <2>2. bytes \in Seq(Byte) /\ Len(bytes) = w
    <3> HIDE DEF bytes
    <3> QED BY <1>2, IsASeq, LenProperties
  <2> HIDE DEF bytes
  <2> QED BY <2>1, <2>2, SeqMonotonic
<1> HIDE DEF bytes
<1>4. PICK f : NumberRun(f, bytes)
  BY <1>3, NumberRuns
<1> DEFINE P == {i \in 0..w : f[i] = Shifted(n, w - i)}
<1>5. 0 \in P
  BY <1>4 DEF NumberRun, FitsIn
<1>6. ASSUME NEW i \in 0..(w - 1), i \in P PROVE i + 1 \in P
  <2>1. i + 1 \in 1..w /\ (i + 1) - 1 = i /\ w - (i + 1) \in 0..w /\ (w - (i + 1)) + 1 = w - i
    OBVIOUS
  <2>2. f[i + 1] = Capped(256 * f[i] + bytes[i + 1])
    BY <1>3, <1>4, <2>1 DEF NumberRun
  <2> DEFINE s == Shifted(n, w - (i + 1))
  <2>3. s \in Nat /\ f[i] = s \div 256 /\ bytes[i + 1] = s % 256
    BY <1>0, <1>1, <1>6, <2>1
  <2>4. s <= n
    BY <2>1, ShiftedFacts DEF Byte
  <2> HIDE DEF s
  <2>5. 256 * (s \div 256) + (s % 256) = s
    BY <2>3, LastByte
  <2>6. f[i + 1] = s
    BY <2>2, <2>3, <2>4, <2>5, BytesAssumption DEF Capped
  <2> QED BY <2>1, <2>6 DEF s
<1>7. \A i \in 0..w : i \in P
  <2> HIDE DEF P
  <2> QED BY <1>5, <1>6, UpTo
<1>8. f[w] = Shifted(n, 0)
  BY <1>7
<1>9. Shifted(n, 0) = n
  BY ShiftedStep
<1> QED
  BY <1>3, <1>4, <1>8, <1>9 DEF NumberRun, bytes

\* And bytes whose numbers are all below Huge are written again as they
\* were.
LEMMA BytesOfNumber ==
    ASSUME NEW w \in Nat, ~FitsIn(Huge, w), NEW bytes \in Seq(Byte), Len(bytes) = w
    PROVE  /\ Number(bytes) \in Nat /\ Number(bytes) <= Huge /\ FitsIn(Number(bytes), w)
           /\ BeBytes(Number(bytes), w) = bytes
<1>0. bytes \in Seq(Nat) /\ \A i \in 1..w : bytes[i] \in Byte
  <2>1. Byte \subseteq Nat
    BY DEF Byte
  <2>2. bytes \in Seq(Nat)
    BY <2>1, SeqMonotonic
  <2> QED BY <2>2
<1>1. PICK f : NumberRun(f, bytes)
  BY <1>0, NumberRuns
<1> DEFINE P == {i \in 0..w : /\ f[i] <= Huge /\ Shifted(f[i], i) = 0
                              /\ i > 0 => f[i] = 256 * f[i - 1] + bytes[i]}
<1>2. 0 \in P
  <2>1. f[0] = 0
    BY <1>1 DEF NumberRun
  <2>2. 0 \in Nat /\ 0 \in 0..w
    OBVIOUS
  <2>3. Shifted(0, 0) = 0
    BY <2>2, ShiftedStep
  <2>4. 0 <= Huge
    BY BytesAssumption
  <2> QED
    BY <2>1, <2>2, <2>3, <2>4
<1>3. ASSUME NEW i \in 0..(w - 1), i \in P PROVE i + 1 \in P
  <2>1. i + 1 \in 1..w /\ (i + 1) - 1 = i /\ i \in 0..w /\ i + 1 \in 0..w
    OBVIOUS
  <2> DEFINE m == 256 * f[i] + bytes[i + 1]
  <2>2. f[i + 1] = Capped(m)
    BY <1>1, <2>1 DEF NumberRun
  <2>3. f[i] \in Nat /\ bytes[i + 1] \in Byte
    BY <1>0, <1>1, <2>1 DEF NumberRun
  <2>4. m \in Nat
    BY <2>3, LastByte, ZenonT(40)
  <2>5. Shifted(m, i + 1) = 0
    <3>1. \A v \in Nat, b \in Byte : Shifted(256 * v + b, i + 1) = Shifted(v, i)
      BY <2>1, ShiftedFacts
    <3>2. Shifted(m, i + 1) = Shifted(f[i], i)
      BY <2>3, <3>1
    <3> QED BY <1>3, <3>2
  <2> HIDE DEF m
  <2>6. m <= Huge
    <3> SUFFICES ASSUME ~(m <= Huge) PROVE FALSE
      OBVIOUS
    <3>0. Huge \in Nat /\ Huge <= m /\ i + 1 \in Nat
      BY <2>1, <2>4, BytesAssumption
    <3>1. Shifted(Huge, i + 1) <= Shifted(m, i + 1)
      <4>1. 0 \in Byte
        BY DEF Byte
      <4> HIDE DEF P
      <4> QED BY <2>1, <2>4, <3>0, <4>1, ShiftedFacts
    <3>2. Shifted(Huge, i + 1) \in Nat
      <4> HIDE DEF P
      <4> QED BY <3>0, ShiftedStep
    <3>3. FitsIn(Huge, i + 1)
      BY <2>5, <3>1, <3>2 DEF FitsIn
    <3>4. FitsIn(Huge, w)
      <4>1. 0 \in Byte
        BY DEF Byte
      <4> HIDE DEF P
      <4> QED BY <2>1, <3>0, <3>3, <4>1, ShiftedFacts
    <3> QED BY <3>4
  <2>7. f[i + 1] = m
    BY <2>2, <2>4, <2>6, BytesAssumption DEF Capped
  <2> QED BY <2>1, <2>5, <2>6, <2>7 DEF m
<1>4. \A i \in 0..w : i \in P
  <2> HIDE DEF P
  <2> QED BY <1>2, <1>3, UpTo
<1>5. Number(bytes) = f[w] /\ f[w] \in Nat /\ f[w] <= Huge /\ Shifted(f[w], w) = 0
  BY <1>1, <1>4 DEF NumberRun
<1>6. \A i \in 1..w : f[i - 1] = f[i] \div 256 /\ bytes[i] = f[i] % 256
  <2> SUFFICES ASSUME NEW i \in 1..w
               PROVE  f[i - 1] = f[i] \div 256 /\ bytes[i] = f[i] % 256
    OBVIOUS
  <2>1. f[i] = 256 * f[i - 1] + bytes[i] /\ bytes[i] \in Byte /\ f[i - 1] \in Nat
    <3>1. i - 1 \in 0..w /\ i \in 0..w /\ i > 0
      OBVIOUS
    <3>2. f[i - 1] \in Nat
      BY <1>1, <3>1 DEF NumberRun
    <3>3. f[i] = 256 * f[i - 1] + bytes[i]
      BY <1>4, <3>1
    <3> QED BY <1>0, <3>2, <3>3
  <2> DEFINE v == f[i - 1]
             b == bytes[i]
  <2>2. v \in Nat /\ b \in Byte
    BY <2>1
  <2> HIDE DEF P, v, b
  <2>3. (256 * v + b) \div 256 = v /\ (256 * v + b) % 256 = b
    BY <2>2, LastByte, ZenonT(40)
  <2> QED BY <2>1, <2>3 DEF v, b
<1> HIDE DEF P
<1> DEFINE Q == {k \in 0..w : Shifted(f[w], k) = f[w - k]}
<1>7. \A k \in 0..w : k \in Q
  <2>1. 0 \in Q
    <3>1. Shifted(f[w], 0) = f[w]
      BY <1>5, ShiftedStep, Zenon
    <3> QED BY <3>1
  <2>2. ASSUME NEW k \in 0..(w - 1), k \in Q PROVE k + 1 \in Q
    <3>1. w - k \in 1..w /\ (w - k) - 1 = w - (k + 1) /\ k \in Nat /\ k + 1 \in 0..w
      OBVIOUS
    <3>2. Shifted(f[w], k + 1) = Shifted(f[w], k) \div 256
      <4> DEFINE n == f[w]
      <4>1. n \in Nat
        BY <1>5
      <4> HIDE DEF Q, n
      <4>2. Shifted(n, k + 1) = Shifted(n, k) \div 256
        BY <3>1, <4>1, ShiftedStep
      <4> QED BY <4>2 DEF n
    <3>3. f[w - (k + 1)] = f[w - k] \div 256
      BY <1>6, <3>1
    <3> QED BY <2>2, <3>1, <3>2, <3>3
  <2> HIDE DEF Q
  <2> QED BY <2>1, <2>2, UpTo
<1>8. BeBytes(f[w], w) = bytes
  <2>1. bytes \in [1..w -> Byte]
    BY LenProperties
  <2>2. ASSUME NEW i \in 1..w PROVE Shifted(f[w], w - i) % 256 = bytes[i]
    <3>1. w - i \in 0..w /\ w - (w - i) = i
      OBVIOUS
    <3>2. Shifted(f[w], w - i) = f[i]
      BY <1>7, <3>1
    <3> QED BY <1>6, <3>2
  <2> QED BY <2>1, <2>2 DEF BeBytes
<1> QED
  BY <1>5, <1>8 DEF FitsIn

-----------------------------------------------------------------------------
(* Scans.                                                                  *)


\* One step of a scan: the field `name` has n bytes and is refused with e,
\* unless that is "none".
Advance(c, name, n, e) ==
    IF c.error /= "none" THEN c
    ELSE IF Short(c, n).error /= "none" THEN Short(c, n)
         ELSE [Keep(Short(c, n), name) EXCEPT !.error = e]

\* f goes through the fields of a wire image: field i has n[i] bytes and the
\* error e[i].
Scans(f, wire, names, n, e) ==
    /\ f[0] = Cursor(wire)
    /\ \A i \in 1..Len(names) : f[i] = Advance(f[i - 1], names[i], n[i], e[i])

\* The first i fields of F.
FirstNames(names, i) == {names[j] : j \in 1..i}
FirstFields(F, names, i) == [x \in FirstNames(names, i) |-> F[x]]
Distinct(names) == \A i, j \in 1..Len(names) : names[i] = names[j] => i = j

\* A cursor that is at `at` and has read `fields`.
IsAt(c, wire, at, fields) ==
    /\ DOMAIN c = {"input", "at", "got", "fields", "error"}
    /\ c.input = wire /\ c.at = at /\ c.fields = fields /\ c.error = "none"
    /\ at \in 0..Len(wire)

\* A read takes the next n bytes if there are so many.
Kept(fields, name, got) ==
    [x \in DOMAIN fields \cup {name} |-> IF x = name THEN got ELSE fields[x]]
Reads(c, wire, at, fields, name, n, e) ==
    LET d == Advance(c, name, n, e)
        got == SubSeq(wire, at + 1, at + n)
    IN  IF at + n > Len(wire) THEN d.error = "InputTooShort"
        ELSE /\ d.error = e /\ got \in Seq(Byte) /\ Len(got) = n
             /\ Keep(Short(c, n), name).fields = Kept(fields, name, got)
             /\ e = "none" => IsAt(d, wire, at + n, Kept(fields, name, got))

\* That is what one step of a scan does.
LEMMA AdvanceReads ==
    ASSUME NEW wire \in Seq(Byte), NEW at, NEW fields, NEW c, IsAt(c, wire, at, fields),
           NEW name, NEW n \in Nat, NEW e
    PROVE  Reads(c, wire, at, fields, name, n, e)
<1> DEFINE d == Advance(c, name, n, e)
           got == SubSeq(wire, at + 1, at + n)
           r == Short(c, n)
           kept == Kept(fields, name, got)
<1>0. /\ c.input = wire /\ c.at = at /\ c.fields = fields /\ c.error = "none"
      /\ at \in 0..Len(wire) /\ at \in Nat /\ Len(wire) \in Nat
      /\ DOMAIN c = {"input", "at", "got", "fields", "error"}
  BY DEF IsAt
<1>1. CASE at + n > Len(wire)
  <2>1. r.error = "InputTooShort"
    BY <1>0, <1>1 DEF Short, Read, Fail
  <2>2. d.error = "InputTooShort"
    BY <1>0, <2>1 DEF Advance
  <2> QED BY <1>1, <2>2 DEF Reads
<1>2. CASE ~(at + n > Len(wire))
  <2>1. /\ DOMAIN r = DOMAIN c /\ r.input = wire /\ r.at = at + n /\ r.got = got
        /\ r.fields = fields /\ r.error = "none"
    BY <1>0, <1>2 DEF Short, Read, Fail
  <2> HIDE DEF r, got, kept
  <2>2. /\ DOMAIN Keep(r, name) = DOMAIN c /\ Keep(r, name).input = wire
        /\ Keep(r, name).at = at + n /\ Keep(r, name).fields = kept
    BY <1>0, <2>1 DEF Keep, kept, Kept
  <2>3. got \in Seq(Byte) /\ Len(got) = n
    <3>1. at + 1 \in Int /\ at + n \in Int /\ at + 1 >= 1 /\ at + n <= Len(wire)
      BY <1>0, <1>2
    <3>2. \A i \in (at + 1)..(at + n) : i \in 1..Len(wire)
      BY <1>0, <3>1
    <3>3. \A i \in 1..n : wire[at + 1 + i - 1] \in Byte
      BY <1>0, <3>1
    <3>4. got = [i \in 1..n |-> wire[at + 1 + i - 1]]
      BY <1>0, <3>1 DEF got
    <3> QED BY <3>3, <3>4
  <2>4. d = [Keep(r, name) EXCEPT !.error = e]
    BY <1>0, <2>1 DEF Advance, r
  <2> HIDE DEF d
  <2>5. e = "none" => IsAt(d, wire, at + n, kept)
    BY <1>0, <1>2, <2>2, <2>4 DEF IsAt
  <2>6. d.error = e
    BY <1>0, <2>2, <2>4
  <2> QED BY <1>2, <2>2, <2>3, <2>5, <2>6 DEF Reads, d, r, got, kept
<1> QED BY <1>1, <1>2

\* The first names grow by one, which is a new one.
LEMMA OneMoreName ==
    ASSUME NEW names, Len(names) \in Nat, Distinct(names), NEW i \in 1..Len(names)
    PROVE  /\ FirstNames(names, i) = FirstNames(names, i - 1) \cup {names[i]}
           /\ names[i] \notin FirstNames(names, i - 1)
           /\ FirstNames(names, 0) = {}
<1>1. 1..i = 1..(i - 1) \cup {i}
  OBVIOUS
<1>2. names[i] \notin FirstNames(names, i - 1)
  BY DEF FirstNames, Distinct
<1> QED
  BY <1>1, <1>2 DEF FirstNames

\* A scan without an error had none before.
LEMMA NoErrorBefore ==
    ASSUME NEW f, NEW wire, NEW names, NEW n, NEW e, Scans(f, wire, names, n, e),
           Len(names) \in Nat, f[Len(names)].error = "none"
    PROVE  \A i \in 0..Len(names) : f[i].error = "none"
<1> DEFINE K == Len(names)
           P == {k \in 0..K : f[K - k].error = "none"}
<1>1. 0 \in P
  OBVIOUS
<1>2. ASSUME NEW k \in 0..(K - 1), k \in P PROVE k + 1 \in P
  <2>1. K - k \in 1..K /\ (K - k) - 1 = K - (k + 1)
    OBVIOUS
  <2>2. f[K - k] = Advance(f[K - (k + 1)], names[K - k], n[K - k], e[K - k])
    BY <2>1 DEF Scans
  <2>3. f[K - (k + 1)].error = "none"
    BY <1>2, <2>2 DEF Advance
  <2> QED BY <2>3
<1>3. \A k \in 0..K : k \in P
  <2> HIDE DEF P
  <2> QED BY <1>1, <1>2, UpTo
<1> SUFFICES ASSUME NEW i \in 0..K PROVE f[i].error = "none"
  OBVIOUS
<1>4. K - i \in 0..K /\ K - (K - i) = i
  OBVIOUS
<1> QED BY <1>3, <1>4

\* What a scan without an error has read, if the lengths it reads are
\* numbers as long as the fields before are bytes.
Fields(names) == [FirstNames(names, Len(names)) -> Seq(Byte)]
LensAreNatural(f, names, n) ==
    \A i \in 1..Len(names) :
       f[i - 1].fields \in [FirstNames(names, i - 1) -> Seq(Byte)] => n[i] \in Nat
HasRead(f, wire, names, n, e, F) ==
    /\ F \in Fields(names)
    /\ \A i \in 0..Len(names) : IsAt(f[i], wire, f[i].at, FirstFields(F, names, i))
    /\ f[0].at = 0
    /\ \A i \in 1..Len(names) :
          /\ n[i] \in Nat /\ e[i] = "none" /\ f[i].at = f[i - 1].at + n[i]
          /\ F[names[i]] = SubSeq(wire, f[i - 1].at + 1, f[i].at)
          /\ Len(F[names[i]]) = n[i]
          /\ Keep(Short(f[i - 1], n[i]), names[i]).fields = FirstFields(F, names, i)

\* What a scan without an error has read.
LEMMA ScanReads ==
    ASSUME NEW f, NEW wire \in Seq(Byte), NEW names, NEW n, NEW e,
           Scans(f, wire, names, n, e), Len(names) \in Nat, Distinct(names),
           f[Len(names)].error = "none", LensAreNatural(f, names, n)
    PROVE  HasRead(f, wire, names, n, e, f[Len(names)].fields)
<1> DEFINE K == Len(names)
           F == f[K].fields
           got(i) == SubSeq(wire, f[i - 1].at + 1, f[i - 1].at + n[i])
           next(i) == [x \in FirstNames(names, i) |->
                          IF x = names[i] THEN got(i) ELSE f[i - 1].fields[x]]
           Typed(i) == /\ f[i].fields \in [FirstNames(names, i) -> Seq(Byte)]
                       /\ IsAt(f[i], wire, f[i].at, f[i].fields)
           P == {i \in 0..K : Typed(i)}
<1>1. \A i \in 0..K : f[i].error = "none"
  BY NoErrorBefore
<1>2. 0 \in P /\ f[0].at = 0
  <2>1. f[0] = Cursor(wire)
    BY DEF Scans
  <2>2. FirstNames(names, 0) = {}
    BY DEF FirstNames
  <2>3. f[0].fields = <<>> /\ f[0].at = 0
    BY <2>1 DEF Cursor
  <2>4. IsAt(f[0], wire, 0, <<>>)
    BY <2>1 DEF IsAt, Cursor
  <2>5. <<>> \in [{} -> Seq(Byte)]
    OBVIOUS
  <2>6. Typed(0)
    BY <2>2, <2>3, <2>4, <2>5
  <2> HIDE DEF Typed
  <2> QED BY <2>3, <2>6
<1>3. ASSUME NEW i \in 1..K, Typed(i - 1)
      PROVE  /\ n[i] \in Nat /\ e[i] = "none" /\ got(i) \in Seq(Byte) /\ Len(got(i)) = n[i]
             /\ f[i].at = f[i - 1].at + n[i] /\ f[i].fields = next(i)
             /\ Keep(Short(f[i - 1], n[i]), names[i]).fields = next(i)
             /\ IsAt(f[i], wire, f[i].at, f[i].fields)
  <2>1. n[i] \in Nat
    BY <1>3 DEF LensAreNatural
  <2>2. f[i] = Advance(f[i - 1], names[i], n[i], e[i])
    BY DEF Scans
  <2>3. f[i].error = "none"
    BY <1>1
  <2>4. IsAt(f[i - 1], wire, f[i - 1].at, f[i - 1].fields)
    BY <1>3
  <2>5. DOMAIN f[i - 1].fields \cup {names[i]} = FirstNames(names, i)
    <3>1. DOMAIN f[i - 1].fields = FirstNames(names, i - 1)
      BY <1>3
    <3> QED BY <3>1, OneMoreName
  <2> DEFINE c == f[i - 1]
             m == n[i]
             u == e[i]
             name == names[i]
             a == c.at
             fs == c.fields
             g == SubSeq(wire, a + 1, a + m)
             kept == Kept(fs, name, g)
  <2>6. Reads(c, wire, a, fs, name, m, u)
    <3>1. m \in Nat /\ IsAt(c, wire, a, fs)
      BY <2>1, <2>4
    <3> HIDE DEF c, m, u, name, a, fs, P, Typed, got, next, F, K
    <3> QED BY <3>1, AdvanceReads
  <2>7. kept = next(i)
    BY <2>5 DEF Kept
  <2>8. ~(a + m > Len(wire))
    <3>1. a \in Nat /\ Len(wire) \in Nat
      BY <2>4 DEF IsAt
    <3>2. ~(a + m > Len(wire))
      BY <2>2, <2>3, <2>6 DEF Reads
    <3> QED BY <2>1, <3>1, <3>2
  <2>9. u = "none" /\ IsAt(f[i], wire, a + m, next(i))
    BY <2>2, <2>3, <2>6, <2>7, <2>8 DEF Reads
  <2>10. f[i].at = a + m /\ f[i].fields = next(i)
    BY <2>9 DEF IsAt
  <2> QED BY <2>1, <2>6, <2>7, <2>8, <2>9, <2>10 DEF Reads
<1>4. ASSUME NEW i \in 0..(K - 1), i \in P PROVE i + 1 \in P
  <2>1. i + 1 \in 1..K /\ (i + 1) - 1 = i
    OBVIOUS
  <2>2. Typed((i + 1) - 1)
    BY <1>4, <2>1
  <2>3. /\ f[i + 1].fields = next(i + 1) /\ got(i + 1) \in Seq(Byte)
        /\ IsAt(f[i + 1], wire, f[i + 1].at, f[i + 1].fields)
    <3> HIDE DEF Typed, got, next
    <3> QED BY <1>3, <2>1, <2>2
  <2>4. f[i].fields \in [FirstNames(names, i) -> Seq(Byte)]
    BY <1>4
  <2>5. FirstNames(names, i + 1) = FirstNames(names, i) \cup {names[i + 1]}
    BY <2>1, OneMoreName
  <2>6. next(i + 1) \in [FirstNames(names, i + 1) -> Seq(Byte)]
    <3> DEFINE g == got(i + 1)
               fs == f[i].fields
    <3>1. next(i + 1) = [x \in FirstNames(names, i + 1) |-> IF x = names[i + 1] THEN g ELSE fs[x]]
      BY <2>1
    <3> HIDE DEF g, fs
    <3> QED BY <2>3, <2>4, <2>5, <3>1 DEF g, fs
  <2>7. Typed(i + 1)
    BY <2>3, <2>6
  <2> HIDE DEF Typed
  <2> QED BY <2>1, <2>7
<1>5. \A i \in 0..K : i \in P
  <2> HIDE DEF P
  <2> QED BY <1>2, <1>4, UpTo
<1>6. \A i \in 1..K : Typed(i - 1)
  BY <1>5
<1>7. \A i \in 1..K : 
             /\ n[i] \in Nat /\ e[i] = "none" /\ got(i) \in Seq(Byte) /\ Len(got(i)) = n[i]
             /\ f[i].at = f[i - 1].at + n[i] /\ f[i].fields = next(i)
             /\ Keep(Short(f[i - 1], n[i]), names[i]).fields = next(i)
  <2> HIDE DEF Typed, got, next
  <2> QED BY <1>3, <1>6
<1>8. ASSUME NEW j \in 0..K, NEW x \in FirstNames(names, j) PROVE F[x] = f[j].fields[x]
  <2> DEFINE Q == {k \in 0..(K - j) : x \in FirstNames(names, j + k) /\ f[j + k].fields[x] = f[j].fields[x]}
  <2>1. 0 \in Q
    OBVIOUS
  <2>2. ASSUME NEW k \in 0..(K - j - 1), k \in Q PROVE k + 1 \in Q
    <3> DEFINE i == j + (k + 1)
    <3>1. i \in 1..K /\ i - 1 = j + k /\ k + 1 \in 0..(K - j)
      OBVIOUS
    <3>2. /\ FirstNames(names, i) = FirstNames(names, i - 1) \cup {names[i]}
          /\ names[i] \notin FirstNames(names, i - 1)
      <4> HIDE DEF i, Q
      <4> QED BY <3>1, OneMoreName
    <3>3. x \in FirstNames(names, i - 1) /\ f[i - 1].fields[x] = f[j].fields[x]
      BY <2>2, <3>1
    <3>4. f[i].fields = next(i)
      BY <1>7, <3>1
    <3> HIDE DEF i
    <3>5. x \in FirstNames(names, i) /\ f[i].fields[x] = f[i - 1].fields[x]
      BY <3>2, <3>3, <3>4
    <3> QED BY <3>1, <3>3, <3>5 DEF i
  <2>3. \A k \in 0..(K - j) : k \in Q
    <3>1. K - j \in Nat
      OBVIOUS
    <3> HIDE DEF Q
    <3> QED BY <2>1, <2>2, <3>1, UpTo
  <2>4. K - j \in 0..(K - j) /\ j + (K - j) = K
    OBVIOUS
  <2> QED BY <2>3, <2>4
<1>9. \A i \in 0..K : f[i].fields = FirstFields(F, names, i)
  <2> SUFFICES ASSUME NEW i \in 0..K PROVE f[i].fields = FirstFields(F, names, i)
    OBVIOUS
  <2>1. f[i].fields \in [FirstNames(names, i) -> Seq(Byte)]
    BY <1>5
  <2>2. \A x \in FirstNames(names, i) : F[x] = f[i].fields[x]
    BY <1>8
  <2> HIDE DEF F
  <2> QED BY <2>1, <2>2 DEF FirstFields
<1>10. F \in [FirstNames(names, K) -> Seq(Byte)]
  BY <1>5
<1>11. \A i \in 0..K : IsAt(f[i], wire, f[i].at, FirstFields(F, names, i))
  BY <1>5, <1>9
<1>12. \A i \in 1..K : F[names[i]] = got(i)
  <2> SUFFICES ASSUME NEW i \in 1..K PROVE F[names[i]] = got(i)
    OBVIOUS
  <2>1. names[i] \in FirstNames(names, i)
    BY DEF FirstNames
  <2>2. f[i].fields = next(i)
    BY <1>7
  <2>3. f[i].fields[names[i]] = got(i)
    BY <2>1, <2>2
  <2>4. F[names[i]] = f[i].fields[names[i]]
    BY <1>8, <2>1
  <2> QED BY <2>3, <2>4
<1>13. \A i \in 1..K :
          /\ F[names[i]] = SubSeq(wire, f[i - 1].at + 1, f[i].at)
          /\ Len(F[names[i]]) = n[i]
          /\ Keep(Short(f[i - 1], n[i]), names[i]).fields = FirstFields(F, names, i)
  <2> SUFFICES ASSUME NEW i \in 1..K
               PROVE  /\ F[names[i]] = SubSeq(wire, f[i - 1].at + 1, f[i].at)
                      /\ Len(F[names[i]]) = n[i]
                      /\ Keep(Short(f[i - 1], n[i]), names[i]).fields = FirstFields(F, names, i)
    OBVIOUS
  <2>1. i \in 0..K
    OBVIOUS
  <2>2. Keep(Short(f[i - 1], n[i]), names[i]).fields = f[i].fields
    BY <1>7
  <2>3. f[i].fields = FirstFields(F, names, i)
    BY <1>9, <2>1
  <2>4. F[names[i]] = got(i) /\ Len(got(i)) = n[i] /\ f[i].at = f[i - 1].at + n[i]
    BY <1>7, <1>12
  <2> QED BY <2>2, <2>3, <2>4
<1>14. f[0].at = 0
  BY <1>2
<1>15. \A i \in 1..K : n[i] \in Nat /\ e[i] = "none" /\ f[i].at = f[i - 1].at + n[i]
  BY <1>7
<1> HIDE DEF P, got, next, Typed
<1> QED
  BY <1>10, <1>11, <1>13, <1>14, <1>15 DEF HasRead, Fields

-----------------------------------------------------------------------------
(* Fields one behind the other.                                            *)

\* W[i] has the first i fields of F.
Joined(W, F, names) ==
    W[0] = <<>> /\ \A i \in 1..Len(names) : W[i] = W[i - 1] \o F[names[i]]

\* The first a bytes and those up to b are the first b.
LEMMA AdjacentParts ==
    ASSUME NEW wire \in Seq(Byte), NEW a \in Nat, NEW b \in Nat, a <= b, b <= Len(wire)
    PROVE  SubSeq(wire, 1, b) = SubSeq(wire, 1, a) \o SubSeq(wire, a + 1, b)
  BY ConcatAdjacentSubSeq

\* What a scan has read, joined, is what it has passed.
LEMMA ReadsJoin ==
    ASSUME NEW f, NEW wire \in Seq(Byte), NEW names, Len(names) \in Nat, NEW n, NEW e, NEW F,
           HasRead(f, wire, names, n, e, F)
    PROVE  \E W : Joined(W, F, names) /\ W[Len(names)] = SubSeq(wire, 1, f[Len(names)].at)
<1> DEFINE K == Len(names)
           W == [i \in 0..K |-> SubSeq(wire, 1, f[i].at)]
<1>0. \A i \in 0..K : f[i].at \in Nat /\ f[i].at <= Len(wire)
  BY DEF HasRead, IsAt
<1>1. W[0] = <<>>
  BY DEF HasRead
<1>2. ASSUME NEW i \in 1..K PROVE W[i] = W[i - 1] \o F[names[i]]
  <2> DEFINE a == f[i - 1].at
             b == f[i].at
  <2>1. i - 1 \in 0..K /\ i \in 0..K
    OBVIOUS
  <2>2. b = a + n[i] /\ n[i] \in Nat /\ F[names[i]] = SubSeq(wire, a + 1, b)
    BY DEF HasRead
  <2>3. a \in Nat /\ b \in Nat /\ b <= Len(wire)
    BY <1>0, <2>1
  <2>4. W[i] = SubSeq(wire, 1, b) /\ W[i - 1] = SubSeq(wire, 1, a)
    BY <2>1
  <2> HIDE DEF a, b, W
  <2>5. SubSeq(wire, 1, b) = SubSeq(wire, 1, a) \o SubSeq(wire, a + 1, b)
    <3>1. a <= b
      BY <2>2, <2>3
    <3> QED BY <2>3, <3>1, AdjacentParts
  <2> QED BY <2>2, <2>4, <2>5
<1>3. W[K] = SubSeq(wire, 1, f[K].at)
  <2>1. K \in 0..K
    OBVIOUS
  <2> QED BY <2>1
<1> HIDE DEF W
<1> QED BY <1>1, <1>2, <1>3 DEF Joined

\* Of joined fields each is where the ones before it end.
HasParts(W, F, names) ==
    /\ \A i \in 0..Len(names) : W[i] \in Seq(Byte) /\ Len(W[i]) <= Len(W[Len(names)])
    /\ Len(W[0]) = 0
    /\ \A i \in 1..Len(names) :
          /\ Len(W[i]) = Len(W[i - 1]) + Len(F[names[i]])
          /\ F[names[i]] = SubSeq(W[Len(names)], Len(W[i - 1]) + 1, Len(W[i]))

\* So it is with any joined fields.
LEMMA JoinedParts ==
    ASSUME NEW names, Len(names) \in Nat, NEW F \in Fields(names), NEW W,
           Joined(W, F, names)
    PROVE  HasParts(W, F, names)
<1> DEFINE K == Len(names)
           wire == W[K]
           P == {i \in 0..K : W[i] \in Seq(Byte)}
<1>0. \A i \in 1..K : F[names[i]] \in Seq(Byte)
  BY DEF FirstNames, Fields
<1>1. \A i \in 0..K : i \in P
  <2>1. 0 \in P
    <3>1. W[0] = <<>> /\ 0 \in 0..K
      BY DEF Joined
    <3>2. <<>> \in Seq(Byte)
      OBVIOUS
    <3>3. W[0] \in Seq(Byte)
      BY <3>1, <3>2
    <3> QED BY <3>1, <3>3
  <2>2. ASSUME NEW i \in 0..(K - 1), i \in P PROVE i + 1 \in P
    <3>1. i + 1 \in 1..K /\ (i + 1) - 1 = i
      OBVIOUS
    <3>2. W[i + 1] = W[i] \o F[names[i + 1]] /\ F[names[i + 1]] \in Seq(Byte)
      BY <1>0, <3>1 DEF Joined
    <3>3. W[i] \in Seq(Byte)
      BY <2>2
    <3>4. W[i + 1] \in Seq(Byte)
      BY <3>2, <3>3, ConcatProperties
    <3> QED BY <3>1, <3>4
  <2> HIDE DEF P
  <2> QED BY <2>1, <2>2, UpTo
<1>2. \A i \in 0..K : W[i] \in Seq(Byte)
  BY <1>1
<1> HIDE DEF P
<1>3. ASSUME NEW i \in 1..K
      PROVE  /\ Len(W[i]) = Len(W[i - 1]) + Len(F[names[i]]) /\ Len(W[i]) \in Nat
             /\ Len(W[i - 1]) \in Nat /\ Len(F[names[i]]) \in Nat
             /\ \A t \in 1..Len(W[i - 1]) : W[i][t] = W[i - 1][t]
             /\ \A t \in 1..Len(F[names[i]]) : W[i][Len(W[i - 1]) + t] = F[names[i]][t]
  <2> DEFINE u == W[i - 1]
             v == F[names[i]]
  <2>1. u \in Seq(Byte) /\ v \in Seq(Byte) /\ W[i] = u \o v
    <3>1. i - 1 \in 0..K
      OBVIOUS
    <3> QED BY <1>0, <1>2, <3>1 DEF Joined
  <2> HIDE DEF u, v
  <2>2. Len(u \o v) = Len(u) + Len(v) /\ Len(u) \in Nat /\ Len(v) \in Nat
    BY <2>1, ConcatProperties
  <2>3. \A t \in 1..Len(u) : (u \o v)[t] = u[t]
    BY <2>1, <2>2, ConcatProperties
  <2>4. ASSUME NEW t \in 1..Len(v) PROVE (u \o v)[Len(u) + t] = v[t]
    <3>1. Len(u) + t \in 1..(Len(u) + Len(v)) /\ ~(Len(u) + t <= Len(u)) /\ (Len(u) + t) - Len(u) = t
      BY <2>2
    <3> QED BY <2>1, <2>2, <3>1, ConcatProperties
  <2>5. Len(W[i]) = Len(u) + Len(v) /\ Len(W[i]) \in Nat /\ Len(u) \in Nat /\ Len(v) \in Nat
    BY <2>1, <2>2
  <2>6. /\ \A t \in 1..Len(u) : W[i][t] = u[t]
        /\ \A t \in 1..Len(v) : W[i][Len(u) + t] = v[t]
    BY <2>1, <2>3, <2>4
  <2> QED BY <2>5, <2>6 DEF u, v
<1>4. ASSUME NEW j \in 0..K
      PROVE  Len(W[j]) <= Len(wire) /\ \A t \in 1..Len(W[j]) : wire[t] = W[j][t]
  <2> DEFINE Q == {k \in 0..(K - j) : /\ Len(W[j]) <= Len(W[j + k])
                                      /\ \A t \in 1..Len(W[j]) : W[j + k][t] = W[j][t]}
  <2>0. \A i \in 0..K : Len(W[i]) \in Nat
    BY <1>2, LenProperties
  <2>1. 0 \in Q
    <3>1. Len(W[j]) \in Nat /\ j + 0 = j
      BY <2>0
    <3> QED BY <3>1
  <2>2. ASSUME NEW k \in 0..(K - j - 1), k \in Q PROVE k + 1 \in Q
    <3> DEFINE i == j + (k + 1)
    <3>1. i \in 1..K /\ i - 1 = j + k /\ k + 1 \in 0..(K - j)
      OBVIOUS
    <3>2. Len(W[j]) <= Len(W[i - 1]) /\ \A t \in 1..Len(W[j]) : W[i - 1][t] = W[j][t]
      BY <2>2, <3>1
    <3> HIDE DEF i, Q
    <3>3. /\ Len(W[i]) = Len(W[i - 1]) + Len(F[names[i]])
          /\ Len(W[i - 1]) \in Nat /\ Len(F[names[i]]) \in Nat
          /\ \A t \in 1..Len(W[i - 1]) : W[i][t] = W[i - 1][t]
      BY <1>3, <3>1
    <3>4. Len(W[j]) \in Nat
      BY <2>0
    <3>5. Len(W[j]) <= Len(W[i])
      <4> DEFINE p == Len(W[j])
                 q == Len(W[i - 1])
                 r == Len(F[names[i]])
      <4>1. p \in Nat /\ q \in Nat /\ r \in Nat /\ p <= q /\ Len(W[i]) = q + r
        BY <3>2, <3>3, <3>4
      <4> HIDE DEF p, q, r
      <4>2. p <= q + r
        BY <4>1
      <4> QED BY <4>1, <4>2 DEF p
    <3>6. \A t \in 1..Len(W[j]) : W[i][t] = W[j][t]
      BY <3>2, <3>3, <3>4
    <3> QED BY <3>1, <3>5, <3>6 DEF Q, i
  <2>3. K - j \in Nat /\ K - j \in 0..(K - j) /\ j + (K - j) = K
    OBVIOUS
  <2> HIDE DEF Q
  <2>4. \A k \in 0..(K - j) : k \in Q
    BY <2>1, <2>2, <2>3, UpTo
  <2>5. K - j \in Q
    BY <2>3, <2>4
  <2> QED BY <2>3, <2>5 DEF Q
<1>5. ASSUME NEW i \in 1..K
      PROVE  F[names[i]] = SubSeq(wire, Len(W[i - 1]) + 1, Len(W[i]))
  <2> DEFINE v == F[names[i]]
             a == Len(W[i - 1])
             b == Len(W[i])
  <2>1. /\ b = a + Len(v) /\ a \in Nat /\ b \in Nat /\ Len(v) \in Nat
        /\ \A t \in 1..Len(v) : W[i][a + t] = v[t]
    BY <1>3
  <2>2. b <= Len(wire) /\ \A t \in 1..b : wire[t] = W[i][t]
    BY <1>4
  <2>3. v \in Seq(Byte) /\ wire \in Seq(Byte)
    BY <1>0, <1>2
  <2> HIDE DEF v, a, b, wire
  <2>4. \A t \in 1..Len(v) : wire[a + t] = v[t]
    BY <2>1, <2>2
  <2>5. SubSeq(wire, a + 1, b) \in Seq(Byte) /\ Len(SubSeq(wire, a + 1, b)) = Len(v)
        /\ \A t \in 1..Len(v) : SubSeq(wire, a + 1, b)[t] = wire[a + t]
    <3>1. SubSeq(wire, a + 1, b) = [t \in 1..Len(v) |-> wire[a + t]]
      BY <2>1, <2>2, <2>3
    <3>2. \A t \in 1..Len(v) : wire[a + t] \in Byte
      BY <2>3, <2>4
    <3> QED BY <2>1, <3>1, <3>2, SMTT(30)
  <2>6. v = SubSeq(wire, a + 1, b)
    BY <2>3, <2>4, <2>5, SeqEqual
  <2> QED BY <2>6 DEF v, a, b
<1>6. Len(W[0]) = 0
  BY DEF Joined
<1> QED BY <1>2, <1>3, <1>4, <1>5, <1>6 DEF HasParts

\* Read behind the ones before it, each field has its length and no error.
Announces(f, names, n, e, F) ==
    \A i \in 1..Len(names) :
       f[i - 1].fields = FirstFields(F, names, i - 1) =>
          /\ n[i] = Len(F[names[i]])
          /\ Keep(Short(f[i - 1], n[i]), names[i]).fields = FirstFields(F, names, i)
                => e[i] = "none"

\* A scan of joined fields reads them again, if each has the length that the
\* ones before it announce and none is refused.
LEMMA ScanFinds ==
    ASSUME NEW f, NEW wire \in Seq(Byte), NEW names, NEW n, NEW e,
           Scans(f, wire, names, n, e), Len(names) \in Nat, Distinct(names),
           NEW F \in Fields(names),
           NEW W, Joined(W, F, names), W[Len(names)] = wire,
           Announces(f, names, n, e, F)
    PROVE  IsAt(f[Len(names)], wire, Len(wire), F)
<1> DEFINE K == Len(names)
           Here(i) == IsAt(f[i], wire, Len(W[i]), FirstFields(F, names, i))
           P == {i \in 0..K : Here(i)}
<1>0. /\ \A i \in 0..K : W[i] \in Seq(Byte) /\ Len(W[i]) <= Len(wire)
      /\ Len(W[0]) = 0
      /\ \A i \in 1..K : /\ Len(W[i]) = Len(W[i - 1]) + Len(F[names[i]])
                         /\ F[names[i]] = SubSeq(wire, Len(W[i - 1]) + 1, Len(W[i]))
  <2>1. HasParts(W, F, names)
    BY JoinedParts
  <2> QED BY <2>1 DEF HasParts
<1>1. 0 \in P
  <2>1. f[0] = Cursor(wire)
    BY DEF Scans
  <2>2. FirstFields(F, names, 0) = <<>>
    BY DEF FirstFields, FirstNames
  <2>3. IsAt(f[0], wire, 0, <<>>)
    BY <2>1 DEF IsAt, Cursor
  <2>4. Here(0)
    BY <1>0, <2>2, <2>3
  <2> HIDE DEF Here
  <2> QED BY <2>4
<1>2. ASSUME NEW j \in 0..(K - 1), j \in P PROVE j + 1 \in P
  <2> DEFINE i == j + 1
             c == f[i - 1]
             a == Len(W[i - 1])
             fs == FirstFields(F, names, i - 1)
             name == names[i]
             m == n[i]
             u == e[i]
             v == F[names[i]]
  <2>0. i \in 1..K /\ i - 1 = j /\ i - 1 \in 0..K /\ i \in 0..K
    OBVIOUS
  <2>1. IsAt(c, wire, a, fs)
    BY <1>2, <2>0
  <2>2. m = Len(v)
    <3>1. f[i - 1].fields = FirstFields(F, names, i - 1)
      BY <2>1 DEF IsAt
    <3> QED BY <2>0, <3>1 DEF Announces
  <2>3. v \in Seq(Byte) /\ m \in Nat
    <3>1. v \in Seq(Byte)
      BY <2>0 DEF FirstNames, Fields
    <3> QED BY <2>2, <3>1, LenProperties
  <2>4. f[i] = Advance(c, name, m, u)
    BY <2>0 DEF Scans
  <2>5. /\ Len(W[i]) = a + m /\ Len(W[i]) <= Len(wire)
        /\ v = SubSeq(wire, a + 1, a + m)
    BY <1>0, <2>0, <2>2
  <2>6. a \in Nat /\ Len(wire) \in Nat
    BY <2>1 DEF IsAt
  <2>7. Kept(fs, name, v) = FirstFields(F, names, i)
    <3>1. FirstNames(names, i) = FirstNames(names, i - 1) \cup {names[i]} 
      <4> HIDE DEF i
      <4> QED BY <2>0, OneMoreName
    <3>2. DOMAIN fs = FirstNames(names, i - 1) /\ \A x \in DOMAIN fs : fs[x] = F[x]
      BY DEF FirstFields
    <3> QED BY <3>1, <3>2 DEF Kept, FirstFields
  <2>8. Reads(c, wire, a, fs, name, m, u)
    <3> HIDE DEF i, c, a, fs, name, m, u, v, P, Here
    <3> QED BY <2>1, <2>3, AdvanceReads
  <2>9. /\ Keep(Short(c, m), name).fields = Kept(fs, name, v)
        /\ u = "none" => IsAt(f[i], wire, a + m, Kept(fs, name, v))
    <3> HIDE DEF i, c, a, fs, name, m, u, v, P, Here
    <3>1. ~(a + m > Len(wire))
      <4>1. a + m <= Len(wire)
        BY <2>5
      <4> QED BY <2>3, <2>6, <4>1
    <3> QED BY <2>4, <2>5, <2>8, <3>1 DEF Reads
  <2>10. u = "none"
    <3>1. /\ f[i - 1].fields = FirstFields(F, names, i - 1)
          /\ Keep(Short(f[i - 1], n[i]), names[i]).fields = FirstFields(F, names, i)
      BY <2>1, <2>7, <2>9 DEF IsAt
    <3> QED BY <2>0, <3>1 DEF Announces
  <2>11. Here(i)
    BY <2>5, <2>7, <2>9, <2>10
  <2> HIDE DEF Here
  <2> QED BY <2>0, <2>11
<1>3. \A i \in 0..K : i \in P
  <2> HIDE DEF P
  <2> QED BY <1>1, <1>2, UpTo
<1>4. Here(K)
  BY <1>3
<1>5. FirstFields(F, names, K) = F
  BY DEF FirstFields, Fields
<1> QED BY <1>4, <1>5

\* One byte, read as a number.
LEMMA NumberOfOne ==
    ASSUME NEW s \in Seq(Byte), Len(s) = 1
    PROVE  s[1] \in Byte /\ s = <<s[1]>> /\ Number(s) = s[1]
<1>0. Huge \in Nat /\ Huge >= 256
  <2>1. Huge \in Nat /\ Shifted(Huge, 2) # 0
    BY BytesAssumption, EnvelopeAssumption DEF FitsIn
  <2>2. 0 \in Nat /\ 1 \in Nat /\ 0 + 1 = 1 /\ 1 + 1 = 2
    OBVIOUS
  <2>3. Shifted(Huge, 0) = Huge /\ Shifted(Huge, 0 + 1) = Shifted(Huge, 0) \div 256
    BY <2>1, <2>2, ShiftedStep
  <2>4. Shifted(Huge, 1 + 1) = Shifted(Huge, 1) \div 256
    BY <2>1, <2>2, ShiftedStep
  <2>5. (Huge \div 256) \div 256 # 0
    BY <2>1, <2>2, <2>3, <2>4
  <2> QED BY <2>1, <2>5
<1>1. s[1] \in Byte /\ s = <<s[1]>>
  OBVIOUS
<1>2. s \in Seq(Nat)
  <2>1. Byte \subseteq Nat
    BY DEF Byte
  <2> QED BY <2>1, SeqMonotonic
<1>3. PICK f : NumberRun(f, s)
  BY <1>2, NumberRuns
<1>4. f[0] = 0 /\ f[1] = Number(s) /\ f[1] = Capped(256 * f[0] + s[1])
  BY <1>3 DEF NumberRun
<1>5. Capped(256 * 0 + s[1]) = s[1]
  <2> DEFINE b == s[1]
  <2>1. b \in 0..255
    BY <1>1 DEF Byte
  <2> HIDE DEF b
  <2>2. 256 * 0 + b = b /\ ~(b > Huge)
    BY <1>0, <2>1
  <2> QED BY <2>2 DEF Capped, b
<1> QED BY <1>1, <1>4, <1>5

\* What fits into so few bytes is not capped.
LEMMA FitsIsSmall ==
    ASSUME NEW w \in Nat, ~FitsIn(Huge, w), NEW n \in Nat, FitsIn(n, w)
    PROVE  n <= Huge
<1> SUFFICES ASSUME ~(n <= Huge) PROVE FALSE
  OBVIOUS
<1>1. Huge \in Nat /\ Huge <= n /\ w \in 0..w /\ 0 \in Byte
  BY BytesAssumption DEF Byte
<1>2. Shifted(Huge, w) <= Shifted(n, w)
  BY <1>1, ShiftedFacts
<1>3. Shifted(Huge, w) \in Nat
  BY <1>1, ShiftedStep
<1> QED BY <1>2, <1>3 DEF FitsIn

\* Any fields can be joined.
LEMMA JoinedExists ==
    ASSUME NEW names, Len(names) \in Nat, NEW F \in Fields(names)
    PROVE  \E W : Joined(W, F, names)
<1> DEFINE K == Len(names)
           step == [i \in 1..K |-> [s \in Seq(Byte) |-> s \o F[names[i]]]]
<1>1. \A i \in 1..K : F[names[i]] \in Seq(Byte)
  BY DEF FirstNames, Fields
<1>2. IsStep(step, K, Seq(Byte))
  <2>1. \A i \in 1..K : \A s \in Seq(Byte) : s \o F[names[i]] \in Seq(Byte)
    BY <1>1, ConcatProperties
  <2> QED BY <2>1 DEF IsStep
<1>3. <<>> \in Seq(Byte)
  OBVIOUS
<1>4. PICK W : FollowsStep(W, K, Seq(Byte), <<>>, step)
  <2> HIDE DEF step, K
  <2>1. K \in Nat
    BY DEF K
  <2> QED BY <1>2, <1>3, <2>1, RecursionUpTo
<1>5. W \in [0..K -> Seq(Byte)] /\ W[0] = <<>> /\ \A i \in 1..K : W[i] = step[i][W[i - 1]]
  BY <1>4 DEF FollowsStep
<1>6. ASSUME NEW i \in 1..K PROVE W[i] = W[i - 1] \o F[names[i]]
  <2>1. W[i - 1] \in Seq(Byte)
    BY <1>5
  <2> QED BY <1>5, <2>1
<1> QED BY <1>5, <1>6 DEF Joined

\* Bytes have a number.
LEMMA NumbersAreNatural == \A s \in Seq(Byte) : Number(s) \in Nat
<1> SUFFICES ASSUME NEW s \in Seq(Byte) PROVE Number(s) \in Nat
  OBVIOUS
<1>1. s \in Seq(Nat)
  <2>1. Byte \subseteq Nat
    BY DEF Byte
  <2> QED BY <2>1, SeqMonotonic
<1>2. PICK f : NumberRun(f, s)
  BY <1>1, NumberRuns
<1>3. Len(s) \in 0..Len(s)
  OBVIOUS
<1> QED BY <1>2, <1>3 DEF NumberRun


-----------------------------------------------------------------------------
(* Images.                                                                 *)

\* The fields of a wire image: one behind the other, field i as long as
\* len[i] says and none refused by err[i].
Image(F, wire, names, len, err) ==
    /\ F \in Fields(names)
    /\ \E W : Joined(W, F, names) /\ W[Len(names)] = wire
    /\ \A i \in 1..Len(names) : Len(F[names[i]]) = len[i][F] /\ err[i][F] = "none"

\* A scan whose field lengths and errors are functions of the fields read
\* so far.
Local(f, names, n, e, len, err) ==
    /\ \A i \in 1..Len(names) : \A F \in Fields(names) : len[i][F] \in Nat
    /\ \A i \in 1..Len(names) : \A F \in Fields(names) :
          f[i - 1].fields = FirstFields(F, names, i - 1) =>
             /\ n[i] = len[i][F]
             /\ Keep(Short(f[i - 1], n[i]), names[i]).fields = FirstFields(F, names, i)
                   => e[i] = err[i][F]

\* It ends without an error at the end of the input exactly if the input is
\* an image, and it has read the fields of that image.
LEMMA ScanExact ==
    ASSUME NEW f, NEW wire \in Seq(Byte), NEW names, NEW n, NEW e,
           Scans(f, wire, names, n, e), Len(names) \in Nat, Distinct(names),
           NEW len, NEW err, Local(f, names, n, e, len, err)
    PROVE  /\ f[Len(names)].error = "none" => f[Len(names)].input = wire
           /\ f[Len(names)].error = "none" /\ f[Len(names)].at = Len(wire) =>
                 Image(f[Len(names)].fields, wire, names, len, err)
           /\ \A F : Image(F, wire, names, len, err) =>
                 /\ f[Len(names)].error = "none" /\ f[Len(names)].at = Len(wire)
                 /\ f[Len(names)].fields = F
<1> DEFINE K == Len(names)
<1>1. ASSUME f[K].error = "none"
      PROVE  f[K].input = wire /\ (f[K].at = Len(wire) => Image(f[K].fields, wire, names, len, err))
  <2> DEFINE F == f[K].fields
  <2>1. ASSUME NEW i \in 1..K, f[i - 1].fields \in [FirstNames(names, i - 1) -> Seq(Byte)]
        PROVE  n[i] \in Nat
    <3> DEFINE G == f[i - 1].fields
               H == [x \in FirstNames(names, K) |->
                        IF x \in FirstNames(names, i - 1) THEN G[x] ELSE <<>>]
    <3>1. H \in Fields(names)
      <4>1. \A x \in FirstNames(names, i - 1) : G[x] \in Seq(Byte)
        BY <2>1
      <4>2. <<>> \in Seq(Byte)
        OBVIOUS
      <4> HIDE DEF G
      <4> QED BY <4>1, <4>2 DEF Fields
    <3>2. FirstNames(names, i - 1) \subseteq FirstNames(names, K)
      BY DEF FirstNames
    <3>3. G = FirstFields(H, names, i - 1)
      <4>1. G \in [FirstNames(names, i - 1) -> Seq(Byte)]
        BY <2>1
      <4> HIDE DEF G
      <4> QED BY <3>2, <4>1 DEF FirstFields
    <3> HIDE DEF H
    <3> QED BY <3>1, <3>3 DEF Local
  <2>2. LensAreNatural(f, names, n)
    BY <2>1 DEF LensAreNatural
  <2>3. HasRead(f, wire, names, n, e, F)
    BY <1>1, <2>2, ScanReads
  <2> HIDE DEF F
  <2>4. ASSUME NEW i \in 1..K
        PROVE  Len(F[names[i]]) = len[i][F] /\ err[i][F] = "none"
    <3>1. i - 1 \in 0..K
      OBVIOUS
    <3>2. f[i - 1].fields = FirstFields(F, names, i - 1)
      BY <2>3, <3>1 DEF IsAt, HasRead
    <3>3. /\ F \in Fields(names) /\ e[i] = "none" /\ Len(F[names[i]]) = n[i]
          /\ Keep(Short(f[i - 1], n[i]), names[i]).fields = FirstFields(F, names, i)
      BY <2>3 DEF HasRead
    <3> QED BY <3>2, <3>3 DEF Local
  <2>5. f[K].input = wire
    BY <2>3 DEF IsAt, HasRead
  <2>6. ASSUME f[K].at = Len(wire) PROVE \E W : Joined(W, F, names) /\ W[K] = wire
    <3>1. \E W : Joined(W, F, names) /\ W[K] = SubSeq(wire, 1, f[K].at)
      BY <2>3, ReadsJoin, SMTT(30)
    <3>2. SubSeq(wire, 1, Len(wire)) = wire
      BY SubSeqFull
    <3> QED BY <2>6, <3>1, <3>2
  <2>7. F \in Fields(names)
    BY <2>3 DEF HasRead
  <2> QED BY <2>4, <2>5, <2>6, <2>7 DEF Image, F
<1>2. ASSUME NEW F, Image(F, wire, names, len, err)
      PROVE  IsAt(f[K], wire, Len(wire), F)
  <2>1. PICK W : Joined(W, F, names) /\ W[K] = wire
    BY <1>2 DEF Image
  <2>2. F \in Fields(names)
    BY <1>2 DEF Image
  <2>3. Announces(f, names, n, e, F)
    BY <1>2, <2>2 DEF Announces, Local, Image
  <2> QED BY <2>1, <2>2, <2>3, ScanFinds
<1> QED BY <1>1, <1>2 DEF IsAt

-----------------------------------------------------------------------------
(* Envelopes.                                                              *)

\* The fields of an envelope, and that each is looked up only once it is
\* read.
LEMMA EnvelopeNames ==
    /\ Len(EnvelopeFields) = 13 /\ Distinct(EnvelopeFields)
    /\ FirstNames(EnvelopeFields, 13) =
          {"version", "message_id", "source", "tag", "network", "length", "id", "created_at",
           "expires_at", "hop_limit", "payload_kind", "payload_len", "payload"}
<1>1. Len(EnvelopeFields) = 13
  BY DEF EnvelopeFields
<1>2. Distinct(EnvelopeFields)
  BY <1>1 DEF EnvelopeFields, Distinct
<1>3. 1..13 = {1, 2, 3, 4, 5, 6, 7, 8, 9, 10, 11, 12, 13}
  OBVIOUS
<1>4. FirstNames(EnvelopeFields, 13) = {EnvelopeFields[i] : i \in {1, 2, 3, 4, 5, 6, 7, 8, 9, 10, 11, 12, 13}}
  BY <1>3 DEF FirstNames
<1>5. /\ EnvelopeFields[1] = "version" /\ EnvelopeFields[2] = "message_id"
      /\ EnvelopeFields[3] = "source" /\ EnvelopeFields[4] = "tag"
      /\ EnvelopeFields[5] = "network" /\ EnvelopeFields[6] = "length"
      /\ EnvelopeFields[7] = "id" /\ EnvelopeFields[8] = "created_at"
      /\ EnvelopeFields[9] = "expires_at" /\ EnvelopeFields[10] = "hop_limit"
      /\ EnvelopeFields[11] = "payload_kind" /\ EnvelopeFields[12] = "payload_len"
      /\ EnvelopeFields[13] = "payload"
  BY DEF EnvelopeFields
<1> QED BY <1>1, <1>2, <1>4, <1>5

\* The first fields have the names that are looked up.
LEMMA EnvelopeLocal ==
    ASSUME NEW F \in Fields(EnvelopeFields), NEW i \in 1..Len(EnvelopeFields)
    PROVE  LET name == EnvelopeFields[i] IN
           /\ EnvelopeFieldLen(name, FirstFields(F, EnvelopeFields, i - 1)) = EnvelopeFieldLen(name, F)
           /\ EnvelopeFieldLen(name, F) \in Nat
           /\ EnvelopeFieldError(name, FirstFields(F, EnvelopeFields, i)) = EnvelopeFieldError(name, F)
<1> DEFINE name == EnvelopeFields[i]
           before == FirstFields(F, EnvelopeFields, i - 1)
           after == FirstFields(F, EnvelopeFields, i)
<1>1. /\ \A j \in 1..(i - 1) : before[EnvelopeFields[j]] = F[EnvelopeFields[j]]
      /\ \A j \in 1..i : after[EnvelopeFields[j]] = F[EnvelopeFields[j]]
  BY DEF FirstFields, FirstNames
<1>2. /\ EnvelopeFields[1] = "version" /\ EnvelopeFields[2] = "message_id"
      /\ EnvelopeFields[3] = "source" /\ EnvelopeFields[4] = "tag"
      /\ EnvelopeFields[5] = "network" /\ EnvelopeFields[6] = "length"
      /\ EnvelopeFields[7] = "id" /\ EnvelopeFields[8] = "created_at"
      /\ EnvelopeFields[9] = "expires_at" /\ EnvelopeFields[10] = "hop_limit"
      /\ EnvelopeFields[11] = "payload_kind" /\ EnvelopeFields[12] = "payload_len"
      /\ EnvelopeFields[13] = "payload"
  BY DEF EnvelopeFields
<1>3. /\ F.length \in Seq(Byte) /\ F.payload_len \in Seq(Byte)
  BY EnvelopeNames DEF Fields
<1>4. /\ i \in {5, 6, 7} => before.tag = F.tag
      /\ i = 7 => before.length = F.length
      /\ i = 13 => before.payload_len = F.payload_len
  BY <1>1, <1>2
<1>5. /\ i = 1 => after.version = F.version
      /\ i \in {4, 5, 7} => after.tag = F.tag
      /\ i = 5 => after.network = F.network
      /\ i = 7 => after.id = F.id
      /\ i = 11 => after.payload_kind = F.payload_kind
  BY <1>1, <1>2, SMTT(30)
<1> HIDE DEF before, after
<1>6. i \in {1, 2, 3, 4, 5, 6, 7, 8, 9, 10, 11, 12, 13}
  BY EnvelopeNames
<1>7. EnvelopeFieldLen(name, before) = EnvelopeFieldLen(name, F)
  BY <1>2, <1>4, <1>6 DEF EnvelopeFieldLen
<1>8. EnvelopeFieldLen(name, F) \in Nat
  <2>1. /\ MessageIdLen \in Nat /\ NodeIdLen \in Nat /\ CommunityIdLen \in Nat
        /\ TimeLen \in Nat
    BY EnvelopeAssumption
  <2>2. Number(F.length) \in Nat /\ Number(F.payload_len) \in Nat
    BY <1>3, NumbersAreNatural
  <2> QED BY <1>2, <1>6, <2>1, <2>2, ZenonT(40) DEF EnvelopeFieldLen
<1>9. EnvelopeFieldError(name, after) = EnvelopeFieldError(name, F)
  BY <1>2, <1>5, <1>6, SMTT(30) DEF EnvelopeFieldError
<1> QED BY <1>7, <1>8, <1>9 DEF before, after

\* The scan of decode_envelope goes through the fields one by one.
EnvelopeScan(wire) ==
    Scan(wire, EnvelopeFields,
         LAMBDA name, c : Short(c, EnvelopeFieldLen(name, c.fields)), EnvelopeFieldError)
EnvelopeLens(f) ==
    [i \in 1..Len(EnvelopeFields) |-> EnvelopeFieldLen(EnvelopeFields[i], f[i - 1].fields)]
EnvelopeErrors(f) ==
    [i \in 1..Len(EnvelopeFields) |-> EnvelopeFieldError(EnvelopeFields[i],
                        Keep(Short(f[i - 1], EnvelopeLens(f)[i]), EnvelopeFields[i]).fields)]

\* The scan of decode_envelope is a scan in this sense.
LEMMA EnvelopeScans ==
    ASSUME NEW wire
    PROVE  \E f : /\ EnvelopeScan(wire) = f[Len(EnvelopeFields)]
                  /\ Scans(f, wire, EnvelopeFields, EnvelopeLens(f), EnvelopeErrors(f))
<1> DEFINE Step(c, name) ==
               IF c.error /= "none" THEN c
               ELSE LET read == Short(c, EnvelopeFieldLen(name, c.fields))
                    IN  IF read.error /= "none" THEN read
                        ELSE [Keep(read, name) EXCEPT
                                !.error = EnvelopeFieldError(name, Keep(read, name).fields)]
           Rec(f, K) == f = [i \in 0..K |-> IF i = 0 THEN Cursor(wire)
                                            ELSE Step(f[i - 1], EnvelopeFields[i])]
           L == Len(EnvelopeFields)
           g == CHOOSE h : Rec(h, L)
<1>0. L \in Nat
  BY EnvelopeNames
<1>1. EnvelopeScan(wire) = g[L]
  BY DEF EnvelopeScan, Scan
<1> HIDE DEF Step, L
<1>2. \E h : Rec(h, L)
  <2> DEFINE P == {k \in 0..L : \E h : Rec(h, k)}
  <2>1. 0 \in P
    <3>0. 0 \in 0..L
      BY <1>0
    <3>1. Rec([i \in 0..0 |-> Cursor(wire)], 0)
      OBVIOUS
    <3> HIDE DEF Rec
    <3> QED BY <3>0, <3>1
  <2>2. ASSUME NEW k \in 0..(L - 1), k \in P PROVE k + 1 \in P
    <3>1. PICK h : Rec(h, k)
      BY <2>2
    <3> DEFINE G == [i \in 0..(k + 1) |->
                        IF i = k + 1 THEN Step(h[k], EnvelopeFields[k + 1]) ELSE h[i]]
    <3>2. Rec(G, k + 1)
      <4>1. \A i \in 0..k : /\ G[i] = h[i]
                            /\ h[i] = IF i = 0 THEN Cursor(wire)
                                      ELSE Step(h[i - 1], EnvelopeFields[i])
        BY <1>0, <3>1
      <4>2. \A i \in 0..(k + 1) : G[i] = IF i = 0 THEN Cursor(wire)
                                         ELSE Step(G[i - 1], EnvelopeFields[i])
        BY <4>1
      <4> QED BY <4>2
    <3>3. k + 1 \in 0..L
      BY <1>0
    <3> HIDE DEF Rec, G
    <3> QED BY <3>2, <3>3
  <2> HIDE DEF P
  <2>3. \A k \in 0..L : k \in P
    BY <1>0, <2>1, <2>2, UpTo
  <2>4. L \in 0..L
    BY <1>0
  <2> QED BY <2>3, <2>4 DEF P
<1>3. Rec(g, L)
  <2> HIDE DEF Rec
  <2> QED BY <1>2
<1> HIDE DEF g
<1>4. g[0] = Cursor(wire) /\ \A i \in 1..L : g[i] = Step(g[i - 1], EnvelopeFields[i])
  BY <1>0, <1>3
<1> HIDE DEF Rec
<1>5. \A i \in 1..L : g[i] = Advance(g[i - 1], EnvelopeFields[i],
                                      EnvelopeLens(g)[i], EnvelopeErrors(g)[i])
  BY <1>4 DEF Step, Advance, EnvelopeLens, EnvelopeErrors, L
<1> QED BY <1>1, <1>4, <1>5 DEF Scans, L


\* The lengths and the errors of the fields of an envelope.
EnvelopeLen == [i \in 1..Len(EnvelopeFields) |->
                  [F \in Fields(EnvelopeFields) |-> EnvelopeFieldLen(EnvelopeFields[i], F)]]
EnvelopeErr == [i \in 1..Len(EnvelopeFields) |->
                  [F \in Fields(EnvelopeFields) |-> EnvelopeFieldError(EnvelopeFields[i], F)]]
EnvelopeImage(F, wire) == Image(F, wire, EnvelopeFields, EnvelopeLen, EnvelopeErr)

\* The scan of a wire image ends without an error, at its end, exactly if it
\* has such fields, and it has read them.
LEMMA EnvelopeScanned ==
    ASSUME NEW wire \in Seq(Byte)
    PROVE  /\ EnvelopeScan(wire).error = "none" => EnvelopeScan(wire).input = wire
           /\ EnvelopeScan(wire).error = "none" /\ EnvelopeScan(wire).at = Len(wire) =>
                 EnvelopeImage(EnvelopeScan(wire).fields, wire)
           /\ \A F : EnvelopeImage(F, wire) =>
                 /\ EnvelopeScan(wire).error = "none" /\ EnvelopeScan(wire).at = Len(wire)
                 /\ EnvelopeScan(wire).fields = F
<1> DEFINE names == EnvelopeFields
<1>1. PICK f : /\ EnvelopeScan(wire) = f[Len(names)]
               /\ Scans(f, wire, names, EnvelopeLens(f), EnvelopeErrors(f))
  BY EnvelopeScans
<1> DEFINE n == EnvelopeLens(f)
           e == EnvelopeErrors(f)
<1>2. Len(names) \in Nat /\ Distinct(names)
  BY EnvelopeNames
<1>3. ASSUME NEW i \in 1..Len(names), NEW F \in Fields(names)
      PROVE  /\ EnvelopeLen[i][F] \in Nat
             /\ f[i - 1].fields = FirstFields(F, names, i - 1) =>
                   /\ n[i] = EnvelopeLen[i][F]
                   /\ Keep(Short(f[i - 1], n[i]), names[i]).fields = FirstFields(F, names, i)
                         => e[i] = EnvelopeErr[i][F]
  <2>1. /\ EnvelopeFieldLen(names[i], FirstFields(F, names, i - 1)) = EnvelopeFieldLen(names[i], F)
        /\ EnvelopeFieldLen(names[i], F) \in Nat
        /\ EnvelopeFieldError(names[i], FirstFields(F, names, i)) = EnvelopeFieldError(names[i], F)
    BY EnvelopeLocal
  <2>2. /\ n[i] = EnvelopeFieldLen(names[i], f[i - 1].fields)
        /\ e[i] = EnvelopeFieldError(names[i], Keep(Short(f[i - 1], n[i]), names[i]).fields)
    BY DEF EnvelopeLens, EnvelopeErrors
  <2>3. /\ EnvelopeLen[i][F] = EnvelopeFieldLen(names[i], F)
        /\ EnvelopeErr[i][F] = EnvelopeFieldError(names[i], F)
    BY DEF EnvelopeLen, EnvelopeErr
  <2> HIDE DEF n, e, names
  <2> QED BY <2>1, <2>2, <2>3
<1>4. Local(f, names, n, e, EnvelopeLen, EnvelopeErr)
  <2> HIDE DEF n, e, names
  <2> QED BY <1>3 DEF Local
<1> HIDE DEF n, e, names
<1> QED BY <1>1, <1>2, <1>4, ScanExact DEF EnvelopeImage, n, e, names

\* Concatenations of bytes.
LEMMA BytesAssociate ==
    \A a, b, c \in Seq(Byte) : (a \o b) \o c = a \o (b \o c)
  BY ConcatAssociative

\* Two bytes one behind the other.
LEMMA PairOfBytes ==
    \A a, b : <<a>> \o <<b>> = <<a, b>>
<1> SUFFICES ASSUME NEW a, NEW b PROVE <<a>> \o <<b>> = <<a, b>>
  OBVIOUS
<1> DEFINE S == {a, b}
<1>1. <<a>> \in Seq(S) /\ <<b>> \in Seq(S) /\ Len(<<a>>) = 1 /\ Len(<<b>>) = 1
  OBVIOUS
<1>2. <<a>>[1] = a /\ <<b>>[1] = b
  OBVIOUS
<1>3. /\ <<a>> \o <<b>> \in Seq(S) /\ Len(<<a>> \o <<b>>) = 2
  BY <1>1, ConcatProperties
<1>4. (<<a>> \o <<b>>)[1] = a /\ (<<a>> \o <<b>>)[2] = b
  BY <1>1, <1>2
<1>5. <<a, b>> \in Seq(S) /\ Len(<<a, b>>) = 2 /\ <<a, b>>[1] = a /\ <<a, b>>[2] = b
  OBVIOUS
<1> DEFINE s == <<a>> \o <<b>>
           t == <<a, b>>
<1>6. s \in Seq(S) /\ t \in Seq(S) /\ Len(s) = Len(t) /\ \A i \in 1..Len(s) : s[i] = t[i]
  <2>1. Len(s) = 2 /\ Len(t) = 2 /\ s[1] = t[1] /\ s[2] = t[2]
    BY <1>3, <1>4, <1>5
  <2> HIDE DEF s, t
  <2>2. \A i \in 1..Len(s) : s[i] = t[i]
    BY <2>1
  <2> QED BY <1>3, <1>5, <2>1, <2>2 DEF s, t
<1> HIDE DEF S, s, t
<1>7. s = t
  BY <1>6, SeqEqual
<1> QED BY <1>7 DEF s, t

\* A smaller number needs no more bytes.
LEMMA FitsBelow ==
    ASSUME NEW w \in Nat, NEW m \in Nat, NEW n \in Nat, m <= n, FitsIn(n, w)
    PROVE  FitsIn(m, w)
<1>1. w \in 0..w /\ 0 \in Byte
  BY DEF Byte
<1>2. Shifted(m, w) <= Shifted(n, w)
  BY <1>1, ShiftedFacts
<1>3. Shifted(m, w) \in Nat
  BY ShiftedStep
<1> QED BY <1>2, <1>3 DEF FitsIn

\* Byte strings of one length, times, and the envelopes that hyf_core's types
\* admit.
BytesOf(n) == {s \in Seq(Byte) : Len(s) = n}
Times == {t \in Nat : FitsIn(t, TimeLen)}
Endpoints == {s \in Seq(Byte) : EndpointError(s) = "none"}
Destinations ==
    [kind : {"node"}, id : BytesOf(NodeIdLen)]
        \cup [kind : {"community"}, id : BytesOf(CommunityIdLen)]
        \cup [kind : {"foreign"}, network : NetworkTags, id : Endpoints]
Envelopes ==
    [version : Byte, message_id : BytesOf(MessageIdLen), source : BytesOf(NodeIdLen),
     destination : Destinations, created_at : Times, expires_at : Times, hop_limit : Byte,
     payload_kind : PayloadTags, payload : Seq(Byte)]

\* What decode_envelope makes of the fields, and the fields of an envelope.
EnvelopeOf(fields) ==
    [version |-> fields.version[1], message_id |-> fields.message_id,
     source |-> fields.source, destination |-> DestinationOf(fields),
     created_at |-> Number(fields.created_at),
     expires_at |-> Number(fields.expires_at), hop_limit |-> fields.hop_limit[1],
     payload_kind |-> fields.payload_kind[1], payload |-> fields.payload]
FieldsOf(e) ==
    [version |-> <<e.version>>, message_id |-> e.message_id, source |-> e.source,
     tag |-> <<DestinationTag(e.destination)>>,
     network |-> IF e.destination.kind = "foreign" THEN <<e.destination.network>> ELSE <<>>,
     length |-> IF e.destination.kind = "foreign" THEN <<Len(e.destination.id)>> ELSE <<>>,
     id |-> e.destination.id, created_at |-> BeBytes(e.created_at, TimeLen),
     expires_at |-> BeBytes(e.expires_at, TimeLen), hop_limit |-> <<e.hop_limit>>,
     payload_kind |-> <<e.payload_kind>>, payload_len |-> BeBytes(Len(e.payload), 2),
     payload |-> e.payload]

\* The bytes of a time.
LEMMA TimeBytes ==
    ASSUME NEW t \in Times
    PROVE  BeBytes(t, TimeLen) \in BytesOf(TimeLen) /\ Number(BeBytes(t, TimeLen)) = t
<1>1. TimeLen \in Nat /\ ~FitsIn(Huge, TimeLen) /\ t \in Nat /\ FitsIn(t, TimeLen)
  BY EnvelopeAssumption DEF Times
<1>2. t <= Huge
  BY <1>1, FitsIsSmall
<1> QED BY <1>1, <1>2, NumberOfBytes DEF BytesOf

\* The time of some bytes.
LEMMA BytesTime ==
    ASSUME NEW s \in BytesOf(TimeLen)
    PROVE  Number(s) \in Times /\ BeBytes(Number(s), TimeLen) = s
<1>1. TimeLen \in Nat /\ ~FitsIn(Huge, TimeLen) /\ s \in Seq(Byte) /\ Len(s) = TimeLen
  BY EnvelopeAssumption DEF BytesOf
<1>2. Number(s) \in Nat /\ FitsIn(Number(s), TimeLen) /\ BeBytes(Number(s), TimeLen) = s
  BY <1>1, BytesOfNumber
<1> QED BY <1>2 DEF Times

\* The bytes of a length.
LEMMA LengthBytes ==
    ASSUME NEW n \in Nat, FitsIn(n, 2)
    PROVE  BeBytes(n, 2) \in BytesOf(2) /\ Number(BeBytes(n, 2)) = n
<1>1. 2 \in Nat /\ ~FitsIn(Huge, 2)
  BY EnvelopeAssumption
<1>2. n <= Huge
  BY <1>1, FitsIsSmall
<1> QED BY <1>1, <1>2, NumberOfBytes DEF BytesOf

\* The length of some bytes.
LEMMA BytesLength ==
    ASSUME NEW s \in BytesOf(2)
    PROVE  Number(s) \in Nat /\ FitsIn(Number(s), 2) /\ BeBytes(Number(s), 2) = s
<1>1. 2 \in Nat /\ ~FitsIn(Huge, 2) /\ s \in Seq(Byte) /\ Len(s) = 2
  BY EnvelopeAssumption DEF BytesOf
<1> QED BY <1>1, BytesOfNumber

\* A byte as a byte string.
LEMMA OneByte ==
    ASSUME NEW b \in Byte
    PROVE  <<b>> \in BytesOf(1) /\ Number(<<b>>) = b /\ <<b>>[1] = b
<1>1. <<b>> \in Seq(Byte) /\ Len(<<b>>) = 1 /\ <<b>>[1] = b
  OBVIOUS
<1> DEFINE s == <<b>>
<1> HIDE DEF s
<1>2. s \in Seq(Byte) /\ Len(s) = 1 /\ s[1] = b
  BY <1>1 DEF s
<1>3. Number(s) = s[1]
  BY <1>2, NumberOfOne
<1> QED BY <1>1, <1>2, <1>3 DEF s, BytesOf

\* A byte string of one byte.
LEMMA ByteOne ==
    ASSUME NEW s \in BytesOf(1)
    PROVE  s[1] \in Byte /\ <<s[1]>> = s /\ Number(s) = s[1]
  BY NumberOfOne DEF BytesOf

\* The fields of a destination are read as that destination.
LEMMA DestinationFields ==
    ASSUME NEW d \in Destinations
    PROVE  /\ DestinationTag(d) \in 0..2 /\ d.id \in Seq(Byte)
           /\ d.kind = "foreign" =>
                 /\ DestinationTag(d) = 2 /\ d.network \in NetworkTags
                 /\ EndpointError(d.id) = "none" /\ Len(d.id) \in Byte
                 /\ d = [kind |-> "foreign", network |-> d.network, id |-> d.id]
           /\ d.kind # "foreign" =>
                 \/ /\ DestinationTag(d) = 0 /\ Len(d.id) = NodeIdLen
                    /\ d = [kind |-> "node", id |-> d.id]
                 \/ /\ DestinationTag(d) = 1 /\ Len(d.id) = CommunityIdLen
                    /\ d = [kind |-> "community", id |-> d.id]
<1>1. CASE d \in [kind : {"node"}, id : BytesOf(NodeIdLen)]
  <2>1. d.kind = "node" /\ d.id \in BytesOf(NodeIdLen) /\ d = [kind |-> "node", id |-> d.id]
    BY <1>1
  <2> QED BY <2>1 DEF DestinationTag, BytesOf
<1>2. CASE d \in [kind : {"community"}, id : BytesOf(CommunityIdLen)]
  <2>1. d.kind = "community" /\ d.id \in BytesOf(CommunityIdLen) /\ d = [kind |-> "community", id |-> d.id]
    BY <1>2
  <2> QED BY <2>1 DEF DestinationTag, BytesOf
<1>3. CASE d \in [kind : {"foreign"}, network : NetworkTags, id : Endpoints]
  <2>1. /\ d.kind = "foreign" /\ d.id \in Endpoints /\ d.network \in NetworkTags
        /\ d = [kind |-> "foreign", network |-> d.network, id |-> d.id]
    BY <1>3
  <2>2. d.id \in Seq(Byte) /\ EndpointError(d.id) = "none"
    BY <2>1 DEF Endpoints
  <2>3. Len(d.id) \in Byte
    <3> DEFINE n == Len(d.id)
    <3>1. n \in Nat
      BY <2>2, LenProperties
    <3>2. EndpointMaxLen \in 0..255
      BY EnvelopeAssumption
    <3>3. ~(n > EndpointMaxLen)
      BY <2>2 DEF EndpointError
    <3> HIDE DEF n
    <3>4. n \in 0..255
      BY <3>1, <3>2, <3>3
    <3> QED BY <3>4 DEF Byte, n
  <2> QED BY <2>1, <2>2, <2>3 DEF DestinationTag
<1> QED BY <1>1, <1>2, <1>3 DEF Destinations

\* The fields of a valid envelope have the lengths and values that the scan
\* asks for, and make that envelope.
LEMMA FieldsAreImage ==
    ASSUME NEW e \in Envelopes, EnvelopeError(e) = "none"
    PROVE  /\ FieldsOf(e) \in Fields(EnvelopeFields)
           /\ \A i \in 1..Len(EnvelopeFields) :
                 /\ Len(FieldsOf(e)[EnvelopeFields[i]]) = EnvelopeLen[i][FieldsOf(e)]
                 /\ EnvelopeErr[i][FieldsOf(e)] = "none"
           /\ EnvelopeOf(FieldsOf(e)) = e
<1> DEFINE F == FieldsOf(e)
           d == e.destination
           foreign == d.kind = "foreign"
<1>1. /\ e.version \in Byte /\ e.message_id \in BytesOf(MessageIdLen)
      /\ e.source \in BytesOf(NodeIdLen) /\ d \in Destinations
      /\ e.created_at \in Times /\ e.expires_at \in Times /\ e.hop_limit \in Byte
      /\ e.payload_kind \in PayloadTags /\ e.payload \in Seq(Byte)
      /\ e = [version |-> e.version, message_id |-> e.message_id, source |-> e.source,
              destination |-> d, created_at |-> e.created_at, expires_at |-> e.expires_at,
              hop_limit |-> e.hop_limit, payload_kind |-> e.payload_kind,
              payload |-> e.payload]
  BY DEF Envelopes
<1>2. /\ DestinationTag(d) \in 0..2 /\ d.id \in Seq(Byte)
      /\ foreign =>
            /\ DestinationTag(d) = 2 /\ d.network \in NetworkTags
            /\ EndpointError(d.id) = "none" /\ Len(d.id) \in Byte
            /\ d = [kind |-> "foreign", network |-> d.network, id |-> d.id]
      /\ ~foreign =>
            \/ /\ DestinationTag(d) = 0 /\ Len(d.id) = NodeIdLen
               /\ d = [kind |-> "node", id |-> d.id]
            \/ /\ DestinationTag(d) = 1 /\ Len(d.id) = CommunityIdLen
               /\ d = [kind |-> "community", id |-> d.id]
  BY <1>1, DestinationFields
<1>3. /\ F.version = <<e.version>> /\ F.message_id = e.message_id /\ F.source = e.source
      /\ F.tag = <<DestinationTag(d)>> /\ F.id = d.id
      /\ foreign => F.network = <<d.network>> /\ F.length = <<Len(d.id)>>
      /\ ~foreign => F.network = <<>> /\ F.length = <<>>
      /\ F.created_at = BeBytes(e.created_at, TimeLen)
      /\ F.expires_at = BeBytes(e.expires_at, TimeLen) /\ F.hop_limit = <<e.hop_limit>>
      /\ F.payload_kind = <<e.payload_kind>> /\ F.payload_len = BeBytes(Len(e.payload), 2)
      /\ F.payload = e.payload
      /\ DOMAIN F = {"version", "message_id", "source", "tag", "network", "length", "id",
                     "created_at", "expires_at", "hop_limit", "payload_kind", "payload_len",
                     "payload"}
      /\ F = [x \in DOMAIN F |-> F[x]]
  BY DEF FieldsOf
<1> HIDE DEF F, d
<1>4. e.version = 0 /\ Len(e.payload) \in Nat /\ FitsIn(Len(e.payload), 2)
  <2>1. e.version = 0 /\ ~(Len(e.payload) > EnvelopeMaxPayload)
    BY DEF EnvelopeError, WireVersion
  <2> DEFINE n == Len(e.payload)
  <2>2. n \in Nat
    BY <1>1, LenProperties
  <2>3. EnvelopeMaxPayload \in Nat /\ FitsIn(EnvelopeMaxPayload, 2) /\ 2 \in Nat
    BY EnvelopeAssumption
  <2>4. ~(n > EnvelopeMaxPayload)
    BY <2>1
  <2> HIDE DEF n
  <2>5. n <= EnvelopeMaxPayload
    BY <2>2, <2>3, <2>4
  <2>6. FitsIn(n, 2)
    BY <2>2, <2>3, <2>5, FitsBelow
  <2> QED BY <2>1, <2>2, <2>6 DEF n
<1>5. /\ F.created_at \in BytesOf(TimeLen) /\ Number(F.created_at) = e.created_at
      /\ F.expires_at \in BytesOf(TimeLen) /\ Number(F.expires_at) = e.expires_at
  BY <1>1, <1>3, TimeBytes
<1>6. F.payload_len \in BytesOf(2) /\ Number(F.payload_len) = Len(e.payload)
  BY <1>3, <1>4, LengthBytes
<1>7. /\ F.version \in BytesOf(1) /\ F.version[1] = e.version
      /\ F.hop_limit \in BytesOf(1) /\ F.hop_limit[1] = e.hop_limit
      /\ F.payload_kind \in BytesOf(1) /\ F.payload_kind[1] = e.payload_kind
      /\ F.tag \in BytesOf(1) /\ F.tag[1] = DestinationTag(d)
  <2>1. e.payload_kind \in Byte /\ DestinationTag(d) \in Byte
    <3>1. e.payload_kind \in PayloadTags /\ DestinationTag(d) \in 0..2
      BY <1>1, <1>2
    <3>2. PayloadTags \subseteq Byte /\ 0..2 \subseteq Byte
      BY DEF PayloadTags, Byte
    <3> QED BY <3>1, <3>2
  <2> QED BY <1>1, <1>3, <2>1, OneByte
<1>8. /\ foreign => /\ F.network \in BytesOf(1) /\ F.network[1] = d.network
                    /\ F.length \in BytesOf(1) /\ Number(F.length) = Len(d.id)
      /\ ~foreign => F.network \in BytesOf(0) /\ F.length \in BytesOf(0)
  <2>1. foreign => d.network \in Byte
    <3>1. foreign => d.network \in NetworkTags
      BY <1>2
    <3>2. NetworkTags \subseteq Byte
      BY DEF NetworkTags, Byte
    <3> QED BY <3>1, <3>2
  <2>2. foreign => /\ F.network \in BytesOf(1) /\ F.network[1] = d.network
                   /\ F.length \in BytesOf(1) /\ Number(F.length) = Len(d.id)
    <3> DEFINE n == Len(d.id)
    <3>1. foreign => /\ F.network = <<d.network>> /\ F.length = <<n>> /\ n \in Byte
      BY <1>2, <1>3
    <3> HIDE DEF n, foreign
    <3>2. foreign => /\ <<d.network>> \in BytesOf(1) /\ <<d.network>>[1] = d.network
      BY <2>1, OneByte
    <3>3. foreign => <<n>> \in BytesOf(1) /\ Number(<<n>>) = n
      BY <3>1, OneByte
    <3> QED BY <3>1, <3>2, <3>3 DEF n
  <2>3. <<>> \in BytesOf(0)
    BY DEF BytesOf
  <2> QED BY <1>3, <2>2, <2>3
<1>9. F \in Fields(EnvelopeFields)
  <2>1. FirstNames(EnvelopeFields, Len(EnvelopeFields)) = DOMAIN F
    BY <1>3, EnvelopeNames
  <2>2. \A x \in DOMAIN F : F[x] \in Seq(Byte)
    BY <1>1, <1>2, <1>3, <1>5, <1>6, <1>7, <1>8 DEF BytesOf
  <2> QED BY <1>3, <2>1, <2>2 DEF Fields
<1>10. /\ foreign <=> F.tag = <<2>>
       /\ F.tag = <<0>> => ~foreign /\ d = [kind |-> "node", id |-> d.id] /\ Len(d.id) = NodeIdLen
       /\ F.tag = <<1>> => ~foreign /\ d = [kind |-> "community", id |-> d.id] /\ Len(d.id) = CommunityIdLen
       /\ F.tag = <<0>> \/ F.tag = <<1>> \/ F.tag = <<2>>
  <2>1. /\ <<0>>[1] = 0 /\ <<1>>[1] = 1 /\ <<2>>[1] = 2
    OBVIOUS
  <2> QED BY <1>2, <1>3, <1>7, <2>1
<1>11. EnvelopeOf(F) = e
  <2>1. DestinationOf(F) = d
    BY <1>2, <1>3, <1>8, <1>10 DEF DestinationOf
  <2> QED BY <1>1, <1>3, <1>5, <1>7, <2>1 DEF EnvelopeOf
<1>12. ASSUME NEW i \in 1..Len(EnvelopeFields)
       PROVE  /\ Len(F[EnvelopeFields[i]]) = EnvelopeLen[i][F]
              /\ EnvelopeErr[i][F] = "none"
  <2>1. /\ EnvelopeLen[i][F] = EnvelopeFieldLen(EnvelopeFields[i], F)
        /\ EnvelopeErr[i][F] = EnvelopeFieldError(EnvelopeFields[i], F)
    BY <1>9 DEF EnvelopeLen, EnvelopeErr
  <2> DEFINE name == EnvelopeFields[i]
  <2>2. name \in DOMAIN F
    <3>1. name \in FirstNames(EnvelopeFields, Len(EnvelopeFields))
      BY DEF FirstNames
    <3> QED BY <1>3, <3>1, EnvelopeNames
  <2> HIDE DEF name
  <2>3. Len(F[name]) = EnvelopeFieldLen(name, F)
    BY <1>1, <1>3, <1>5, <1>6, <1>7, <1>8, <1>10, <2>2, ZenonT(40) DEF EnvelopeFieldLen, BytesOf
  <2>4. EnvelopeFieldError(name, F) = "none"
    BY <1>1, <1>2, <1>3, <1>4, <1>7, <1>8, <1>10, <2>2 DEF EnvelopeFieldError, WireVersion
  <2> QED BY <2>1, <2>3, <2>4 DEF name
<1> QED BY <1>9, <1>11, <1>12 DEF F

\* The fields of an image make an envelope, whose fields they are.
LEMMA ImageIsFields ==
    ASSUME NEW F, NEW wire, EnvelopeImage(F, wire)
    PROVE  EnvelopeOf(F) \in Envelopes /\ FieldsOf(EnvelopeOf(F)) = F
<1> DEFINE e == EnvelopeOf(F)
           d == DestinationOf(F)
<1>1. F \in Fields(EnvelopeFields)
  BY DEF EnvelopeImage, Image
<1>2. /\ DOMAIN F = {"version", "message_id", "source", "tag", "network", "length", "id",
                     "created_at", "expires_at", "hop_limit", "payload_kind", "payload_len",
                     "payload"}
      /\ \A x \in DOMAIN F : F[x] \in Seq(Byte)
      /\ F = [x \in DOMAIN F |-> F[x]]
  BY <1>1, EnvelopeNames DEF Fields
<1>3. \A x \in DOMAIN F : Len(F[x]) = EnvelopeFieldLen(x, F) /\ EnvelopeFieldError(x, F) = "none"
  <2> SUFFICES ASSUME NEW x \in DOMAIN F
               PROVE Len(F[x]) = EnvelopeFieldLen(x, F) /\ EnvelopeFieldError(x, F) = "none"
    OBVIOUS
  <2>1. PICK i \in 1..Len(EnvelopeFields) : x = EnvelopeFields[i]
    BY <1>1 DEF Fields, FirstNames
  <2>2. Len(F[x]) = EnvelopeLen[i][F] /\ EnvelopeErr[i][F] = "none"
    BY <2>1 DEF EnvelopeImage, Image
  <2> QED BY <1>1, <2>1, <2>2 DEF EnvelopeLen, EnvelopeErr
<1>4. /\ F.version \in BytesOf(1) /\ F.message_id \in BytesOf(MessageIdLen)
      /\ F.source \in BytesOf(NodeIdLen) /\ F.tag \in BytesOf(1)
      /\ F.created_at \in BytesOf(TimeLen) /\ F.expires_at \in BytesOf(TimeLen)
      /\ F.hop_limit \in BytesOf(1) /\ F.payload_kind \in BytesOf(1)
      /\ F.payload_len \in BytesOf(2) /\ F.payload \in Seq(Byte)
      /\ Len(F.payload) = Number(F.payload_len)
  BY <1>2, <1>3 DEF EnvelopeFieldLen, BytesOf
<1>5. /\ F.version[1] \in Byte /\ <<F.version[1]>> = F.version
      /\ F.tag[1] \in Byte /\ <<F.tag[1]>> = F.tag
      /\ F.hop_limit[1] \in Byte /\ <<F.hop_limit[1]>> = F.hop_limit
      /\ F.payload_kind[1] \in Byte /\ <<F.payload_kind[1]>> = F.payload_kind
  BY <1>4, ByteOne
<1>6. F.payload_kind[1] \in PayloadTags
  BY <1>2, <1>3 DEF EnvelopeFieldError
<1>7. F.tag[1] \in 0..2
  BY <1>2, <1>3 DEF EnvelopeFieldError
<1>8. /\ d \in Destinations /\ F.tag = <<DestinationTag(d)>> /\ F.id = d.id
      /\ F.network = IF d.kind = "foreign" THEN <<d.network>> ELSE <<>>
      /\ F.length = IF d.kind = "foreign" THEN <<Len(d.id)>> ELSE <<>>
  <2>0. /\ <<0>>[1] = 0 /\ <<1>>[1] = 1 /\ <<2>>[1] = 2
        /\ \A s \in BytesOf(0) : s = <<>>
    BY DEF BytesOf
  <2>1. CASE F.tag[1] = 0
    <3>1. F.tag = <<0>> /\ F.tag # <<2>>
      BY <1>5, <2>0, <2>1
    <3>2. F.network \in BytesOf(0) /\ F.length \in BytesOf(0) /\ F.id \in BytesOf(NodeIdLen)
      BY <1>2, <1>3, <3>1 DEF EnvelopeFieldLen, BytesOf
    <3>3. d = [kind |-> "node", id |-> F.id]
      BY <3>1 DEF DestinationOf
    <3>4. d \in Destinations /\ d.kind = "node" /\ d.id = F.id
      BY <3>2, <3>3 DEF Destinations
    <3> HIDE DEF d
    <3> QED BY <2>0, <3>1, <3>2, <3>4 DEF DestinationTag
  <2>2. CASE F.tag[1] = 1
    <3>1. F.tag = <<1>> /\ F.tag # <<0>> /\ F.tag # <<2>>
      BY <1>5, <2>0, <2>2
    <3>2. F.network \in BytesOf(0) /\ F.length \in BytesOf(0) /\ F.id \in BytesOf(CommunityIdLen)
      BY <1>2, <1>3, <3>1 DEF EnvelopeFieldLen, BytesOf
    <3>3. d = [kind |-> "community", id |-> F.id]
      BY <3>1 DEF DestinationOf
    <3>4. d \in Destinations /\ d.kind = "community" /\ d.id = F.id
      BY <3>2, <3>3 DEF Destinations
    <3> HIDE DEF d
    <3> QED BY <2>0, <3>1, <3>2, <3>4 DEF DestinationTag
  <2>3. CASE F.tag[1] = 2
    <3>1. F.tag = <<2>> /\ F.tag # <<0>> /\ F.tag # <<1>>
      BY <1>5, <2>0, <2>3
    <3>2. F.network \in BytesOf(1) /\ F.length \in BytesOf(1) /\ Len(F.id) = Number(F.length)
      BY <1>2, <1>3, <3>1 DEF EnvelopeFieldLen, BytesOf
    <3>3. F.network = <<F.network[1]>> /\ F.length = <<Len(F.id)>>
      BY <3>2, ByteOne
    <3>4. F.network[1] \in NetworkTags /\ EndpointError(F.id) = "none"
      BY <1>2, <1>3, <3>1 DEF EnvelopeFieldError
    <3>5. d = [kind |-> "foreign", network |-> F.network[1], id |-> F.id]
      BY <3>1 DEF DestinationOf
    <3>6. F.id \in Endpoints
      BY <1>2, <3>4 DEF Endpoints
    <3>7. d \in Destinations /\ d.kind = "foreign" /\ d.id = F.id /\ d.network = F.network[1]
      BY <3>4, <3>5, <3>6 DEF Destinations
    <3> HIDE DEF d
    <3> QED BY <3>1, <3>3, <3>7 DEF DestinationTag
  <2> QED BY <1>7, <2>1, <2>2, <2>3
<1>9. /\ e.version = F.version[1] /\ e.message_id = F.message_id /\ e.source = F.source
      /\ e.destination = d /\ e.created_at = Number(F.created_at)
      /\ e.expires_at = Number(F.expires_at) /\ e.hop_limit = F.hop_limit[1]
      /\ e.payload_kind = F.payload_kind[1] /\ e.payload = F.payload
  BY DEF EnvelopeOf
<1>10. /\ Number(F.created_at) \in Times /\ BeBytes(Number(F.created_at), TimeLen) = F.created_at
       /\ Number(F.expires_at) \in Times /\ BeBytes(Number(F.expires_at), TimeLen) = F.expires_at
  BY <1>4, BytesTime
<1>11. BeBytes(Len(F.payload), 2) = F.payload_len
  BY <1>4, BytesLength
<1> HIDE DEF d
<1>12. e \in Envelopes
  BY <1>4, <1>5, <1>6, <1>8, <1>10 DEF Envelopes, EnvelopeOf, d
<1> HIDE DEF e
<1>13. FieldsOf(e) = F
  <2> DEFINE G == FieldsOf(e)
  <2>1. /\ G.version = F.version /\ G.message_id = F.message_id /\ G.source = F.source
        /\ G.tag = F.tag /\ G.network = F.network /\ G.length = F.length /\ G.id = F.id
        /\ G.created_at = F.created_at /\ G.expires_at = F.expires_at
        /\ G.hop_limit = F.hop_limit /\ G.payload_kind = F.payload_kind
        /\ G.payload_len = F.payload_len /\ G.payload = F.payload
    BY <1>5, <1>8, <1>9, <1>10, <1>11 DEF FieldsOf
  <2>2. DOMAIN G = DOMAIN F /\ G = [x \in DOMAIN G |-> G[x]]
    BY <1>2 DEF FieldsOf
  <2> HIDE DEF G
  <2>3. \A x \in DOMAIN F : G[x] = F[x]
    BY <1>2, <2>1
  <2> QED BY <1>2, <2>2, <2>3 DEF G
<1> QED BY <1>12, <1>13 DEF e

\* encode_envelope writes those fields one behind the other.
EnvelopeWire(e) ==
    <<e.version>> \o e.message_id \o e.source \o EncodeDestination(e.destination)
        \o BeBytes(e.created_at, TimeLen) \o BeBytes(e.expires_at, TimeLen)
        \o <<e.hop_limit, e.payload_kind>> \o BeBytes(Len(e.payload), 2) \o e.payload

\* The fields of an envelope, joined, are its wire image.
LEMMA FieldsJoined ==
    ASSUME NEW e, FieldsOf(e) \in Fields(EnvelopeFields),
           NEW W, Joined(W, FieldsOf(e), EnvelopeFields)
    PROVE  W[Len(EnvelopeFields)] = EnvelopeWire(e)
<1> DEFINE F == FieldsOf(e)
           d == e.destination
           pair == IF d.kind = "foreign" THEN <<d.network, Len(d.id)>> ELSE <<>>
<1>0. 1 \in 1..13 /\ 2 \in 1..13 /\ 3 \in 1..13 /\ 4 \in 1..13 /\ 5 \in 1..13 /\ 6 \in 1..13
      /\ 7 \in 1..13 /\ 8 \in 1..13 /\ 9 \in 1..13 /\ 10 \in 1..13 /\ 11 \in 1..13
      /\ 12 \in 1..13 /\ 13 \in 1..13 /\ Len(EnvelopeFields) = 13
  BY EnvelopeNames
<1>1. /\ W[0] = <<>>
      /\ W[1] = W[0] \o F.version /\ W[2] = W[1] \o F.message_id /\ W[3] = W[2] \o F.source
      /\ W[4] = W[3] \o F.tag /\ W[5] = W[4] \o F.network /\ W[6] = W[5] \o F.length
      /\ W[7] = W[6] \o F.id /\ W[8] = W[7] \o F.created_at /\ W[9] = W[8] \o F.expires_at
      /\ W[10] = W[9] \o F.hop_limit /\ W[11] = W[10] \o F.payload_kind
      /\ W[12] = W[11] \o F.payload_len /\ W[13] = W[12] \o F.payload
  <2> HIDE DEF F
  <2>0. Joined(W, F, EnvelopeFields) /\ Len(EnvelopeFields) = 13
    BY EnvelopeNames DEF F
  <2>1. \A i \in 0..12 : W[i + 1] = W[i] \o F[EnvelopeFields[i + 1]]
    <3> SUFFICES ASSUME NEW i \in 0..12 PROVE W[i + 1] = W[i] \o F[EnvelopeFields[i + 1]]
      OBVIOUS
    <3>1. i + 1 \in 1..Len(EnvelopeFields) /\ (i + 1) - 1 = i
      BY <2>0
    <3> QED BY <2>0, <3>1 DEF Joined
  <2>2. W[1] = W[0] \o F.version
    <3>1. EnvelopeFields[0 + 1] = "version"
      BY DEF EnvelopeFields
    <3>2. 0 \in 0..12 /\ 0 + 1 = 1
      OBVIOUS
    <3> QED BY <2>1, <3>1, <3>2
  <2>3. W[2] = W[1] \o F.message_id
    <3>1. EnvelopeFields[1 + 1] = "message_id"
      BY DEF EnvelopeFields
    <3>2. 1 \in 0..12 /\ 1 + 1 = 2
      OBVIOUS
    <3> QED BY <2>1, <3>1, <3>2
  <2>4. W[3] = W[2] \o F.source
    <3>1. EnvelopeFields[2 + 1] = "source"
      BY DEF EnvelopeFields
    <3>2. 2 \in 0..12 /\ 2 + 1 = 3
      OBVIOUS
    <3> QED BY <2>1, <3>1, <3>2
  <2>5. W[4] = W[3] \o F.tag
    <3>1. EnvelopeFields[3 + 1] = "tag"
      BY DEF EnvelopeFields
    <3>2. 3 \in 0..12 /\ 3 + 1 = 4
      OBVIOUS
    <3> QED BY <2>1, <3>1, <3>2
  <2>6. W[5] = W[4] \o F.network
    <3>1. EnvelopeFields[4 + 1] = "network"
      BY DEF EnvelopeFields
    <3>2. 4 \in 0..12 /\ 4 + 1 = 5
      OBVIOUS
    <3> QED BY <2>1, <3>1, <3>2
  <2>7. W[6] = W[5] \o F.length
    <3>1. EnvelopeFields[5 + 1] = "length"
      BY DEF EnvelopeFields
    <3>2. 5 \in 0..12 /\ 5 + 1 = 6
      OBVIOUS
    <3> QED BY <2>1, <3>1, <3>2
  <2>8. W[7] = W[6] \o F.id
    <3>1. EnvelopeFields[6 + 1] = "id"
      BY DEF EnvelopeFields
    <3>2. 6 \in 0..12 /\ 6 + 1 = 7
      OBVIOUS
    <3> QED BY <2>1, <3>1, <3>2
  <2>9. W[8] = W[7] \o F.created_at
    <3>1. EnvelopeFields[7 + 1] = "created_at"
      BY DEF EnvelopeFields
    <3>2. 7 \in 0..12 /\ 7 + 1 = 8
      OBVIOUS
    <3> QED BY <2>1, <3>1, <3>2
  <2>10. W[9] = W[8] \o F.expires_at
    <3>1. EnvelopeFields[8 + 1] = "expires_at"
      BY DEF EnvelopeFields
    <3>2. 8 \in 0..12 /\ 8 + 1 = 9
      OBVIOUS
    <3> QED BY <2>1, <3>1, <3>2
  <2>11. W[10] = W[9] \o F.hop_limit
    <3>1. EnvelopeFields[9 + 1] = "hop_limit"
      BY DEF EnvelopeFields
    <3>2. 9 \in 0..12 /\ 9 + 1 = 10
      OBVIOUS
    <3> QED BY <2>1, <3>1, <3>2
  <2>12. W[11] = W[10] \o F.payload_kind
    <3>1. EnvelopeFields[10 + 1] = "payload_kind"
      BY DEF EnvelopeFields
    <3>2. 10 \in 0..12 /\ 10 + 1 = 11
      OBVIOUS
    <3> QED BY <2>1, <3>1, <3>2
  <2>13. W[12] = W[11] \o F.payload_len
    <3>1. EnvelopeFields[11 + 1] = "payload_len"
      BY DEF EnvelopeFields
    <3>2. 11 \in 0..12 /\ 11 + 1 = 12
      OBVIOUS
    <3> QED BY <2>1, <3>1, <3>2
  <2>14. W[13] = W[12] \o F.payload
    <3>1. EnvelopeFields[12 + 1] = "payload"
      BY DEF EnvelopeFields
    <3>2. 12 \in 0..12 /\ 12 + 1 = 13
      OBVIOUS
    <3> QED BY <2>1, <3>1, <3>2
  <2>15. W[0] = <<>>
    BY <2>0 DEF Joined
  <2> QED
    BY <2>2, <2>3, <2>4, <2>5, <2>6, <2>7, <2>8, <2>9, <2>10, <2>11, <2>12, <2>13, <2>14, <2>15
<1>2. \A x \in {"version", "message_id", "source", "tag", "network", "length", "id",
                "created_at", "expires_at", "hop_limit", "payload_kind", "payload_len",
                "payload"} : F[x] \in Seq(Byte)
  BY EnvelopeNames DEF Fields
<1>3. /\ F.version = <<e.version>> /\ F.message_id = e.message_id /\ F.source = e.source
      /\ F.tag = <<DestinationTag(d)>> /\ F.id = d.id
      /\ F.created_at = BeBytes(e.created_at, TimeLen)
      /\ F.expires_at = BeBytes(e.expires_at, TimeLen) /\ F.hop_limit = <<e.hop_limit>>
      /\ F.payload_kind = <<e.payload_kind>> /\ F.payload_len = BeBytes(Len(e.payload), 2)
      /\ F.payload = e.payload
  BY DEF FieldsOf
<1>4. F.network \o F.length = pair
  <2>1. CASE d.kind = "foreign"
    <3>1. F.network = <<d.network>> /\ F.length = <<Len(d.id)>>
      BY <2>1 DEF FieldsOf
    <3> QED BY <2>1, <3>1, PairOfBytes
  <2>2. CASE d.kind # "foreign"
    <3>1. F.network = <<>> /\ F.length = <<>>
      BY <2>2 DEF FieldsOf
    <3>2. <<>> \o <<>> = <<>>
      BY ConcatEmptySeq
    <3> QED BY <2>2, <3>1, <3>2
  <2> QED BY <2>1, <2>2
<1>5. F.hop_limit \o F.payload_kind = <<e.hop_limit, e.payload_kind>>
  BY <1>3, PairOfBytes
<1>6. EncodeDestination(d) = (F.tag \o pair) \o F.id
  BY <1>3 DEF EncodeDestination
<1> HIDE DEF F, d, pair
<1>7. \A i \in 1..13 : W[i] \in Seq(Byte)
  <2>1. HasParts(W, F, EnvelopeFields)
    BY <1>0, JoinedParts DEF F
  <2>2. \A i \in 0..Len(EnvelopeFields) : W[i] \in Seq(Byte)
    BY <2>1 DEF HasParts
  <2> SUFFICES ASSUME NEW i \in 1..13 PROVE W[i] \in Seq(Byte)
    OBVIOUS
  <2>3. i \in 0..Len(EnvelopeFields)
    BY <1>0
  <2> QED BY <2>2, <2>3
<1>8. /\ W[3] \in Seq(Byte) /\ F.tag \in Seq(Byte) /\ F.network \in Seq(Byte)
      /\ F.length \in Seq(Byte) /\ F.id \in Seq(Byte) /\ W[9] \in Seq(Byte)
      /\ F.hop_limit \in Seq(Byte) /\ F.payload_kind \in Seq(Byte)
      /\ W[4] \in Seq(Byte) /\ F.version \in Seq(Byte)
  BY <1>0, <1>2, <1>7
<1>9. W[7] = W[3] \o EncodeDestination(d)
  <2> DEFINE u == W[3]
             p == F.tag
             q == F.network
             r == F.length
             v == F.id
  <2>1. /\ u \in Seq(Byte) /\ p \in Seq(Byte) /\ q \in Seq(Byte) /\ r \in Seq(Byte)
        /\ v \in Seq(Byte)
    BY <1>8
  <2>2. /\ W[7] = (((u \o p) \o q) \o r) \o v
        /\ u \o EncodeDestination(d) = u \o ((p \o (q \o r)) \o v)
    BY <1>1, <1>4, <1>6
  <2> HIDE DEF u, p, q, r, v
  <2>3. (((u \o p) \o q) \o r) \o v = u \o ((p \o (q \o r)) \o v)
    <3> DEFINE x == u \o p
               y == q \o r
               z == p \o y
    <3>1. x \in Seq(Byte) /\ y \in Seq(Byte)
      BY <2>1, ConcatProperties
    <3>2. z \in Seq(Byte)
      <4> HIDE DEF y
      <4> QED BY <2>1, <3>1, ConcatProperties
    <3>3. (x \o q) \o r = x \o y
      <4> HIDE DEF x
      <4> QED BY <2>1, <3>1, BytesAssociate, SMTT(30)
    <3>4. x \o y = u \o z
      <4> HIDE DEF y
      <4> QED BY <2>1, <3>1, BytesAssociate, SMTT(30)
    <3>5. (u \o z) \o v = u \o (z \o v)
      <4> HIDE DEF z
      <4> QED BY <2>1, <3>2, BytesAssociate, SMTT(30)
    <3> QED BY <3>3, <3>4, <3>5
  <2> QED BY <2>2, <2>3 DEF u
<1>10. W[11] = W[9] \o <<e.hop_limit, e.payload_kind>>
  <2> DEFINE u == W[9]
             p == F.hop_limit
             q == F.payload_kind
  <2>1. u \in Seq(Byte) /\ p \in Seq(Byte) /\ q \in Seq(Byte)
    BY <1>8
  <2>2. W[11] = (u \o p) \o q /\ p \o q = <<e.hop_limit, e.payload_kind>>
    BY <1>1, <1>5
  <2> HIDE DEF u, p, q
  <2>3. (u \o p) \o q = u \o (p \o q)
    BY <2>1, BytesAssociate
  <2> QED BY <2>2, <2>3 DEF u
<1>11. W[1] = F.version
  BY <1>1, <1>8, ConcatEmptySeq
<1> QED
  BY <1>0, <1>1, <1>3, <1>9, <1>10, <1>11, ZenonT(40) DEF EnvelopeWire, d

\* DecodeEnvelope by its scan.
LEMMA EnvelopeDecoded ==
    ASSUME NEW wire \in Seq(Byte)
    PROVE  /\ \A F : EnvelopeImage(F, wire) => DecodeEnvelope(wire) = Validated(EnvelopeOf(F))
           /\ IsOk(DecodeEnvelope(wire)) =>
                 \E F : EnvelopeImage(F, wire) /\ DecodeEnvelope(wire) = Validated(EnvelopeOf(F))
<1> DEFINE c == EnvelopeScan(wire)
<1>1. DecodeEnvelope(wire) =
         CASE c.error /= "none" -> Err(c.error)
           [] c.at /= Len(c.input) -> Err("TrailingBytes")
           [] OTHER -> Validated(EnvelopeOf(c.fields))
  BY DEF DecodeEnvelope, Scanned, EnvelopeScan, EnvelopeOf
<1>2. /\ c.error = "none" => c.input = wire
      /\ c.error = "none" /\ c.at = Len(wire) => EnvelopeImage(c.fields, wire)
      /\ \A F : EnvelopeImage(F, wire) =>
                   c.error = "none" /\ c.at = Len(wire) /\ c.fields = F
  BY EnvelopeScanned
<1> HIDE DEF c
<1>3. ASSUME NEW F, EnvelopeImage(F, wire)
      PROVE  DecodeEnvelope(wire) = Validated(EnvelopeOf(F))
  <2>1. c.error = "none" /\ c.at = Len(wire) /\ c.fields = F /\ c.input = wire
    BY <1>2, <1>3
  <2> QED BY <1>1, <2>1
<1>4. ASSUME IsOk(DecodeEnvelope(wire))
      PROVE  \E F : EnvelopeImage(F, wire) /\ DecodeEnvelope(wire) = Validated(EnvelopeOf(F))
  <2>0. DecodeEnvelope(wire).error = "none"
    BY <1>4 DEF IsOk
  <2>1. c.error = "none"
    <3> SUFFICES ASSUME c.error # "none" PROVE FALSE
      OBVIOUS
    <3>1. DecodeEnvelope(wire) = Err(c.error) \/ DecodeEnvelope(wire) = Err("TrailingBytes")
      BY <1>1
    <3> QED BY <2>0, <3>1 DEF Err
  <2>2. c.input = wire
    BY <1>2, <2>1
  <2>3. c.at = Len(wire)
    <3> SUFFICES ASSUME c.at # Len(wire) PROVE FALSE
      OBVIOUS
    <3>1. DecodeEnvelope(wire) = Err("TrailingBytes")
      BY <1>1, <2>1, <2>2
    <3> QED BY <2>0, <3>1 DEF Err
  <2> QED BY <1>1, <1>2, <2>1, <2>2, <2>3
<1> QED BY <1>3, <1>4

\* EncodeEnvelope by its wire image.
LEMMA EnvelopeEncoded ==
    ASSUME NEW e, NEW room
    PROVE  EncodeEnvelope(e, room) =
              CASE EnvelopeError(e) /= "none" -> Err(EnvelopeError(e))
                [] room < Len(EnvelopeWire(e)) -> Err("OutputBufferTooShort")
                [] OTHER -> Ok(EnvelopeWire(e))
  BY DEF EncodeEnvelope, EnvelopeWire

\* A valid envelope is written as bytes, which are its image.
LEMMA WireIsImage ==
    ASSUME NEW e \in Envelopes, EnvelopeError(e) = "none"
    PROVE  EnvelopeWire(e) \in Seq(Byte) /\ EnvelopeImage(FieldsOf(e), EnvelopeWire(e))
<1> DEFINE F == FieldsOf(e)
<1>1. /\ F \in Fields(EnvelopeFields)
      /\ \A i \in 1..Len(EnvelopeFields) :
            Len(F[EnvelopeFields[i]]) = EnvelopeLen[i][F] /\ EnvelopeErr[i][F] = "none"
  BY FieldsAreImage
<1>2. Len(EnvelopeFields) \in Nat
  BY EnvelopeNames
<1>3. PICK W : Joined(W, F, EnvelopeFields)
  <2> HIDE DEF F
  <2> QED BY <1>1, <1>2, JoinedExists
<1>4. W[Len(EnvelopeFields)] = EnvelopeWire(e)
  BY <1>1, <1>3, FieldsJoined
<1>5. W[Len(EnvelopeFields)] \in Seq(Byte)
  <2> HIDE DEF F
  <2>1. HasParts(W, F, EnvelopeFields)
    BY <1>1, <1>2, <1>3, JoinedParts
  <2> QED BY <1>2, <2>1 DEF HasParts
<1> QED BY <1>1, <1>3, <1>4, <1>5 DEF EnvelopeImage, Image

\* What decode_envelope makes of any bytes is a valid envelope.
THEOREM DecodedEnvelopes ==
    \A wire \in Seq(Byte) :
       IsOk(DecodeEnvelope(wire)) =>
          /\ DecodeEnvelope(wire).value \in Envelopes
          /\ EnvelopeError(DecodeEnvelope(wire).value) = "none"
<1> SUFFICES ASSUME NEW wire \in Seq(Byte), IsOk(DecodeEnvelope(wire))
             PROVE  /\ DecodeEnvelope(wire).value \in Envelopes
                    /\ EnvelopeError(DecodeEnvelope(wire).value) = "none"
  OBVIOUS
<1>1. PICK F : EnvelopeImage(F, wire) /\ DecodeEnvelope(wire) = Validated(EnvelopeOf(F))
  BY EnvelopeDecoded
<1>2. EnvelopeOf(F) \in Envelopes
  BY <1>1, ImageIsFields
<1>3. EnvelopeError(EnvelopeOf(F)) = "none"
  BY <1>1 DEF Validated, IsOk, Err
<1>4. DecodeEnvelope(wire).value = EnvelopeOf(F)
  BY <1>1, <1>3 DEF Validated, Ok
<1> QED BY <1>2, <1>3, <1>4

\* decode_envelope and encode_envelope are inverse to each other.
THEOREM EnvelopeExact ==
    \A wire \in Seq(Byte), e \in Envelopes :
       DecodeEnvelope(wire) = Ok(e) <=> EncodeEnvelope(e, Len(wire)) = Ok(wire)
<1> SUFFICES ASSUME NEW wire \in Seq(Byte), NEW e \in Envelopes
             PROVE  DecodeEnvelope(wire) = Ok(e) <=> EncodeEnvelope(e, Len(wire)) = Ok(wire)
  OBVIOUS
<1>0. Len(wire) \in Nat
  OBVIOUS
<1>1. ASSUME DecodeEnvelope(wire) = Ok(e) PROVE EncodeEnvelope(e, Len(wire)) = Ok(wire)
  <2>1. PICK F : EnvelopeImage(F, wire) /\ DecodeEnvelope(wire) = Validated(EnvelopeOf(F))
    <3>1. IsOk(DecodeEnvelope(wire))
      BY <1>1 DEF IsOk, Ok
    <3> QED BY <3>1, EnvelopeDecoded
  <2>2. EnvelopeError(EnvelopeOf(F)) = "none" /\ EnvelopeOf(F) = e
    <3>1. Validated(EnvelopeOf(F)).error = "none" /\ Validated(EnvelopeOf(F)).value = e
      BY <1>1, <2>1 DEF Ok
    <3>2. EnvelopeError(EnvelopeOf(F)) = "none"
      BY <3>1 DEF Validated, Err
    <3> QED BY <3>1, <3>2 DEF Validated, Ok
  <2>3. FieldsOf(e) = F
    BY <2>1, <2>2, ImageIsFields
  <2>4. PICK W : Joined(W, F, EnvelopeFields) /\ W[Len(EnvelopeFields)] = wire
    BY <2>1 DEF EnvelopeImage, Image
  <2>5. F \in Fields(EnvelopeFields)
    BY <2>1 DEF EnvelopeImage, Image
  <2>6. EnvelopeWire(e) = wire
    BY <2>3, <2>4, <2>5, FieldsJoined
  <2>7. EncodeEnvelope(e, Len(wire)) =
          CASE EnvelopeError(e) /= "none" -> Err(EnvelopeError(e))
            [] Len(wire) < Len(EnvelopeWire(e)) -> Err("OutputBufferTooShort")
            [] OTHER -> Ok(EnvelopeWire(e))
    BY EnvelopeEncoded
  <2>8. ~(Len(wire) < Len(wire))
    BY <1>0
  <2> QED BY <2>2, <2>6, <2>7, <2>8
<1>2. ASSUME EncodeEnvelope(e, Len(wire)) = Ok(wire) PROVE DecodeEnvelope(wire) = Ok(e)
  <2>1. EnvelopeError(e) = "none"
    <3> SUFFICES ASSUME EnvelopeError(e) # "none" PROVE FALSE
      OBVIOUS
    <3>1. \/ EncodeEnvelope(e, Len(wire)) = Err(EnvelopeError(e))
          \/ EncodeEnvelope(e, Len(wire)) = Err("OutputBufferTooShort")
      BY EnvelopeEncoded
    <3>2. EncodeEnvelope(e, Len(wire)).error = "none"
      BY <1>2 DEF Ok
    <3> QED BY <3>1, <3>2 DEF Err
  <2>2. EnvelopeWire(e) \in Seq(Byte) /\ EnvelopeImage(FieldsOf(e), EnvelopeWire(e))
    BY <2>1, WireIsImage
  <2>3. EncodeEnvelope(e, Len(wire)) =
          CASE EnvelopeError(e) /= "none" -> Err(EnvelopeError(e))
            [] Len(wire) < Len(EnvelopeWire(e)) -> Err("OutputBufferTooShort")
            [] OTHER -> Ok(EnvelopeWire(e))
    BY EnvelopeEncoded
  <2>4. EnvelopeWire(e) = wire
    <3>1. EncodeEnvelope(e, Len(wire)).error = "none" /\ EncodeEnvelope(e, Len(wire)).value = wire
      BY <1>2 DEF Ok
    <3>2. EncodeEnvelope(e, Len(wire)) = Ok(EnvelopeWire(e))
      BY <2>1, <2>3, <3>1 DEF Err
    <3> QED BY <3>1, <3>2 DEF Ok
  <2>5. DecodeEnvelope(wire) = Validated(EnvelopeOf(FieldsOf(e)))
    BY <2>2, <2>4, EnvelopeDecoded
  <2>6. EnvelopeOf(FieldsOf(e)) = e
    BY <2>1, FieldsAreImage
  <2> QED BY <2>1, <2>5, <2>6 DEF Validated
<1> QED BY <1>1, <1>2

-----------------------------------------------------------------------------
(* Room messages.                                                          *)

\* Three bytes one behind the other.
LEMMA TripleOfBytes ==
    \A a, b, c : (<<a>> \o <<b>>) \o <<c>> = <<a, b, c>>
<1> SUFFICES ASSUME NEW a, NEW b, NEW c PROVE (<<a>> \o <<b>>) \o <<c>> = <<a, b, c>>
  OBVIOUS
<1> DEFINE S == {a, b, c}
<1>1. <<a>> \o <<b>> = <<a, b>>
  BY PairOfBytes
<1>2. <<a, b>> \in Seq(S) /\ <<c>> \in Seq(S) /\ Len(<<a, b>>) = 2 /\ Len(<<c>>) = 1
  OBVIOUS
<1>3. <<a, b>>[1] = a /\ <<a, b>>[2] = b /\ <<c>>[1] = c
  OBVIOUS
<1>4. <<a, b>> \o <<c>> \in Seq(S) /\ Len(<<a, b>> \o <<c>>) = 3
  BY <1>2, ConcatProperties
<1>5. /\ (<<a, b>> \o <<c>>)[1] = a /\ (<<a, b>> \o <<c>>)[2] = b
      /\ (<<a, b>> \o <<c>>)[3] = c
  BY <1>2, <1>3
<1>6. /\ <<a, b, c>> \in Seq(S) /\ Len(<<a, b, c>>) = 3
      /\ <<a, b, c>>[1] = a /\ <<a, b, c>>[2] = b /\ <<a, b, c>>[3] = c
  OBVIOUS
<1> DEFINE s == <<a, b>> \o <<c>>
           t == <<a, b, c>>
<1>7. s \in Seq(S) /\ t \in Seq(S) /\ Len(s) = Len(t) /\ \A i \in 1..Len(s) : s[i] = t[i]
  <2>1. Len(s) = 3 /\ Len(t) = 3 /\ s[1] = t[1] /\ s[2] = t[2] /\ s[3] = t[3]
    BY <1>4, <1>5, <1>6
  <2> HIDE DEF s, t
  <2>2. \A i \in 1..Len(s) : s[i] = t[i]
    BY <2>1
  <2> QED BY <1>4, <1>6, <2>1, <2>2 DEF s, t
<1> HIDE DEF S, s, t
<1>8. s = t
  BY <1>7, SeqEqual
<1> QED BY <1>1, <1>8 DEF s, t

\* The fields of a room message.
LEMMA BridgeNames ==
    /\ Len(BridgeFields) = 11 /\ Distinct(BridgeFields)
    /\ FirstNames(BridgeFields, 11) =
          {"version", "room_id", "message_id", "author_kind", "network", "length",
           "author", "created_at", "payload_kind", "payload_len", "payload"}
<1>1. Len(BridgeFields) = 11
  BY DEF BridgeFields
<1>2. Distinct(BridgeFields)
  BY <1>1 DEF BridgeFields, Distinct
<1>3. 1..11 = {1, 2, 3, 4, 5, 6, 7, 8, 9, 10, 11}
  OBVIOUS
<1>4. FirstNames(BridgeFields, 11) = {BridgeFields[i] : i \in {1, 2, 3, 4, 5, 6, 7, 8, 9, 10, 11}}
  BY <1>3 DEF FirstNames
<1>5. /\ BridgeFields[1] = "version"
      /\ BridgeFields[2] = "room_id"
      /\ BridgeFields[3] = "message_id"
      /\ BridgeFields[4] = "author_kind"
      /\ BridgeFields[5] = "network"
      /\ BridgeFields[6] = "length"
      /\ BridgeFields[7] = "author"
      /\ BridgeFields[8] = "created_at"
      /\ BridgeFields[9] = "payload_kind"
      /\ BridgeFields[10] = "payload_len"
      /\ BridgeFields[11] = "payload"
  BY DEF BridgeFields
<1> QED BY <1>1, <1>2, <1>4, <1>5

\* Each field is looked up only once it is read.
LEMMA BridgeLocal ==
    ASSUME NEW F \in Fields(BridgeFields), NEW i \in 1..Len(BridgeFields)
    PROVE  LET name == BridgeFields[i] IN
           /\ BridgeFieldLen(name, FirstFields(F, BridgeFields, i - 1)) = BridgeFieldLen(name, F)
           /\ BridgeFieldLen(name, F) \in Nat
           /\ BridgeFieldError(name, FirstFields(F, BridgeFields, i)) = BridgeFieldError(name, F)
<1> DEFINE name == BridgeFields[i]
           before == FirstFields(F, BridgeFields, i - 1)
           after == FirstFields(F, BridgeFields, i)
<1>1. /\ \A j \in 1..(i - 1) : before[BridgeFields[j]] = F[BridgeFields[j]]
      /\ \A j \in 1..i : after[BridgeFields[j]] = F[BridgeFields[j]]
  BY DEF FirstFields, FirstNames
<1>2. /\ BridgeFields[1] = "version"
      /\ BridgeFields[2] = "room_id"
      /\ BridgeFields[3] = "message_id"
      /\ BridgeFields[4] = "author_kind"
      /\ BridgeFields[5] = "network"
      /\ BridgeFields[6] = "length"
      /\ BridgeFields[7] = "author"
      /\ BridgeFields[8] = "created_at"
      /\ BridgeFields[9] = "payload_kind"
      /\ BridgeFields[10] = "payload_len"
      /\ BridgeFields[11] = "payload"
  BY DEF BridgeFields
<1>3. /\ F.length \in Seq(Byte) /\ F.payload_len \in Seq(Byte)
  BY BridgeNames DEF Fields
<1>4. /\ i = 7 => before.length = F.length
      /\ i = 11 => before.payload_len = F.payload_len
  BY <1>1, <1>2
<1>5. /\ i = 1 => after.version = F.version
      /\ i = 2 => after.room_id = F.room_id
      /\ i = 3 => after.message_id = F.message_id
      /\ i = 6 => /\ after.author_kind = F.author_kind /\ after.network = F.network
                  /\ after.length = F.length
      /\ i \in {9, 11} => after.payload_kind = F.payload_kind
      /\ i = 10 => after.payload_len = F.payload_len
      /\ i = 11 => after.payload = F.payload
  BY <1>1, <1>2, SMTT(30)
<1> HIDE DEF before, after
<1>6. i \in {1, 2, 3, 4, 5, 6, 7, 8, 9, 10, 11}
  BY BridgeNames
<1>7. BridgeFieldLen(name, before) = BridgeFieldLen(name, F)
  BY <1>2, <1>4, <1>6 DEF BridgeFieldLen
<1>8. BridgeFieldLen(name, F) \in Nat
  <2>1. MessageIdLen \in Nat /\ CommunityIdLen \in Nat /\ TimeLen \in Nat
    BY EnvelopeAssumption
  <2>2. Number(F.length) \in Nat /\ Number(F.payload_len) \in Nat
    BY <1>3, NumbersAreNatural
  <2> QED BY <1>2, <1>6, <2>1, <2>2 DEF BridgeFieldLen
<1>9. BridgeFieldError(name, after) = BridgeFieldError(name, F)
  <2>1. i = 6 => AuthorFieldError(after) = AuthorFieldError(F)
    BY <1>5 DEF AuthorFieldError, AuthorOf
  <2> QED BY <1>2, <1>5, <1>6, <2>1, SMTT(30) DEF BridgeFieldError
<1> QED BY <1>7, <1>8, <1>9 DEF before, after

\* The scan of decode_bridge_message goes through the fields one by one.
BridgeScan(wire) ==
    Scan(wire, BridgeFields,
         LAMBDA name, c : Short(c, BridgeFieldLen(name, c.fields)), BridgeFieldError)
BridgeLens(f) ==
    [i \in 1..Len(BridgeFields) |-> BridgeFieldLen(BridgeFields[i], f[i - 1].fields)]
BridgeErrors(f) ==
    [i \in 1..Len(BridgeFields) |-> BridgeFieldError(BridgeFields[i],
                        Keep(Short(f[i - 1], BridgeLens(f)[i]), BridgeFields[i]).fields)]

\* The scan of decode_bridge_message is a scan in this sense.
LEMMA BridgeScans ==
    ASSUME NEW wire
    PROVE  \E f : /\ BridgeScan(wire) = f[Len(BridgeFields)]
                  /\ Scans(f, wire, BridgeFields, BridgeLens(f), BridgeErrors(f))
<1> DEFINE Step(c, name) ==
               IF c.error /= "none" THEN c
               ELSE LET read == Short(c, BridgeFieldLen(name, c.fields))
                    IN  IF read.error /= "none" THEN read
                        ELSE [Keep(read, name) EXCEPT
                                !.error = BridgeFieldError(name, Keep(read, name).fields)]
           Rec(f, K) == f = [i \in 0..K |-> IF i = 0 THEN Cursor(wire)
                                            ELSE Step(f[i - 1], BridgeFields[i])]
           L == Len(BridgeFields)
           g == CHOOSE h : Rec(h, L)
<1>0. L \in Nat
  BY BridgeNames
<1>1. BridgeScan(wire) = g[L]
  BY DEF BridgeScan, Scan
<1> HIDE DEF Step, L
<1>2. \E h : Rec(h, L)
  <2> DEFINE P == {k \in 0..L : \E h : Rec(h, k)}
  <2>1. 0 \in P
    <3>0. 0 \in 0..L
      BY <1>0
    <3>1. Rec([i \in 0..0 |-> Cursor(wire)], 0)
      OBVIOUS
    <3> HIDE DEF Rec
    <3> QED BY <3>0, <3>1
  <2>2. ASSUME NEW k \in 0..(L - 1), k \in P PROVE k + 1 \in P
    <3>1. PICK h : Rec(h, k)
      BY <2>2
    <3> DEFINE G == [i \in 0..(k + 1) |->
                        IF i = k + 1 THEN Step(h[k], BridgeFields[k + 1]) ELSE h[i]]
    <3>2. Rec(G, k + 1)
      <4>1. \A i \in 0..k : /\ G[i] = h[i]
                            /\ h[i] = IF i = 0 THEN Cursor(wire)
                                      ELSE Step(h[i - 1], BridgeFields[i])
        BY <1>0, <3>1
      <4>2. \A i \in 0..(k + 1) : G[i] = IF i = 0 THEN Cursor(wire)
                                         ELSE Step(G[i - 1], BridgeFields[i])
        BY <4>1
      <4> QED BY <4>2
    <3>3. k + 1 \in 0..L
      BY <1>0
    <3> HIDE DEF Rec, G
    <3> QED BY <3>2, <3>3
  <2> HIDE DEF P
  <2>3. \A k \in 0..L : k \in P
    BY <1>0, <2>1, <2>2, UpTo
  <2>4. L \in 0..L
    BY <1>0
  <2> QED BY <2>3, <2>4 DEF P
<1>3. Rec(g, L)
  <2> HIDE DEF Rec
  <2> QED BY <1>2
<1> HIDE DEF g
<1>4. g[0] = Cursor(wire) /\ \A i \in 1..L : g[i] = Step(g[i - 1], BridgeFields[i])
  BY <1>0, <1>3
<1> HIDE DEF Rec
<1>5. \A i \in 1..L : g[i] = Advance(g[i - 1], BridgeFields[i],
                                      BridgeLens(g)[i], BridgeErrors(g)[i])
  BY <1>4 DEF Step, Advance, BridgeLens, BridgeErrors, L
<1> QED BY <1>1, <1>4, <1>5 DEF Scans, L


\* The lengths and the errors of the fields of a room message.
BridgeLen == [i \in 1..Len(BridgeFields) |->
                  [F \in Fields(BridgeFields) |-> BridgeFieldLen(BridgeFields[i], F)]]
BridgeErr == [i \in 1..Len(BridgeFields) |->
                  [F \in Fields(BridgeFields) |-> BridgeFieldError(BridgeFields[i], F)]]
BridgeImage(F, wire) == Image(F, wire, BridgeFields, BridgeLen, BridgeErr)

\* The scan of a wire image ends without an error, at its end, exactly if it
\* has such fields, and it has read them.
LEMMA BridgeScanned ==
    ASSUME NEW wire \in Seq(Byte)
    PROVE  /\ BridgeScan(wire).error = "none" => BridgeScan(wire).input = wire
           /\ BridgeScan(wire).error = "none" /\ BridgeScan(wire).at = Len(wire) =>
                 BridgeImage(BridgeScan(wire).fields, wire)
           /\ \A F : BridgeImage(F, wire) =>
                 /\ BridgeScan(wire).error = "none" /\ BridgeScan(wire).at = Len(wire)
                 /\ BridgeScan(wire).fields = F
<1> DEFINE names == BridgeFields
<1>1. PICK f : /\ BridgeScan(wire) = f[Len(names)]
               /\ Scans(f, wire, names, BridgeLens(f), BridgeErrors(f))
  BY BridgeScans
<1> DEFINE n == BridgeLens(f)
           e == BridgeErrors(f)
<1>2. Len(names) \in Nat /\ Distinct(names)
  BY BridgeNames
<1>3. ASSUME NEW i \in 1..Len(names), NEW F \in Fields(names)
      PROVE  /\ BridgeLen[i][F] \in Nat
             /\ f[i - 1].fields = FirstFields(F, names, i - 1) =>
                   /\ n[i] = BridgeLen[i][F]
                   /\ Keep(Short(f[i - 1], n[i]), names[i]).fields = FirstFields(F, names, i)
                         => e[i] = BridgeErr[i][F]
  <2>1. /\ BridgeFieldLen(names[i], FirstFields(F, names, i - 1)) = BridgeFieldLen(names[i], F)
        /\ BridgeFieldLen(names[i], F) \in Nat
        /\ BridgeFieldError(names[i], FirstFields(F, names, i)) = BridgeFieldError(names[i], F)
    BY BridgeLocal
  <2>2. /\ n[i] = BridgeFieldLen(names[i], f[i - 1].fields)
        /\ e[i] = BridgeFieldError(names[i], Keep(Short(f[i - 1], n[i]), names[i]).fields)
    BY DEF BridgeLens, BridgeErrors
  <2>3. /\ BridgeLen[i][F] = BridgeFieldLen(names[i], F)
        /\ BridgeErr[i][F] = BridgeFieldError(names[i], F)
    BY DEF BridgeLen, BridgeErr
  <2> HIDE DEF n, e, names
  <2> QED BY <2>1, <2>2, <2>3
<1>4. Local(f, names, n, e, BridgeLen, BridgeErr)
  <2> HIDE DEF n, e, names
  <2> QED BY <1>3 DEF Local
<1> HIDE DEF n, e, names
<1> QED BY <1>1, <1>2, <1>4, ScanExact DEF BridgeImage, n, e, names

\* The room messages that hyf_bridge_core's types admit: a HYF author has no
\* network.
Authors ==
    [kind : {"hyf"}, network : {0}, id : Seq(Byte)]
        \cup [kind : {"foreign"}, network : NetworkTags, id : Seq(Byte)]
BridgeMessages ==
    [version : Byte, room_id : BytesOf(CommunityIdLen), message_id : BytesOf(MessageIdLen),
     author : Authors, created_at : Times, payload_kind : {TextUtf8, OpaqueBytes},
     payload : Seq(Byte)]

\* What decode_bridge_message makes of the fields, and the fields of a room
\* message.
MessageOf(fields) ==
    [version |-> fields.version[1], room_id |-> fields.room_id,
     message_id |-> fields.message_id, author |-> AuthorOf(fields, fields.author),
     created_at |-> Number(fields.created_at),
     payload_kind |-> fields.payload_kind[1], payload |-> fields.payload]
AuthorTag(author) == IF author.kind = "hyf" THEN 0 ELSE 1
MessageFields(m) ==
    [version |-> <<m.version>>, room_id |-> m.room_id, message_id |-> m.message_id,
     author_kind |-> <<AuthorTag(m.author)>>, network |-> <<m.author.network>>,
     length |-> <<Len(m.author.id)>>, author |-> m.author.id,
     created_at |-> BeBytes(m.created_at, TimeLen), payload_kind |-> <<m.payload_kind>>,
     payload_len |-> BeBytes(Len(m.payload), 2), payload |-> m.payload]

\* The length of a valid author's id is one byte.
LEMMA AuthorFacts ==
    ASSUME NEW a \in Authors, AuthorError(a) = "none"
    PROVE  /\ a.id \in Seq(Byte) /\ Len(a.id) = AuthorLen(a) /\ AuthorLen(a) \in Byte
           /\ a.network \in Byte
           /\ \/ a.kind = "hyf" /\ a.network = 0
              \/ a.kind = "foreign" /\ a.network \in NetworkTags /\ a.network \in AuthorNetworks
           /\ a = [kind |-> a.kind, network |-> a.network, id |-> a.id]
<1>1. /\ a.id \in Seq(Byte) /\ a = [kind |-> a.kind, network |-> a.network, id |-> a.id]
      /\ \/ a.kind = "hyf" /\ a.network = 0
         \/ a.kind = "foreign" /\ a.network \in NetworkTags
  BY DEF Authors
<1>2. /\ a.kind = "foreign" => a.network \in AuthorNetworks
      /\ Len(a.id) = AuthorLen(a)
  BY DEF AuthorError
<1>3. {NodeIdLen, BitchatAuthorLen, LxmfAuthorLen, NostrAuthorLen} \subseteq Byte
  BY EnvelopeAssumption DEF Byte
<1>4. AuthorLen(a) \in Byte
  BY <1>1, <1>2, <1>3
     DEF AuthorLen, AuthorNetworks, NostrNetwork, LxmfNetwork, BitchatNetwork
<1>5. a.network \in Byte
  BY <1>1 DEF NetworkTags, Byte
<1> QED BY <1>1, <1>2, <1>4, <1>5

\* The length of an author's id is its network's.
LEMMA AuthorLens ==
    ASSUME NEW a, NEW b, a.kind = b.kind, a.network = b.network,
           \/ a.kind = "hyf" /\ a.network = 0
           \/ a.kind = "foreign" /\ a.network \in AuthorNetworks
    PROVE  AuthorLen(a) = AuthorLen(b)
<1>1. CASE a.kind = "hyf" /\ a.network = 0
  BY <1>1 DEF AuthorLen, NostrNetwork, LxmfNetwork, BitchatNetwork
<1>2. CASE a.kind = "foreign" /\ a.network \in AuthorNetworks
  BY <1>2 DEF AuthorLen, AuthorNetworks, NostrNetwork, LxmfNetwork, BitchatNetwork
<1> QED BY <1>1, <1>2

\* The fields of a valid room message have the lengths and values that the
\* scan asks for, and make that message.
LEMMA MessageFieldsAreImage ==
    ASSUME NEW m \in BridgeMessages, BridgeMessageError(m) = "none"
    PROVE  /\ MessageFields(m) \in Fields(BridgeFields)
           /\ \A i \in 1..Len(BridgeFields) :
                 /\ Len(MessageFields(m)[BridgeFields[i]]) = BridgeLen[i][MessageFields(m)]
                 /\ BridgeErr[i][MessageFields(m)] = "none"
           /\ MessageOf(MessageFields(m)) = m
<1> DEFINE F == MessageFields(m)
           a == m.author
<1>1. /\ m.version \in Byte /\ m.room_id \in BytesOf(CommunityIdLen)
      /\ m.message_id \in BytesOf(MessageIdLen) /\ a \in Authors /\ m.created_at \in Times
      /\ m.payload_kind \in {TextUtf8, OpaqueBytes} /\ m.payload \in Seq(Byte)
      /\ m = [version |-> m.version, room_id |-> m.room_id, message_id |-> m.message_id,
              author |-> a, created_at |-> m.created_at, payload_kind |-> m.payload_kind,
              payload |-> m.payload]
  BY DEF BridgeMessages
<1>2. /\ m.version = BridgeVersion /\ ~IsZero(m.room_id) /\ ~IsZero(m.message_id)
      /\ AuthorError(a) = "none" /\ ~(Len(m.payload) > BridgeMaxPayload)
      /\ TextError(m.payload_kind, m.payload) = "none"
  BY DEF BridgeMessageError
<1>3. /\ F.version = <<m.version>> /\ F.room_id = m.room_id /\ F.message_id = m.message_id
      /\ F.author_kind = <<AuthorTag(a)>> /\ F.network = <<a.network>>
      /\ F.length = <<Len(a.id)>> /\ F.author = a.id
      /\ F.created_at = BeBytes(m.created_at, TimeLen)
      /\ F.payload_kind = <<m.payload_kind>> /\ F.payload_len = BeBytes(Len(m.payload), 2)
      /\ F.payload = m.payload
      /\ DOMAIN F = {"version", "room_id", "message_id", "author_kind", "network", "length",
                     "author", "created_at", "payload_kind", "payload_len", "payload"}
      /\ F = [x \in DOMAIN F |-> F[x]]
  BY DEF MessageFields
<1> HIDE DEF F, a
<1>4. /\ a.id \in Seq(Byte) /\ Len(a.id) = AuthorLen(a) /\ AuthorLen(a) \in Byte
      /\ a.network \in Byte
      /\ \/ a.kind = "hyf" /\ a.network = 0
         \/ a.kind = "foreign" /\ a.network \in NetworkTags /\ a.network \in AuthorNetworks
      /\ a = [kind |-> a.kind, network |-> a.network, id |-> a.id]
  BY <1>1, <1>2, AuthorFacts
<1>5. Len(m.payload) \in Nat /\ Len(m.payload) <= BridgeMaxPayload /\ FitsIn(Len(m.payload), 2)
  <2> DEFINE n == Len(m.payload)
  <2>1. n \in Nat
    BY <1>1, LenProperties
  <2>2. BridgeMaxPayload \in Nat /\ FitsIn(BridgeMaxPayload, 2) /\ 2 \in Nat
    BY EnvelopeAssumption
  <2>3. ~(n > BridgeMaxPayload)
    BY <1>2
  <2> HIDE DEF n
  <2>4. n <= BridgeMaxPayload
    BY <2>1, <2>2, <2>3
  <2>5. FitsIn(n, 2)
    BY <2>1, <2>2, <2>4, FitsBelow
  <2> QED BY <2>1, <2>4, <2>5 DEF n
<1>6. F.created_at \in BytesOf(TimeLen) /\ Number(F.created_at) = m.created_at
  BY <1>1, <1>3, TimeBytes
<1>7. F.payload_len \in BytesOf(2) /\ Number(F.payload_len) = Len(m.payload)
  BY <1>3, <1>5, LengthBytes
<1>8. /\ F.version \in BytesOf(1) /\ F.version[1] = m.version
      /\ F.payload_kind \in BytesOf(1) /\ F.payload_kind[1] = m.payload_kind
      /\ F.author_kind \in BytesOf(1) /\ F.author_kind[1] = AuthorTag(a)
      /\ F.network \in BytesOf(1) /\ F.network[1] = a.network
      /\ F.length \in BytesOf(1) /\ Number(F.length) = Len(a.id)
  <2>1. m.payload_kind \in Byte /\ AuthorTag(a) \in Byte
    BY <1>1 DEF TextUtf8, OpaqueBytes, AuthorTag, Byte
  <2> QED BY <1>1, <1>3, <1>4, <2>1, OneByte
<1>9. F \in Fields(BridgeFields)
  <2>1. FirstNames(BridgeFields, Len(BridgeFields)) = DOMAIN F
    BY <1>3, BridgeNames
  <2>2. \A x \in DOMAIN F : F[x] \in Seq(Byte)
    BY <1>1, <1>3, <1>4, <1>6, <1>7, <1>8 DEF BytesOf
  <2> QED BY <1>3, <2>1, <2>2 DEF Fields
<1>10. \A id : AuthorOf(F, id) = [kind |-> a.kind, network |-> a.network, id |-> id]
  <2>1. <<0>>[1] = 0 /\ <<1>>[1] = 1
    OBVIOUS
  <2>2. F.author_kind = <<0>> <=> a.kind = "hyf"
    BY <1>3, <2>1 DEF AuthorTag
  <2> QED BY <1>4, <1>8, <2>2 DEF AuthorOf
<1>11. MessageOf(F) = m
  <2>1. AuthorOf(F, F.author) = a
    BY <1>3, <1>4, <1>10
  <2> QED BY <1>1, <1>3, <1>6, <1>8, <2>1 DEF MessageOf
<1>12. AuthorFieldError(F) = "none"
  <2>1. AuthorTagError(F.author_kind[1], F.network[1]) = "none"
    BY <1>4, <1>8 DEF AuthorTagError, AuthorTag
  <2>2. AuthorLen(AuthorOf(F, <<>>)) = AuthorLen(a)
    <3> DEFINE b == AuthorOf(F, <<>>)
    <3>1. b.kind = a.kind /\ b.network = a.network
      BY <1>10
    <3> HIDE DEF b
    <3> QED BY <1>4, <3>1, AuthorLens DEF b
  <2> QED BY <1>4, <1>8, <2>1, <2>2 DEF AuthorFieldError
<1>13. ASSUME NEW i \in 1..Len(BridgeFields)
       PROVE  /\ Len(F[BridgeFields[i]]) = BridgeLen[i][F]
              /\ BridgeErr[i][F] = "none"
  <2>1. /\ BridgeLen[i][F] = BridgeFieldLen(BridgeFields[i], F)
        /\ BridgeErr[i][F] = BridgeFieldError(BridgeFields[i], F)
    BY <1>9 DEF BridgeLen, BridgeErr
  <2> DEFINE name == BridgeFields[i]
  <2>2. name \in DOMAIN F
    <3>1. name \in FirstNames(BridgeFields, Len(BridgeFields))
      BY DEF FirstNames
    <3> QED BY <1>3, <3>1, BridgeNames
  <2> HIDE DEF name
  <2>3. Len(F[name]) = BridgeFieldLen(name, F)
    BY <1>1, <1>3, <1>6, <1>7, <1>8, <2>2 DEF BridgeFieldLen, BytesOf
  <2>4. ~(Number(F.payload_len) > BridgeMaxPayload)
    BY <1>2, <1>7
  <2>5. BridgeFieldError(name, F) = "none"
    BY <1>1, <1>2, <1>3, <1>8, <1>12, <2>2, <2>4 DEF BridgeFieldError, BridgeVersion
  <2> QED BY <2>1, <2>3, <2>5 DEF name
<1> QED BY <1>9, <1>11, <1>13 DEF F

\* The fields of an image make a valid room message, whose fields they are.
LEMMA ImageIsMessage ==
    ASSUME NEW F, NEW wire, BridgeImage(F, wire)
    PROVE  /\ MessageOf(F) \in BridgeMessages /\ BridgeMessageError(MessageOf(F)) = "none"
           /\ MessageFields(MessageOf(F)) = F
<1> DEFINE m == MessageOf(F)
           a == AuthorOf(F, F.author)
<1>1. F \in Fields(BridgeFields)
  BY DEF BridgeImage, Image
<1>2. /\ DOMAIN F = {"version", "room_id", "message_id", "author_kind", "network", "length",
                     "author", "created_at", "payload_kind", "payload_len", "payload"}
      /\ \A x \in DOMAIN F : F[x] \in Seq(Byte)
      /\ F = [x \in DOMAIN F |-> F[x]]
  BY <1>1, BridgeNames DEF Fields
<1>3. \A x \in DOMAIN F : Len(F[x]) = BridgeFieldLen(x, F) /\ BridgeFieldError(x, F) = "none"
  <2> SUFFICES ASSUME NEW x \in DOMAIN F
               PROVE Len(F[x]) = BridgeFieldLen(x, F) /\ BridgeFieldError(x, F) = "none"
    OBVIOUS
  <2>1. PICK i \in 1..Len(BridgeFields) : x = BridgeFields[i]
    BY <1>1 DEF Fields, FirstNames
  <2>2. Len(F[x]) = BridgeLen[i][F] /\ BridgeErr[i][F] = "none"
    BY <2>1 DEF BridgeImage, Image
  <2> QED BY <1>1, <2>1, <2>2 DEF BridgeLen, BridgeErr
<1>4. /\ F.version \in BytesOf(1) /\ F.room_id \in BytesOf(CommunityIdLen)
      /\ F.message_id \in BytesOf(MessageIdLen) /\ F.author_kind \in BytesOf(1)
      /\ F.network \in BytesOf(1) /\ F.length \in BytesOf(1)
      /\ F.author \in Seq(Byte) /\ Len(F.author) = Number(F.length)
      /\ F.created_at \in BytesOf(TimeLen) /\ F.payload_kind \in BytesOf(1)
      /\ F.payload_len \in BytesOf(2) /\ F.payload \in Seq(Byte)
      /\ Len(F.payload) = Number(F.payload_len)
  BY <1>2, <1>3 DEF BridgeFieldLen, BytesOf
<1>5. /\ F.version[1] \in Byte /\ <<F.version[1]>> = F.version
      /\ F.author_kind[1] \in Byte /\ <<F.author_kind[1]>> = F.author_kind
      /\ F.network[1] \in Byte /\ <<F.network[1]>> = F.network
      /\ F.payload_kind[1] \in Byte /\ <<F.payload_kind[1]>> = F.payload_kind
      /\ <<F.length[1]>> = F.length /\ Number(F.length) = F.length[1]
  BY <1>4, ByteOne
<1>6. /\ F.version = <<BridgeVersion>> /\ ~IsZero(F.room_id) /\ ~IsZero(F.message_id)
      /\ AuthorFieldError(F) = "none" /\ F.payload_kind[1] \in {TextUtf8, OpaqueBytes}
      /\ ~(Number(F.payload_len) > BridgeMaxPayload)
      /\ TextError(F.payload_kind[1], F.payload) = "none"
  BY <1>2, <1>3 DEF BridgeFieldError
<1>7. /\ AuthorTagError(F.author_kind[1], F.network[1]) = "none"
      /\ Number(F.length) = AuthorLen(AuthorOf(F, <<>>))
  BY <1>6 DEF AuthorFieldError
<1>8. \/ F.author_kind[1] = 0 /\ F.network[1] = 0
      \/ F.author_kind[1] = 1 /\ F.network[1] \in NetworkTags /\ F.network[1] \in AuthorNetworks
  BY <1>7 DEF AuthorTagError
<1>9. <<0>>[1] = 0 /\ <<1>>[1] = 1
  OBVIOUS
<1>10. /\ a \in Authors /\ a.id = F.author /\ a.network = F.network[1]
       /\ F.author_kind = <<AuthorTag(a)>> /\ AuthorError(a) = "none"
  <2>1. CASE F.author_kind[1] = 0
    <3>1. F.author_kind = <<0>> /\ F.network[1] = 0
      BY <1>5, <1>8, <2>1
    <3>2. /\ a = [kind |-> "hyf", network |-> 0, id |-> F.author]
          /\ AuthorOf(F, <<>>) = [kind |-> "hyf", network |-> 0, id |-> <<>>]
      BY <3>1 DEF AuthorOf
    <3>3. /\ a \in Authors /\ a.kind = "hyf" /\ a.network = 0 /\ a.id = F.author
      BY <1>4, <3>2 DEF Authors
    <3>4. AuthorLen(a) = AuthorLen(AuthorOf(F, <<>>))
      <4> DEFINE b == AuthorOf(F, <<>>)
      <4>1. b.kind = a.kind /\ b.network = a.network
        BY <3>2
      <4> HIDE DEF a, b
      <4> QED BY <3>3, <4>1, AuthorLens DEF b
    <3> HIDE DEF a
    <3>5. AuthorError(a) = "none"
      BY <1>4, <1>7, <3>3, <3>4 DEF AuthorError
    <3> QED BY <3>1, <3>3, <3>5 DEF AuthorTag
  <2>2. CASE F.author_kind[1] = 1
    <3>1. F.author_kind = <<1>> /\ F.author_kind # <<0>>
      BY <1>5, <1>9, <2>2
    <3>2. /\ a = [kind |-> "foreign", network |-> F.network[1], id |-> F.author]
          /\ AuthorOf(F, <<>>) = [kind |-> "foreign", network |-> F.network[1], id |-> <<>>]
      BY <3>1 DEF AuthorOf
    <3>3. /\ a \in Authors /\ a.kind = "foreign" /\ a.network = F.network[1] /\ a.id = F.author
          /\ a.network \in AuthorNetworks
      BY <1>4, <1>8, <2>2, <3>2 DEF Authors
    <3>4. AuthorLen(a) = AuthorLen(AuthorOf(F, <<>>))
      <4> DEFINE b == AuthorOf(F, <<>>)
      <4>1. b.kind = a.kind /\ b.network = a.network
        BY <3>2
      <4> HIDE DEF a, b
      <4> QED BY <3>3, <4>1, AuthorLens DEF b
    <3> HIDE DEF a
    <3>5. AuthorError(a) = "none"
      BY <1>4, <1>7, <3>3, <3>4 DEF AuthorError
    <3> QED BY <3>1, <3>3, <3>5 DEF AuthorTag
  <2> QED BY <1>8, <2>1, <2>2
<1>11. /\ m.version = F.version[1] /\ m.room_id = F.room_id /\ m.message_id = F.message_id
       /\ m.author = a /\ m.created_at = Number(F.created_at)
       /\ m.payload_kind = F.payload_kind[1] /\ m.payload = F.payload
  BY DEF MessageOf
<1>12. Number(F.created_at) \in Times /\ BeBytes(Number(F.created_at), TimeLen) = F.created_at
  BY <1>4, BytesTime
<1>13. BeBytes(Len(F.payload), 2) = F.payload_len
  BY <1>4, BytesLength
<1> HIDE DEF a
<1>14. m \in BridgeMessages
  BY <1>4, <1>5, <1>6, <1>10, <1>12 DEF BridgeMessages, MessageOf, a
<1> HIDE DEF m
<1>15. BridgeMessageError(m) = "none"
  <2>1. m.version = BridgeVersion
    <3>1. <<BridgeVersion>>[1] = BridgeVersion
      OBVIOUS
    <3> QED BY <1>6, <1>11, <3>1
  <2> QED BY <1>4, <1>6, <1>10, <1>11, <2>1 DEF BridgeMessageError
<1>16. MessageFields(m) = F
  <2> DEFINE G == MessageFields(m)
  <2>1. /\ G.version = F.version /\ G.room_id = F.room_id /\ G.message_id = F.message_id
        /\ G.author_kind = F.author_kind /\ G.network = F.network /\ G.length = F.length
        /\ G.author = F.author /\ G.created_at = F.created_at
        /\ G.payload_kind = F.payload_kind /\ G.payload_len = F.payload_len
        /\ G.payload = F.payload
    BY <1>4, <1>5, <1>10, <1>11, <1>12, <1>13 DEF MessageFields
  <2>2. DOMAIN G = DOMAIN F /\ G = [x \in DOMAIN G |-> G[x]]
    BY <1>2 DEF MessageFields
  <2> HIDE DEF G
  <2>3. \A x \in DOMAIN F : G[x] = F[x]
    BY <1>2, <2>1
  <2> QED BY <1>2, <2>2, <2>3 DEF G
<1> QED BY <1>14, <1>15, <1>16 DEF m

\* encode_bridge_message writes those fields one behind the other.
MessageWire(m) ==
    <<m.version>> \o m.room_id \o m.message_id
        \o <<IF m.author.kind = "hyf" THEN 0 ELSE 1, m.author.network, Len(m.author.id)>>
        \o m.author.id \o BeBytes(m.created_at, TimeLen) \o <<m.payload_kind>>
        \o BeBytes(Len(m.payload), 2) \o m.payload

\* The fields of a room message, joined, are its wire image.
LEMMA MessageFieldsJoined ==
    ASSUME NEW m, MessageFields(m) \in Fields(BridgeFields),
           NEW W, Joined(W, MessageFields(m), BridgeFields)
    PROVE  W[Len(BridgeFields)] = MessageWire(m)
<1> DEFINE F == MessageFields(m)
           a == m.author
           three == <<AuthorTag(a), a.network, Len(a.id)>>
<1>0. Len(BridgeFields) = 11
  BY BridgeNames
<1>1. /\ W[0] = <<>>
      /\ W[1] = W[0] \o F.version /\ W[2] = W[1] \o F.room_id /\ W[3] = W[2] \o F.message_id
      /\ W[4] = W[3] \o F.author_kind /\ W[5] = W[4] \o F.network /\ W[6] = W[5] \o F.length
      /\ W[7] = W[6] \o F.author /\ W[8] = W[7] \o F.created_at
      /\ W[9] = W[8] \o F.payload_kind /\ W[10] = W[9] \o F.payload_len
      /\ W[11] = W[10] \o F.payload
  <2> HIDE DEF F
  <2>0. Joined(W, F, BridgeFields) /\ Len(BridgeFields) = 11
    BY <1>0 DEF F
  <2>1. \A i \in 0..10 : W[i + 1] = W[i] \o F[BridgeFields[i + 1]]
    <3> SUFFICES ASSUME NEW i \in 0..10 PROVE W[i + 1] = W[i] \o F[BridgeFields[i + 1]]
      OBVIOUS
    <3>1. i + 1 \in 1..Len(BridgeFields) /\ (i + 1) - 1 = i
      BY <2>0
    <3> QED BY <2>0, <3>1 DEF Joined
  <2>2. W[1] = W[0] \o F.version
    <3>1. BridgeFields[0 + 1] = "version"
      BY DEF BridgeFields
    <3>2. 0 \in 0..10 /\ 0 + 1 = 1
      OBVIOUS
    <3> QED BY <2>1, <3>1, <3>2
  <2>3. W[2] = W[1] \o F.room_id
    <3>1. BridgeFields[1 + 1] = "room_id"
      BY DEF BridgeFields
    <3>2. 1 \in 0..10 /\ 1 + 1 = 2
      OBVIOUS
    <3> QED BY <2>1, <3>1, <3>2
  <2>4. W[3] = W[2] \o F.message_id
    <3>1. BridgeFields[2 + 1] = "message_id"
      BY DEF BridgeFields
    <3>2. 2 \in 0..10 /\ 2 + 1 = 3
      OBVIOUS
    <3> QED BY <2>1, <3>1, <3>2
  <2>5. W[4] = W[3] \o F.author_kind
    <3>1. BridgeFields[3 + 1] = "author_kind"
      BY DEF BridgeFields
    <3>2. 3 \in 0..10 /\ 3 + 1 = 4
      OBVIOUS
    <3> QED BY <2>1, <3>1, <3>2
  <2>6. W[5] = W[4] \o F.network
    <3>1. BridgeFields[4 + 1] = "network"
      BY DEF BridgeFields
    <3>2. 4 \in 0..10 /\ 4 + 1 = 5
      OBVIOUS
    <3> QED BY <2>1, <3>1, <3>2
  <2>7. W[6] = W[5] \o F.length
    <3>1. BridgeFields[5 + 1] = "length"
      BY DEF BridgeFields
    <3>2. 5 \in 0..10 /\ 5 + 1 = 6
      OBVIOUS
    <3> QED BY <2>1, <3>1, <3>2
  <2>8. W[7] = W[6] \o F.author
    <3>1. BridgeFields[6 + 1] = "author"
      BY DEF BridgeFields
    <3>2. 6 \in 0..10 /\ 6 + 1 = 7
      OBVIOUS
    <3> QED BY <2>1, <3>1, <3>2
  <2>9. W[8] = W[7] \o F.created_at
    <3>1. BridgeFields[7 + 1] = "created_at"
      BY DEF BridgeFields
    <3>2. 7 \in 0..10 /\ 7 + 1 = 8
      OBVIOUS
    <3> QED BY <2>1, <3>1, <3>2
  <2>10. W[9] = W[8] \o F.payload_kind
    <3>1. BridgeFields[8 + 1] = "payload_kind"
      BY DEF BridgeFields
    <3>2. 8 \in 0..10 /\ 8 + 1 = 9
      OBVIOUS
    <3> QED BY <2>1, <3>1, <3>2
  <2>11. W[10] = W[9] \o F.payload_len
    <3>1. BridgeFields[9 + 1] = "payload_len"
      BY DEF BridgeFields
    <3>2. 9 \in 0..10 /\ 9 + 1 = 10
      OBVIOUS
    <3> QED BY <2>1, <3>1, <3>2
  <2>12. W[11] = W[10] \o F.payload
    <3>1. BridgeFields[10 + 1] = "payload"
      BY DEF BridgeFields
    <3>2. 10 \in 0..10 /\ 10 + 1 = 11
      OBVIOUS
    <3> QED BY <2>1, <3>1, <3>2
  <2>13. W[0] = <<>>
    BY <2>0 DEF Joined
  <2> QED
    BY <2>2, <2>3, <2>4, <2>5, <2>6, <2>7, <2>8, <2>9, <2>10, <2>11, <2>12, <2>13
<1>2. \A x \in {"version", "author_kind", "network", "length"} : F[x] \in Seq(Byte)
  BY BridgeNames DEF Fields
<1>3. /\ F.version = <<m.version>> /\ F.room_id = m.room_id /\ F.message_id = m.message_id
      /\ F.author_kind = <<AuthorTag(a)>> /\ F.network = <<a.network>>
      /\ F.length = <<Len(a.id)>> /\ F.author = a.id
      /\ F.created_at = BeBytes(m.created_at, TimeLen)
      /\ F.payload_kind = <<m.payload_kind>> /\ F.payload_len = BeBytes(Len(m.payload), 2)
      /\ F.payload = m.payload
  BY DEF MessageFields
<1>4. (F.author_kind \o F.network) \o F.length = three
  BY <1>3, TripleOfBytes
<1> HIDE DEF F, a, three
<1>5. W[3] \in Seq(Byte)
  <2>1. HasParts(W, F, BridgeFields)
    BY <1>0, JoinedParts DEF F
  <2>2. 3 \in 0..Len(BridgeFields)
    BY <1>0
  <2> QED BY <2>1, <2>2 DEF HasParts
<1>6. W[6] = W[3] \o three
  <2> DEFINE u == W[3]
             p == F.author_kind
             q == F.network
             r == F.length
             y == p \o q
  <2>1. u \in Seq(Byte) /\ p \in Seq(Byte) /\ q \in Seq(Byte) /\ r \in Seq(Byte)
    BY <1>2, <1>5
  <2>2. W[6] = ((u \o p) \o q) \o r /\ y \o r = three
    BY <1>1, <1>4
  <2> HIDE DEF u, p, q, r
  <2>3. (u \o p) \o q = u \o y /\ y \in Seq(Byte)
    BY <2>1, BytesAssociate, ConcatProperties
  <2> HIDE DEF y
  <2>4. (u \o y) \o r = u \o (y \o r)
    BY <2>1, <2>3, BytesAssociate
  <2> QED BY <2>2, <2>3, <2>4 DEF u
<1>7. W[1] = F.version
  BY <1>1, <1>2, ConcatEmptySeq
<1> QED
  BY <1>0, <1>1, <1>3, <1>6, <1>7, ZenonT(40) DEF MessageWire, AuthorTag, a, three

\* DecodeBridgeMessage by its scan.
LEMMA MessageDecoded ==
    ASSUME NEW wire \in Seq(Byte), ~(Len(wire) > BridgeMaxMessage)
    PROVE  /\ \A F : BridgeImage(F, wire) => DecodeBridgeMessage(wire) = Ok(MessageOf(F))
           /\ IsOk(DecodeBridgeMessage(wire)) =>
                 \E F : BridgeImage(F, wire) /\ DecodeBridgeMessage(wire) = Ok(MessageOf(F))
<1> DEFINE c == BridgeScan(wire)
<1>1. DecodeBridgeMessage(wire) =
         CASE c.error /= "none" -> Err(c.error)
           [] c.at /= Len(c.input) -> Err("TrailingBytes")
           [] OTHER -> Ok(MessageOf(c.fields))
  BY DEF DecodeBridgeMessage, Scanned, BridgeScan, MessageOf
<1>2. /\ c.error = "none" => c.input = wire
      /\ c.error = "none" /\ c.at = Len(wire) => BridgeImage(c.fields, wire)
      /\ \A F : BridgeImage(F, wire) =>
                   c.error = "none" /\ c.at = Len(wire) /\ c.fields = F
  BY BridgeScanned
<1> HIDE DEF c
<1>3. ASSUME NEW F, BridgeImage(F, wire)
      PROVE  DecodeBridgeMessage(wire) = Ok(MessageOf(F))
  <2>1. c.error = "none" /\ c.at = Len(wire) /\ c.fields = F /\ c.input = wire
    BY <1>2, <1>3
  <2> QED BY <1>1, <2>1
<1>4. ASSUME IsOk(DecodeBridgeMessage(wire))
      PROVE  \E F : BridgeImage(F, wire) /\ DecodeBridgeMessage(wire) = Ok(MessageOf(F))
  <2>0. DecodeBridgeMessage(wire).error = "none"
    BY <1>4 DEF IsOk
  <2>1. c.error = "none"
    <3> SUFFICES ASSUME c.error # "none" PROVE FALSE
      OBVIOUS
    <3>1. \/ DecodeBridgeMessage(wire) = Err(c.error)
          \/ DecodeBridgeMessage(wire) = Err("TrailingBytes")
      BY <1>1
    <3> QED BY <2>0, <3>1 DEF Err
  <2>2. c.input = wire
    BY <1>2, <2>1
  <2>3. c.at = Len(wire)
    <3> SUFFICES ASSUME c.at # Len(wire) PROVE FALSE
      OBVIOUS
    <3>1. DecodeBridgeMessage(wire) = Err("TrailingBytes")
      BY <1>1, <2>1, <2>2
    <3> QED BY <2>0, <3>1 DEF Err
  <2> QED BY <1>1, <1>2, <2>1, <2>2, <2>3
<1> QED BY <1>3, <1>4

\* EncodeBridgeMessage by its wire image.
LEMMA MessageEncoded ==
    ASSUME NEW m, NEW room
    PROVE  EncodeBridgeMessage(m, room) =
              CASE BridgeMessageError(m) /= "none" -> Err(BridgeMessageError(m))
                [] Len(MessageWire(m)) > BridgeMaxMessage -> Err("MessageTooLarge")
                [] room < Len(MessageWire(m)) -> Err("OutputTooSmall")
                [] OTHER -> Ok(MessageWire(m))
  BY DEF EncodeBridgeMessage, MessageWire

\* A valid room message is written as bytes, which are its image.
LEMMA MessageWireIsImage ==
    ASSUME NEW m \in BridgeMessages, BridgeMessageError(m) = "none"
    PROVE  MessageWire(m) \in Seq(Byte) /\ BridgeImage(MessageFields(m), MessageWire(m))
<1> DEFINE F == MessageFields(m)
<1>1. /\ F \in Fields(BridgeFields)
      /\ \A i \in 1..Len(BridgeFields) :
            Len(F[BridgeFields[i]]) = BridgeLen[i][F] /\ BridgeErr[i][F] = "none"
  BY MessageFieldsAreImage
<1>2. Len(BridgeFields) \in Nat
  BY BridgeNames
<1>3. PICK W : Joined(W, F, BridgeFields)
  <2> HIDE DEF F
  <2> QED BY <1>1, <1>2, JoinedExists
<1>4. W[Len(BridgeFields)] = MessageWire(m)
  BY <1>1, <1>3, MessageFieldsJoined
<1>5. W[Len(BridgeFields)] \in Seq(Byte)
  <2> HIDE DEF F
  <2>1. HasParts(W, F, BridgeFields)
    BY <1>1, <1>2, <1>3, JoinedParts
  <2> QED BY <1>2, <2>1 DEF HasParts
<1> QED BY <1>1, <1>3, <1>4, <1>5 DEF BridgeImage, Image

\* What decode_bridge_message makes of any bytes is a valid room message.
THEOREM DecodedMessages ==
    \A wire \in Seq(Byte) :
       IsOk(DecodeBridgeMessage(wire)) =>
          /\ DecodeBridgeMessage(wire).value \in BridgeMessages
          /\ BridgeMessageError(DecodeBridgeMessage(wire).value) = "none"
<1> SUFFICES ASSUME NEW wire \in Seq(Byte), IsOk(DecodeBridgeMessage(wire))
             PROVE  /\ DecodeBridgeMessage(wire).value \in BridgeMessages
                    /\ BridgeMessageError(DecodeBridgeMessage(wire).value) = "none"
  OBVIOUS
<1>0. ~(Len(wire) > BridgeMaxMessage)
  BY DEF DecodeBridgeMessage, IsOk, Err
<1>1. PICK F : BridgeImage(F, wire) /\ DecodeBridgeMessage(wire) = Ok(MessageOf(F))
  BY <1>0, MessageDecoded
<1>2. MessageOf(F) \in BridgeMessages /\ BridgeMessageError(MessageOf(F)) = "none"
  BY <1>1, ImageIsMessage
<1>3. DecodeBridgeMessage(wire).value = MessageOf(F)
  BY <1>1 DEF Ok
<1> QED BY <1>2, <1>3

\* decode_bridge_message and encode_bridge_message are inverse to each other.
THEOREM MessageExact ==
    \A wire \in Seq(Byte), m \in BridgeMessages :
       DecodeBridgeMessage(wire) = Ok(m) <=> EncodeBridgeMessage(m, Len(wire)) = Ok(wire)
<1> SUFFICES ASSUME NEW wire \in Seq(Byte), NEW m \in BridgeMessages
             PROVE  DecodeBridgeMessage(wire) = Ok(m) <=>
                    EncodeBridgeMessage(m, Len(wire)) = Ok(wire)
  OBVIOUS
<1>0. Len(wire) \in Nat
  OBVIOUS
<1>1. ASSUME DecodeBridgeMessage(wire) = Ok(m)
      PROVE  EncodeBridgeMessage(m, Len(wire)) = Ok(wire)
  <2>0. IsOk(DecodeBridgeMessage(wire)) /\ DecodeBridgeMessage(wire).value = m
    BY <1>1 DEF IsOk, Ok
  <2>1. ~(Len(wire) > BridgeMaxMessage)
    BY <2>0 DEF DecodeBridgeMessage, IsOk, Err
  <2>2. PICK F : BridgeImage(F, wire) /\ DecodeBridgeMessage(wire) = Ok(MessageOf(F))
    BY <2>0, <2>1, MessageDecoded
  <2>3. MessageOf(F) = m
    BY <2>0, <2>2 DEF Ok
  <2>4. MessageFields(m) = F /\ BridgeMessageError(m) = "none"
    BY <2>2, <2>3, ImageIsMessage
  <2>5. PICK W : Joined(W, F, BridgeFields) /\ W[Len(BridgeFields)] = wire
    BY <2>2 DEF BridgeImage, Image
  <2>6. F \in Fields(BridgeFields)
    BY <2>2 DEF BridgeImage, Image
  <2>7. MessageWire(m) = wire
    BY <2>4, <2>5, <2>6, MessageFieldsJoined
  <2>8. EncodeBridgeMessage(m, Len(wire)) =
          CASE BridgeMessageError(m) /= "none" -> Err(BridgeMessageError(m))
            [] Len(MessageWire(m)) > BridgeMaxMessage -> Err("MessageTooLarge")
            [] Len(wire) < Len(MessageWire(m)) -> Err("OutputTooSmall")
            [] OTHER -> Ok(MessageWire(m))
    BY MessageEncoded
  <2>9. ~(Len(wire) < Len(wire))
    BY <1>0
  <2> QED BY <2>1, <2>4, <2>7, <2>8, <2>9
<1>2. ASSUME EncodeBridgeMessage(m, Len(wire)) = Ok(wire)
      PROVE  DecodeBridgeMessage(wire) = Ok(m)
  <2>0. /\ EncodeBridgeMessage(m, Len(wire)).error = "none"
        /\ EncodeBridgeMessage(m, Len(wire)).value = wire
    BY <1>2 DEF Ok
  <2>1. EncodeBridgeMessage(m, Len(wire)) =
          CASE BridgeMessageError(m) /= "none" -> Err(BridgeMessageError(m))
            [] Len(MessageWire(m)) > BridgeMaxMessage -> Err("MessageTooLarge")
            [] Len(wire) < Len(MessageWire(m)) -> Err("OutputTooSmall")
            [] OTHER -> Ok(MessageWire(m))
    BY MessageEncoded
  <2>2. BridgeMessageError(m) = "none"
    <3> SUFFICES ASSUME BridgeMessageError(m) # "none" PROVE FALSE
      OBVIOUS
    <3>1. \/ EncodeBridgeMessage(m, Len(wire)) = Err(BridgeMessageError(m))
          \/ EncodeBridgeMessage(m, Len(wire)) = Err("MessageTooLarge")
          \/ EncodeBridgeMessage(m, Len(wire)) = Err("OutputTooSmall")
      BY <2>1
    <3> QED BY <2>0, <3>1 DEF Err
  <2>3. ~(Len(MessageWire(m)) > BridgeMaxMessage)
    <3> SUFFICES ASSUME Len(MessageWire(m)) > BridgeMaxMessage PROVE FALSE
      OBVIOUS
    <3>1. \/ EncodeBridgeMessage(m, Len(wire)) = Err("MessageTooLarge")
          \/ EncodeBridgeMessage(m, Len(wire)) = Err("OutputTooSmall")
      BY <2>1, <2>2
    <3> QED BY <2>0, <3>1 DEF Err
  <2>4. EncodeBridgeMessage(m, Len(wire)) = Ok(MessageWire(m))
    BY <2>0, <2>1, <2>2, <2>3 DEF Err
  <2>5. MessageWire(m) = wire
    BY <2>0, <2>4 DEF Ok
  <2>6. BridgeImage(MessageFields(m), wire)
    BY <2>2, <2>5, MessageWireIsImage
  <2>7. DecodeBridgeMessage(wire) = Ok(MessageOf(MessageFields(m)))
    BY <2>3, <2>5, <2>6, MessageDecoded
  <2>8. MessageOf(MessageFields(m)) = m
    BY <2>2, MessageFieldsAreImage
  <2> QED BY <2>7, <2>8
<1> QED BY <1>1, <1>2

-----------------------------------------------------------------------------
(* What is sent on, and what is carried.                                   *)

\* What encode_envelope writes, in whatever room, is decoded to the envelope
\* that was written.
THEOREM EnvelopeReturns ==
    \A e \in Envelopes, room \in Nat :
       IsOk(EncodeEnvelope(e, room)) =>
          /\ EncodeEnvelope(e, room).value \in Seq(Byte)
          /\ DecodeEnvelope(EncodeEnvelope(e, room).value) = Ok(e)
<1> SUFFICES ASSUME NEW e \in Envelopes, NEW room \in Nat, IsOk(EncodeEnvelope(e, room))
             PROVE  /\ EncodeEnvelope(e, room).value \in Seq(Byte)
                    /\ DecodeEnvelope(EncodeEnvelope(e, room).value) = Ok(e)
  OBVIOUS
<1> DEFINE wire == EnvelopeWire(e)
<1>1. EncodeEnvelope(e, room).error = "none"
  BY DEF IsOk
<1>2. EnvelopeError(e) = "none"
  <2> SUFFICES ASSUME EnvelopeError(e) # "none" PROVE FALSE
    OBVIOUS
  <2>1. \/ EncodeEnvelope(e, room) = Err(EnvelopeError(e))
        \/ EncodeEnvelope(e, room) = Err("OutputBufferTooShort")
    BY EnvelopeEncoded
  <2> QED BY <1>1, <2>1 DEF Err
<1>3. EncodeEnvelope(e, room) = Ok(wire)
  <2>1. \/ EncodeEnvelope(e, room) = Ok(wire)
        \/ EncodeEnvelope(e, room) = Err("OutputBufferTooShort")
    BY <1>2, EnvelopeEncoded
  <2> QED BY <1>1, <2>1 DEF Err
<1>4. wire \in Seq(Byte)
  BY <1>2, WireIsImage
<1>5. EncodeEnvelope(e, Len(wire)) = Ok(wire)
  <2>1. ~(Len(wire) < Len(wire))
    <3> HIDE DEF wire
    <3> QED BY <1>4
  <2> QED BY <1>2, <2>1, EnvelopeEncoded
<1> HIDE DEF wire
<1>6. DecodeEnvelope(wire) = Ok(e)
  BY <1>4, <1>5, EnvelopeExact
<1>7. EncodeEnvelope(e, room).value = wire
  BY <1>3 DEF Ok
<1> QED BY <1>4, <1>6, <1>7

\* The image of an envelope is as long with another hop limit.
LEMMA HopLimitKeepsLength ==
    ASSUME NEW e \in Envelopes, EnvelopeError(e) = "none", NEW h \in Byte
    PROVE  LET f == [e EXCEPT !.hop_limit = h] IN
           /\ f \in Envelopes /\ EnvelopeError(f) = "none"
           /\ Len(EnvelopeWire(f)) = Len(EnvelopeWire(e))
<1> DEFINE f == [e EXCEPT !.hop_limit = h]
<1>1. f \in Envelopes
  BY DEF Envelopes
<1>2. /\ f.version = e.version /\ f.message_id = e.message_id /\ f.source = e.source
      /\ f.destination = e.destination /\ f.created_at = e.created_at
      /\ f.expires_at = e.expires_at /\ f.payload_kind = e.payload_kind
      /\ f.payload = e.payload /\ f.hop_limit = h
  BY DEF Envelopes
<1> HIDE DEF f
<1>3. EnvelopeError(f) = "none"
  BY <1>2 DEF EnvelopeError
<1> DEFINE head == <<e.version>> \o e.message_id \o e.source
                      \o EncodeDestination(e.destination)
                      \o BeBytes(e.created_at, TimeLen) \o BeBytes(e.expires_at, TimeLen)
           long == BeBytes(Len(e.payload), 2)
           body == e.payload
<1>4. /\ EnvelopeWire(e) = ((head \o <<e.hop_limit, e.payload_kind>>) \o long) \o body
      /\ EnvelopeWire(f) = ((head \o <<h, e.payload_kind>>) \o long) \o body
  BY <1>2 DEF EnvelopeWire
<1> DEFINE d == e.destination
           pair == IF d.kind = "foreign" THEN <<d.network, Len(d.id)>> ELSE <<>>
           F == FieldsOf(e)
<1>5. \A x \in {"version", "message_id", "source", "tag", "network", "length", "id",
                "created_at", "expires_at", "hop_limit", "payload_kind", "payload_len",
                "payload"} : F[x] \in Seq(Byte)
  <2>1. F \in Fields(EnvelopeFields)
    BY FieldsAreImage
  <2> HIDE DEF F
  <2> QED BY <2>1, EnvelopeNames DEF Fields
<1>6. /\ <<e.version>> \in Seq(Byte) /\ e.message_id \in Seq(Byte) /\ e.source \in Seq(Byte)
      /\ <<DestinationTag(d)>> \in Seq(Byte) /\ d.id \in Seq(Byte)
      /\ BeBytes(e.created_at, TimeLen) \in Seq(Byte)
      /\ BeBytes(e.expires_at, TimeLen) \in Seq(Byte)
      /\ long \in Seq(Byte) /\ body \in Seq(Byte)
  <2>1. /\ F.version = <<e.version>> /\ F.message_id = e.message_id /\ F.source = e.source
        /\ F.tag = <<DestinationTag(d)>> /\ F.id = d.id
        /\ F.created_at = BeBytes(e.created_at, TimeLen)
        /\ F.expires_at = BeBytes(e.expires_at, TimeLen)
        /\ F.payload_len = long /\ F.payload = body
    BY DEF FieldsOf
  <2> HIDE DEF F, long, body
  <2> QED BY <1>5, <2>1
<1>7. pair \in Seq(Byte)
  <2>1. CASE d.kind = "foreign"
    <3>1. d \in Destinations
      BY DEF Envelopes
    <3>2. d.network \in Byte /\ Len(d.id) \in Byte
      <4> HIDE DEF d
      <4>1. d.network \in NetworkTags /\ Len(d.id) \in Byte
        BY <2>1, <3>1, DestinationFields
      <4>2. NetworkTags \subseteq Byte
        BY DEF NetworkTags, Byte
      <4> QED BY <4>1, <4>2
    <3> HIDE DEF d
    <3> QED BY <2>1, <3>2
  <2>2. CASE d.kind # "foreign"
    BY <2>2
  <2> QED BY <2>1, <2>2
<1>8. EncodeDestination(d) \in Seq(Byte)
  <2> DEFINE t == <<DestinationTag(d)>>
             i == d.id
  <2>1. EncodeDestination(d) = (t \o pair) \o i
    BY DEF EncodeDestination
  <2>2. t \in Seq(Byte) /\ i \in Seq(Byte)
    BY <1>6
  <2> HIDE DEF t, i, pair
  <2>3. t \o pair \in Seq(Byte)
    BY <1>7, <2>2, ConcatProperties
  <2> QED BY <2>1, <2>2, <2>3, ConcatProperties
<1>9. head \in Seq(Byte)
  <2> DEFINE a == <<e.version>>
             b == e.message_id
             c == e.source
             g == EncodeDestination(d)
             p == BeBytes(e.created_at, TimeLen)
             q == BeBytes(e.expires_at, TimeLen)
  <2>1. head = ((((a \o b) \o c) \o g) \o p) \o q
    OBVIOUS
  <2>2. /\ a \in Seq(Byte) /\ b \in Seq(Byte) /\ c \in Seq(Byte) /\ g \in Seq(Byte)
        /\ p \in Seq(Byte) /\ q \in Seq(Byte)
    BY <1>6, <1>8
  <2> HIDE DEF a, b, c, g, p, q, head
  <2>3. a \o b \in Seq(Byte)
    BY <2>2, ConcatProperties
  <2>4. (a \o b) \o c \in Seq(Byte)
    BY <2>2, <2>3, ConcatProperties
  <2>5. ((a \o b) \o c) \o g \in Seq(Byte)
    BY <2>2, <2>4, ConcatProperties
  <2>6. (((a \o b) \o c) \o g) \o p \in Seq(Byte)
    BY <2>2, <2>5, ConcatProperties
  <2> QED BY <2>1, <2>2, <2>6, ConcatProperties
<1>10. Len(EnvelopeWire(f)) = Len(EnvelopeWire(e))
  <2> HIDE DEF head, long, body
  <2>1. ASSUME NEW x \in Byte
        PROVE  Len(((head \o <<x, e.payload_kind>>) \o long) \o body)
                 = Len(head) + 2 + Len(long) + Len(body)
    <3> DEFINE y == <<x, e.payload_kind>>
    <3>1. e.payload_kind \in Byte
      BY DEF Envelopes, PayloadTags, Byte
    <3>2. y \in Seq(Byte) /\ Len(y) = 2
      BY <3>1
    <3> HIDE DEF y
    <3>3. head \o y \in Seq(Byte) /\ Len(head \o y) = Len(head) + 2
      <4>1. head \o y \in Seq(Byte) /\ Len(head \o y) = Len(head) + Len(y)
        BY <1>9, <3>2, ConcatProperties
      <4> QED BY <3>2, <4>1
    <3>4. /\ (head \o y) \o long \in Seq(Byte)
          /\ Len((head \o y) \o long) = Len(head \o y) + Len(long)
      BY <1>6, <3>3, ConcatProperties
    <3>5. Len(((head \o y) \o long) \o body) = Len((head \o y) \o long) + Len(body)
      BY <1>6, <3>4, ConcatProperties
    <3>6. Len(head) \in Nat /\ Len(long) \in Nat /\ Len(body) \in Nat
      BY <1>6, <1>9, LenProperties
    <3> QED BY <3>3, <3>4, <3>5, <3>6 DEF y
  <2>2. e.hop_limit \in Byte
    BY DEF Envelopes
  <2>3. Len(EnvelopeWire(e)) = Len(head) + 2 + Len(long) + Len(body)
    BY <1>4, <2>1, <2>2
  <2>4. Len(EnvelopeWire(f)) = Len(head) + 2 + Len(long) + Len(body)
    BY <1>4, <2>1
  <2> QED BY <2>3, <2>4
<1> QED BY <1>1, <1>3, <1>10 DEF f

\* An envelope that was decoded is sent on with the hop limit that the router
\* gives it in as many bytes as it came in, and the next gateway decodes what
\* was sent.
THEOREM EnvelopeForwarded ==
    \A wire \in Seq(Byte), h \in Byte :
       IsOk(DecodeEnvelope(wire)) =>
          LET onward == [DecodeEnvelope(wire).value EXCEPT !.hop_limit = h]
              sent == EncodeEnvelope(onward, Len(wire))
          IN  /\ IsOk(sent) /\ Len(sent.value) = Len(wire)
              /\ DecodeEnvelope(sent.value) = Ok(onward)
<1> SUFFICES ASSUME NEW wire \in Seq(Byte), NEW h \in Byte, IsOk(DecodeEnvelope(wire))
             PROVE  LET onward == [DecodeEnvelope(wire).value EXCEPT !.hop_limit = h]
                        sent == EncodeEnvelope(onward, Len(wire))
                    IN  /\ IsOk(sent) /\ Len(sent.value) = Len(wire)
                        /\ DecodeEnvelope(sent.value) = Ok(onward)
  OBVIOUS
<1> DEFINE e == DecodeEnvelope(wire).value
           f == [e EXCEPT !.hop_limit = h]
           sent == EncodeEnvelope(f, Len(wire))
<1>1. e \in Envelopes /\ EnvelopeError(e) = "none"
  BY DecodedEnvelopes
<1>2. DecodeEnvelope(wire) = Ok(e)
  <2>1. PICK F : EnvelopeImage(F, wire) /\ DecodeEnvelope(wire) = Validated(EnvelopeOf(F))
    BY EnvelopeDecoded
  <2>2. EnvelopeError(EnvelopeOf(F)) = "none"
    BY <2>1 DEF Validated, IsOk, Err
  <2>3. DecodeEnvelope(wire) = Ok(EnvelopeOf(F))
    BY <2>1, <2>2 DEF Validated
  <2> QED BY <2>3 DEF Ok
<1> HIDE DEF e
<1>3. EncodeEnvelope(e, Len(wire)) = Ok(wire)
  BY <1>1, <1>2, EnvelopeExact
<1>4. wire = EnvelopeWire(e)
  <2>1. EncodeEnvelope(e, Len(wire)).error = "none" /\ EncodeEnvelope(e, Len(wire)).value = wire
    BY <1>3 DEF Ok
  <2>2. \/ EncodeEnvelope(e, Len(wire)) = Ok(EnvelopeWire(e))
        \/ EncodeEnvelope(e, Len(wire)) = Err("OutputBufferTooShort")
    BY <1>1, EnvelopeEncoded
  <2> QED BY <2>1, <2>2 DEF Ok, Err
<1>5. f \in Envelopes /\ EnvelopeError(f) = "none" /\ Len(EnvelopeWire(f)) = Len(wire)
  BY <1>1, <1>4, HopLimitKeepsLength
<1> HIDE DEF f
<1>6. sent = Ok(EnvelopeWire(f))
  <2>1. ~(Len(wire) < Len(wire))
    BY LenProperties
  <2> QED BY <1>5, <2>1, EnvelopeEncoded
<1>7. IsOk(sent) /\ sent.value = EnvelopeWire(f)
  BY <1>6 DEF IsOk, Ok
<1>8. DecodeEnvelope(sent.value) = Ok(f)
  <2>1. Len(wire) \in Nat
    BY LenProperties
  <2> QED BY <1>5, <1>7, <2>1, EnvelopeReturns
<1> QED BY <1>5, <1>7, <1>8 DEF e, f

\* What encode_bridge_message writes is decoded to the room message that was
\* written.
THEOREM MessageReturns ==
    \A m \in BridgeMessages, room \in Nat :
       IsOk(EncodeBridgeMessage(m, room)) =>
          /\ EncodeBridgeMessage(m, room).value \in Seq(Byte)
          /\ DecodeBridgeMessage(EncodeBridgeMessage(m, room).value) = Ok(m)
<1> SUFFICES ASSUME NEW m \in BridgeMessages, NEW room \in Nat,
                    IsOk(EncodeBridgeMessage(m, room))
             PROVE  /\ EncodeBridgeMessage(m, room).value \in Seq(Byte)
                    /\ DecodeBridgeMessage(EncodeBridgeMessage(m, room).value) = Ok(m)
  OBVIOUS
<1> DEFINE wire == MessageWire(m)
<1>1. EncodeBridgeMessage(m, room).error = "none"
  BY DEF IsOk
<1>2. BridgeMessageError(m) = "none" /\ ~(Len(wire) > BridgeMaxMessage)
  <2> SUFFICES ASSUME BridgeMessageError(m) # "none" \/ Len(wire) > BridgeMaxMessage
               PROVE  FALSE
    OBVIOUS
  <2>1. \/ BridgeMessageError(m) # "none" /\ EncodeBridgeMessage(m, room) = Err(BridgeMessageError(m))
        \/ EncodeBridgeMessage(m, room) = Err("MessageTooLarge")
        \/ EncodeBridgeMessage(m, room) = Err("OutputTooSmall")
    BY MessageEncoded
  <2> QED BY <1>1, <2>1 DEF Err
<1>3. EncodeBridgeMessage(m, room) = Ok(wire)
  <2>1. \/ EncodeBridgeMessage(m, room) = Ok(wire)
        \/ EncodeBridgeMessage(m, room) = Err("OutputTooSmall")
    BY <1>2, MessageEncoded
  <2> QED BY <1>1, <2>1 DEF Err
<1>4. wire \in Seq(Byte)
  BY <1>2, MessageWireIsImage
<1>5. EncodeBridgeMessage(m, Len(wire)) = Ok(wire)
  <2>1. ~(Len(wire) < Len(wire))
    <3> HIDE DEF wire
    <3> QED BY <1>4
  <2> QED BY <1>2, <2>1, MessageEncoded
<1> HIDE DEF wire
<1>6. DecodeBridgeMessage(wire) = Ok(m)
  BY <1>4, <1>5, MessageExact
<1>7. EncodeBridgeMessage(m, room).value = wire
  BY <1>3 DEF Ok
<1> QED BY <1>4, <1>6, <1>7

\* unwrap_bridge_message accepts exactly the envelopes that
\* wrap_bridge_message makes: what it returns, wrapped again with the
\* envelope's own source, times and hop limit, is that envelope.  No envelope
\* carries a room message under another id or into another room.
THEOREM UnwrapExact ==
    \A e \in Envelopes, raw \in Seq(Byte) :
       UnwrapBridgeMessage(e) = Ok(raw) <=> WrapBridgeMessage(raw, e) = Ok(e)
<1> SUFFICES ASSUME NEW e \in Envelopes, NEW raw \in Seq(Byte)
             PROVE  UnwrapBridgeMessage(e) = Ok(raw) <=> WrapBridgeMessage(raw, e) = Ok(e)
  OBVIOUS
<1> DEFINE read(p) == DecodeBridgeMessage(p)
           room(m) == [kind |-> "community", id |-> m.room_id]
           around(p, m) == [version |-> WireVersion, message_id |-> m.message_id,
                          source |-> e.source, destination |-> room(m),
                          created_at |-> e.created_at, expires_at |-> e.expires_at,
                          hop_limit |-> e.hop_limit, payload_kind |-> BridgeKind,
                          payload |-> p]
           refused(m) == CASE e.message_id /= m.message_id -> Err("EnvelopeMessageIdMismatch")
                           [] e.destination /= room(m) -> Err("EnvelopeRoomMismatch")
                           [] OTHER -> Ok(e.payload)
<1>0. /\ UnwrapBridgeMessage(e) =
            IF EnvelopeError(e) /= "none" THEN Err(EnvelopeError(e))
            ELSE IF e.payload_kind /= BridgeKind THEN Err("WrongPayloadKind")
            ELSE IF read(e.payload).error = "none" THEN refused(read(e.payload).value)
            ELSE read(e.payload)
      /\ WrapBridgeMessage(raw, e) =
            IF read(raw).error = "none" THEN Validated(around(raw, read(raw).value))
            ELSE read(raw)
  BY DEF UnwrapBridgeMessage, WrapBridgeMessage, WrapAs, AndThen, Validated, IsOk, Ok, Err
<1> DEFINE whole == [version |-> e.version, message_id |-> e.message_id,
                     source |-> e.source, destination |-> e.destination,
                     created_at |-> e.created_at, expires_at |-> e.expires_at,
                     hop_limit |-> e.hop_limit, payload_kind |-> e.payload_kind,
                     payload |-> e.payload]
<1>e. e = whole
  BY DEF Envelopes
<1>1. ASSUME UnwrapBridgeMessage(e) = Ok(raw) PROVE WrapBridgeMessage(raw, e) = Ok(e)
  <2>1. UnwrapBridgeMessage(e).error = "none" /\ UnwrapBridgeMessage(e).value = raw
    BY <1>1 DEF Ok
  <2> HIDE DEF refused, around, whole
  <2>2. EnvelopeError(e) = "none"
    BY <1>0, <2>1 DEF Err
  <2>3. e.payload_kind = BridgeKind
    BY <1>0, <2>1, <2>2 DEF Err
  <2>4. read(e.payload).error = "none"
    BY <1>0, <2>1, <2>2, <2>3
  <2> DEFINE m == read(e.payload).value
  <2>5. UnwrapBridgeMessage(e) = refused(m)
    BY <1>0, <2>2, <2>3, <2>4
  <2>6. refused(m).error = "none" /\ refused(m).value = raw
    BY <2>1, <2>5
  <2>7. e.message_id = m.message_id /\ e.destination = room(m)
    <3> HIDE DEF m, room
    <3> SUFFICES ASSUME e.message_id # m.message_id \/ e.destination # room(m) PROVE FALSE
      OBVIOUS
    <3>1. \/ refused(m) = Err("EnvelopeMessageIdMismatch")
          \/ refused(m) = Err("EnvelopeRoomMismatch")
      BY DEF refused
    <3> QED BY <2>6, <3>1 DEF Err
  <2>8. e.payload = raw
    <3> HIDE DEF m, room
    <3>1. refused(m) = Ok(e.payload)
      BY <2>7 DEF refused
    <3> QED BY <2>6, <3>1 DEF Ok
  <2>9. e.version = WireVersion
    BY <2>2 DEF EnvelopeError
  <2>10. around(raw, m) = e
    <3> HIDE DEF m, room
    <3> QED BY <1>e, <2>3, <2>7, <2>8, <2>9 DEF around, whole
  <2>11. WrapBridgeMessage(raw, e) = Validated(around(raw, m))
    BY <1>0, <2>4, <2>8
  <2> QED BY <2>2, <2>10, <2>11 DEF Validated
<1>2. ASSUME WrapBridgeMessage(raw, e) = Ok(e) PROVE UnwrapBridgeMessage(e) = Ok(raw)
  <2>1. WrapBridgeMessage(raw, e).error = "none" /\ WrapBridgeMessage(raw, e).value = e
    BY <1>2 DEF Ok
  <2> HIDE DEF refused, around, whole
  <2>2. read(raw).error = "none"
    BY <1>0, <2>1
  <2> DEFINE m == read(raw).value
  <2>3. WrapBridgeMessage(raw, e) = Validated(around(raw, m))
    BY <1>0, <2>2
  <2> HIDE DEF m, room
  <2>4. EnvelopeError(around(raw, m)) = "none" /\ around(raw, m) = e
    <3>1. EnvelopeError(around(raw, m)) = "none"
      BY <2>1, <2>3 DEF Validated, Err
    <3> QED BY <2>1, <2>3, <3>1 DEF Validated, Ok
  <2>5. EnvelopeError(e) = "none"
    BY <2>4
  <2>6. /\ e.payload_kind = BridgeKind /\ e.payload = raw /\ e.message_id = m.message_id
        /\ e.destination = room(m)
    BY <2>4 DEF around
  <2>7. refused(m) = Ok(e.payload)
    BY <2>6 DEF refused
  <2>8. UnwrapBridgeMessage(e) = refused(read(e.payload).value)
    BY <1>0, <2>2, <2>5, <2>6
  <2> QED BY <2>6, <2>7, <2>8 DEF m
<1> QED BY <1>1, <1>2

\* A room message that is wrapped and encoded arrives as it was sent, whatever
\* hop limit the gateways on the way leave in the envelope.
THEOREM MessageCarried ==
    \A raw \in Seq(Byte), room \in Nat, h \in Byte,
       params \in [source : BytesOf(NodeIdLen), created_at : Times, expires_at : Times,
                   hop_limit : Byte] :
       LET wrapped == WrapBridgeMessage(raw, params)
           sent == EncodeEnvelope(wrapped.value, room)
           got == DecodeEnvelope(sent.value)
       IN  IsOk(wrapped) /\ IsOk(sent) =>
              IsOk(got) /\ UnwrapBridgeMessage([got.value EXCEPT !.hop_limit = h]) = Ok(raw)
<1> SUFFICES ASSUME NEW raw \in Seq(Byte), NEW room \in Nat, NEW h \in Byte,
                    NEW params \in [source : BytesOf(NodeIdLen), created_at : Times,
                                    expires_at : Times, hop_limit : Byte],
                    IsOk(WrapBridgeMessage(raw, params)),
                    IsOk(EncodeEnvelope(WrapBridgeMessage(raw, params).value, room))
             PROVE  LET got == DecodeEnvelope(EncodeEnvelope(
                                  WrapBridgeMessage(raw, params).value, room).value)
                    IN  /\ IsOk(got)
                        /\ UnwrapBridgeMessage([got.value EXCEPT !.hop_limit = h]) = Ok(raw)
  OBVIOUS
<1> DEFINE m == DecodeBridgeMessage(raw).value
           around(p) == [version |-> WireVersion, message_id |-> m.message_id,
                       source |-> p.source,
                       destination |-> [kind |-> "community", id |-> m.room_id],
                       created_at |-> p.created_at, expires_at |-> p.expires_at,
                       hop_limit |-> p.hop_limit, payload_kind |-> BridgeKind,
                       payload |-> raw]
           e == around(params)
           f == [e EXCEPT !.hop_limit = h]
<1>1. ASSUME NEW p
      PROVE  WrapBridgeMessage(raw, p) = IF DecodeBridgeMessage(raw).error = "none"
                                         THEN Validated(around(p)) ELSE DecodeBridgeMessage(raw)
  BY DEF WrapBridgeMessage, WrapAs, AndThen, IsOk
<1>2. WrapBridgeMessage(raw, params).error = "none"
  BY DEF IsOk
<1>3. IsOk(DecodeBridgeMessage(raw)) /\ m \in BridgeMessages
  <2>1. DecodeBridgeMessage(raw).error = "none"
    <3> HIDE DEF m, around
    <3> QED BY <1>1, <1>2
  <2> QED BY <2>1, DecodedMessages DEF IsOk
<1>4. e \in Envelopes
  <2>1. m.message_id \in BytesOf(MessageIdLen) /\ m.room_id \in BytesOf(CommunityIdLen)
    <3> HIDE DEF m
    <3> QED BY <1>3 DEF BridgeMessages
  <2> HIDE DEF m
  <2>2. [kind |-> "community", id |-> m.room_id] \in Destinations
    BY <2>1 DEF Destinations
  <2> DEFINE d == [kind |-> "community", id |-> m.room_id]
  <2>3. e.destination = d
    OBVIOUS
  <2> HIDE DEF d
  <2>4. d \in Destinations
    BY <2>2 DEF d
  <2>5. WireVersion \in Byte /\ BridgeKind \in PayloadTags
    BY DEF WireVersion, Byte, BridgeKind, PayloadTags
  <2>6. /\ params.source \in BytesOf(NodeIdLen) /\ params.created_at \in Times
        /\ params.expires_at \in Times /\ params.hop_limit \in Byte
    OBVIOUS
  <2> QED BY <2>1, <2>4, <2>5, <2>6 DEF Envelopes, d
<1>5. EnvelopeError(e) = "none" /\ WrapBridgeMessage(raw, params) = Ok(e)
  <2>1. WrapBridgeMessage(raw, params) = Validated(e)
    <3>1. DecodeBridgeMessage(raw).error = "none"
      BY <1>3 DEF IsOk
    <3> QED BY <1>1, <3>1
  <2> HIDE DEF e
  <2>2. EnvelopeError(e) = "none"
    BY <1>2, <2>1 DEF Validated, Err
  <2> QED BY <2>1, <2>2 DEF Validated
<1>6. /\ f.source = e.source /\ f.created_at = e.created_at /\ f.expires_at = e.expires_at
      /\ f.hop_limit = h
      /\ around(f) = f
  OBVIOUS
<1> HIDE DEF e
<1>7. f \in Envelopes /\ EnvelopeError(f) = "none"
  BY <1>4, <1>5, HopLimitKeepsLength
<1> HIDE DEF f
<1>8. WrapBridgeMessage(raw, f) = Ok(f)
  <2>1. DecodeBridgeMessage(raw).error = "none"
    BY <1>3 DEF IsOk
  <2>2. WrapBridgeMessage(raw, f) = Validated(around(f))
    BY <1>1, <2>1
  <2> HIDE DEF around
  <2> QED BY <1>6, <1>7, <2>2 DEF Validated
<1>9. UnwrapBridgeMessage(f) = Ok(raw)
  BY <1>7, <1>8, UnwrapExact
<1>10. WrapBridgeMessage(raw, params).value = e
  BY <1>5 DEF Ok
<1>11. DecodeEnvelope(EncodeEnvelope(e, room).value) = Ok(e)
  BY <1>4, <1>10, EnvelopeReturns
<1>12. LET got == DecodeEnvelope(EncodeEnvelope(e, room).value)
       IN  IsOk(got) /\ got.value = e
  BY <1>11 DEF IsOk, Ok
<1> QED BY <1>9, <1>10, <1>12 DEF f

-----------------------------------------------------------------------------
(* RNS packets.                                                            *)

\* A part of a part, from the front.
LEMMA PartOfPart ==
    ASSUME NEW s \in Seq(Byte), NEW n \in 0..Len(s), NEW i \in 1..(n + 1), NEW j \in 0..n
    PROVE  SubSeq(SubSeq(s, 1, n), i, j) = SubSeq(s, i, j)
<1> DEFINE t == SubSeq(s, 1, n)
           p == SubSeq(t, i, j)
           q == SubSeq(s, i, j)
<1>0. Len(s) \in Nat /\ n \in Nat /\ n <= Len(s) /\ i \in Nat /\ i >= 1 /\ j \in Nat /\ j <= n
  BY LenProperties
<1>1. t \in Seq(Byte) /\ Len(t) = n /\ \A k \in 1..n : t[k] = s[k]
  BY <1>0, SubSeqProperties
<1> HIDE DEF t
<1>2. /\ p \in Seq(Byte) /\ Len(p) = IF i <= j THEN j - i + 1 ELSE 0
      /\ \A k \in 1..(j - i + 1) : p[k] = t[i + k - 1]
  BY <1>0, <1>1, SubSeqProperties
<1>3. /\ q \in Seq(Byte) /\ Len(q) = IF i <= j THEN j - i + 1 ELSE 0
      /\ \A k \in 1..(j - i + 1) : q[k] = s[i + k - 1]
  BY <1>0, SubSeqProperties
<1> HIDE DEF p, q
<1>4. Len(p) = Len(q) /\ \A k \in 1..Len(p) : p[k] = q[k]
  <2>1. ASSUME NEW k \in 1..Len(p) PROVE p[k] = q[k]
    <3>1. k \in 1..(j - i + 1) /\ i + k - 1 \in 1..n
      BY <1>0, <1>2
    <3> QED BY <1>1, <1>2, <1>3, <3>1
  <2> QED BY <1>2, <1>3, <2>1
<1>5. p = q
  BY <1>2, <1>3, <1>4, SeqEqual
<1> QED BY <1>5 DEF p, q, t

\* Two byte strings, one behind the other.
BothIn(s, x, y) ==
    /\ Len(s) = Len(x) + Len(y) /\ x = SubSeq(s, 1, Len(x))
    /\ y = SubSeq(s, Len(x) + 1, Len(s))

\* A byte string joins two others if they are found in it.
LEMMA TwoParts ==
    ASSUME NEW x \in Seq(Byte), NEW y \in Seq(Byte), NEW s \in Seq(Byte)
    PROVE  s = x \o y <=> BothIn(s, x, y)
<1>0. Len(x) \in Nat /\ Len(y) \in Nat /\ Len(s) \in Nat
  BY LenProperties
<1>1. ASSUME s = x \o y
      PROVE  /\ Len(s) = Len(x) + Len(y) /\ x = SubSeq(s, 1, Len(x))
             /\ y = SubSeq(s, Len(x) + 1, Len(s))
  <2>1. /\ Len(s) = Len(x) + Len(y) /\ \A i \in 1..Len(x) : s[i] = x[i]
        /\ \A i \in 1..Len(y) : s[Len(x) + i] = y[i]
    BY <1>0, <1>1, ConcatProperties
  <2> DEFINE p == SubSeq(s, 1, Len(x))
             q == SubSeq(s, Len(x) + 1, Len(s))
  <2>2. p \in Seq(Byte) /\ Len(p) = Len(x) /\ \A k \in 1..Len(x) : p[k] = s[k]
    BY <1>0, <2>1, SubSeqProperties
  <2>3. q \in Seq(Byte) /\ Len(q) = Len(y) /\ \A k \in 1..Len(y) : q[k] = s[Len(x) + k]
    <3> DEFINE a == Len(x) + 1
               b == Len(s)
    <3>1. a \in Nat /\ a >= 1 /\ b \in Nat /\ b <= Len(s) /\ a <= b + 1
      BY <1>0, <2>1
    <3> HIDE DEF a, b
    <3>2. /\ SubSeq(s, a, b) \in Seq(Byte)
          /\ Len(SubSeq(s, a, b)) = IF a <= b THEN b - a + 1 ELSE 0
          /\ \A k \in 1..(b - a + 1) : SubSeq(s, a, b)[k] = s[a + k - 1]
      BY <3>1, SubSeqProperties
    <3>3. b - a + 1 = Len(y) /\ (a > b => Len(y) = 0)
      BY <1>0, <2>1 DEF a, b
    <3>4. \A k \in 1..Len(y) : a + k - 1 = Len(x) + k
      BY <1>0 DEF a
    <3> QED BY <1>0, <3>1, <3>2, <3>3, <3>4 DEF a, b
  <2> HIDE DEF p, q
  <2>4. p = x
    BY <2>1, <2>2, SeqEqual
  <2>5. q = y
    BY <2>1, <2>3, SeqEqual
  <2> QED BY <2>1, <2>4, <2>5 DEF p, q
<1>2. ASSUME Len(s) = Len(x) + Len(y), x = SubSeq(s, 1, Len(x)),
             y = SubSeq(s, Len(x) + 1, Len(s))
      PROVE  s = x \o y
  <2>1. SubSeq(s, 1, Len(s)) = SubSeq(s, 1, Len(x)) \o SubSeq(s, Len(x) + 1, Len(s))
    <3> DEFINE a == Len(x)
               b == Len(s)
    <3>1. a \in Nat /\ b \in Nat /\ a <= b /\ b <= Len(s)
      BY <1>0, <1>2
    <3> HIDE DEF a, b
    <3>2. SubSeq(s, 1, b) = SubSeq(s, 1, a) \o SubSeq(s, a + 1, b)
      BY <3>1, AdjacentParts
    <3> QED BY <3>2 DEF a, b
  <2>2. SubSeq(s, 1, Len(s)) = s
    BY SubSeqFull
  <2> QED BY <1>2, <2>1, <2>2
<1> QED BY <1>1, <1>2 DEF BothIn

\* Five byte strings, one behind the other: each is found where the ones
\* before it end.
FoundIn(s, a, b, c, d, g) ==
    LET i == Len(a)
        j == i + Len(b)
        k == j + Len(c)
        l == k + Len(d)
    IN  /\ Len(s) = l + Len(g)
        /\ a = SubSeq(s, 1, i) /\ b = SubSeq(s, i + 1, j)
        /\ c = SubSeq(s, j + 1, k) /\ d = SubSeq(s, k + 1, l)
        /\ g = SubSeq(s, l + 1, Len(s))

\* A byte string joins five others if they are found in it.
LEMMA FiveParts ==
    ASSUME NEW a \in Seq(Byte), NEW b \in Seq(Byte), NEW c \in Seq(Byte),
           NEW d \in Seq(Byte), NEW g \in Seq(Byte), NEW s \in Seq(Byte)
    PROVE  s = (((a \o b) \o c) \o d) \o g <=> FoundIn(s, a, b, c, d, g)
<1> DEFINE i == Len(a)
           j == i + Len(b)
           k == j + Len(c)
           l == k + Len(d)
           n == Len(s)
           u == a \o b
           v == u \o c
           w == v \o d
<1>1. /\ i \in Nat /\ j \in Nat /\ k \in Nat /\ l \in Nat /\ n \in Nat
      /\ i <= j /\ j <= k /\ k <= l
      /\ Len(b) \in Nat /\ Len(c) \in Nat /\ Len(d) \in Nat /\ Len(g) \in Nat
  BY LenProperties
<1>2. u \in Seq(Byte) /\ Len(u) = j
  BY ConcatProperties
<1> HIDE DEF u
<1>3. v \in Seq(Byte) /\ Len(v) = k
  <2>1. v \in Seq(Byte) /\ Len(v) = Len(u) + Len(c)
    <3>1. u \in Seq(Byte)
      BY <1>2
    <3> QED BY <3>1, ConcatProperties
  <2> QED BY <1>2, <2>1
<1> HIDE DEF v
<1>4. w \in Seq(Byte) /\ Len(w) = l
  <2>1. w \in Seq(Byte) /\ Len(w) = Len(v) + Len(d)
    <3>1. v \in Seq(Byte)
      BY <1>3
    <3> QED BY <3>1, ConcatProperties
  <2> QED BY <1>3, <2>1
<1> HIDE DEF w
<1>5. s = w \o g <=> n = l + Len(g) /\ w = SubSeq(s, 1, l) /\ g = SubSeq(s, l + 1, n)
  <2>1. s = w \o g <=> BothIn(s, w, g)
    BY <1>4, TwoParts
  <2> QED BY <1>4, <2>1 DEF BothIn
<1> HIDE DEF i, j, k, l, n
<1>6. ASSUME n = l + Len(g)
      PROVE  w = SubSeq(s, 1, l) <=>
                /\ a = SubSeq(s, 1, i) /\ b = SubSeq(s, i + 1, j)
                /\ c = SubSeq(s, j + 1, k) /\ d = SubSeq(s, k + 1, l)
  <2> DEFINE r == SubSeq(s, 1, l)
             q == SubSeq(s, 1, k)
             p == SubSeq(s, 1, j)
  <2>0. l <= n /\ n = Len(s) /\ n \in Nat
    BY <1>1, <1>6 DEF n
  <2>1. r \in Seq(Byte) /\ Len(r) = l /\ q \in Seq(Byte) /\ Len(q) = k
        /\ p \in Seq(Byte) /\ Len(p) = j
    <3>1. ASSUME NEW m \in Nat, m <= n
          PROVE  SubSeq(s, 1, m) \in Seq(Byte) /\ Len(SubSeq(s, 1, m)) = m
      BY <2>0, <3>1, SubSeqProperties
    <3> QED BY <1>1, <2>0, <3>1
  <2>2. ASSUME NEW m \in Nat, m <= n, NEW x \in Nat, 1 <= x, x <= m + 1, NEW y \in Nat, y <= m
        PROVE  SubSeq(SubSeq(s, 1, m), x, y) = SubSeq(s, x, y)
    <3>1. m \in 0..Len(s) /\ x \in 1..(m + 1) /\ y \in 0..m
      BY <2>0, <2>2
    <3> QED BY <3>1, PartOfPart
  <2>3. r = w <=> q = v /\ d = SubSeq(s, k + 1, l)
    <3>1. SubSeq(r, 1, k) = q /\ SubSeq(r, k + 1, l) = SubSeq(s, k + 1, l)
      BY <1>1, <2>0, <2>2
    <3>2. l = k + Len(d)
      BY DEF l
    <3> HIDE DEF r, q, p
    <3>3. r = v \o d <=> BothIn(r, v, d)
      BY <1>3, <2>1, TwoParts
    <3> QED BY <1>3, <2>1, <3>1, <3>2, <3>3 DEF BothIn, w
  <2>4. q = v <=> p = u /\ c = SubSeq(s, j + 1, k)
    <3>1. SubSeq(q, 1, j) = p /\ SubSeq(q, j + 1, k) = SubSeq(s, j + 1, k)
      BY <1>1, <2>0, <2>2
    <3>2. k = j + Len(c)
      BY DEF k
    <3> HIDE DEF r, q, p
    <3>3. q = u \o c <=> BothIn(q, u, c)
      BY <1>2, <2>1, TwoParts
    <3> QED BY <1>2, <2>1, <3>1, <3>2, <3>3 DEF BothIn, v
  <2>5. p = u <=> a = SubSeq(s, 1, i) /\ b = SubSeq(s, i + 1, j)
    <3>1. SubSeq(p, 1, i) = SubSeq(s, 1, i) /\ SubSeq(p, i + 1, j) = SubSeq(s, i + 1, j)
      BY <1>1, <2>0, <2>2
    <3>2. j = i + Len(b) /\ i = Len(a)
      BY DEF i, j
    <3> HIDE DEF r, q, p
    <3>3. p = a \o b <=> BothIn(p, a, b)
      BY <2>1, TwoParts
    <3> QED BY <2>1, <3>1, <3>2, <3>3 DEF BothIn, u
  <2> QED BY <2>3, <2>4, <2>5
<1>7. s = w \o g <=>
         /\ n = l + Len(g)
         /\ a = SubSeq(s, 1, i) /\ b = SubSeq(s, i + 1, j)
         /\ c = SubSeq(s, j + 1, k) /\ d = SubSeq(s, k + 1, l)
         /\ g = SubSeq(s, l + 1, n)
  BY <1>5, <1>6
<1> QED BY <1>7 DEF FoundIn, i, j, k, l, n, u, v, w

\* The flags of a packet, and the packets of hyf_rns_wire's types.
PacketFlags ==
    [header_type : 0..1, context_flag : BOOLEAN, transport_type : 0..1,
     destination_type : 0..3, packet_type : 0..3]
TransportIds == {None} \cup {Some(id) : id \in BytesOf(HashLen)}
RnsPackets ==
    [flags : PacketFlags, hops : Byte, transport_id : TransportIds,
     destination_hash : BytesOf(HashLen), context : Byte, data : Seq(Byte)]

\* The flags and their byte, one for the other.
LEMMA FlagsExact ==
    /\ \A f \in PacketFlags : EncodeFlags(f) \in 0..127 /\ DecodeFlags(EncodeFlags(f)) = Ok(f)
    /\ \A byte \in 0..127 : /\ DecodeFlags(byte).value \in PacketFlags
                            /\ DecodeFlags(byte) = Ok(DecodeFlags(byte).value)
                            /\ EncodeFlags(DecodeFlags(byte).value) = byte
<1>1. ASSUME NEW f \in PacketFlags
      PROVE  EncodeFlags(f) \in 0..127 /\ DecodeFlags(EncodeFlags(f)) = Ok(f)
  <2> DEFINE h == f.header_type
             c == IF f.context_flag THEN 1 ELSE 0
             t == f.transport_type
             d == f.destination_type
             p == f.packet_type
             n == EncodeFlags(f)
  <2>1. h \in 0..1 /\ c \in 0..1 /\ t \in 0..1 /\ d \in 0..3 /\ p \in 0..3
    BY DEF PacketFlags
  <2>2. f.context_flag \in BOOLEAN /\ (f.context_flag <=> c = 1)
    BY DEF PacketFlags
  <2>3. n = 64 * h + 32 * c + 16 * t + 4 * d + p
    BY <2>2 DEF EncodeFlags
  <2>4. f = [header_type |-> h, context_flag |-> f.context_flag, transport_type |-> t,
             destination_type |-> d, packet_type |-> p]
    BY DEF PacketFlags
  <2> HIDE DEF h, c, t, d, p, n
  <2>5. n \in 0..127
    BY <2>1, <2>3
  <2>6. /\ (n \div 64) % 2 = h /\ (n \div 32) % 2 = c /\ (n \div 16) % 2 = t
        /\ (n \div 4) % 4 = d /\ n % 4 = p
    BY <2>1, <2>3, SMTT(60)
  <2>7. DecodeFlags(n) = Ok([header_type |-> h, context_flag |-> c = 1, transport_type |-> t,
                             destination_type |-> d, packet_type |-> p])
    BY <2>5, <2>6 DEF DecodeFlags, IfacFlag
  <2>8. (c = 1) = f.context_flag
    BY <2>2
  <2> QED BY <2>4, <2>5, <2>7, <2>8 DEF n
<1>2. ASSUME NEW byte \in 0..127
      PROVE  /\ DecodeFlags(byte).value \in PacketFlags
             /\ DecodeFlags(byte) = Ok(DecodeFlags(byte).value)
             /\ EncodeFlags(DecodeFlags(byte).value) = byte
  <2> DEFINE h == (byte \div 64) % 2
             c == (byte \div 32) % 2
             t == (byte \div 16) % 2
             d == (byte \div 4) % 4
             p == byte % 4
             f == [header_type |-> h, context_flag |-> c = 1, transport_type |-> t,
                   destination_type |-> d, packet_type |-> p]
  <2>1. h \in 0..1 /\ c \in 0..1 /\ t \in 0..1 /\ d \in 0..3 /\ p \in 0..3
    OBVIOUS
  <2>2. byte = 64 * h + 32 * c + 16 * t + 4 * d + p
    BY SMTT(60)
  <2>3. ~(byte >= IfacFlag)
    BY DEF IfacFlag
  <2>4. DecodeFlags(byte) = Ok(f)
    BY <2>3 DEF DecodeFlags
  <2> HIDE DEF h, c, t, d, p
  <2>5. f \in PacketFlags
    BY <2>1 DEF PacketFlags
  <2>6. EncodeFlags(f) = byte
    <3>1. /\ f.header_type = h /\ f.transport_type = t
          /\ f.destination_type = d /\ f.packet_type = p
      OBVIOUS
    <3>2. f.context_flag <=> c = 1
      OBVIOUS
    <3> HIDE DEF f
    <3>3. c = 0 \/ c = 1
      BY <2>1
    <3>4. (IF f.context_flag THEN 32 ELSE 0) = 32 * c
      BY <3>2, <3>3
    <3> QED BY <2>1, <2>2, <3>1, <3>4 DEF EncodeFlags
  <2> HIDE DEF f
  <2>7. DecodeFlags(byte).value = f
    BY <2>4 DEF Ok
  <2> QED BY <2>4, <2>5, <2>6, <2>7
<1> QED BY <1>1, <1>2

\* The parts of a packet, and its wire image.
PacketHead(p) == <<EncodeFlags(p.flags), p.hops>>
PacketTransport(p) == IF IsSome(p.transport_id) THEN p.transport_id[1] ELSE <<>>
PacketWire(p) ==
    PacketHead(p) \o PacketTransport(p) \o p.destination_hash \o <<p.context>> \o p.data

\* EncodePacket by the wire image.
LEMMA PacketEncoded ==
    ASSUME NEW p, NEW room
    PROVE  EncodePacket(p, room) =
              LET required == HeaderLen(p.flags.header_type) + Len(p.data) IN
              CASE required > Mtu -> Err("PacketTooLarge")
                [] room < required -> Err("OutputBufferTooShort")
                [] TransportError(p) /= "none" -> Err(TransportError(p))
                [] OTHER -> Ok(PacketWire(p))
  BY DEF EncodePacket, PacketWire, PacketHead, PacketTransport

\* The lengths of the parts: a packet without a transport error has the
\* header that its flags announce.
LEMMA PacketParts ==
    ASSUME NEW p \in RnsPackets, TransportError(p) = "none"
    PROVE  /\ PacketHead(p) \in Seq(Byte) /\ Len(PacketHead(p)) = 2
           /\ PacketTransport(p) \in Seq(Byte)
           /\ p.destination_hash \in Seq(Byte) /\ Len(p.destination_hash) = HashLen
           /\ <<p.context>> \in Seq(Byte) /\ Len(<<p.context>>) = 1 /\ p.data \in Seq(Byte)
           /\ \/ /\ p.flags.header_type = 0 /\ p.transport_id = None
                 /\ Len(PacketTransport(p)) = 0 /\ HeaderLen(p.flags.header_type) = HashLen + 3
              \/ /\ p.flags.header_type = 1 /\ p.transport_id = Some(PacketTransport(p))
                 /\ Len(PacketTransport(p)) = HashLen
                 /\ HeaderLen(p.flags.header_type) = 2 * HashLen + 3
<1>1. /\ p.flags \in PacketFlags /\ p.hops \in Byte /\ p.transport_id \in TransportIds
      /\ p.destination_hash \in BytesOf(HashLen) /\ p.context \in Byte /\ p.data \in Seq(Byte)
  BY DEF RnsPackets
<1>2. EncodeFlags(p.flags) \in Byte /\ p.flags.header_type \in 0..1
  <2>1. EncodeFlags(p.flags) \in 0..127
    BY <1>1, FlagsExact
  <2>2. p.flags.header_type \in 0..1
    BY <1>1 DEF PacketFlags
  <2> QED BY <2>1, <2>2 DEF Byte
<1>3. PacketHead(p) \in Seq(Byte) /\ Len(PacketHead(p)) = 2
  BY <1>1, <1>2 DEF PacketHead
<1>4. <<p.context>> \in Seq(Byte) /\ Len(<<p.context>>) = 1
  BY <1>1
<1>5. p.destination_hash \in Seq(Byte) /\ Len(p.destination_hash) = HashLen
  BY <1>1 DEF BytesOf
<1>6. CASE p.transport_id = None
  <2>1. ~IsSome(p.transport_id) /\ PacketTransport(p) = <<>>
    BY <1>6 DEF PacketTransport, IsSome
  <2>2. p.flags.header_type = 0
    BY <1>2, <2>1 DEF TransportError, Header1, Header2
  <2>3. HeaderLen(p.flags.header_type) = HashLen + 3
    BY <2>2 DEF HeaderLen, Header1
  <2>4. Len(<<>>) = 0 /\ <<>> \in Seq(Byte)
    OBVIOUS
  <2> QED BY <1>1, <1>3, <1>4, <1>5, <1>6, <2>1, <2>2, <2>3, <2>4
<1>7. CASE \E id \in BytesOf(HashLen) : p.transport_id = Some(id)
  <2>1. PICK id \in BytesOf(HashLen) : p.transport_id = <<id>>
    BY <1>7 DEF Some
  <2>2. <<id>> # <<>> /\ <<id>>[1] = id
    OBVIOUS
  <2>3. IsSome(p.transport_id) /\ PacketTransport(p) = id
    BY <2>1, <2>2 DEF PacketTransport, IsSome, None
  <2>4. p.flags.header_type = 1
    BY <1>2, <2>3 DEF TransportError, Header1, Header2
  <2>5. HeaderLen(p.flags.header_type) = 2 * HashLen + 3
    BY <2>4 DEF HeaderLen, Header1
  <2>6. id \in Seq(Byte) /\ Len(id) = HashLen
    BY DEF BytesOf
  <2> QED BY <1>1, <1>3, <1>4, <1>5, <2>1, <2>3, <2>4, <2>5, <2>6 DEF Some
<1> QED BY <1>1, <1>6, <1>7 DEF TransportIds

\* The wire image has the length that encode_packet asks room for, and a
\* packet is what is found at the places where decode_packet looks.
LEMMA PacketPlaces ==
    ASSUME NEW p \in RnsPackets, TransportError(p) = "none", NEW s \in Seq(Byte)
    PROVE  LET at == 2 + Len(PacketTransport(p)) IN
           /\ HeaderLen(p.flags.header_type) = at + HashLen + 1
           /\ s = PacketWire(p) <=>
                 /\ Len(s) = HeaderLen(p.flags.header_type) + Len(p.data)
                 /\ s[1] = EncodeFlags(p.flags) /\ s[2] = p.hops
                 /\ PacketTransport(p) = SubSeq(s, 3, at)
                 /\ p.destination_hash = SubSeq(s, at + 1, at + HashLen)
                 /\ s[at + HashLen + 1] = p.context
                 /\ p.data = SubSeq(s, at + HashLen + 2, Len(s))
<1> DEFINE a == PacketHead(p)
           b == PacketTransport(p)
           c == p.destination_hash
           d == <<p.context>>
           g == p.data
           at == 2 + Len(b)
<1>1. /\ a \in Seq(Byte) /\ b \in Seq(Byte) /\ c \in Seq(Byte) /\ d \in Seq(Byte)
      /\ g \in Seq(Byte) /\ Len(a) = 2 /\ Len(c) = HashLen /\ Len(d) = 1
      /\ Len(b) = 0 \/ Len(b) = HashLen
  BY PacketParts
<1>2. HashLen \in Nat /\ at \in Nat /\ Len(g) \in Nat /\ Len(s) \in Nat /\ Len(b) \in Nat
  BY <1>1, LenProperties, RnsAssumption
<1>3. HeaderLen(p.flags.header_type) = at + HashLen + 1
  <2> DEFINE n == Len(b)
             h == HeaderLen(p.flags.header_type)
  <2>1. (n = 0 /\ h = HashLen + 3) \/ (n = HashLen /\ h = 2 * HashLen + 3)
    BY PacketParts
  <2>2. at = 2 + n
    OBVIOUS
  <2> HIDE DEF n, h, at
  <2>3. h = at + HashLen + 1
    BY <1>2, <2>1, <2>2
  <2> QED BY <2>3 DEF h
<1>4. PacketWire(p) = (((a \o b) \o c) \o d) \o g
  BY DEF PacketWire
<1> HIDE DEF a, b, c, d, g
<1>5. s = PacketWire(p) <=> FoundIn(s, a, b, c, d, g)
  <2>1. s = (((a \o b) \o c) \o d) \o g <=> FoundIn(s, a, b, c, d, g)
    BY <1>1, FiveParts
  <2> QED BY <1>4, <2>1
<1>6. s = PacketWire(p) <=>
         /\ Len(s) = at + HashLen + 1 + Len(g)
         /\ a = SubSeq(s, 1, 2) /\ b = SubSeq(s, 3, at)
         /\ c = SubSeq(s, at + 1, at + HashLen)
         /\ d = SubSeq(s, at + HashLen + 1, at + HashLen + 1)
         /\ g = SubSeq(s, at + HashLen + 2, Len(s))
  <2>1. at + HashLen + 1 + 1 = at + HashLen + 2 /\ 2 + 1 = 3
    BY <1>2
  <2> QED BY <1>1, <1>5, <2>1 DEF FoundIn
<1>7. ASSUME Len(s) = at + HashLen + 1 + Len(g)
      PROVE  /\ a = SubSeq(s, 1, 2) <=> s[1] = EncodeFlags(p.flags) /\ s[2] = p.hops
             /\ d = SubSeq(s, at + HashLen + 1, at + HashLen + 1)
                   <=> s[at + HashLen + 1] = p.context
  <2> DEFINE n == at + HashLen + 1
  <2>1. Len(s) >= 2 /\ n \in 1..Len(s) /\ 2 \in 1..Len(s) /\ 1 \in 1..Len(s)
    BY <1>2, <1>7
  <2> HIDE DEF n, at
  <2>2. SubSeq(s, 1, 2) = <<s[1], s[2]>>
    <3> DEFINE x == SubSeq(s, 1, 2)
               y == <<s[1], s[2]>>
    <3>1. x \in Seq(Byte) /\ Len(x) = 2 /\ x[1] = s[1] /\ x[2] = s[2]
      BY <2>1, SubSeqProperties
    <3>2. s[1] \in Byte /\ s[2] \in Byte
      BY <2>1
    <3>3. y \in Seq(Byte) /\ Len(y) = 2 /\ y[1] = s[1] /\ y[2] = s[2]
      BY <3>2
    <3> HIDE DEF x, y
    <3>4. \A m \in 1..Len(x) : x[m] = y[m]
      BY <3>1, <3>3
    <3>5. x = y
      BY <3>1, <3>3, <3>4, SeqEqual
    <3> QED BY <3>5 DEF x, y
  <2>3. SubSeq(s, n, n) = <<s[n]>>
    <3> DEFINE x == SubSeq(s, n, n)
               y == <<s[n]>>
    <3>1. x \in Seq(Byte) /\ Len(x) = 1 /\ x[1] = s[n]
      BY <2>1, SubSeqProperties
    <3>2. s[n] \in Byte
      BY <2>1
    <3>3. y \in Seq(Byte) /\ Len(y) = 1 /\ y[1] = s[n]
      BY <3>2
    <3> HIDE DEF x, y
    <3>4. \A m \in 1..Len(x) : x[m] = y[m]
      BY <3>1, <3>3
    <3>5. x = y
      BY <3>1, <3>3, <3>4, SeqEqual
    <3> QED BY <3>5 DEF x, y
  <2>4. /\ <<s[1], s[2]>> = <<EncodeFlags(p.flags), p.hops>>
              <=> s[1] = EncodeFlags(p.flags) /\ s[2] = p.hops
        /\ <<s[n]>> = <<p.context>> <=> s[n] = p.context
    OBVIOUS
  <2>5. a = <<EncodeFlags(p.flags), p.hops>> /\ d = <<p.context>>
    BY DEF a, d, PacketHead
  <2> QED BY <2>2, <2>3, <2>4, <2>5 DEF n
<1>8. s = PacketWire(p) <=>
         /\ Len(s) = at + HashLen + 1 + Len(g)
         /\ s[1] = EncodeFlags(p.flags) /\ s[2] = p.hops
         /\ b = SubSeq(s, 3, at) /\ c = SubSeq(s, at + 1, at + HashLen)
         /\ s[at + HashLen + 1] = p.context
         /\ g = SubSeq(s, at + HashLen + 2, Len(s))
  <2> HIDE DEF at
  <2> QED BY <1>6, <1>7
<1> QED BY <1>3, <1>8 DEF b, c, g

\* decode_packet by what it finds.
LEMMA PacketFound ==
    ASSUME NEW s \in Seq(Byte), IsOk(DecodePacket(s))
    PROVE  LET f == DecodeFlags(s[1]).value IN
           /\ ~(Len(s) > Mtu) /\ s[1] \in 0..127 /\ Len(s) >= HeaderLen(f.header_type)
           /\ \/ f.header_type = 0 /\ DecodePacket(s) = Ok(Decoded(s, f, None, 2))
              \/ /\ f.header_type = 1
                 /\ DecodePacket(s) = Ok(Decoded(s, f, Some(SubSeq(s, 3, 2 + HashLen)),
                                                 2 + HashLen))
<1> DEFINE f == DecodeFlags(s[1]).value
           r == DecodePacket(s)
<1>0. r.error = "none"
  BY DEF IsOk
<1>1. ~(Len(s) > Mtu) /\ s # <<>>
  BY <1>0 DEF DecodePacket, Err
<1>2. s[1] \in Byte /\ Len(s) \in Nat
  BY <1>1
<1>3. r = IF DecodeFlags(s[1]).error = "none"
          THEN IF Len(s) < HeaderLen(f.header_type) THEN Err("PacketTooShort")
               ELSE Ok(IF f.header_type = Header1 THEN DecodeHeader1(s, f)
                                                  ELSE DecodeHeader2(s, f))
          ELSE DecodeFlags(s[1])
  BY <1>1 DEF DecodePacket, AndThen, IsOk
<1>4. s[1] \in 0..127
  <2> SUFFICES ASSUME s[1] \notin 0..127 PROVE FALSE
    OBVIOUS
  <2>1. s[1] >= IfacFlag
    <3> DEFINE n == s[1]
    <3>1. n \in 0..255 /\ n \notin 0..127
      BY <1>2 DEF Byte
    <3> HIDE DEF n
    <3>2. n >= 128
      BY <3>1
    <3> QED BY <3>2 DEF n, IfacFlag
  <2>2. DecodeFlags(s[1]) = Err("UnsupportedPacketAccessCode")
    BY <2>1 DEF DecodeFlags
  <2>3. DecodeFlags(s[1]).error # "none"
    BY <2>2 DEF Err
  <2> QED BY <1>0, <1>3, <2>3
<1>5. DecodeFlags(s[1]).error = "none" /\ f.header_type \in 0..1
  <2>1. f \in PacketFlags /\ DecodeFlags(s[1]) = Ok(f)
    BY <1>4, FlagsExact
  <2> HIDE DEF f
  <2> QED BY <2>1 DEF Ok, PacketFlags
<1> HIDE DEF r, f
<1>6. HeaderLen(f.header_type) \in Nat
  BY RnsAssumption DEF HeaderLen
<1>7. ~(Len(s) < HeaderLen(f.header_type))
  BY <1>0, <1>3, <1>5 DEF Err
<1>8. Len(s) >= HeaderLen(f.header_type)
  BY <1>2, <1>6, <1>7
<1>9. CASE f.header_type = 0
  <2>1. r = Ok(DecodeHeader1(s, f))
    BY <1>3, <1>5, <1>7, <1>9 DEF Header1
  <2> QED BY <1>1, <1>4, <1>8, <1>9, <2>1 DEF DecodeHeader1, r, f
<1>10. CASE f.header_type = 1
  <2>1. r = Ok(DecodeHeader2(s, f))
    BY <1>3, <1>5, <1>7, <1>10 DEF Header1
  <2> QED BY <1>1, <1>4, <1>8, <1>10, <2>1 DEF DecodeHeader2, r, f
<1> QED BY <1>5, <1>9, <1>10

\* What decode_packet makes of any bytes is a packet that encode_packet
\* takes: its transport id is there if its header says so.
THEOREM DecodedPackets ==
    \A s \in Seq(Byte) :
       IsOk(DecodePacket(s)) =>
          /\ DecodePacket(s) = Ok(DecodePacket(s).value)
          /\ DecodePacket(s).value \in RnsPackets
          /\ TransportError(DecodePacket(s).value) = "none"
<1> SUFFICES ASSUME NEW s \in Seq(Byte), IsOk(DecodePacket(s))
             PROVE  /\ DecodePacket(s) = Ok(DecodePacket(s).value)
                    /\ DecodePacket(s).value \in RnsPackets
                    /\ TransportError(DecodePacket(s).value) = "none"
  OBVIOUS
<1> DEFINE f == DecodeFlags(s[1]).value
           n == Len(s)
<1>1. /\ n \in Nat /\ s[1] \in 0..127 /\ n >= HeaderLen(f.header_type)
      /\ \/ f.header_type = 0 /\ DecodePacket(s) = Ok(Decoded(s, f, None, 2))
         \/ /\ f.header_type = 1
            /\ DecodePacket(s) = Ok(Decoded(s, f, Some(SubSeq(s, 3, 2 + HashLen)),
                                            2 + HashLen))
  BY PacketFound, LenProperties
<1>2. f \in PacketFlags
  BY <1>1, FlagsExact
<1> HIDE DEF f
<1>3. HashLen \in Nat
  BY RnsAssumption
<1>4. ASSUME NEW at \in Nat, NEW t \in TransportIds, at >= 2, n >= at + HashLen + 1
      PROVE  Decoded(s, f, t, at) \in RnsPackets
  <2> DEFINE k == at + HashLen + 1
  <2>1. 2 \in 1..n /\ k \in 1..n /\ k \in Nat
    BY <1>1, <1>3, <1>4
  <2>2. s[2] \in Byte /\ s[k] \in Byte
    BY <2>1
  <2>3. SubSeq(s, at + 1, at + HashLen) \in BytesOf(HashLen)
    <3> DEFINE i == at + 1
               j == at + HashLen
               x == SubSeq(s, i, j)
    <3>1. i \in Nat /\ i >= 1 /\ j \in Nat /\ j <= n /\ i <= j + 1
          /\ (i <= j => j - i + 1 = HashLen) /\ (i > j => HashLen = 0)
      BY <1>1, <1>3, <1>4
    <3> HIDE DEF i, j
    <3>2. x \in Seq(Byte) /\ Len(x) = IF i <= j THEN j - i + 1 ELSE 0
      BY <3>1, SubSeqProperties
    <3> HIDE DEF x
    <3>3. Len(x) = HashLen
      BY <1>3, <3>1, <3>2
    <3> QED BY <3>2, <3>3 DEF BytesOf, x, i, j
  <2>4. Drop(s, k) \in Seq(Byte)
    <3> DEFINE i == k + 1
    <3>1. i \in Nat /\ i >= 1 /\ n <= n /\ i <= n + 1
      BY <1>1, <2>1
    <3> HIDE DEF i, k
    <3>2. SubSeq(s, i, n) \in Seq(Byte)
      BY <1>1, <3>1, SubSeqProperties
    <3> QED BY <3>2 DEF Drop, i
  <2> HIDE DEF k
  <2>5. Decoded(s, f, t, at) =
           [flags |-> f, hops |-> s[2], transport_id |-> t,
            destination_hash |-> SubSeq(s, at + 1, at + HashLen), context |-> s[k],
            data |-> Drop(s, k)]
    BY DEF Decoded, k
  <2> QED BY <1>2, <1>4, <2>2, <2>3, <2>4, <2>5 DEF RnsPackets
<1>5. CASE f.header_type = 0 /\ DecodePacket(s) = Ok(Decoded(s, f, None, 2))
  <2> DEFINE p == Decoded(s, f, None, 2)
  <2>1. None \in TransportIds
    BY DEF TransportIds
  <2>2. 2 \in Nat /\ 2 >= 2 /\ n >= 2 + HashLen + 1
    <3>1. HeaderLen(f.header_type) = HashLen + 3
      BY <1>5 DEF HeaderLen, Header1
    <3> QED BY <1>1, <1>3, <3>1
  <2>3. p \in RnsPackets
    BY <1>4, <2>1, <2>2
  <2>4. p.flags = f /\ p.transport_id = None
    BY DEF Decoded
  <2> HIDE DEF p
  <2>5. TransportError(p) = "none"
    BY <1>5, <2>4 DEF TransportError, IsSome, Header1, Header2
  <2> QED BY <1>5, <2>3, <2>5 DEF Ok, p
<1>6. CASE /\ f.header_type = 1
           /\ DecodePacket(s) = Ok(Decoded(s, f, Some(SubSeq(s, 3, 2 + HashLen)), 2 + HashLen))
  <2> DEFINE x == SubSeq(s, 3, 2 + HashLen)
             at == 2 + HashLen
             p == Decoded(s, f, Some(x), at)
  <2>1. at \in Nat /\ at >= 2 /\ n >= at + HashLen + 1
    <3>1. HeaderLen(f.header_type) = 2 * HashLen + 3
      BY <1>6 DEF HeaderLen, Header1
    <3> QED BY <1>1, <1>3, <3>1
  <2>2. x \in BytesOf(HashLen)
    <3>1. at \in Nat /\ at <= n /\ 3 <= at + 1 /\ (3 <= at => at - 3 + 1 = HashLen)
          /\ (3 > at => HashLen = 0)
      BY <1>1, <1>3, <2>1
    <3>2. x = SubSeq(s, 3, at)
      OBVIOUS
    <3> HIDE DEF at, x
    <3>3. x \in Seq(Byte) /\ Len(x) = IF 3 <= at THEN at - 3 + 1 ELSE 0
      BY <1>1, <3>1, <3>2, SubSeqProperties
    <3>4. Len(x) = HashLen
      BY <1>3, <3>1, <3>3
    <3> QED BY <3>3, <3>4 DEF BytesOf
  <2> HIDE DEF x, at
  <2>3. Some(x) \in TransportIds
    BY <2>2 DEF TransportIds
  <2>4. p \in RnsPackets
    BY <1>4, <2>1, <2>3
  <2>5. p.flags = f /\ p.transport_id = Some(x)
    BY DEF Decoded
  <2>6. IsSome(Some(x))
    <3>1. <<x>> # <<>>
      OBVIOUS
    <3> QED BY <3>1 DEF IsSome, Some, None
  <2>7. DecodePacket(s) = Ok(p)
    BY <1>6 DEF x, at
  <2> HIDE DEF p
  <2>8. TransportError(p) = "none"
    BY <1>6, <2>5, <2>6 DEF TransportError, Header1, Header2
  <2> QED BY <2>4, <2>7, <2>8 DEF Ok
<1> QED BY <1>1, <1>5, <1>6

\* decode_packet and encode_packet are inverse to each other.
THEOREM PacketExact ==
    \A s \in Seq(Byte), p \in RnsPackets :
       DecodePacket(s) = Ok(p) <=> EncodePacket(p, Len(s)) = Ok(s)
<1> SUFFICES ASSUME NEW s \in Seq(Byte), NEW p \in RnsPackets
             PROVE  DecodePacket(s) = Ok(p) <=> EncodePacket(p, Len(s)) = Ok(s)
  OBVIOUS
<1> DEFINE n == Len(s)
           h == HeaderLen(p.flags.header_type)
           size == h + Len(p.data)
           b == PacketTransport(p)
           at == 2 + Len(b)
           there == /\ Len(s) = HeaderLen(p.flags.header_type) + Len(p.data)
                    /\ s[1] = EncodeFlags(p.flags) /\ s[2] = p.hops
                    /\ b = SubSeq(s, 3, at)
                    /\ p.destination_hash = SubSeq(s, at + 1, at + HashLen)
                    /\ s[at + HashLen + 1] = p.context
                    /\ p.data = SubSeq(s, at + HashLen + 2, Len(s))
<1>0. /\ n \in Nat /\ HashLen \in Nat /\ Mtu \in Nat /\ Len(p.data) \in Nat
      /\ p.data \in Seq(Byte) /\ p.flags \in PacketFlags
  <2>1. p.data \in Seq(Byte) /\ p.flags \in PacketFlags
    BY DEF RnsPackets
  <2> QED BY <2>1, LenProperties, RnsAssumption
<1>1. TransportError(p) = "none" =>
         h = at + HashLen + 1 /\ (s = PacketWire(p) <=> there)
  BY PacketPlaces
<1>2. EncodePacket(p, n) = CASE size > Mtu -> Err("PacketTooLarge")
                             [] n < size -> Err("OutputBufferTooShort")
                             [] TransportError(p) /= "none" -> Err(TransportError(p))
                             [] OTHER -> Ok(PacketWire(p))
  BY PacketEncoded
<1>3. ASSUME DecodePacket(s) = Ok(p) PROVE EncodePacket(p, n) = Ok(s)
  <2> DEFINE f == DecodeFlags(s[1]).value
  <2>1. IsOk(DecodePacket(s)) /\ DecodePacket(s).value = p
    BY <1>3 DEF IsOk, Ok
  <2>2. TransportError(p) = "none"
    BY <2>1, DecodedPackets
  <2>3. /\ ~(n > Mtu) /\ s[1] \in 0..127 /\ n >= HeaderLen(f.header_type)
        /\ \/ f.header_type = 0 /\ DecodePacket(s) = Ok(Decoded(s, f, None, 2))
           \/ /\ f.header_type = 1
              /\ DecodePacket(s) = Ok(Decoded(s, f, Some(SubSeq(s, 3, 2 + HashLen)),
                                              2 + HashLen))
    BY <2>1, PacketFound
  <2>4. EncodeFlags(f) = s[1]
    BY <2>3, FlagsExact
  <2> HIDE DEF f, n
  <2>5. \/ f.header_type = 0 /\ p = Decoded(s, f, None, 2)
        \/ f.header_type = 1 /\ p = Decoded(s, f, Some(SubSeq(s, 3, 2 + HashLen)), 2 + HashLen)
    <3>1. \A x : Ok(x).value = x
      BY DEF Ok
    <3> QED BY <2>1, <2>3, <3>1
  <2>6. \E t : /\ p = Decoded(s, f, t, at) /\ b = SubSeq(s, 3, at)
    <3>1. CASE f.header_type = 0 /\ p = Decoded(s, f, None, 2)
      <4>1. p.transport_id = None
        BY <3>1 DEF Decoded
      <4>2. b = <<>>
        BY <4>1 DEF PacketTransport, IsSome
      <4>3. at = 2
        BY <4>2
      <4>4. SubSeq(s, 3, 2) = <<>>
        BY SubSeqEmpty
      <4> QED BY <3>1, <4>2, <4>3, <4>4
    <3>2. CASE /\ f.header_type = 1
               /\ p = Decoded(s, f, Some(SubSeq(s, 3, 2 + HashLen)), 2 + HashLen)
      <4> DEFINE x == SubSeq(s, 3, 2 + HashLen)
      <4>1. p.transport_id = Some(x) /\ p.flags = f
        BY <3>2 DEF Decoded
      <4> HIDE DEF x
      <4>2. <<x>> # <<>> /\ <<x>>[1] = x
        OBVIOUS
      <4>3. b = x
        BY <4>1, <4>2 DEF PacketTransport, IsSome, Some, None
      <4>4. Len(b) = HashLen
        <5>1. p.flags.header_type # 0
          BY <3>2, <4>1
        <5> QED BY <2>2, <5>1, PacketParts
      <4>5. at = 2 + HashLen
        BY <4>4
      <4> QED BY <3>2, <4>3, <4>5 DEF x
    <3> QED BY <2>5, <3>1, <3>2
  <2>7. PICK t : p = Decoded(s, f, t, at) /\ b = SubSeq(s, 3, at)
    BY <2>6
  <2>8. /\ p.flags = f /\ p.hops = s[2] /\ p.context = s[at + HashLen + 1]
        /\ p.destination_hash = SubSeq(s, at + 1, at + HashLen)
        /\ p.data = Drop(s, at + HashLen + 1)
    BY <2>7 DEF Decoded
  <2>9. at \in Nat /\ h = at + HashLen + 1 /\ n >= h
    <3>1. Len(b) \in Nat
      BY <2>2, PacketParts, LenProperties
    <3>2. at \in Nat
      BY <3>1
    <3> QED BY <1>1, <2>2, <2>3, <2>8, <3>2
  <2>10. p.data = SubSeq(s, at + HashLen + 2, n)
    <3>1. at + HashLen + 1 + 1 = at + HashLen + 2
      BY <1>0, <2>9
    <3> QED BY <2>8, <3>1 DEF Drop, n
  <2>11. n = h + Len(p.data)
    <3> DEFINE i == at + HashLen + 2
    <3>1. i \in Nat /\ i >= 1 /\ i <= n + 1 /\ i = h + 1 /\ n \in Nat /\ n <= Len(s)
      BY <1>0, <2>9 DEF n
    <3>2. p.data = SubSeq(s, i, n)
      BY <2>10
    <3> HIDE DEF i, h
    <3>3. Len(SubSeq(s, i, n)) = IF i <= n THEN n - i + 1 ELSE 0
      BY <3>1, SubSeqProperties
    <3>4. Len(p.data) = IF i <= n THEN n - i + 1 ELSE 0
      BY <3>2, <3>3
    <3>5. h \in Int
      BY <1>0, <2>9 DEF h
    <3> QED BY <3>1, <3>4, <3>5
  <2>12. there
    BY <2>4, <2>7, <2>8, <2>10, <2>11 DEF n, h
  <2>13. s = PacketWire(p)
    BY <1>1, <2>2, <2>12
  <2>14. ~(size > Mtu) /\ ~(n < size)
    <3>1. size = n
      BY <2>11
    <3> QED BY <1>0, <2>3, <3>1
  <2> HIDE DEF size
  <2> QED BY <1>2, <2>2, <2>13, <2>14
<1>4. ASSUME EncodePacket(p, n) = Ok(s) PROVE DecodePacket(s) = Ok(p)
  <2>1. EncodePacket(p, n).error = "none" /\ EncodePacket(p, n).value = s
    BY <1>4 DEF Ok
  <2> HIDE DEF n, size
  <2>2. TransportError(p) = "none" /\ ~(size > Mtu) /\ ~(n < size)
    <3> SUFFICES ASSUME TransportError(p) # "none" \/ size > Mtu \/ n < size PROVE FALSE
      OBVIOUS
    <3>1. \/ EncodePacket(p, n) = Err("PacketTooLarge")
          \/ EncodePacket(p, n) = Err("OutputBufferTooShort")
          \/ TransportError(p) # "none" /\ EncodePacket(p, n) = Err(TransportError(p))
      BY <1>2
    <3> QED BY <2>1, <3>1 DEF Err
  <2>3. EncodePacket(p, n) = Ok(PacketWire(p))
    BY <1>2, <2>2
  <2>4. s = PacketWire(p)
    BY <2>1, <2>3 DEF Ok
  <2>5. there /\ h = at + HashLen + 1
    BY <1>1, <2>2, <2>4
  <2>6. size = h + Len(p.data) /\ n = size
    BY <2>5 DEF size, n
  <2>7. DecodeFlags(s[1]) = Ok(p.flags) /\ s[1] \in 0..127
    BY <1>0, <2>5, FlagsExact
  <2>8. DecodePacket(s) = Ok(IF p.flags.header_type = Header1 THEN DecodeHeader1(s, p.flags)
                                                           ELSE DecodeHeader2(s, p.flags))
    <3>1. Len(b) \in Nat
      BY <2>2, PacketParts, LenProperties
    <3>2. at \in Nat /\ at >= 2
      BY <3>1
    <3> HIDE DEF at, h, there
    <3>3. n >= h /\ h >= 3 /\ ~(n < h) /\ h \in Nat
      <4>1. h = at + HashLen + 1 /\ n = h + Len(p.data)
        BY <2>5, <2>6
      <4>2. h \in Nat /\ h >= 3
        BY <1>0, <3>2, <4>1
      <4> QED BY <1>0, <4>1, <4>2
    <3>4. Len(s) = n /\ s # <<>>
      BY <1>0, <3>3 DEF n
    <3>5. ~(Len(s) > Mtu)
      BY <2>2, <2>6, <3>4
    <3>6. IsOk(Ok(p.flags)) /\ Ok(p.flags).value = p.flags
      BY DEF IsOk, Ok
    <3> QED BY <2>7, <3>3, <3>4, <3>5, <3>6 DEF DecodePacket, AndThen, h
  <2>9. Decoded(s, p.flags, p.transport_id, at) = p
    <3>1. at + HashLen + 1 + 1 = at + HashLen + 2
      <4>1. Len(b) \in Nat
        BY <2>2, PacketParts, LenProperties
      <4> QED BY <1>0, <4>1
    <3>2. Drop(s, at + HashLen + 1) = SubSeq(s, at + HashLen + 2, Len(s))
      BY <3>1 DEF Drop
    <3> HIDE DEF at
    <3>3. Decoded(s, p.flags, p.transport_id, at) =
             [flags |-> p.flags, hops |-> p.hops, transport_id |-> p.transport_id,
              destination_hash |-> p.destination_hash, context |-> p.context, data |-> p.data]
      BY <2>5, <3>2 DEF Decoded
    <3> QED BY <3>3 DEF RnsPackets
  <2>10. CASE p.flags.header_type = 0
    <3>1. p.transport_id = None /\ Len(b) = 0
      BY <2>2, <2>10, PacketParts
    <3>2. at = 2
      BY <3>1
    <3>3. DecodeHeader1(s, p.flags) = p
      BY <2>9, <3>1, <3>2 DEF DecodeHeader1
    <3> QED BY <2>8, <2>10, <3>3 DEF Header1
  <2>11. CASE p.flags.header_type # 0
    <3>1. p.transport_id = Some(b) /\ Len(b) = HashLen
      BY <2>2, <2>11, PacketParts
    <3>2. at = 2 + HashLen
      BY <3>1
    <3>3. b = SubSeq(s, 3, 2 + HashLen)
      BY <2>5, <3>2
    <3>4. DecodeHeader2(s, p.flags) = p
      BY <2>9, <3>1, <3>2, <3>3 DEF DecodeHeader2
    <3> QED BY <2>8, <2>11, <3>4 DEF Header1
  <2> QED BY <2>10, <2>11
<1> QED BY <1>3, <1>4 DEF n

-----------------------------------------------------------------------------
(* Packet hashes.                                                          *)

\* What a packet hash covers: where it goes, what it is, what it carries.
SameContent(p, q) ==
    /\ p.flags.destination_type = q.flags.destination_type
    /\ p.flags.packet_type = q.flags.packet_type
    /\ p.destination_hash = q.destination_hash
    /\ p.context = q.context /\ p.data = q.data

\* The bytes that are hashed are the low bits of the flags and the part of
\* the packet from the destination on.
LEMMA HashedPart ==
    ASSUME NEW s \in Seq(Byte), IsOk(DecodePacket(s))
    PROVE  LET p == DecodePacket(s).value IN
           \E u \in Seq(Byte) :
              /\ HashablePart(s) = Ok(<<4 * p.flags.destination_type + p.flags.packet_type>> \o u)
              /\ u = (p.destination_hash \o <<p.context>>) \o p.data
<1> DEFINE p == DecodePacket(s).value
           b == PacketTransport(p)
           at == 2 + Len(b)
           n == Len(s)
           u == SubSeq(s, at + 1, n)
           v == p.destination_hash
           w == <<p.context>>
<1>1. DecodePacket(s) = Ok(p) /\ p \in RnsPackets /\ TransportError(p) = "none"
  BY DecodedPackets
<1> HIDE DEF p
<1>2. EncodePacket(p, n) = Ok(s)
  BY <1>1, PacketExact
<1>3. s = PacketWire(p)
  <2>1. EncodePacket(p, n).error = "none" /\ EncodePacket(p, n).value = s
    BY <1>2 DEF Ok
  <2>2. \/ EncodePacket(p, n) = Err("PacketTooLarge")
        \/ EncodePacket(p, n) = Err("OutputBufferTooShort")
        \/ EncodePacket(p, n) = Ok(PacketWire(p))
    BY <1>1, PacketEncoded
  <2> QED BY <2>1, <2>2 DEF Ok, Err
<1>4. /\ HeaderLen(p.flags.header_type) = at + HashLen + 1
      /\ n = HeaderLen(p.flags.header_type) + Len(p.data)
      /\ s[1] = EncodeFlags(p.flags)
      /\ v = SubSeq(s, at + 1, at + HashLen)
      /\ s[at + HashLen + 1] = p.context
      /\ p.data = SubSeq(s, at + HashLen + 2, n)
  BY <1>1, <1>3, PacketPlaces
<1>5. /\ b \in Seq(Byte) /\ v \in Seq(Byte) /\ Len(v) = HashLen
      /\ w \in Seq(Byte) /\ Len(w) = 1 /\ p.data \in Seq(Byte)
      /\ (p.flags.header_type = 0 /\ Len(b) = 0) \/ (p.flags.header_type = 1 /\ Len(b) = HashLen)
  BY <1>1, PacketParts
<1> DEFINE e == Len(p.data)
           k == Len(b)
<1>6. /\ HashLen \in Nat /\ k \in Nat /\ e \in Nat /\ n \in Nat /\ at = 2 + k
      /\ n = at + HashLen + 1 + e
  BY <1>4, <1>5, LenProperties, RnsAssumption
<1>7. s[1] % 16 = 4 * p.flags.destination_type + p.flags.packet_type
  <2> DEFINE f == p.flags
             h == f.header_type
             c == IF f.context_flag THEN 1 ELSE 0
             t == f.transport_type
             d == f.destination_type
             y == f.packet_type
  <2>1. f \in PacketFlags
    BY <1>1 DEF RnsPackets
  <2> HIDE DEF f
  <2>2. h \in 0..1 /\ c \in 0..1 /\ t \in 0..1 /\ d \in 0..3 /\ y \in 0..3
    BY <2>1 DEF PacketFlags
  <2>3. EncodeFlags(f) = 64 * h + 32 * c + 16 * t + 4 * d + y
    BY <2>1 DEF EncodeFlags, PacketFlags
  <2>4. s[1] = EncodeFlags(f)
    BY <1>4 DEF f
  <2> HIDE DEF h, c, t, d, y
  <2>5. s[1] % 16 = 4 * d + y
    BY <2>2, <2>3, <2>4, SMTT(30)
  <2> QED BY <2>5 DEF d, y, f
<1>8. HashablePart(s) = Ok(<<4 * p.flags.destination_type + p.flags.packet_type>> \o u)
  <2>1. HashablePart(s) = Ok(<<s[1] % 16>> \o
            Drop(s, IF p.flags.header_type = Header1 THEN 2 ELSE 2 + HashLen))
    BY <1>1 DEF HashablePart, AndThen, p
  <2>2. at = IF p.flags.header_type = Header1 THEN 2 ELSE 2 + HashLen
    <3>1. (p.flags.header_type = Header1 /\ k = 0) \/ (p.flags.header_type # Header1 /\ k = HashLen)
      BY <1>5 DEF Header1
    <3>2. at = 2 + k
      OBVIOUS
    <3> HIDE DEF k, at
    <3> QED BY <3>1, <3>2
  <2>3. Drop(s, at) = u
    BY DEF Drop
  <2> QED BY <1>7, <2>1, <2>2, <2>3
<1> HIDE DEF at, n, e, k
<1>0. at \in Nat /\ at + HashLen + 1 <= n /\ n \in Nat /\ HashLen \in Nat /\ e \in Nat
  BY <1>6
<1>9. u \in Seq(Byte) /\ Len(u) = n - at /\ \A i \in 1..(n - at) : u[i] = s[at + i]
  <2> DEFINE m == at + 1
  <2>0. n <= Len(s)
    BY <1>0 DEF n
  <2>1. m \in Nat /\ m >= 1 /\ m <= n /\ n <= Len(s)
    BY <1>0, <2>0
  <2>2. \A i \in 1..(n - at) : m + i - 1 = at + i
    BY <1>0
  <2>3. n - m + 1 = n - at
    BY <1>0
  <2>5. m <= n + 1
    BY <1>0
  <2> HIDE DEF m, n
  <2>4. /\ SubSeq(s, m, n) \in Seq(Byte)
        /\ Len(SubSeq(s, m, n)) = IF m <= n THEN n - m + 1 ELSE 0
        /\ \A i \in 1..(n - m + 1) : SubSeq(s, m, n)[i] = s[m + i - 1]
    BY <1>0, <2>1, <2>5, SubSeqProperties, SMTT(30)
  <2> QED BY <2>1, <2>2, <2>3, <2>4 DEF m
<1>10. u = (v \o w) \o p.data
  <2> DEFINE x == v \o w
             y == x \o p.data
  <2>1. /\ x \in Seq(Byte) /\ Len(x) = HashLen + 1
        /\ \A i \in 1..HashLen : x[i] = v[i]
        /\ x[HashLen + 1] = p.context
    <3>1. /\ x \in Seq(Byte) /\ Len(x) = Len(v) + Len(w)
          /\ \A i \in 1..Len(v) : x[i] = v[i]
          /\ \A i \in 1..Len(w) : x[Len(v) + i] = w[i]
      <4>1. v \in Seq(Byte) /\ w \in Seq(Byte)
        BY <1>5
      <4> HIDE DEF v, w
      <4> QED BY <4>1, ConcatProperties
    <3>2. 1 \in 1..Len(w) /\ w[1] = p.context
      BY <1>5
    <3> HIDE DEF x, v, w
    <3> QED BY <1>5, <3>1, <3>2
  <2> HIDE DEF x, v
  <2>2. /\ y \in Seq(Byte) /\ Len(y) = HashLen + 1 + Len(p.data)
        /\ \A i \in 1..(HashLen + 1) : y[i] = x[i]
        /\ \A i \in 1..Len(p.data) : y[HashLen + 1 + i] = p.data[i]
    <3> DEFINE g == p.data
    <3>1. x \in Seq(Byte) /\ g \in Seq(Byte)
      BY <1>5, <2>1
    <3> HIDE DEF g
    <3>2. /\ x \o g \in Seq(Byte) /\ Len(x \o g) = Len(x) + Len(g)
          /\ \A i \in 1..Len(x) : (x \o g)[i] = x[i]
          /\ \A i \in 1..Len(g) : (x \o g)[Len(x) + i] = g[i]
      BY <3>1, ConcatProperties
    <3> QED BY <2>1, <3>2 DEF g
  <2> HIDE DEF y, u
  <2>9. e = Len(p.data)
    BY DEF e
  <2>3. Len(y) = n - at
    <3>1. Len(y) = HashLen + 1 + e
      BY <2>2, <2>9
    <3>2. HashLen + 1 + e = n - at
      BY <1>0, <1>6
    <3> QED BY <3>1, <3>2
  <2>4. \A i \in 1..HashLen : v[i] = s[at + i]
    <3> DEFINE m == at + 1
               r == at + HashLen
    <3>0. n = Len(s)
      BY DEF n
    <3>1. m \in Nat /\ m >= 1 /\ r \in Nat /\ r <= Len(s) /\ r - m + 1 = HashLen
          /\ m <= r + 1
      BY <1>0, <3>0
    <3>2. \A i \in 1..HashLen : m + i - 1 = at + i
      BY <1>0
    <3>3. v = SubSeq(s, m, r)
      BY <1>4
    <3> HIDE DEF m, r
    <3>4. \A i \in 1..(r - m + 1) : SubSeq(s, m, r)[i] = s[m + i - 1]
      BY <3>1, SubSeqProperties
    <3> QED BY <3>1, <3>2, <3>3, <3>4
  <2>5. \A i \in 1..Len(p.data) : p.data[i] = s[at + HashLen + 1 + i]
    <3> DEFINE m == at + HashLen + 2
    <3>0. n <= Len(s)
      BY <1>0 DEF n
    <3>1. m \in Nat /\ m >= 1 /\ n <= Len(s) /\ n - m + 1 = e /\ m <= n + 1
      BY <1>0, <1>6, <3>0
    <3>2. \A i \in 1..Len(p.data) : m + i - 1 = at + HashLen + 1 + i
      BY <1>0, <2>9
    <3>3. p.data = SubSeq(s, m, n)
      BY <1>4
    <3> HIDE DEF m
    <3>4. \A i \in 1..(n - m + 1) : SubSeq(s, m, n)[i] = s[m + i - 1]
      BY <1>0, <3>1, SubSeqProperties
    <3> QED BY <2>9, <3>1, <3>2, <3>3, <3>4
  <2>6. ASSUME NEW i \in 1..(n - at) PROVE u[i] = y[i]
    <3>1. u[i] = s[at + i]
      BY <1>9
    <3>2. CASE i \in 1..HashLen
      <4>1. i \in 1..(HashLen + 1)
        BY <1>0, <3>2
      <4> QED BY <2>1, <2>2, <2>4, <3>1, <3>2, <4>1
    <3>3. CASE i = HashLen + 1
      <4>1. i \in 1..(HashLen + 1) /\ at + i = at + HashLen + 1
        BY <1>0, <3>3
      <4> QED BY <1>4, <2>1, <2>2, <3>1, <3>3, <4>1
    <3>4. CASE i > HashLen + 1
      <4> DEFINE j == i - (HashLen + 1)
      <4>1. j \in 1..e /\ i = HashLen + 1 + j /\ at + i = at + HashLen + 1 + j
        BY <1>0, <1>6, <3>4
      <4> HIDE DEF j
      <4> QED BY <2>2, <2>5, <2>9, <3>1, <4>1
    <3> QED BY <1>0, <3>2, <3>3, <3>4
  <2>7. \A i \in 1..Len(u) : u[i] = y[i]
    BY <1>9, <2>6
  <2>8. u = y
    BY <1>9, <2>2, <2>3, <2>7, SeqEqual
  <2> QED BY <2>8 DEF y, x
<1> HIDE DEF u, v
<1>11. /\ u \in Seq(Byte)
       /\ HashablePart(s) = Ok(<<4 * p.flags.destination_type + p.flags.packet_type>> \o u)
       /\ u = (p.destination_hash \o <<p.context>>) \o p.data
  BY <1>8, <1>9, <1>10 DEF v
<1> QED BY <1>11 DEF p

\* Byte strings that are joined to the same one, the first parts of one
\* length, are the same.
LEMMA SplitAlike ==
    ASSUME NEW a \in Seq(Byte), NEW b \in Seq(Byte), NEW u \in Seq(Byte), NEW v \in Seq(Byte),
           Len(a) = Len(b), a \o u = b \o v
    PROVE  a = b /\ u = v
<1> DEFINE s == a \o u
<1>1. s \in Seq(Byte)
  BY ConcatProperties
<1>2. s = b \o v
  OBVIOUS
<1> HIDE DEF s
<1>3. BothIn(s, a, u)
  <2>1. s = a \o u
    BY DEF s
  <2> QED BY <1>1, <2>1, TwoParts
<1>4. BothIn(s, b, v)
  BY <1>1, <1>2, TwoParts
<1> QED BY <1>3, <1>4 DEF BothIn

\* Two packets are hashed from the same bytes if they have the same content,
\* and only then: the hash leaves out the hops, the header type, the transport
\* id and type, which change on the way, and the context flag (packet_hash).
THEOREM HashedAlike ==
    \A s \in Seq(Byte), t \in Seq(Byte) :
       IsOk(DecodePacket(s)) /\ IsOk(DecodePacket(t)) =>
          (HashablePart(s) = HashablePart(t) <=>
              SameContent(DecodePacket(s).value, DecodePacket(t).value))
<1> SUFFICES ASSUME NEW s \in Seq(Byte), NEW t \in Seq(Byte),
                    IsOk(DecodePacket(s)), IsOk(DecodePacket(t))
             PROVE  HashablePart(s) = HashablePart(t) <=>
                       SameContent(DecodePacket(s).value, DecodePacket(t).value)
  OBVIOUS
<1> DEFINE p == DecodePacket(s).value
           q == DecodePacket(t).value
           low(x) == 4 * x.flags.destination_type + x.flags.packet_type
           rest(x) == (x.destination_hash \o <<x.context>>) \o x.data
<1>1. p \in RnsPackets /\ q \in RnsPackets
  BY DecodedPackets
<1>2. /\ rest(p) \in Seq(Byte) /\ HashablePart(s) = Ok(<<low(p)>> \o rest(p))
      /\ rest(q) \in Seq(Byte) /\ HashablePart(t) = Ok(<<low(q)>> \o rest(q))
  BY HashedPart
<1> HIDE DEF p, q
<1>3. ASSUME NEW x \in RnsPackets
      PROVE  /\ low(x) \in 0..15
             /\ x.flags.destination_type = low(x) \div 4 /\ x.flags.packet_type = low(x) % 4
  <2> DEFINE d == x.flags.destination_type
             k == x.flags.packet_type
  <2>1. x.flags \in PacketFlags
    BY DEF RnsPackets
  <2>2. d \in 0..3 /\ k \in 0..3
    BY <2>1 DEF PacketFlags
  <2>3. low(x) = 4 * d + k
    OBVIOUS
  <2> HIDE DEF d, k
  <2>4. 4 * d + k \in 0..15 /\ d = (4 * d + k) \div 4 /\ k = (4 * d + k) % 4
    BY <2>2, SMTT(30)
  <2> QED BY <2>3, <2>4 DEF d, k
<1>4. ASSUME NEW x \in RnsPackets
      PROVE  /\ x.destination_hash \in Seq(Byte) /\ Len(x.destination_hash) = HashLen
             /\ <<x.context>> \in Seq(Byte) /\ Len(<<x.context>>) = 1 /\ x.data \in Seq(Byte)
             /\ x.destination_hash \o <<x.context>> \in Seq(Byte)
             /\ Len(x.destination_hash \o <<x.context>>) = HashLen + 1
  <2> DEFINE v == x.destination_hash
             w == <<x.context>>
  <2>1. v \in BytesOf(HashLen) /\ x.context \in Byte /\ x.data \in Seq(Byte)
    BY DEF RnsPackets
  <2>2. v \in Seq(Byte) /\ Len(v) = HashLen /\ w \in Seq(Byte) /\ Len(w) = 1
    BY <2>1 DEF BytesOf
  <2> HIDE DEF v, w
  <2>3. v \o w \in Seq(Byte) /\ Len(v \o w) = Len(v) + Len(w)
    BY <2>2, ConcatProperties
  <2> QED BY <2>1, <2>2, <2>3 DEF v, w
<1>5. ASSUME SameContent(p, q) PROVE HashablePart(s) = HashablePart(t)
  BY <1>2, <1>5 DEF SameContent
<1>6. ASSUME HashablePart(s) = HashablePart(t) PROVE SameContent(p, q)
  <2> DEFINE a == <<low(p)>>
             b == <<low(q)>>
             u == rest(p)
             v == rest(q)
  <2>1. a \in Seq(Byte) /\ Len(a) = 1 /\ b \in Seq(Byte) /\ Len(b) = 1
    <3> HIDE DEF low
    <3>1. low(p) \in 0..15 /\ low(q) \in 0..15
      BY <1>1, <1>3
    <3>2. low(p) \in Byte /\ low(q) \in Byte
      BY <3>1 DEF Byte
    <3> QED BY <3>2
  <2>2. a \o u = b \o v
    <3> DEFINE x == a \o u
               y == b \o v
    <3>1. HashablePart(s) = Ok(x) /\ HashablePart(t) = Ok(y)
      BY <1>2
    <3> HIDE DEF x, y
    <3>2. Ok(x).value = x /\ Ok(y).value = y
      BY DEF Ok
    <3>3. x = y
      BY <1>6, <3>1, <3>2
    <3> QED BY <3>3 DEF x, y
  <2>3. u \in Seq(Byte) /\ v \in Seq(Byte)
    BY <1>2
  <2> HIDE DEF low, rest, a, b, u, v
  <2>4. a = b /\ u = v
    BY <2>1, <2>2, <2>3, SplitAlike
  <2>5. low(p) = low(q)
    <3>1. <<low(p)>>[1] = low(p) /\ <<low(q)>>[1] = low(q)
      OBVIOUS
    <3> QED BY <2>4, <3>1 DEF a, b
  <2>6. /\ p.flags.destination_type = q.flags.destination_type
        /\ p.flags.packet_type = q.flags.packet_type
    BY <1>1, <1>3, <2>5
  <2> DEFINE f == p.destination_hash \o <<p.context>>
             g == q.destination_hash \o <<q.context>>
  <2>7. f \o p.data = g \o q.data
    BY <2>4 DEF u, v, rest
  <2>8. /\ f \in Seq(Byte) /\ Len(f) = HashLen + 1 /\ g \in Seq(Byte) /\ Len(g) = HashLen + 1
        /\ p.data \in Seq(Byte) /\ q.data \in Seq(Byte)
    BY <1>1, <1>4
  <2>9. f = g /\ p.data = q.data
    <3> DEFINE k == p.data
               l == q.data
    <3>1. /\ f \in Seq(Byte) /\ g \in Seq(Byte) /\ Len(f) = Len(g)
          /\ k \in Seq(Byte) /\ l \in Seq(Byte) /\ f \o k = g \o l
      BY <2>7, <2>8
    <3> HIDE DEF f, g, k, l
    <3>2. f = g /\ k = l
      BY <3>1, SplitAlike
    <3> QED BY <3>2 DEF k, l
  <2>10. p.destination_hash = q.destination_hash /\ <<p.context>> = <<q.context>>
    <3> DEFINE i == p.destination_hash
               j == q.destination_hash
               k == <<p.context>>
               l == <<q.context>>
    <3>1. /\ i \in Seq(Byte) /\ Len(i) = HashLen /\ j \in Seq(Byte) /\ Len(j) = HashLen
          /\ k \in Seq(Byte) /\ l \in Seq(Byte) /\ i \o k = j \o l
      BY <1>1, <1>4, <2>9
    <3> HIDE DEF i, j, k, l
    <3>2. i = j /\ k = l
      BY <3>1, SplitAlike
    <3> QED BY <3>2 DEF i, j, k, l
  <2>11. p.context = q.context
    <3>1. <<p.context>>[1] = p.context /\ <<q.context>>[1] = q.context
      OBVIOUS
    <3> QED BY <2>10, <3>1
  <2> QED BY <2>6, <2>9, <2>10, <2>11 DEF SameContent
<1> QED BY <1>5, <1>6 DEF p, q

\* What encode_packet writes, in whatever room, is decoded to the packet that
\* was written.
THEOREM PacketReturns ==
    \A p \in RnsPackets, room \in Nat :
       IsOk(EncodePacket(p, room)) =>
          /\ EncodePacket(p, room).value \in Seq(Byte)
          /\ DecodePacket(EncodePacket(p, room).value) = Ok(p)
<1> SUFFICES ASSUME NEW p \in RnsPackets, NEW room \in Nat, IsOk(EncodePacket(p, room))
             PROVE  /\ EncodePacket(p, room).value \in Seq(Byte)
                    /\ DecodePacket(EncodePacket(p, room).value) = Ok(p)
  OBVIOUS
<1> DEFINE size == HeaderLen(p.flags.header_type) + Len(p.data)
           wire == PacketWire(p)
           encoded(r) == CASE size > Mtu -> Err("PacketTooLarge")
                           [] r < size -> Err("OutputBufferTooShort")
                           [] TransportError(p) /= "none" -> Err(TransportError(p))
                           [] OTHER -> Ok(wire)
<1>1. \A r : EncodePacket(p, r) = encoded(r)
  BY PacketEncoded
<1> HIDE DEF size, wire
<1>2. TransportError(p) = "none" /\ ~(size > Mtu) /\ ~(room < size)
  <2> SUFFICES ASSUME TransportError(p) # "none" \/ size > Mtu \/ room < size PROVE FALSE
    OBVIOUS
  <2>1. \/ EncodePacket(p, room) = Err("PacketTooLarge")
        \/ EncodePacket(p, room) = Err("OutputBufferTooShort")
        \/ TransportError(p) # "none" /\ EncodePacket(p, room) = Err(TransportError(p))
    BY <1>1
  <2> QED BY <2>1 DEF IsOk, Err
<1>3. wire \in Seq(Byte)
  <2> DEFINE a == PacketHead(p)
             b == PacketTransport(p)
             c == p.destination_hash
             d == <<p.context>>
             g == p.data
  <2>1. /\ a \in Seq(Byte) /\ b \in Seq(Byte) /\ c \in Seq(Byte) /\ d \in Seq(Byte)
        /\ g \in Seq(Byte)
    BY <1>2, PacketParts
  <2>2. wire = (((a \o b) \o c) \o d) \o g
    BY DEF wire, PacketWire
  <2> HIDE DEF a, b, c, d, g
  <2>3. \A x \in Seq(Byte), y \in Seq(Byte) : x \o y \in Seq(Byte)
    BY ConcatProperties
  <2> QED BY <2>1, <2>2, <2>3
<1>4. Len(wire) = size
  BY <1>2, <1>3, PacketPlaces DEF wire, size
<1>5. size \in Nat /\ ~(size < size)
  <2>1. size \in Nat
    BY <1>3, <1>4, LenProperties
  <2> QED BY <2>1
<1>6. EncodePacket(p, Len(wire)) = Ok(wire) /\ EncodePacket(p, room) = Ok(wire)
  BY <1>1, <1>2, <1>4, <1>5
<1>7. DecodePacket(wire) = Ok(p)
  BY <1>3, <1>6, PacketExact
<1>8. EncodePacket(p, room).value = wire
  BY <1>6 DEF Ok
<1> QED BY <1>3, <1>7, <1>8

\* A packet keeps its hash on the way: a transport node changes the hops, the
\* header type, the transport id and type, and leaves the content alone.
THEOREM TransportKeepsHash ==
    \A p \in RnsPackets, q \in RnsPackets, room \in Nat, other \in Nat :
       /\ IsOk(EncodePacket(p, room)) /\ IsOk(EncodePacket(q, other))
       /\ SameContent(p, q)
       => PacketHash(EncodePacket(p, room).value) = PacketHash(EncodePacket(q, other).value)
<1> SUFFICES ASSUME NEW p \in RnsPackets, NEW q \in RnsPackets, NEW room \in Nat,
                    NEW other \in Nat, IsOk(EncodePacket(p, room)),
                    IsOk(EncodePacket(q, other)), SameContent(p, q)
             PROVE  PacketHash(EncodePacket(p, room).value) =
                       PacketHash(EncodePacket(q, other).value)
  OBVIOUS
<1> DEFINE s == EncodePacket(p, room).value
           t == EncodePacket(q, other).value
<1>1. /\ s \in Seq(Byte) /\ DecodePacket(s) = Ok(p)
      /\ t \in Seq(Byte) /\ DecodePacket(t) = Ok(q)
  BY PacketReturns
<1> HIDE DEF s, t
<1>2. IsOk(Ok(p)) /\ Ok(p).value = p /\ IsOk(Ok(q)) /\ Ok(q).value = q
  BY DEF IsOk, Ok
<1>3. HashablePart(s) = HashablePart(t)
  BY <1>1, <1>2, HashedAlike
<1>4. PacketHash(s) = PacketHash(t)
  BY <1>3 DEF PacketHash, AndThen
<1> QED BY <1>4 DEF s, t
=============================================================================
