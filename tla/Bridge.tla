------------------------------- MODULE Bridge -------------------------------
(***************************************************************************)
(* The bridge orchestrator (hyf_bridge_runtime/src/orchestrator.rs): a     *)
(* message taken in from one network becomes a HYF envelope and one        *)
(* message for every other network of the route policy, unless its key is  *)
(* still in the dedupe ring (dedupe.rs).  The orchestrator sends nothing   *)
(* itself: a call returns a batch of commands or an error.  The converters *)
(* are modelled by which messages they refuse.                             *)
(***************************************************************************)
EXTENDS Naturals, Sequences, FiniteSets

CONSTANTS Messages,        \* what the networks hand in
          Policies,        \* the route policies an orchestrator is built with
          DedupeCapacity,  \* DEDUPE_CAPACITY, slots of the dedupe ring
          Buffers,         \* lengths of the command buffers callers pass
          NoKey            \* an empty slot of the ring

Networks == {"BitChat", "Lxmf", "Nostr"}
Protocols == Networks \cup {"Hyf"}

\* What the converters tell apart: "malformed" is refused by every ingress;
\* "unencodable" converts, but its ids are zero or its payload is too long for
\* the bridge codec; dated is created_at_ms # 0.
Forms == {"text", "empty", "opaque", "malformed", "unencodable"}
Message == [key: Nat, form: Forms, dated: BOOLEAN]

\* BridgeRoutePolicy; "none" is an empty entry of egress_protocols.
Policy == [allow_echo: BOOLEAN, egress: Seq(Protocols \cup {"none"})]

\* What a caller passes: the egress profiles, whether the envelope would
\* expire after its creation, whether the Nostr secret is a valid key, and
\* the room for commands.
Params == [profiles: SUBSET Networks, wraps: BOOLEAN, signs: BOOLEAN,
           room: Buffers]

ASSUME BridgeAssumption ==
  /\ Messages \subseteq Message
  /\ Policies \subseteq Policy
  /\ DedupeCapacity \in Nat
  /\ Buffers \subseteq Nat
  /\ NoKey \notin Nat

VARIABLES policy,      \* route_policy, fixed when the orchestrator is built
          keys,        \* dedupe.keys
          next_index,  \* dedupe.next_index
          len,         \* dedupe.len
          reply,       \* observed: what the last call returned, and for what
          since        \* history: bridged key -> keys inserted afterwards

dedupe == <<keys, next_index, len>>
vars == <<policy, dedupe, reply, since>>
Slots == 0..(DedupeCapacity - 1)

-----------------------------------------------------------------------------
(* dedupe.rs                                                               *)

Contained == {keys[i] : i \in Slots} \ {NoKey}

\* Mutant: nothing is ever found.
ContainsNothing(k) == FALSE
Contains(k) == k \in Contained

\* Mutant: the newest key is overwritten.
InsertInPlace(k) ==
  /\ keys' = [keys EXCEPT ![next_index] = k]
  /\ next_index' = IF len + 1 < DedupeCapacity THEN next_index + 1 ELSE next_index
  /\ len' = IF len < DedupeCapacity THEN len + 1 ELSE len

\* insert of a key that is not contained, into a ring that has slots
Insert(k) ==
  /\ keys' = [keys EXCEPT ![next_index] = k]
  /\ next_index' = (next_index + 1) % DedupeCapacity
  /\ len' = IF len < DedupeCapacity THEN len + 1 ELSE len

-----------------------------------------------------------------------------
(* policy.rs                                                               *)

Blocked(origin, p) == ~policy.allow_echo /\ p = origin

\* Mutant: an entry that repeats an earlier one is selected again.
SelectedEntriesRepeated(origin) ==
  {i \in DOMAIN policy.egress :
     policy.egress[i] # "none" /\ ~Blocked(origin, policy.egress[i])}

\* Entries that are selected: neither empty nor blocked nor a repetition.
SelectedEntries(origin) ==
  {i \in DOMAIN policy.egress :
     /\ policy.egress[i] # "none" /\ ~Blocked(origin, policy.egress[i])
     /\ \A j \in 1..(i - 1) : policy.egress[j] # policy.egress[i]}

\* select_egress, in the order of the policy
SelectEgress(origin) ==
  LET entries == SelectedEntries(origin)
      rank(i) == Cardinality({j \in entries : j <= i})
  IN [n \in 1..Cardinality(entries) |->
        policy.egress[CHOOSE i \in entries : rank(i) = n]]

-----------------------------------------------------------------------------
(* The converters.                                                         *)

\* What the bridge codec can encode.
Encodable(m) == m.form \notin {"malformed", "unencodable"}

\* Taking a message in: BitChat brings dated text, LXMF text, and a Nostr
\* event carries an encoded bridge message of any kind.
TakesBitchat(m) == m.form \in {"text", "unencodable"} /\ m.dated
TakesLxmf(m) == m.form \in {"text", "unencodable"}
TakesNostr(m) == Encodable(m)

\* The packet is converted, then encoded as a bridge message.
IngressError(origin, m) ==
  LET takes == CASE origin = "BitChat" -> TakesBitchat(m)
                 [] origin = "Lxmf" -> TakesLxmf(m)
                 [] origin = "Nostr" -> TakesNostr(m)
  IN IF ~takes THEN origin ELSE IF Encodable(m) THEN "Ok" ELSE "Bridge"

\* Giving a message out: BitChat carries dated text, LXMF text, Nostr every
\* message that the secret of the caller signs.
CarriesBitchat(m) == m.form = "text" /\ m.dated
CarriesLxmf(m) == m.form = "text"
CarriesNostr(params) == params.signs

Converts(p, m, params) ==
  CASE p = "BitChat" -> CarriesBitchat(m)
    [] p = "Lxmf" -> CarriesLxmf(m)
    [] p = "Nostr" -> CarriesNostr(params)

\* The plan for a selected protocol; HYF itself has no egress profile.
Plan(p, m, params) ==
  IF p \notin params.profiles THEN "UnsupportedProfile"
  ELSE IF Converts(p, m, params) THEN "Emit" ELSE "Fail"

-----------------------------------------------------------------------------
(* emit_bridge_message                                                     *)

Command == [kind: {"Emit", "UnsupportedProfile", "Duplicate"}, protocol: Protocols]
Errors == Networks \cup {"Bridge", "OutputTooSmall", "DedupeCapacityZero"}

NoReply == [error |-> "Ok", commands |-> << >>, key |-> 0,
            origin |-> "Hyf", room |-> 0]

\* The first selected protocol, in the order of the policy, that cannot carry m.
ConversionError(selected, m, params) ==
  LET failing == {i \in DOMAIN selected : Plan(selected[i], m, params) = "Fail"}
  IN IF failing = {} THEN "Ok"
     ELSE selected[CHOOSE i \in failing : \A j \in failing : i <= j]

\* Mutant: the room is checked for the selected protocols only.
EmitErrorUncounted(origin, m, params) ==
  LET selected == SelectEgress(origin)
  IN IF params.room < Len(selected) THEN "OutputTooSmall"
     ELSE IF ~params.wraps THEN "Bridge"
     ELSE IF ConversionError(selected, m, params) # "Ok"
          THEN ConversionError(selected, m, params)
     ELSE IF DedupeCapacity = 0 THEN "DedupeCapacityZero" ELSE "Ok"

\* The first reason, in the order of the code, why a new message is refused.
EmitError(origin, m, params) ==
  LET selected == SelectEgress(origin)
  IN IF params.room < 1 + Len(selected) THEN "OutputTooSmall"
     ELSE IF ~params.wraps THEN "Bridge"
     ELSE IF ConversionError(selected, m, params) # "Ok"
          THEN ConversionError(selected, m, params)
     ELSE IF DedupeCapacity = 0 THEN "DedupeCapacityZero" ELSE "Ok"

\* The envelope first, then one command for every selected protocol.
Batch(origin, m, params) ==
  LET selected == SelectEgress(origin)
  IN <<[kind |-> "Emit", protocol |-> "Hyf"]>> \o
     [i \in DOMAIN selected |-> [kind |-> Plan(selected[i], m, params),
                                 protocol |-> selected[i]]]

Answer(origin, m, params, error, commands) ==
  reply' = [error |-> error, commands |-> commands, key |-> m.key,
            origin |-> origin, room |-> params.room]

\* The call fails and leaves the ring alone.
Refuse(origin, m, params, error) ==
  /\ error # "Ok"
  /\ Answer(origin, m, params, error, << >>)
  /\ UNCHANGED <<dedupe, since>>

\* A repeat is answered by one drop, if there is room for it.
DropDuplicate(origin, m, params) ==
  /\ params.room >= 1
  /\ Answer(origin, m, params, "Ok", <<[kind |-> "Duplicate", protocol |-> origin]>>)
  /\ UNCHANGED <<dedupe, since>>

\* Every conversion has succeeded: only now the key is inserted.
Emit(origin, m, params) ==
  /\ Insert(m.key)
  /\ Answer(origin, m, params, "Ok", Batch(origin, m, params))
  /\ since' = [k \in DOMAIN since \cup {m.key} |->
                 IF k = m.key THEN {} ELSE since[k] \cup {m.key}]

\* Mutant: the key is inserted before the message is converted.
EmitBridgeMessageInsertFirst(origin, m, params) ==
  \/ /\ Contains(m.key)
     /\ DropDuplicate(origin, m, params)
  \/ /\ ~Contains(m.key)
     /\ IF EmitError(origin, m, params) = "Ok" THEN Emit(origin, m, params)
        ELSE /\ Insert(m.key)
             /\ Answer(origin, m, params, EmitError(origin, m, params), << >>)
             /\ UNCHANGED since

EmitBridgeMessage(origin, m, params) ==
  \/ /\ Contains(m.key)
     /\ \/ DropDuplicate(origin, m, params)
        \/ params.room < 1 /\ Refuse(origin, m, params, "OutputTooSmall")
  \/ /\ ~Contains(m.key)
     /\ \/ Refuse(origin, m, params, EmitError(origin, m, params))
        \/ EmitError(origin, m, params) = "Ok" /\ Emit(origin, m, params)

Ingest(origin, m, params) ==
  /\ \/ Refuse(origin, m, params, IngressError(origin, m))
     \/ IngressError(origin, m) = "Ok" /\ EmitBridgeMessage(origin, m, params)
  /\ UNCHANGED policy

IngestBitchat(m, params) == Ingest("BitChat", m, params)
IngestLxmf(m, params) == Ingest("Lxmf", m, params)
IngestNostr(m, params) == Ingest("Nostr", m, params)

Init ==
  /\ policy \in Policies
  /\ keys = [i \in Slots |-> NoKey]
  /\ next_index = 0
  /\ len = 0
  /\ reply = NoReply
  /\ since = [k \in {} |-> {}]

Next ==
  \E m \in Messages, params \in Params :
    IngestBitchat(m, params) \/ IngestLxmf(m, params) \/ IngestNostr(m, params)

Spec == Init /\ [][Next]_vars

-----------------------------------------------------------------------------
(* What makes the bridge correct.                                          *)

\* The ring is a queue: its first len slots are filled, no key is in it
\* twice, and the next key goes behind the filled part until that is all of
\* it (BridgeDedupeSet::insert).
DedupeIsQueue ==
  /\ \A i \in Slots : keys[i] # NoKey <=> i < len
  /\ len < DedupeCapacity => next_index = len
  /\ \A i, j \in Slots : keys[i] = keys[j] /\ keys[i] # NoKey => i = j

\* A batch answers every protocol of the policy exactly once, goes out on no
\* network twice and never back on the network it came from unless the
\* policy allows that, and fits the caller's buffer: the loops that count,
\* select and write in emit_bridge_message agree.
Bridged == reply.error = "Ok" /\ reply.commands # << >> /\
           reply.commands[1].kind = "Emit"
BatchSound ==
  LET commands == reply.commands
      answered == {commands[i].protocol : i \in 2..Len(commands)}
  IN /\ Len(commands) <= reply.room
     /\ Bridged =>
          /\ \A i, j \in 2..Len(commands) :
               commands[i].protocol = commands[j].protocol => i = j
          /\ \A i \in 2..Len(commands) : commands[i].kind = "Emit" =>
               policy.allow_echo \/ commands[i].protocol # reply.origin
          /\ answered = {p \in Protocols :
               /\ \E i \in DOMAIN policy.egress : policy.egress[i] = p
               /\ policy.allow_echo \/ p # reply.origin}

\* A key enters the ring exactly when its whole batch is returned, so a call
\* that fails half way can be repeated (emit_bridge_message converts before
\* it inserts).
RememberStep ==
  Contained' \ Contained = IF Bridged' THEN {reply'.key} ELSE {}
RememberedIffBridged == [][RememberStep]_<<dedupe, reply>>

\* A message is bridged again only after DedupeCapacity other messages were
\* bridged in between: whichever network a copy comes back on, and however
\* often, it goes no further while its key is in the ring.
BridgeAgainStep ==
  \A k \in DOMAIN since :
    Bridged' /\ reply'.key = k /\ dedupe' # dedupe =>
      Cardinality(since[k]) >= DedupeCapacity
BridgedOnceInWindow == [][BridgeAgainStep]_vars

\* The ring remembers exactly the keys bridged last, in order.
Unrolled ==
  IF len < DedupeCapacity THEN [i \in 1..len |-> keys[i - 1]]
  ELSE [i \in 1..len |-> keys[(next_index + i - 1) % DedupeCapacity]]
Window == INSTANCE SeenWindow
            WITH Keys <- {m.key : m \in Messages}, MaxSeen <- DedupeCapacity,
                 window <- Unrolled
DedupeWindow == Window!WindowSpec
=============================================================================
