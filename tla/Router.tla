------------------------------- MODULE Router -------------------------------
(***************************************************************************)
(* The router (hyf_router/src/router.rs): its link table, its ring of seen *)
(* messages, its clock, and the decision it takes for an envelope.         *)
(* The router performs no I/O: a decision is a batch of commands that      *)
(* GatewayCore executes.  A batch has one of four shapes, so it is a       *)
(* record: an optional local delivery followed by sends of one envelope,   *)
(* out (DeliverLocal, Send), a put of out, a drop, or nothing; "error" is  *)
(* the RouterError returned instead.                                       *)
(***************************************************************************)
EXTENDS Envelope, Sequences, FiniteSets

CONSTANTS LinkIds,            \* link identifiers an executor may report
          NoLink,             \* "no ingress": the message is submitted locally
          NoKey,              \* an empty slot of the seen ring
          LocalNode,          \* policy.local_node_id
          LocalCommunities,   \* policy.local_communities
          MaxLinks,           \* MAX_LINKS, slots of the link table
          MaxSeen,            \* MAX_SEEN, slots of the seen ring
          CommandCapacity     \* ROUTER_COMMAND_CAPACITY, 16 in the code

ASSUME RouterAssumption ==
  /\ NoLink \notin LinkIds
  /\ NoKey \notin SeenKeys
  /\ IsFiniteSet(LinkIds)
  /\ MaxLinks \in Nat
  /\ MaxSeen \in Nat
  /\ CommandCapacity \in Nat \ {0}

VARIABLES links,      \* the link table: slots fill in order and are never freed
          seen,       \* [Option<RouterSeenKey>; MAX_SEEN]
          next_seen,  \* where a full ring is overwritten next
          now         \* router.now_ms, always equal to the core's last_now_ms

seenVars == <<seen, next_seen>>
routerVars == <<links, seenVars, now>>

LinkState == [id: LinkIds, up: BOOLEAN]

-----------------------------------------------------------------------------
(* The seen ring.                                                          *)

SeenSlots == 0..(MaxSeen - 1)
Remembered == {seen[i] : i \in SeenSlots} \ {NoKey}
HasSeen(e) == SeenKey(e) \in Remembered

EmptySlots == {i \in SeenSlots : seen[i] = NoKey}
FirstEmpty == CHOOSE i \in EmptySlots : \A j \in EmptySlots : i <= j

\* Mutants: next_seen does not wrap; a full ring is overwritten in one place.
MarkSeenNoWrap(k) ==
  LET slot == IF EmptySlots # {} THEN FirstEmpty ELSE next_seen
  IN seen' = [seen EXCEPT ![slot] = k] /\ next_seen' = slot + 1
MarkSeenStuck(k) ==
  LET slot == IF EmptySlots # {} THEN FirstEmpty ELSE next_seen
  IN /\ seen' = [seen EXCEPT ![slot] = k]
     /\ next_seen' = IF EmptySlots # {} THEN (slot + 1) % MaxSeen ELSE next_seen

\* mark_seen: the first empty slot, or else the slot at next_seen.
MarkSeen(k) ==
  LET slot == IF EmptySlots # {} THEN FirstEmpty ELSE next_seen
  IN /\ seen' = [seen EXCEPT ![slot] = k]
     /\ next_seen' = (slot + 1) % MaxSeen

\* Mutant: commit_seen does not look whether the key is there.
CommitSeenUnchecked(e) == MarkSeen(SeenKey(e))

\* commit_seen; a ring without slots remembers nothing.
CommitSeen(e) ==
  IF HasSeen(e) \/ MaxSeen = 0 THEN UNCHANGED seenVars ELSE MarkSeen(SeenKey(e))

-----------------------------------------------------------------------------
(* The link table.                                                         *)

\* Mutant: only a link that is up is found.
LinkKnownUp(l) == \E i \in DOMAIN links : links[i].id = l /\ links[i].up

LinkKnown(l) == \E i \in DOMAIN links : links[i].id = l

\* TooManyLinks: an unknown link comes up and the table is full.
LinkTableFull(l) == ~LinkKnown(l) /\ Len(links) = MaxLinks

SetLinkState(l, up) ==
  IF LinkKnown(l)
  THEN [i \in DOMAIN links |->
          IF links[i].id = l THEN [id |-> l, up |-> up] ELSE links[i]]
  ELSE IF up /\ ~LinkTableFull(l)
       THEN Append(links, [id |-> l, up |-> TRUE])
       ELSE links

UpLinksExcept(ingress) ==
  {links[i].id : i \in {j \in DOMAIN links :
                          links[j].up /\ links[j].id # ingress}}
UpLinks == UpLinksExcept(NoLink)

\* first_up_link_except, as a set: the first in table order, or none.
FirstUpLinkExcept(ingress) ==
  {links[i].id : i \in {j \in DOMAIN links :
     /\ links[j].up /\ links[j].id # ingress
     /\ \A k \in 1..(j - 1) : ~links[k].up \/ links[k].id = ingress}}

-----------------------------------------------------------------------------
(* Decisions.                                                              *)

DropReasons == {"Expired", "Duplicate", "HopLimitExhausted", "NoRoute",
                "MalformedFrame"}
RouterErrors == {"InvalidEnvelope", "OutputTooSmall"}

Decision == [error: RouterErrors \cup {"Ok"}, local: SUBSET EnvelopeType,
             sends: SUBSET LinkIds, put: BOOLEAN,
             drop: DropReasons \cup {"none"}, out: EnvelopeType]

Nothing(e) == [error |-> "Ok", local |-> {}, sends |-> {}, put |-> FALSE,
               drop |-> "none", out |-> e]
Reject(e, error) == [Nothing(e) EXCEPT !.error = error]
Drop(e, reason) == [Nothing(e) EXCEPT !.drop = reason]
Forward(e, local, sends) == [Nothing(e) EXCEPT !.local = local, !.sends = sends]
StorePut(e) == [Nothing(e) EXCEPT !.put = TRUE]

IsEmpty(d) == d.local = {} /\ d.sends = {} /\ ~d.put /\ d.drop = "none"

IsLocalNode(e) == e.dest.kind = "node" /\ e.dest.name = LocalNode
IsLocalCommunity(e) == IsCommunity(e) /\ e.dest.name \in LocalCommunities

\* The envelope as it is delivered to a local community: no hop is taken.
LocalCopy(e) == IF IsLocalCommunity(e) /\ ~HasSeen(e) THEN {e} ELSE {}

\* A fan-out needs one output slot for the local delivery and one per link.
FanOut(e, local, sends) ==
  IF Cardinality(sends) + Cardinality(local) > CommandCapacity
  THEN Reject(e, "OutputTooSmall")
  ELSE Forward(e, local, sends)

\* Mutant: the fallback comes before the local delivery is considered.
HandleCommunityFallbackFirst(e, ingress) ==
  IF UpLinksExcept(ingress) = {} THEN StorePut(e)
  ELSE FanOut(e, LocalCopy(e), UpLinksExcept(ingress))

\* emit_community_fallback: only a message of this node waits for a link.
CommunityFallback(e, ingress) ==
  IF ingress = NoLink THEN StorePut(e) ELSE Drop(e, "NoRoute")

\* handle_community_envelope.
HandleCommunity(e, ingress) ==
  LET local == LocalCopy(e)
      sends == UpLinksExcept(ingress)
      transit == ingress # NoLink
  IN IF transit /\ e.hop <= 1 THEN Drop(e, "HopLimitExhausted")
     ELSE IF local = {} /\ sends = {}
          THEN CommunityFallback(e, ingress)
          ELSE FanOut(IF transit THEN NextHop(e) ELSE e, local, sends)

\* The last part of handle_envelope, for a destination that is neither a
\* community nor this node, with envelope_for_next_hop.
HandleRemote(e, ingress) ==
  LET transit == ingress # NoLink
      outbound == IF transit THEN NextHop(e) ELSE e
      exhausted == IF transit THEN e.hop <= 1 ELSE e.hop = 0
      first == FirstUpLinkExcept(ingress)
  IN IF exhausted THEN Drop(e, "HopLimitExhausted")
     ELSE IF first # {} THEN Forward(outbound, {}, first)
          ELSE StorePut(outbound)

\* reject_invalid_or_expired at clock t: the decision that ends the call, or
\* what the caller decides otherwise.
RejectInvalidOrExpired(e, t, otherwise) ==
  IF ~VersionOk(e) THEN Reject(e, "InvalidEnvelope")
  ELSE IF ~ExpiryOk(e) \/ e.expires <= t THEN Drop(e, "Expired")
  ELSE otherwise

\* reject_terminal_envelope: a stored record may be out of hops as well.
RejectTerminal(e, t, otherwise) ==
  RejectInvalidOrExpired(e, t,
    IF e.hop = 0 THEN Drop(e, "HopLimitExhausted") ELSE otherwise)

\* handle_envelope at clock t; ingress is NoLink for a local submission.
HandleEnvelope(e, ingress, t) ==
  RejectInvalidOrExpired(e, t,
    IF HasSeen(e) THEN Drop(e, "Duplicate")
    ELSE IF IsCommunity(e) THEN HandleCommunity(e, ingress)
    ELSE IF IsLocalNode(e) THEN Forward(e, {e}, {})
    ELSE HandleRemote(e, ingress))

\* handle_frame: a frame that does not decode is dropped.
HandleFrame(e, ingress, t) ==
  IF Valid(e) THEN HandleEnvelope(e, ingress, t) ELSE Drop(e, "MalformedFrame")

\* forward_stored_community: no link is excluded, because the store does not
\* keep the link a record came from.
ForwardStoredCommunity(e) ==
  IF LocalCopy(e) = {} /\ UpLinks = {} THEN Nothing(e)
  ELSE FanOut(e, LocalCopy(e), UpLinks)

\* forward_stored, at the current clock.
ForwardStored(e) ==
  RejectTerminal(e, now,
    IF IsCommunity(e) THEN ForwardStoredCommunity(e)
    ELSE IF IsLocalNode(e)
         THEN IF HasSeen(e) THEN Drop(e, "Duplicate") ELSE Forward(e, {e}, {})
    ELSE Forward(e, {}, FirstUpLinkExcept(NoLink)))

RouterInit ==
  /\ links = << >>
  /\ seen = [i \in SeenSlots |-> NoKey]
  /\ next_seen = 0
  /\ now = 0

SeenTypeOK ==
  /\ seen \in [SeenSlots -> SeenKeys \cup {NoKey}]
  /\ next_seen \in SeenSlots \cup {0}

RouterTypeOK ==
  /\ links \in Seq(LinkState)
  /\ SeenTypeOK
  /\ now \in Nat

-----------------------------------------------------------------------------
(* What the ring promises.                                                 *)

\* The ring is a queue: it is filled from the front without gaps, no key is
\* in it twice, and next_seen is the end of the filled part until the ring is
\* full (mark_seen, commit_seen).
SeenIsQueue ==
  /\ \E n \in 0..MaxSeen : /\ EmptySlots = n..(MaxSeen - 1)
                           /\ n < MaxSeen => next_seen = n
  /\ \A i, j \in SeenSlots : seen[i] = seen[j] /\ seen[i] # NoKey => i = j

\* The refinement: a full ring is read from next_seen on, around the end.
Unrolled ==
  IF EmptySlots # {} THEN [i \in 1..next_seen |-> seen[i - 1]]
  ELSE [i \in 1..MaxSeen |-> seen[(next_seen + i - 1) % MaxSeen]]

\* The ring remembers exactly the MaxSeen keys committed last, in order,
\* whatever is committed and refused in between (commit_seen).
Window == INSTANCE SeenWindow WITH Keys <- SeenKeys, window <- Unrolled
SeenWindowSpec == Window!WindowSpec
=============================================================================
