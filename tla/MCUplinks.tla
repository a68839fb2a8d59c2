----------------------------- MODULE MCUplinks -----------------------------
(***************************************************************************)
(* A small instance of the uplinks.  Times count in milliseconds up to     *)
(* MCMaxU64; three frames of which one is no envelope and one needs the    *)
(* larger buffer; a peer that publishes an event of its own, one of        *)
(* another kind and one from beyond the range of times; an injected event  *)
(* that is good and one with a wrong signature.                            *)
(***************************************************************************)
EXTENDS Uplinks

MCPublicKeyOf(secret) == IF secret = "alice_secret" THEN "alice" ELSE "bob"

MCFrames ==
    {[name |-> 1, len |-> 1, envelope |-> TRUE],
     [name |-> 2, len |-> 2, envelope |-> TRUE],
     [name |-> 3, len |-> 1, envelope |-> FALSE]}
SentFrames == {f \in MCFrames : f.len = 1}
Frame(n) == CHOOSE f \in MCFrames : f.name = n

\* Injective on the events of the instance.
MCSha256(unsigned) ==
    1000 * unsigned.kind + 100 * Len(unsigned.tags) + 10 * unsigned.created_at
        + unsigned.content.of.name + (IF unsigned.pubkey = "bob" THEN 5 ELSE 0)

ByBob(name, created_at, kind, spelled) ==
    SignEvent([pubkey |-> "bob", created_at |-> created_at, kind |-> kind,
               tags |-> << <<"p", "alice">> >>,
               content |-> [hex |-> spelled, chars |-> 2 * Frame(name).len,
                            of |-> Frame(name)]], "bob_secret").event

MCPeerPublishes ==
    {<<ByBob(1, 6, 7, "lower"), 7>>, <<ByBob(1, 0, 1, "lower"), 1>>}
MCInjectedEvents ==
    {ByBob(2, 0, 7, "lower"), [ByBob(2, 1, 7, "lower") EXCEPT !.sig.by = "alice"]}

Filter(kinds, p_tags, since, until, limit) ==
    [kinds |-> kinds, authors |-> {}, p_tags |-> p_tags,
     since |-> since, until |-> until, limit |-> limit]
MCRequests ==
    {<<"s1", <<Filter({}, {}, -1, -1, -1)>> >>,
     <<"s1", <<Filter({7}, {"alice"}, 0, 5, 0), Filter({7}, {}, 1, -1, 1)>> >>}

MCNodeAddr(key) ==
    CASE key = "local" -> <<1, 0>>
      [] key = "remote" -> <<2, 0>>
      [] key = "near" -> <<2, 1>>       \* the remote's IPv6 address
      [] OTHER -> <<3, 0>>
MCFipsFrames == {[name |-> 1, len |-> 1], [name |-> 2, len |-> 2], [name |-> 3, len |-> 3]}

=============================================================================
