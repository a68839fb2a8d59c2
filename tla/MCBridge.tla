------------------------------ MODULE MCBridge ------------------------------
(***************************************************************************)
(* A small instance of Bridge: policies with repetitions, gaps, HYF itself *)
(* and echo, and messages of every form, some of them with one key.         *)
(***************************************************************************)
EXTENDS Bridge

MCPolicies ==
  {[allow_echo |-> FALSE, egress |-> <<"BitChat", "none", "BitChat", "Nostr">>],
   [allow_echo |-> TRUE, egress |-> <<"Hyf", "Lxmf">>],
   [allow_echo |-> FALSE, egress |-> << >>]}

Msg(key, form, dated) == [key |-> key, form |-> form, dated |-> dated]
MCMessages ==
  {Msg(1, "text", TRUE), Msg(2, "text", FALSE), Msg(3, "opaque", TRUE),
   Msg(3, "empty", TRUE), Msg(1, "malformed", FALSE),
   Msg(1, "unencodable", TRUE)}
MCBuffers == {0, 2, 3}
=============================================================================
