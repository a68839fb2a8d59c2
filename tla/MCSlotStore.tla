----------------------------- MODULE MCSlotStore ----------------------------
(***************************************************************************)
(* Records that collide on the id, tie on expiry, and tie on expiry and    *)
(* creation; one of each form that is refused.                             *)
(***************************************************************************)
EXTENDS SlotStore

MCNames == {"peer"}
Env(id, created, expires, form) ==
  [id |-> id, dest |-> [kind |-> "node", name |-> "peer"], created |-> created,
   expires |-> expires, hop |-> 1, form |-> form]

MCFrames ==
  {Env(1, 1, 2, "ok"), Env(2, 0, 2, "ok"), Env(3, 0, 1, "ok"), Env(4, 0, 2, "ok"),
   Env(1, 0, 3, "ok"), Env(5, 1, 1, "ok"), Env(6, 1, 1, "invalid"),
   Env(7, 2, 1, "oversize"), Env(8, 0, 1, "oversize")}
=============================================================================
