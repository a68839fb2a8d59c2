----------------------------- MODULE SeenWindow -----------------------------
(***************************************************************************)
(* What duplicate suppression promises: the MaxSeen keys committed last    *)
(* are remembered, oldest first, and a key that is already remembered is   *)
(* not committed again (so a repeat does not renew its place).  Both the   *)
(* router's ring (hyf_router/src/router.rs) and the bridge's ring          *)
(* (hyf_bridge_runtime/src/dedupe.rs) are meant to keep this promise.      *)
(***************************************************************************)
EXTENDS Naturals, Sequences

CONSTANTS Keys,     \* the keys that can be committed
          MaxSeen   \* how many of them are remembered

VARIABLE window     \* the remembered keys, oldest first

Remembered(w) == {w[i] : i \in DOMAIN w}

\* The window after key k has been committed.
Remember(w, k) ==
  IF k \in Remembered(w) THEN w
  ELSE Append(IF Len(w) = MaxSeen THEN Tail(w) ELSE w, k)

WindowInit == window = << >>
Commit(k) == window' = Remember(window, k)
\* A key that has just been committed is remembered.
WindowNext == \E k \in Remembered(window') : k \in Keys /\ Commit(k)
WindowSpec == WindowInit /\ [][WindowNext]_window
=============================================================================
