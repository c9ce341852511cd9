----------------------------- MODULE MCBroadcast -----------------------------
(***************************************************************************)
(* One pod, one broadcast and more users than a page has.                  *)
(***************************************************************************)
EXTENDS Broadcast

CONSTANTS k1, p1

MCJobKeys == {k1}
MCPods == {p1}
=============================================================================
