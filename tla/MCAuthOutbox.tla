------------------------------ MODULE MCAuthOutbox ------------------------------
(***************************************************************************)
(* Small instances of AuthOutbox.                                          *)
(***************************************************************************)
EXTENDS AuthOutbox

CONSTANTS e1, e2, r1, r2   \* model values

MCEvents == {e1, e2}
MCReplicas == {r1, r2}
=============================================================================
