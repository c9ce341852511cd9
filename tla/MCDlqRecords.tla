----------------------------- MODULE MCDlqRecords -----------------------------
(***************************************************************************)
(* Small instances of DlqRecords.                                          *)
(***************************************************************************)
EXTENDS DlqRecords

CONSTANTS d1, d2, w1, w2   \* model values

MCRecords == {d1, d2}
MCWorkers == {w1, w2}

\* One record that is retried automatically, one that is not.
MCCategory == [d \in MCRecords |-> IF d = d1 THEN "transient" ELSE "logic"]

MCMaxRetries == [c \in Automatic |-> IF c = "transient" THEN 2 ELSE 1]
=============================================================================
