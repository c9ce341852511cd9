---------------------------- MODULE MCEventConsumer ----------------------------
(***************************************************************************)
(* Small instances of EventConsumer.                                       *)
(***************************************************************************)
EXTENDS EventConsumer

CONSTANTS p1, p2, e1, bad, odd   \* model values

MCPods == {p1, p2}
MCEvents == {e1, bad, odd}
MCKind == [e \in MCEvents |-> CASE e = bad -> "garbled"
                                [] e = odd -> "misfit"
                                [] OTHER -> "good"]

\* One event published twice, with a message of each other kind in between.
MCLog == <<e1, bad, e1, odd>>

OnlyCrashes == {"crash"}
=============================================================================
