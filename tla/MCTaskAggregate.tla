---------------------------- MODULE MCTaskAggregate ----------------------------
(***************************************************************************)
(* Small instances of TaskAggregate.                                       *)
(***************************************************************************)
EXTENDS TaskAggregate, TLC

CONSTANTS r1, r2, r3, r4, t1, t2, u1   \* model values

MCRequests == {r1, r2, r3, r4}
MCTitles == {t1, t2}
MCUsers == {u1}

Cmd(o, a) == [op |-> o, arg |-> a]

\* A file a request may ask to remove is one another request uploaded.
Detaches == {Cmd("detach", f) : f \in MCRequests}

\* Every kind of command, with the one forbidden move (DONE to TODO).
MCCommands == {Cmd("create", t1), Cmd("move", "DONE"), Cmd("move", "TODO"),
               Cmd("edit", t2), Cmd("assign", u1), Cmd("unassign", None),
               Cmd("attach", None), Cmd("delete", None)}
              \cup Detaches

RequestSymmetry == Permutations(MCRequests)
=============================================================================
