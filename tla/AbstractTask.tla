------------------------------ MODULE AbstractTask ------------------------------
(***************************************************************************)
(* What the task service promises about one task: it behaves as one value  *)
(* that commands change one at a time.  Every change was decided on the    *)
(* very state it changes (no lost update), a task is created once, before  *)
(* anything else happens to it, and nothing happens to it once deleted.    *)
(***************************************************************************)
EXTENDS TaskEvents

CONSTANT Commands   \* the commands clients send, a set of Command

VARIABLE task

Exists == task.workspace # "" /\ ~ task.deleted

Init == task = Shell

Create == \E c \in Commands, r \in Requests :
    /\ c.op = "create"
    /\ task = Shell
    /\ task' = Apply(task, EventOf(c, r))

\* A command that leaves the value as it was is a stuttering step.
Change ==
    /\ task' # task
    /\ Exists
    /\ \E c \in Commands, r \in Requests :
        /\ c.op # "create"
        /\ ~ Refused(task, c, r)
        /\ ~ Ineffective(task, c)
        /\ task' = Apply(task, EventOf(c, r))

Next == Create \/ Change

Spec == Init /\ [][Next]_task
=============================================================================
