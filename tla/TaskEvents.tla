------------------------------- MODULE TaskEvents -------------------------------
(***************************************************************************)
(* The event-sourced Task aggregate of the task service as a pure value:   *)
(* its domain events, the function that applies one, the replay of a       *)
(* stream, and what every domain method does -- refuse, do nothing, or     *)
(* raise exactly one event.                                                *)
(***************************************************************************)
EXTENDS Integers, Sequences

CONSTANTS
    Requests,   \* executions of a command handler; each one runs at most once
    Titles,     \* the details of a task (title, description, labels ... as one)
    Users,      \* users a task can be assigned to
    None        \* JavaScript's null

Statuses == {"TODO", "DOING", "DONE"}

\* The URL minted for an upload (it contains a fresh uuid) is named after the
\* request that minted it.
Files == Requests

TaskState == [status : Statuses, title : Titles \cup {None},
              workspace : {"ws", ""}, assignee : Users \cup {None},
              files : SUBSET Files, deleted : BOOLEAN]

\* `by' is the event's identity (eventId): a request raises at most one event.
Event == [type : {"created", "details"}, by : Requests, value : Titles]
         \cup [type : {"status"}, by : Requests, value : Statuses]
         \cup [type : {"assignee"}, by : Requests, value : Users \cup {None}]
         \cup [type : {"fileAdded", "fileRemoved"}, by : Requests, value : Files]
         \cup [type : {"deleted"}, by : Requests, value : {None}]

\* Task.emptyShell: where the replay of a stream starts.
Shell == [status |-> "TODO", title |-> None, workspace |-> "",
          assignee |-> None, files |-> {}, deleted |-> FALSE]

(***************************************************************************)
(* applyUncommittedEvent.  Only `created' carries the workspace, and it    *)
(* does not touch the attachments.                                         *)
(***************************************************************************)
Apply(t, e) ==
    [title     |-> IF e.type \in {"created", "details"} THEN e.value ELSE t.title,
     status    |-> IF e.type = "created" THEN "TODO"
                   ELSE IF e.type = "status" THEN e.value ELSE t.status,
     workspace |-> IF e.type = "created" THEN "ws" ELSE t.workspace,
     assignee  |-> IF e.type = "created" THEN None
                   ELSE IF e.type = "assignee" THEN e.value ELSE t.assignee,
     files     |-> IF e.type = "fileAdded" THEN t.files \cup {e.value}
                   ELSE IF e.type = "fileRemoved" THEN t.files \ {e.value}
                   ELSE t.files,
     deleted   |-> e.type = "deleted" \/ (t.deleted /\ e.type # "created")]

\* The states a stream goes through: States(s)[n] is the task after n events.
States(s) == LET upTo[n \in 0..Len(s)] ==
                     IF n = 0 THEN Shell ELSE Apply(upTo[n - 1], s[n])
             IN  upTo

\* fromHistory: every stored event applied in version order to an empty shell.
Replay(s) == States(s)[Len(s)]

(***************************************************************************)
(* Commands.  `arg' is the new status, title, assignee or the attachment   *)
(* to remove; an upload names the attachment itself.                       *)
(***************************************************************************)
Command == [op : {"move"}, arg : Statuses]
           \cup [op : {"create", "edit"}, arg : Titles]
           \cup [op : {"assign"}, arg : Users]
           \cup [op : {"detach"}, arg : Files]
           \cup [op : {"unassign", "attach", "delete"}, arg : {None}]

\* TaskStatus.canTransitionTo: the one move that is not allowed.
CanTransition(from, to) == ~ (from = "DONE" /\ to = "TODO")

\* The domain method throws BusinessRuleException.
Refused(t, c, r) ==
    \/ c.op = "move" /\ ~ CanTransition(t.status, c.arg)
    \/ c.op = "attach" /\ r \in t.files
    \/ c.op = "detach" /\ c.arg \notin t.files

\* The domain method returns without raising an event.
Ineffective(t, c) ==
    \/ c.op = "move" /\ t.status = c.arg
    \/ c.op = "edit" /\ t.title = c.arg
    \/ c.op = "unassign" /\ t.assignee = None
    \/ c.op = "delete" /\ t.deleted

EventType == [create |-> "created", edit |-> "details", move |-> "status",
              assign |-> "assignee", unassign |-> "assignee",
              attach |-> "fileAdded", detach |-> "fileRemoved",
              delete |-> "deleted"]

\* raise: the event request r raises for command c.
EventOf(c, r) ==
    [type |-> EventType[c.op], by |-> r,
     value |-> IF c.op = "attach" THEN r ELSE c.arg]
=============================================================================
