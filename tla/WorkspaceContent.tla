--------------------------- MODULE WorkspaceContent ---------------------------
(***************************************************************************)
(* What the task service keeps of one workspace: the documents of its      *)
(* tasks in four MongoDB collections, the cached membership of one user,   *)
(* the requests of that user, and the two messages of the workspace        *)
(* service that end this: member_left clears the cached membership,        *)
(* workspace_deleted sweeps the documents away.                            *)
(*                                                                         *)
(* A collection is the set of tasks it has documents of. The events of one *)
(* task are the subject of TaskAggregate.                                  *)
(***************************************************************************)
EXTENDS Naturals

CONSTANTS
  TaskIds,
  Writers,           \* requests of the user that may overlap
  MaxWrites,         \* bound on the requests that start
  MaxMoves,          \* bound on the times the user leaves or joins
  MaxSweepFaults     \* bound on failing calls of the sweep and crashes

ASSUME WorkspaceContentAssumption ==
  MaxWrites \in Nat /\ MaxMoves \in Nat /\ MaxSweepFaults \in Nat

Collections == {"tasks", "events", "activities", "comments"}

VARIABLES
  standing,      \* of the user in the workspace service: "member", "left", or
                 \* "gone" when the workspace is deleted
  departures,    \* member_left messages not yet consumed
  membership,    \* the cached answer: "none", "member" or "other"
  docs,          \* the collections
  ended,         \* tasks whose stream ends with TaskDeleted
  writer,        \* [pc, kind, task, found] of each request
  sweep,         \* [pc, ids, left]: the handling of workspace_deleted
  counted,       \* [writes, moves, faults] so far
  blame          \* history: [late, cut, overtaken]: tasks written while or after
                 \* they were swept; tasks whose sweep stopped after their row was
                 \* deleted; the cached membership was stored, or kept, past a change

contentVars == <<standing, departures, membership, docs, ended, writer, sweep, counted, blame>>

NoWrite == [pc |-> "none", kind |-> "create", task |-> {}, found |-> FALSE]

WorkspaceContentInit ==
  /\ standing = "member"
  /\ departures = 0
  /\ membership = "none"
  /\ docs = [c \in Collections |-> {}]
  /\ ended = {}
  /\ writer = [w \in Writers |-> NoWrite]
  /\ sweep = [pc |-> "none", ids |-> {}, left |-> {}]
  /\ counted = [writes |-> 0, moves |-> 0, faults |-> 0]
  /\ blame = [late |-> {}, cut |-> {}, overtaken |-> FALSE]

-----------------------------------------------------------------------------
(* The workspace service (see WorkspaceMembers).                           *)

UserLeaves ==
  /\ standing = "member" /\ counted.moves < MaxMoves
  /\ standing' = "left"
  /\ departures' = departures + 1
  /\ counted' = [counted EXCEPT !.moves = @ + 1]
  /\ UNCHANGED <<membership, docs, ended, writer, sweep, blame>>

UserJoins ==
  /\ standing = "left" /\ counted.moves < MaxMoves
  /\ standing' = "member"
  /\ counted' = [counted EXCEPT !.moves = @ + 1]
  /\ UNCHANGED <<departures, membership, docs, ended, writer, sweep, blame>>

\* The members of a deleted workspace are not announced one by one.
WorkspaceIsDeleted ==
  /\ standing # "gone"
  /\ standing' = "gone"
  /\ sweep' = [sweep EXCEPT !.pc = "due"]
  /\ UNCHANGED <<departures, membership, docs, ended, writer, counted, blame>>

-----------------------------------------------------------------------------
(* Requests.                                                               *)

WriterTo(w, pc) == writer' = [writer EXCEPT ![w].pc = pc]
EndWrite(w) == writer' = [writer EXCEPT ![w] = NoWrite]

\* Of a task that has no row the guard finds no workspace to ask about; the
\* handler decides alone.
StartWrite(w, kind, t) ==
  /\ writer[w].pc = "none" /\ counted.writes < MaxWrites
  /\ kind = "create" =>
       /\ \A c \in Collections : t \notin docs[c]
       /\ t \notin blame.late \cup blame.cut
       /\ \A v \in Writers : t \notin writer[v].task
  /\ writer' = [writer EXCEPT ![w] =
       [pc |-> IF kind = "create" \/ t \in docs["tasks"] THEN "admit" ELSE "load",
        kind |-> kind, task |-> {t}, found |-> FALSE]]
  /\ counted' = [counted EXCEPT !.writes = @ + 1]
  /\ UNCHANGED <<standing, departures, membership, docs, ended, sweep, blame>>

\* getMembershipAsync answers from the cache, or asks the workspace service.
ReadMembership(w) ==
  /\ writer[w].pc = "admit"
  /\ CASE membership = "member" -> WriterTo(w, "load")
       [] membership = "other" -> EndWrite(w)
       [] membership = "none" ->
            writer' = [writer EXCEPT ![w].pc = "cache", ![w].found = (standing = "member")]
  /\ UNCHANGED <<standing, departures, membership, docs, ended, sweep, counted, blame>>

\* The answer is stored, negative ones too, whatever happened meanwhile.
StoreMembership(w) ==
  /\ writer[w].pc = "cache"
  /\ membership' = IF writer[w].found THEN "member" ELSE "other"
  /\ blame' = [blame EXCEPT !.overtaken = writer[w].found /\ standing # "member"]
  /\ IF writer[w].found THEN WriterTo(w, "load") ELSE EndWrite(w)
  /\ UNCHANGED <<standing, departures, docs, ended, sweep, counted>>

MembershipExpires ==
  /\ membership # "none"
  /\ membership' = "none"
  /\ blame' = [blame EXCEPT !.overtaken = FALSE]
  /\ UNCHANGED <<standing, departures, docs, ended, writer, sweep, counted>>

\* A comment needs the row of its task. Other commands load the stream, and
\* take the row where there is no stream; `found` is whether there was one.
LoadTask(w) ==
  LET t == writer[w].task
      comment == writer[w].kind = "comment"
      stream == t \subseteq docs["events"]
  IN
  /\ writer[w].pc = "load"
  /\ \/ /\ writer[w].kind = "create"
           \/ /\ comment /\ t \subseteq docs["tasks"]
           \/ /\ ~comment /\ stream /\ t \cap ended = {}
           \/ /\ ~comment /\ ~stream /\ t \subseteq docs["tasks"]
        /\ writer' = [writer EXCEPT ![w].pc = "save", ![w].found = stream]
     \/ /\ writer[w].kind # "create"
        /\ IF comment THEN ~(t \subseteq docs["tasks"])
           ELSE IF stream THEN t \subseteq ended ELSE ~(t \subseteq docs["tasks"])
        /\ EndWrite(w)
  /\ UNCHANGED <<standing, departures, membership, docs, ended, sweep, counted, blame>>

SweepBegun == sweep.pc \in {"delete", "mark", "done"} \/ counted.faults > 0

\* Documents of a task are stored; once the sweep has begun that is late.
Store(t, S) ==
  /\ docs' = [c \in Collections |-> IF c \in S THEN docs[c] \cup t ELSE docs[c]]
  /\ blame' = [blame EXCEPT !.late = IF SweepBegun THEN @ \cup t ELSE @]

\* One transaction stores a comment with its activity ...
StoreComment(w) ==
  /\ writer[w].pc = "save" /\ writer[w].kind = "comment"
  /\ Store(writer[w].task, {"comments", "activities"})
  /\ EndWrite(w)
  /\ UNCHANGED <<standing, departures, membership, ended, sweep, counted>>

\* ... and for commands that announce a change (creating, assigning, moving) the
\* event, its activity and the row. A stream that appeared or vanished since it
\* was loaded is a version conflict.
StoreInTransaction(w) ==
  /\ writer[w].pc = "save" /\ writer[w].kind \in {"create", "assign"}
  /\ (writer[w].task \subseteq docs["events"]) = writer[w].found
  /\ Store(writer[w].task, {"tasks", "events", "activities"})
  /\ EndWrite(w)
  /\ UNCHANGED <<standing, departures, membership, ended, sweep, counted>>

\* Deleting a task stores its last event and removes the row, nothing else.
DeleteTask(w) ==
  LET t == writer[w].task IN
  /\ writer[w].pc = "save" /\ writer[w].kind = "delete"
  /\ (t \subseteq docs["events"]) = writer[w].found
  /\ docs' = [docs EXCEPT !["tasks"] = @ \ t, !["events"] = @ \cup t,
                          !["activities"] = @ \cup t]
  /\ ended' = ended \cup t
  /\ blame' = [blame EXCEPT
       !.late = IF SweepBegun THEN @ \cup t ELSE @]
  /\ EndWrite(w)
  /\ UNCHANGED <<standing, departures, membership, sweep, counted>>

\* Commands without a transaction (details, attachments) write three times.
AppendPlain(w) ==
  /\ writer[w].pc = "save" /\ writer[w].kind = "details"
  /\ (writer[w].task \subseteq docs["events"]) = writer[w].found
  /\ Store(writer[w].task, {"events"})
  /\ WriterTo(w, "log")
  /\ UNCHANGED <<standing, departures, membership, ended, sweep, counted>>

LogPlain(w) ==
  /\ writer[w].pc = "log"
  /\ Store(writer[w].task, {"activities"})
  /\ WriterTo(w, "project")
  /\ UNCHANGED <<standing, departures, membership, ended, sweep, counted>>

ProjectPlain(w) ==
  /\ writer[w].pc = "project"
  /\ Store(writer[w].task, {"tasks"})
  /\ EndWrite(w)
  /\ UNCHANGED <<standing, departures, membership, ended, sweep, counted>>

WriteStops(w) ==
  /\ writer[w].pc # "none"
  /\ EndWrite(w)
  /\ UNCHANGED <<standing, departures, membership, docs, ended, sweep, counted, blame>>

-----------------------------------------------------------------------------
(* Messages. Claims and redelivery are the subject of EventConsumer.       *)

\* An error of Redis is logged and swallowed: the message counts as handled.
HandleMemberLeft(done) ==
  /\ departures > 0
  /\ departures' = departures - 1
  /\ membership' = IF done THEN "none" ELSE membership
  /\ blame' = [blame EXCEPT !.overtaken = IF done THEN FALSE ELSE @ \/ membership # "none"]
  /\ UNCHANGED <<standing, docs, ended, writer, sweep, counted>>

\* The tasks of the workspace are those that have a row; without one the
\* message is done with.
ListTaskIds ==
  /\ sweep.pc = "due"
  /\ sweep' = IF docs["tasks"] = {} THEN [sweep EXCEPT !.pc = "mark"]
              ELSE [pc |-> "delete", ids |-> docs["tasks"], left |-> Collections]
  /\ blame' = [blame EXCEPT !.late = @ \ docs["tasks"], !.cut = @ \ docs["tasks"]]
  /\ UNCHANGED <<standing, departures, membership, docs, ended, writer, counted>>

Without(S) == [c \in Collections |-> IF c \in S THEN docs[c] \ sweep.ids ELSE docs[c]]

\* Variant with a bug: the workspace is marked once the tasks are gone.
DeleteManyTasksLast(c) ==
  /\ sweep.pc = "delete" /\ c \in sweep.left
  /\ docs' = Without({c})
  /\ ended' = IF c = "events" THEN ended \ sweep.ids ELSE ended
  /\ sweep' = [sweep EXCEPT !.left = @ \ {c}, !.pc = IF c = "tasks" THEN "mark" ELSE @]
  /\ UNCHANGED <<standing, departures, membership, writer, counted, blame>>

\* Four deleteMany calls run at once; each takes effect on its own.
DeleteMany(c) ==
  /\ sweep.pc = "delete" /\ c \in sweep.left
  /\ docs' = Without({c})
  /\ ended' = IF c = "events" THEN ended \ sweep.ids ELSE ended
  /\ sweep' = [sweep EXCEPT !.left = @ \ {c},
                            !.pc = IF sweep.left = {c} THEN "mark" ELSE @]
  /\ UNCHANGED <<standing, departures, membership, writer, counted, blame>>

MarkSwept ==
  /\ sweep.pc = "mark"
  /\ sweep' = [sweep EXCEPT !.pc = "done"]
  /\ UNCHANGED <<standing, departures, membership, docs, ended, writer, counted, blame>>

\* One call fails, or the pod stops. The others may have had their effect by
\* the time the message is handled again, which starts from the rows.
SweepFails(S) ==
  /\ sweep.pc \in {"delete", "mark"} /\ counted.faults < MaxSweepFaults
  /\ S \subseteq sweep.left
  /\ docs' = Without(S)
  /\ ended' = IF "events" \in S THEN ended \ sweep.ids ELSE ended
  /\ sweep' = [pc |-> "due", ids |-> {}, left |-> {}]
  /\ counted' = [counted EXCEPT !.faults = @ + 1]
  /\ blame' = [blame EXCEPT
       !.cut = IF "tasks" \notin sweep.left \ S /\ sweep.left \ S # {}
               THEN @ \cup sweep.ids ELSE @]
  /\ UNCHANGED <<standing, departures, membership, writer>>

WorkspaceContentNext ==
  \/ UserLeaves \/ UserJoins \/ WorkspaceIsDeleted
  \/ \E w \in Writers :
       \/ \E kind \in {"create", "assign", "details", "comment", "delete"}, t \in TaskIds :
            StartWrite(w, kind, t)
       \/ ReadMembership(w) \/ StoreMembership(w) \/ LoadTask(w)
       \/ StoreComment(w) \/ StoreInTransaction(w) \/ DeleteTask(w)
       \/ AppendPlain(w) \/ LogPlain(w) \/ ProjectPlain(w) \/ WriteStops(w)
  \/ MembershipExpires
  \/ \E done \in BOOLEAN : HandleMemberLeft(done)
  \/ ListTaskIds \/ MarkSwept
  \/ \E c \in Collections : DeleteMany(c)
  \/ \E S \in SUBSET Collections : SweepFails(S)

WorkspaceContentSpec == WorkspaceContentInit /\ [][WorkspaceContentNext]_contentVars

-----------------------------------------------------------------------------
WorkspaceContentTypeOK ==
  /\ standing \in {"member", "left", "gone"}
  /\ departures \in Nat
  /\ membership \in {"none", "member", "other"}
  /\ docs \in [Collections -> SUBSET TaskIds]
  /\ ended \in SUBSET TaskIds
  /\ writer \in [Writers -> [
       pc : {"none", "admit", "cache", "load", "save", "log", "project"},
       kind : {"create", "assign", "details", "comment", "delete"},
       task : SUBSET TaskIds, found : BOOLEAN]]
  /\ sweep \in [pc : {"none", "due", "delete", "mark", "done"},
                ids : SUBSET TaskIds, left : SUBSET Collections]
  /\ counted \in [writes : Nat, moves : Nat, faults : Nat]
  /\ blame \in [late : SUBSET TaskIds, cut : SUBSET TaskIds, overtaken : BOOLEAN]

\* After the sweep of a deleted workspace the documents that remain have one of
\* three explanations: the task had been deleted before (only tasks with a row are
\* listed), a request wrote it while or after it was swept, or an attempt that had
\* deleted its row stopped before the rest (the next attempt does not list it).
LeftoversExplained ==
  sweep.pc = "done" =>
    \A c \in Collections : docs[c] \subseteq ended \cup blame.late \cup blame.cut

\* A user who left counts as a member only until member_left is consumed, unless
\* the answer was fetched before and stored after the departure or the cached one
\* could not be deleted.
DepartureClearsMembership ==
  standing = "left" /\ departures = 0 /\ membership = "member" => blame.overtaken

\* What is left of a workspace, and of a membership, is explained.
ContentExplained == LeftoversExplained /\ DepartureClearsMembership
=============================================================================
