----------------------------- MODULE TaskAggregate -----------------------------
(***************************************************************************)
(* One task of the task service under concurrent command handlers.         *)
(*                                                                         *)
(* The state of a task is spread over five stores: the event stream        *)
(* (task_events, unique on streamId + version), the read projection        *)
(* (tasks), the activity feed (task_activity), the outbox                  *)
(* (task_outbox_events) and the blob container with the attachments.       *)
(* create, move, (un)assign and delete save inside a MongoDB transaction   *)
(* together with their outbox row; edit, attach and detach save without    *)
(* one, store by store.  A request that stops stepping is a crashed pod    *)
(* or a handler that threw at that point.                                  *)
(***************************************************************************)
EXTENDS TaskEvents

CONSTANTS
    Commands,      \* the commands clients send
    MaxAborts,     \* bound: transient transaction errors other than conflicts
    StartLegacy    \* TRUE: the task predates event sourcing (projection only)

ASSUME ParametersAssumption ==
    /\ Commands \subseteq Command
    /\ MaxAborts \in Nat
    /\ StartLegacy \in BOOLEAN
    /\ Titles # {}
    /\ None \notin Requests \cup Titles \cup Users \cup Statuses

VARIABLES
    stream,      \* the stored events; the index is the version
    doc,         \* the projection document, or None
    docRev,      \* how often doc was written: MongoDB's view of write conflicts
    activity,    \* versions present in the activity feed
    outbox,      \* outbox rows
    blobs,       \* attachments present in the blob container
    aborts,      \* transient transaction errors so far
    req          \* the handler executions

stores == <<stream, doc, docRev, activity, outbox>>
vars == <<stores, blobs, aborts, req>>

\* A row carries the request that enqueued it and whether that request's
\* command raised an event (a move to the current status announces itself too).
OutboxRow == [by : Requests, raised : BOOLEAN]

Pc == {"idle", "fallback", "loaded", "tx", "open",
       "check", "insert", "log", "project", "done", "failed"}

\* uncommittedEvents of an aggregate: a handler raises at most one event.
Uncommitted == {<<>>} \cup {<<e>> : e \in Event}

Request == [pc : Pc, cmd : Commands \cup {None}, task : TaskState,
            version : Nat, pending : Uncommitted, raised : BOOLEAN, rev : Nat]

Transactional(c) == c.op \in {"create", "move", "assign", "unassign", "delete"}

\* Variant with a bug: the delete handler forgets its outbox row.
AnnouncesAllButDelete(c) == c.op \in {"create", "move", "assign"}

\* The handlers that enqueue an outbox row: a row for an assignment is written
\* only when there is an assignee.
Announces(c) == c.op \in {"create", "move", "assign", "delete"}

LegacyTask == [Shell EXCEPT !.title = CHOOSE x \in Titles : TRUE,
                            !.workspace = "ws"]

IdleRequest == [pc |-> "idle", cmd |-> None, task |-> Shell, version |-> 0,
                pending |-> <<>>, raised |-> FALSE, rev |-> 0]

Init ==
    /\ stream = <<>>
    /\ doc = IF StartLegacy THEN LegacyTask ELSE None
    /\ docRev = 0
    /\ activity = {}
    /\ outbox = {}
    /\ blobs = {}
    /\ aborts = 0
    /\ req = [r \in Requests |-> IdleRequest]

Goto(r, label) == req' = [req EXCEPT ![r].pc = label]

(***************************************************************************)
(* Loading and deciding.                                                   *)
(***************************************************************************)

\* Task.create: a fresh id, so no other request can name the task yet.
CreateTask(r, c) ==
    /\ c.op = "create"
    /\ req[r].pc = "idle"
    /\ ~ StartLegacy
    /\ ~ \E q \in Requests : req[q].cmd # None /\ req[q].cmd.op = "create"
    /\ LET e == EventOf(c, r) IN
       req' = [req EXCEPT ![r] = [@ EXCEPT !.pc = "tx", !.cmd = c, !.raised = TRUE,
                                           !.task = Apply(Shell, e),
                                           !.pending = <<e>>]]
    /\ UNCHANGED <<stores, blobs, aborts>>

\* Variant with a bug: loading does not look at the last event.
NeverEndsDeleted(s) == FALSE

\* A stream that ends in TaskDeleted loads as null.
EndsDeleted(s) == s # <<>> /\ s[Len(s)].type = "deleted"

\* loadAggregateByIdAsync, first query: the event stream.
LoadStream(r, c) ==
    /\ c.op # "create"
    /\ req[r].pc = "idle"
    /\ req' = [req EXCEPT ![r] =
         CASE stream = <<>> -> [@ EXCEPT !.pc = "fallback", !.cmd = c]
           [] EndsDeleted(stream) -> [@ EXCEPT !.pc = "failed", !.cmd = c]
           [] OTHER -> [@ EXCEPT !.pc = "loaded", !.cmd = c,
                                 !.task = Replay(stream),
                                 !.version = Len(stream)]]
    /\ UNCHANGED <<stores, blobs, aborts>>

\* loadAggregateByIdAsync, second query: no events, so the projection, as
\* version 0.
LoadProjection(r) ==
    /\ req[r].pc = "fallback"
    /\ req' = [req EXCEPT ![r] =
         IF doc = None THEN [@ EXCEPT !.pc = "failed"]
                       ELSE [@ EXCEPT !.pc = "loaded", !.task = doc]]
    /\ UNCHANGED <<stores, blobs, aborts>>

\* Variant with a bug: the upload is not persisted (the service's mock mode).
BlobNotUploaded(r, c) == IF c.op = "detach" THEN blobs \ {c.arg} ELSE blobs

\* The file a command moves in or out of the blob container.
BlobAfter(r, c) ==
    CASE c.op = "attach" -> blobs \cup {r}
      [] c.op = "detach" -> blobs \ {c.arg}
      [] OTHER -> blobs

\* The call the handler makes before it touches the aggregate (user replica,
\* membership, blob container) fails or says no; a blob call may have taken
\* effect all the same.
RemoteCallFails(r) ==
    /\ req[r].pc = "loaded"
    /\ req[r].cmd.op \notin {"move", "edit"}
    /\ blobs' \in {blobs, BlobAfter(r, req[r].cmd)}
    /\ Goto(r, "failed")
    /\ UNCHANGED <<stores, aborts>>

SavePath(c) == IF Transactional(c) THEN "tx" ELSE "check"

\* The remote call succeeds (a blob that is gone cannot be deleted again), then
\* the domain method decides on the loaded task.
Decide(r) ==
    /\ req[r].pc = "loaded"
    /\ req[r].cmd.op = "detach" => req[r].cmd.arg \in blobs
    /\ LET c == req[r].cmd
           t == req[r].task
           e == EventOf(c, r)
       IN /\ blobs' = BlobAfter(r, c)
          /\ req' = [req EXCEPT ![r] =
               CASE Refused(t, c, r) -> [@ EXCEPT !.pc = "failed"]
                 [] ~ Refused(t, c, r) /\ Ineffective(t, c) ->
                        [@ EXCEPT !.pc = IF Transactional(c) THEN "tx" ELSE "done"]
                 [] OTHER -> [@ EXCEPT !.pc = SavePath(c), !.raised = TRUE,
                                       !.task = Apply(t, e), !.pending = <<e>>]]
    /\ UNCHANGED <<stores, aborts>>

(***************************************************************************)
(* Saving.                                                                 *)
(***************************************************************************)

\* Variant with a bug: an append that only refuses versions ahead of the stream.
NoOptimisticCheck(r) == Len(stream) >= req[r].version

\* append's optimistic check, and what the unique index enforces.
AtExpectedVersion(r) == Len(stream) = req[r].version

\* syncProjectionFromAggregate: the whole in-memory task, or a delete.
Projection(t) == IF t.deleted THEN None ELSE t

\* Variants with a bug: setVersion counts one event too many, or is forgotten.
FlushedTwice(q) == IF q.pending = <<>> THEN q
                   ELSE [q EXCEPT !.pending = <<>>, !.version = q.version + 2]
FlushedSameVersion(q) == [q EXCEPT !.pending = <<>>]

\* clearUncommittedEvents and setVersion, if saveAsync had anything to append.
Flushed(q) == IF q.pending = <<>> THEN q
              ELSE [q EXCEPT !.pending = <<>>, !.version = q.version + 1]

\* The callback of withTransaction starts: the first read fixes the snapshot.
\* With nothing uncommitted saveAsync returns before it checks anything.
TxOpen(r) ==
    /\ req[r].pc = "tx"
    /\ req' = [req EXCEPT ![r] =
         IF @.pending # <<>> /\ ~ AtExpectedVersion(r)
         THEN [@ EXCEPT !.pc = "failed"]
         ELSE [@ EXCEPT !.pc = "open", !.rev = docRev]]
    /\ UNCHANGED <<stores, blobs, aborts>>

\* Variant with a bug: a deletion does not reach the projection.
SavedButKept(r) ==
    IF req[r].pending = <<>>
    THEN UNCHANGED <<stream, doc, docRev, activity>>
    ELSE /\ stream' = Append(stream, req[r].pending[1])
         /\ activity' = activity \cup {req[r].version + 1}
         /\ doc' = IF req[r].task.deleted THEN doc ELSE req[r].task
         /\ docRev' = docRev + 1

\* saveAsync inside the transaction: nothing, or event, activity, projection.
Saved(r) ==
    IF req[r].pending = <<>>
    THEN UNCHANGED <<stream, doc, docRev, activity>>
    ELSE /\ stream' = Append(stream, req[r].pending[1])
         /\ activity' = activity \cup {req[r].version + 1}
         /\ doc' = Projection(req[r].task)
         /\ docRev' = docRev + 1

\* The enqueue that follows saveAsync in the handler's callback.
Enqueued(r) ==
    outbox' = outbox \cup
        (IF Announces(req[r].cmd) THEN {[by |-> r, raised |-> req[r].raised]}
                                  ELSE {})

\* The transaction commits: no other writer moved what it wrote.
TxCommit(r) ==
    /\ req[r].pc = "open"
    /\ req[r].pending = <<>> \/ (AtExpectedVersion(r) /\ docRev = req[r].rev)
    /\ Saved(r)
    /\ Enqueued(r)
    /\ req' = [req EXCEPT ![r] = [Flushed(@) EXCEPT !.pc = "done"]]
    /\ UNCHANGED <<blobs, aborts>>

\* The insert of the event conflicts; withTransaction runs the callback again
\* with the same aggregate, its event still uncommitted.
TxInsertConflict(r) ==
    /\ req[r].pc = "open"
    /\ req[r].pending # <<>> /\ ~ AtExpectedVersion(r)
    /\ Goto(r, "tx")
    /\ UNCHANGED <<stores, blobs, aborts>>

\* The write of the projection conflicts: append has already cleared the
\* uncommitted event in memory when the callback runs again.
TxProjectionConflict(r) ==
    /\ req[r].pc = "open"
    /\ req[r].pending # <<>> /\ AtExpectedVersion(r) /\ docRev # req[r].rev
    /\ req' = [req EXCEPT ![r] = [Flushed(@) EXCEPT !.pc = "tx"]]
    /\ UNCHANGED <<stores, blobs, aborts>>

\* Any other transient error (fail-over, network), before or after append.
TxAborted(r) ==
    /\ req[r].pc = "open"
    /\ aborts < MaxAborts
    /\ aborts' = aborts + 1
    /\ \/ Goto(r, "tx")
       \/ req' = [req EXCEPT ![r] = [Flushed(@) EXCEPT !.pc = "tx"]]
    /\ UNCHANGED <<stores, blobs>>

\* append without a session: first the version check ...
CheckVersion(r) ==
    /\ req[r].pc = "check"
    /\ Goto(r, IF AtExpectedVersion(r) THEN "insert" ELSE "failed")
    /\ UNCHANGED <<stores, blobs, aborts>>

\* ... then the insert, which the unique index may refuse.
InsertEvent(r) ==
    /\ req[r].pc = "insert"
    /\ IF AtExpectedVersion(r)
       THEN /\ stream' = Append(stream, req[r].pending[1])
            /\ req' = [req EXCEPT ![r] = [Flushed(@) EXCEPT !.pc = "log"]]
       ELSE Goto(r, "failed") /\ UNCHANGED stream
    /\ UNCHANGED <<doc, docRev, activity, outbox, blobs, aborts>>

\* appendFromEventsAsync
LogActivity(r) ==
    /\ req[r].pc = "log"
    /\ activity' = activity \cup {req[r].version}
    /\ Goto(r, "project")
    /\ UNCHANGED <<stream, doc, docRev, outbox, blobs, aborts>>

\* syncProjectionFromAggregate without a session: an unconditional upsert.
SyncProjection(r) ==
    /\ req[r].pc = "project"
    /\ doc' = Projection(req[r].task)
    /\ docRev' = docRev + 1
    /\ Goto(r, "done")
    /\ UNCHANGED <<stream, activity, outbox, blobs, aborts>>

Transaction(r) == TxOpen(r) \/ TxCommit(r) \/ TxInsertConflict(r)
                  \/ TxProjectionConflict(r) \/ TxAborted(r)

PlainSave(r) == CheckVersion(r) \/ InsertEvent(r) \/ LogActivity(r)
                \/ SyncProjection(r)

Next == \E r \in Requests :
    \/ \E c \in Commands : CreateTask(r, c) \/ LoadStream(r, c)
    \/ LoadProjection(r)
    \/ RemoteCallFails(r)
    \/ Decide(r)
    \/ Transaction(r)
    \/ PlainSave(r)

Spec == Init /\ [][Next]_vars

-----------------------------------------------------------------------------
(***************************************************************************)
(* Properties.                                                             *)
(***************************************************************************)

\* Types, and how far ahead of the stream a request's version can be.
TypeOK ==
    /\ stream \in Seq(Event)
    /\ doc \in TaskState \cup {None}
    /\ docRev \in Nat
    /\ activity \subseteq Nat
    /\ outbox \subseteq OutboxRow
    /\ blobs \subseteq Files
    /\ aborts \in 0..MaxAborts
    /\ req \in [Requests -> Request]
    /\ \A r \in Requests : req[r].version <= Len(stream) + 1

\* However handlers interleave, conflict and retry, the stream is the history
\* of one task: it starts with TaskCreated and nowhere else, nothing follows
\* TaskDeleted, and no request's event is stored twice (append + index).
StreamWellFormed ==
    \A i \in 1..Len(stream) :
        /\ ~ StartLegacy => (stream[i].type = "created" <=> i = 1)
        /\ stream[i].type = "deleted" => i = Len(stream)
        /\ \A j \in 1..Len(stream) : stream[i].by = stream[j].by => i = j

\* What the projection should hold for a stream.
View(s) == IF s = <<>> THEN None ELSE Projection(Replay(s))

\* The read side never shows a state the task did not go through: the
\* projection may be old or gone, but it is the replay of some prefix of the stream
\* (saveAsync projects the in-memory aggregate without reloading the stream).
ProjectionIsSomePrefix ==
    ~ StartLegacy =>
        \/ doc = None
        \/ \E n \in 1..Len(stream) : doc = States(stream)[n]

\* As long as only the transactional handlers have stored events, the
\* projection is exactly the replay of the whole stream.
TransactionalProjectionExact ==
    (~ StartLegacy /\ \A i \in 1..Len(stream) : Transactional(req[stream[i].by].cmd))
        => doc = View(stream)

\* What the read side may rely on, for either kind of handler.
ProjectionFollowsStream == ProjectionIsSomePrefix /\ TransactionalProjectionExact

\* The change an event makes must reach the other services.
MustBeAnnounced(e) ==
    e.type \in {"created", "status", "deleted"} \/ (e.type = "assignee" /\ e.value # None)

\* No stored change is left unannounced: whatever conflicts and retries a
\* handler went through, its event and its outbox row are stored together.
OutboxComplete ==
    \A i \in 1..Len(stream) :
        MustBeAnnounced(stream[i]) => \E row \in outbox : row.by = stream[i].by

\* The activity feed has exactly the stored events, except those of handlers
\* that stopped between the append and the feed.
ActivityFollowsStream ==
    activity = {i \in 1..Len(stream) : req[stream[i].by].pc # "log"}

\* What the other services and the feed's readers are told is what happened.
RecordsFollowStream == OutboxComplete /\ ActivityFollowsStream

\* An attachment the task still lists whose blob is gone is the trace of a
\* detach that deleted the blob and then failed or stopped before its save.
DanglingFileExplained ==
    \A f \in Replay(stream).files \ blobs :
        \E r \in Requests : req[r].cmd = [op |-> "detach", arg |-> f]
                           /\ req[r].pc # "done"

\* The task, as replaying its stream shows it, behaves as one atomic value.
Abstract == INSTANCE AbstractTask WITH task <- Replay(stream)
ImplementsAbstractTask == Abstract!Spec

-----------------------------------------------------------------------------
(***************************************************************************)
(* What the documentation says and the code does not do.                   *)
(***************************************************************************)

Quiescent == \A r \in Requests : req[r].pc \in {"idle", "done", "failed"}

\* "The current state is recomputed from the chain of events": with no
\* handler running, the stored projection is the replay of the stream.
QuiescentProjectionIsReplay ==
    (Quiescent /\ stream # <<>>) => doc = View(stream)

\* "Business data and outbox row in the same transaction": a row that
\* announces a change comes with the stored event of that change.
OutboxBackedByStream ==
    \A row \in outbox : row.raised =>
        \E i \in 1..Len(stream) : stream[i].by = row.by
=============================================================================
