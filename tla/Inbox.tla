-------------------------------- MODULE Inbox --------------------------------
(***************************************************************************)
(* The notifications of one recipient: their status in MongoDB, the count  *)
(* of unread ones that Redis keeps for some seconds, and the handlers that *)
(* create, list, mark and archive them.                                    *)
(*                                                                         *)
(* A handler reads, writes and invalidates in separate calls.  Writing one *)
(* notification writes the whole document as it was read.                  *)
(***************************************************************************)
EXTENDS Naturals, FiniteSets

CONSTANTS
  Notifications,
  InboxRequests,     \* handler executions that may overlap
  NotCached,         \* what Redis answers for a key it does not have
  MaxInboxCalls      \* bound on the handler executions

ASSUME InboxAssumption == NotCached \notin Nat /\ IsFiniteSet(Notifications)

VARIABLES
  status,        \* of each notification; "none" before it is created
  unreadCount,   \* the cached count
  handling,      \* what each handler execution has read and does next
  inboxCalls,    \* handler executions so far
  overtaken      \* history: the cached count was stored, or was left in place,
                 \* across a change of the notifications

inboxVars == <<status, unreadCount, handling, inboxCalls, overtaken>>

NoHandling == [pc |-> "none", ids |-> {}, count |-> 0]

InboxInit ==
  /\ status = [n \in Notifications |-> "none"]
  /\ unreadCount = NotCached
  /\ handling = [r \in InboxRequests |-> NoHandling]
  /\ inboxCalls = 0
  /\ overtaken = FALSE

-----------------------------------------------------------------------------
Unread == {n \in Notifications : status[n] = "unread"}

InStep(r, pc) == handling[r].pc = pc
NextStep(r, pc) == handling' = [handling EXCEPT ![r].pc = pc]
Answer(r) == handling' = [handling EXCEPT ![r] = NoHandling]

Handle(r, pc, ids) ==
  /\ InStep(r, "none")
  /\ inboxCalls < MaxInboxCalls
  /\ inboxCalls' = inboxCalls + 1
  /\ handling' = [handling EXCEPT ![r] = [NoHandling EXCEPT !.pc = pc, !.ids = ids]]

SetStatus(ids, s) == status' = [n \in Notifications |-> IF n \in ids THEN s ELSE status[n]]

-----------------------------------------------------------------------------
(* Notifications appear.                                                   *)

\* The insert of an event's notification; it goes on with the invalidation.
CreateForEvent(r, n) ==
  /\ status[n] = "none"
  /\ Handle(r, "invalidate_emit", {n})
  /\ SetStatus({n}, "unread")
  /\ UNCHANGED <<unreadCount, overtaken>>

\* A broadcast job stores one and leaves the count to expire.
CreateBroadcast(n) ==
  /\ status[n] = "none"
  /\ SetStatus({n}, "unread")
  /\ overtaken' = (unreadCount # NotCached)
  /\ UNCHANGED <<unreadCount, handling, inboxCalls>>

-----------------------------------------------------------------------------
(* Marking and archiving.                                                  *)

\* Only a read one needs no marking: an archived one is marked, and so leaves
\* the archive.
FindToMark(r, n) ==
  /\ status[n] \in {"unread", "archived"}
  /\ Handle(r, "save_read", {n})
  /\ UNCHANGED <<status, unreadCount, overtaken>>

\* markAllAsRead finds the unread ones, then updates them by id.
FindUnread(r) ==
  /\ Handle(r, "save_read", Unread)
  /\ UNCHANGED <<status, unreadCount, overtaken>>

SaveRead(r) ==
  /\ InStep(r, "save_read")
  /\ SetStatus(handling[r].ids, "read")
  /\ NextStep(r, "invalidate")
  /\ UNCHANGED <<unreadCount, inboxCalls, overtaken>>

\* Variant with a bug: archiving an unread notification keeps the count.
FindToArchiveQuietly(r, n) ==
  /\ status[n] \in {"unread", "read"}
  /\ Handle(r, "save_archived_read", {n})
  /\ UNCHANGED <<status, unreadCount, overtaken>>

\* Archiving one that had been read does not change the count.
FindToArchive(r, n) ==
  /\ status[n] \in {"unread", "read"}
  /\ Handle(r, IF n \in Unread THEN "save_archived" ELSE "save_archived_read", {n})
  /\ UNCHANGED <<status, unreadCount, overtaken>>

SaveArchived(r) ==
  /\ handling[r].pc \in {"save_archived", "save_archived_read"}
  /\ SetStatus(handling[r].ids, "archived")
  /\ IF InStep(r, "save_archived") THEN NextStep(r, "invalidate") ELSE Answer(r)
  /\ UNCHANGED <<unreadCount, inboxCalls, overtaken>>

-----------------------------------------------------------------------------
(* The cached count.                                                       *)

\* An error of Redis is logged and the handler goes on.
InvalidateUnreadCount(r, done) ==
  /\ handling[r].pc \in {"invalidate", "invalidate_emit"}
  /\ unreadCount' = IF done THEN NotCached ELSE unreadCount
  /\ overtaken' = (~done /\ unreadCount # NotCached)
  /\ IF InStep(r, "invalidate") THEN Answer(r) ELSE NextStep(r, "resolve")
  /\ UNCHANGED <<status, inboxCalls>>

GetNotifications(r) ==
  /\ Handle(r, "resolve", {})
  /\ UNCHANGED <<status, unreadCount, overtaken>>

\* resolveUnreadCount, of a list request or of a push: a cached count is taken
\* as it is.
ResolveUnreadCount(r) ==
  /\ InStep(r, "resolve")
  /\ IF unreadCount # NotCached THEN Answer(r)
     ELSE handling' = [handling EXCEPT ![r].pc = "store", ![r].count = Cardinality(Unread)]
  /\ UNCHANGED <<status, unreadCount, inboxCalls, overtaken>>

SetUnreadCount(r) ==
  /\ InStep(r, "store")
  /\ unreadCount' = handling[r].count
  /\ overtaken' = (handling[r].count # Cardinality(Unread))
  /\ Answer(r)
  /\ UNCHANGED <<status, inboxCalls>>

UnreadCountExpires ==
  /\ unreadCount # NotCached
  /\ unreadCount' = NotCached
  /\ overtaken' = FALSE
  /\ UNCHANGED <<status, handling, inboxCalls>>

\* A call to MongoDB fails or the pod stops; a change may be left without its
\* invalidation.
HandlingStops(r) ==
  /\ ~InStep(r, "none")
  /\ overtaken' = \/ overtaken
                  \/ /\ handling[r].pc \in {"invalidate", "invalidate_emit"}
                     /\ unreadCount # NotCached
  /\ Answer(r)
  /\ UNCHANGED <<status, unreadCount, inboxCalls>>

InboxNext ==
  \/ \E r \in InboxRequests :
       \/ \E n \in Notifications :
            CreateForEvent(r, n) \/ FindToMark(r, n) \/ FindToArchive(r, n)
       \/ FindUnread(r) \/ SaveRead(r) \/ SaveArchived(r)
       \/ \E done \in BOOLEAN : InvalidateUnreadCount(r, done)
       \/ GetNotifications(r) \/ ResolveUnreadCount(r) \/ SetUnreadCount(r)
       \/ HandlingStops(r)
  \/ \E n \in Notifications : CreateBroadcast(n)
  \/ UnreadCountExpires

InboxSpec == InboxInit /\ [][InboxNext]_inboxVars

-----------------------------------------------------------------------------
Handling == [pc : {"none", "save_read", "save_archived", "save_archived_read", "invalidate",
                   "invalidate_emit", "resolve", "store"},
             ids : SUBSET Notifications, count : Nat]

InboxTypeOK ==
  /\ status \in [Notifications -> {"none", "unread", "read", "archived"}]
  /\ unreadCount \in Nat \cup {NotCached}
  /\ handling \in [InboxRequests -> Handling]
  /\ inboxCalls \in Nat
  /\ overtaken \in BOOLEAN

\* With no invalidation pending, the cached count is the number of unread
\* notifications, unless it was stored after a change it had not counted, a
\* broadcast went past it, or an invalidation failed. In particular archiving
\* may leave the count alone whenever it found the notification read.
CountExplained ==
  (\A r \in InboxRequests : handling[r].pc \notin {"invalidate", "invalidate_emit"}) =>
    \/ unreadCount = NotCached
    \/ unreadCount = Cardinality(Unread)
    \/ overtaken
=============================================================================
