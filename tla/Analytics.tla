------------------------------ MODULE Analytics ------------------------------
(***************************************************************************)
(* The counters of the analytics service: consumers of domain events that  *)
(* mark an event in MongoDB and then increment the counters it moves, one  *)
(* call after the other.                                                   *)
(*                                                                         *)
(* A consumer takes an event again when its handling failed, or was cut    *)
(* short before the offset was committed, and parks it when all attempts   *)
(* failed.  A replay of its letter, or of another service's, publishes the *)
(* event again at any time; the mark is dropped after seven days, and what *)
(* comes later is counted once more.  Seven days outlast a handling.       *)
(***************************************************************************)
EXTENDS Integers, Sequences, FiniteSetsExt

CONSTANTS
  AnalyticsFeeds,      \* sets of events [id, kind, from, to], of which one is published;
                       \* `from` and `to` are statuses
  AnalyticsConsumers,  \* pods whose consumers may, after a rebalance, overlap
  Statuses,            \* of tasks
  MaxAnalyticsFaults,  \* bound on failing calls and crashes
  MaxMarkLapses        \* bound on the marks that expire

AnalyticsEvents == UNION AnalyticsFeeds

\* A consumer skips, and does not mark, an event of any other type.
HandledKinds ==
  {"task_created", "task_status_changed", "task_deleted", "workspace_created",
   "project_created", "member_joined", "member_left", "user_registered"}

ASSUME AnalyticsAssumption ==
  /\ MaxAnalyticsFaults \in Nat /\ MaxMarkLapses \in Nat /\ IsFiniteSet(Statuses)
  /\ \A e \in AnalyticsEvents :
       e.kind \in HandledKinds /\ e.from \in Statuses /\ e.to \in Statuses

Counters ==
  ({"tasks", "workspaces", "projects", "users"} \X {"total"})
    \cup {<<"workspaces", "totalMembers">>, <<"users", "active">>}
    \cup ({"tasks.byStatus"} \X Statuses)
    \cup ({"daily"} \X {"tasks_created", "tasks_completed", "workspaces_created",
                       "users_registered"})

VARIABLES
  happenings,   \* the events published
  counts,       \* the snapshot and the daily series (of one day)
  marks,        \* events in processed_analytics_events
  tally,        \* [pc, event, done] of each consumer
  retrying,     \* the event a consumer failed to handle and will attempt again, if any
  settled,      \* events whose offset is committed
  parked,       \* those of them that were parked instead of handled
  dropped,      \* history: those whose handling ended with a stop or without a letter
  broken,       \* history: events whose handling ended between mark and last increment,
                \* or failed after an increment
  lapsedMarks,  \* history: the marks that expired, numbered, as <<event, number>>
  markLapses,   \* how many they are
  analyticsFaults

\* What a consumer has in hand, and where an event may be instead.
tallyVars == <<tally, retrying>>
outcomeVars == <<settled, parked, dropped>>
lapseVars == <<lapsedMarks, markLapses>>
analyticsVars ==
  <<happenings, counts, marks, tallyVars, outcomeVars, broken, lapseVars, analyticsFaults>>

NotTallying == [pc |-> "idle", event |-> {}, done |-> 0]

AnalyticsInit ==
  /\ happenings \in AnalyticsFeeds
  /\ counts = [k \in Counters |-> 0]
  /\ marks = {}
  /\ tally = [c \in AnalyticsConsumers |-> NotTallying]
  /\ retrying = [c \in AnalyticsConsumers |-> {}]
  /\ settled = {} /\ parked = {} /\ dropped = {}
  /\ broken = {}
  /\ lapsedMarks = {} /\ markLapses = 0
  /\ analyticsFaults = 0

\* What the handler of each kind of event increments, in this order.
By(n, group, name) == <<<<group, name>>, n>>

TaskIncrements(e) ==
  CASE e.kind = "task_created" ->
         <<By(1, "tasks", "total"), By(1, "tasks.byStatus", e.to),
           By(1, "daily", "tasks_created")>>
    [] e.kind = "task_status_changed" ->
         <<By(-1, "tasks.byStatus", e.from), By(1, "tasks.byStatus", e.to)>>
           \o (IF e.to = "DONE" THEN <<By(1, "daily", "tasks_completed")>> ELSE <<>>)
    [] e.kind = "task_deleted" ->
         <<By(-1, "tasks", "total"), By(-1, "tasks.byStatus", e.from)>>
    [] OTHER -> <<>>

\* The creator of a workspace is its first member, without a member_joined.
WorkspaceIncrements(e) ==
  CASE e.kind = "workspace_created" ->
         <<By(1, "workspaces", "total"), By(1, "workspaces", "totalMembers"),
           By(1, "daily", "workspaces_created")>>
    [] e.kind = "project_created" -> <<By(1, "projects", "total")>>
    [] e.kind = "member_joined" -> <<By(1, "workspaces", "totalMembers")>>
    [] e.kind = "member_left" -> <<By(-1, "workspaces", "totalMembers")>>
    [] OTHER -> <<>>

UserIncrements(e) ==
  CASE e.kind = "user_registered" ->
         <<By(1, "users", "total"), By(1, "users", "active"),
           By(1, "daily", "users_registered")>>
    [] OTHER -> <<>>

Increments(e) == TaskIncrements(e) \o WorkspaceIncrements(e) \o UserIncrements(e)

-----------------------------------------------------------------------------
\* An event is delivered until its offset is committed; a failed one is next again.
NextIn(c, e) ==
  /\ tally[c].pc = "idle"
  /\ IF retrying[c] = {} THEN e \notin settled ELSE retrying[c] = {e}
Retry(c, events) == retrying' = [retrying EXCEPT ![c] = events]

TakeInHand(c, e) ==
  /\ NextIn(c, e)
  /\ marks' = marks \cup {e}
  /\ tally' = [tally EXCEPT ![c] = [pc |-> "increment", event |-> {e}, done |-> 0]]
  /\ Retry(c, {})
  /\ UNCHANGED <<counts, outcomeVars, broken, lapseVars, analyticsFaults>>

\* Variant with a bug: a mark that is there does not stop the event.
ClaimMarkedEventToo(c, e) == TakeInHand(c, e)

\* processEventOnce: the insert of the mark tells a duplicate.
ClaimEvent(c, e) == e \notin marks /\ TakeInHand(c, e)

\* A duplicate is done with, whoever the mark belongs to.
SkipDuplicate(c, e) ==
  /\ NextIn(c, e)
  /\ e \in marks
  /\ settled' = settled \cup {e}
  /\ Retry(c, {})
  /\ UNCHANGED <<counts, marks, tally, parked, dropped, broken, lapseVars, analyticsFaults>>

\* incrementSnapshot or incrementTimeseries: an upsert with $inc.
Increment(e, n) ==
  LET step == Increments(e)[n] IN counts' = [counts EXCEPT ![step[1]] = @ + step[2]]

IncrementNext(c) ==
  \E e \in tally[c].event :
    LET n == tally[c].done + 1 IN
    /\ tally[c].pc = "increment"
    /\ Increment(e, n)
    /\ tally' = [tally EXCEPT ![c].done = n,
                   ![c].pc = IF n = Len(Increments(e)) THEN "commit" ELSE @]
    /\ UNCHANGED <<marks, retrying, outcomeVars, broken, lapseVars, analyticsFaults>>

CommitOffset(c) ==
  /\ tally[c].pc = "commit"
  /\ settled' = settled \cup tally[c].event
  /\ tally' = [tally EXCEPT ![c] = NotTallying]
  /\ UNCHANGED <<counts, marks, retrying, parked, dropped, broken, lapseVars, analyticsFaults>>

Fault ==
  /\ analyticsFaults < MaxAnalyticsFaults
  /\ analyticsFaults' = analyticsFaults + 1

\* The insert fails; one that is applied all the same is left behind as a mark is
\* when its consumer stops.
ClaimFails(c, e) ==
  /\ NextIn(c, e)
  /\ Fault
  /\ Retry(c, {e})
  /\ UNCHANGED <<counts, marks, tally, outcomeVars, broken, lapseVars>>

\* A call fails; its increment may have been applied all the same.
IncrementFails(c, applied) ==
  \E e \in tally[c].event :
    /\ tally[c].pc = "increment"
    /\ Fault
    /\ IF applied THEN Increment(e, tally[c].done + 1) ELSE UNCHANGED counts
    /\ broken' = IF applied \/ tally[c].done > 0 THEN broken \cup {e} ELSE broken
    /\ tally' = [tally EXCEPT ![c].pc = "unmark"]
    /\ UNCHANGED <<marks, retrying, outcomeVars, lapseVars>>

\* The mark is deleted, so that the next attempt counts the event from the start.
DeleteMark(c) ==
  /\ tally[c].pc = "unmark"
  /\ marks' = marks \ tally[c].event
  /\ tally' = [tally EXCEPT ![c] = NotTallying]
  /\ Retry(c, tally[c].event)
  /\ UNCHANGED <<counts, outcomeVars, broken, lapseVars, analyticsFaults>>

\* No attempt is left: the event goes to the dead-letter topic, or nowhere when the
\* producer of this pod could not connect.
ParkEvent(c, sent) ==
  /\ retrying[c] # {}
  /\ settled' = settled \cup retrying[c]
  /\ IF sent THEN parked' = parked \cup retrying[c] /\ UNCHANGED <<dropped, analyticsFaults>>
     ELSE Fault /\ dropped' = dropped \cup retrying[c] /\ UNCHANGED parked
  /\ Retry(c, {})
  /\ UNCHANGED <<counts, marks, tally, broken, lapseVars>>

\* The pod stops, or the deletion of the mark fails. A mark left behind makes
\* the next delivery a duplicate.
TallyStops(c) ==
  /\ tally[c].pc # "idle"
  /\ Fault
  /\ broken' = IF tally[c].pc = "commit" THEN broken ELSE broken \cup tally[c].event
  /\ tally' = [tally EXCEPT ![c] = NotTallying]
  /\ UNCHANGED <<counts, marks, retrying, outcomeVars, lapseVars>>

\* The pod stops between two attempts. Nobody else will attempt an event that was
\* skipped meanwhile for the mark of the attempt that failed.
RetryStops(c) ==
  /\ retrying[c] # {}
  /\ Fault
  /\ dropped' = dropped \cup (retrying[c] \cap settled)
  /\ Retry(c, {})
  /\ UNCHANGED <<counts, marks, tally, settled, parked, broken, lapseVars>>

\* An index of MongoDB drops the mark seven days after it was made.
MarkExpires(e) ==
  /\ markLapses < MaxMarkLapses
  /\ e \in marks
  /\ \A c \in AnalyticsConsumers : tally[c].event # {e}
  /\ marks' = marks \ {e}
  /\ lapsedMarks' = lapsedMarks \cup {<<e, markLapses>>}
  /\ markLapses' = markLapses + 1
  /\ UNCHANGED <<counts, tallyVars, outcomeVars, broken, analyticsFaults>>

\* The dlq service publishes the event again, with the same id.
ReplayEvent(e) ==
  /\ e \in settled
  /\ settled' = settled \ {e} /\ parked' = parked \ {e} /\ dropped' = dropped \ {e}
  /\ UNCHANGED <<counts, marks, tallyVars, broken, lapseVars, analyticsFaults>>

AnalyticsNext ==
  /\ UNCHANGED happenings
  /\ \/ \E c \in AnalyticsConsumers :
          \/ \E e \in happenings : ClaimEvent(c, e) \/ SkipDuplicate(c, e) \/ ClaimFails(c, e)
          \/ IncrementNext(c) \/ CommitOffset(c)
          \/ \E applied \in BOOLEAN : IncrementFails(c, applied)
          \/ DeleteMark(c) \/ TallyStops(c) \/ RetryStops(c)
          \/ \E sent \in BOOLEAN : ParkEvent(c, sent)
     \/ \E e \in happenings : MarkExpires(e) \/ ReplayEvent(e)

AnalyticsSpec == AnalyticsInit /\ [][AnalyticsNext]_analyticsVars

-----------------------------------------------------------------------------
AnalyticsTypeOK ==
  /\ happenings \in AnalyticsFeeds
  /\ counts \in [Counters -> Int]
  /\ marks \in SUBSET AnalyticsEvents
  /\ tally \in [AnalyticsConsumers -> [
       pc : {"idle", "increment", "commit", "unmark"},
       event : SUBSET AnalyticsEvents, done : Nat]]
  /\ retrying \in [AnalyticsConsumers -> SUBSET AnalyticsEvents]
  /\ settled \in SUBSET AnalyticsEvents
  /\ parked \in SUBSET settled /\ dropped \in SUBSET settled
  /\ broken \in SUBSET AnalyticsEvents
  /\ lapsedMarks \in SUBSET (AnalyticsEvents \X Nat) /\ markLapses \in Nat
  /\ analyticsFaults \in Nat

\* How many increments of a marked event have been made.
Progress(e) ==
  LET at == {c \in AnalyticsConsumers : tally[c].event = {e}} IN
  IF at = {} THEN Len(Increments(e)) ELSE Max({tally[c].done : c \in at})

CountedAfter(e, n, k) ==
  LET steps == {i \in 1 .. n : Increments(e)[i][1] = k} IN
  SumFunction([i \in steps |-> Increments(e)[i][2]])

Counted(e, k) == CountedAfter(e, Progress(e), k)
CountedInFull(e, k) == CountedAfter(e, Len(Increments(e)), k)

Touches(e, k) == \E i \in DOMAIN Increments(e) : Increments(e)[i][1] = k

\* "Duplicate event -> no-op": whatever is delivered again and by whichever pod, a
\* counter is the sum of what the events have contributed, each once for the life of
\* a mark, and all tasks are the sum over their statuses when no event is in handling;
\* unless the handling of an event that moves the counter broke off half-way. And
\* none is passed uncounted: an event whose offset is committed has or had its mark,
\* was parked, or will be attempted again, or a fault kept it from one of these.
CountsAddUp ==
  /\ \A k \in Counters :
       (\A e \in broken : ~Touches(e, k))
         => counts[k] = SumFunction([e \in marks |-> Counted(e, k)])
                          + SumFunction([p \in lapsedMarks |-> CountedInFull(p[1], k)])
  /\ (broken = {} /\ \A c \in AnalyticsConsumers : tally[c].pc = "idle")
       => counts[<<"tasks", "total">>] =
            SumFunction([s \in Statuses |-> counts[<<"tasks.byStatus", s>>]])
  /\ \A e \in settled :
       \/ e \in marks \cup parked \cup dropped \/ \E p \in lapsedMarks : p[1] = e
       \/ \E c \in AnalyticsConsumers : retrying[c] = {e}
  /\ dropped # {} => analyticsFaults > 0
=============================================================================
