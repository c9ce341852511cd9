----------------------------- MODULE MCServices -----------------------------
(***************************************************************************)
(* Components of the notification, task, workspace and analytics services, *)
(* checked in one run: they share no state, so a behaviour is one of one   *)
(* of them, named by `part`, while the variables of the others keep their  *)
(* initial values.                                                         *)
(***************************************************************************)
EXTENDS Broadcast, Inbox, WorkspaceContent, Comments, WorkspaceDirectory,
        Analytics, Idempotency, EventPipeline, RateLimit, Realtime,
        TLC

CONSTANTS a1, a2, x1, x2, x3, y1, y2, z1, z2, here

\* Executions, pods and writers; notifications and keyed requests; job keys.
MCPair == {a1, a2}
MCTriple == {x1, x2, x3}
MCKeys == {y1, y2}
MCOne == {here}

\* A strict consumer group and one that starts without its producer.
MCGroups == {z1, z2}
MCLenient == {z2}
ServiceSymmetry == Permutations(MCPair)

\* A task that is completed or deleted, a workspace, and a user.
AnalyticsEvent(id, kind, from, to) == [id |-> id, kind |-> kind, from |-> from, to |-> to]
StatelessEvent(id, kind) == AnalyticsEvent(id, kind, "TODO", "TODO")
MCCreated == StatelessEvent(1, "task_created")
MCTaskFeed == {MCCreated, AnalyticsEvent(2, "task_status_changed", "TODO", "DONE")}
MCFeeds ==
  { MCTaskFeed,
    {MCCreated, StatelessEvent(3, "task_deleted")},
    {StatelessEvent(4, "workspace_created"), StatelessEvent(5, "member_left")},
    {StatelessEvent(6, "member_joined"), StatelessEvent(7, "project_created")},
    {StatelessEvent(8, "user_registered")} }
MCStatuses == {"TODO", "DONE"}

VARIABLE part

ServicesInit ==
  /\ part \in {"broadcast", "inbox", "content", "comments", "directory",
               "analytics", "idempotency", "pipeline", "rate",
               "realtime"}
  /\ BroadcastInit /\ InboxInit /\ WorkspaceContentInit /\ CommentsInit
  /\ WorkspaceDirectoryInit /\ AnalyticsInit /\ IdempotencyInit
  /\ EventPipelineInit /\ RateLimitInit /\ RealtimeInit
  /\ part # "broadcast" => active = {}
  /\ part # "analytics" => happenings = MCTaskFeed
  /\ part # "idempotency" => service = "task"
  /\ part # "realtime" => tuned = {} /\ ~shared

ServicesNext ==
  \/ /\ part = "broadcast" /\ BroadcastNext
     /\ UNCHANGED <<part, inboxVars, contentVars, commentVars, directoryVars,
                    analyticsVars, keyVars, pipelineVars, rateVars, realtimeVars>>
  \/ /\ part = "inbox" /\ InboxNext
     /\ UNCHANGED <<part, broadcastVars, contentVars, commentVars,
                    directoryVars, analyticsVars, keyVars, pipelineVars, rateVars, realtimeVars>>
  \/ /\ part = "content" /\ WorkspaceContentNext
     /\ UNCHANGED <<part, broadcastVars, inboxVars, commentVars, directoryVars,
                    analyticsVars, keyVars, pipelineVars, rateVars, realtimeVars>>
  \/ /\ part = "comments" /\ CommentsNext
     /\ UNCHANGED <<part, broadcastVars, inboxVars, contentVars, directoryVars,
                    analyticsVars, keyVars, pipelineVars, rateVars, realtimeVars>>
  \/ /\ part = "directory" /\ WorkspaceDirectoryNext
     /\ UNCHANGED <<part, broadcastVars, inboxVars, contentVars, commentVars,
                    analyticsVars, keyVars, pipelineVars, rateVars, realtimeVars>>
  \/ /\ part = "analytics" /\ AnalyticsNext
     /\ UNCHANGED <<part, broadcastVars, inboxVars, contentVars, commentVars,
                    directoryVars, keyVars, pipelineVars, rateVars, realtimeVars>>
  \/ /\ part = "idempotency" /\ IdempotencyNext
     /\ UNCHANGED <<part, broadcastVars, inboxVars, contentVars, commentVars,
                    directoryVars, analyticsVars, pipelineVars, rateVars, realtimeVars>>
  \/ /\ part = "pipeline" /\ EventPipelineNext
     /\ UNCHANGED <<part, broadcastVars, inboxVars, contentVars, commentVars,
                    directoryVars, analyticsVars, keyVars, rateVars, realtimeVars>>
  \/ /\ part = "rate" /\ RateLimitNext
     /\ UNCHANGED <<part, broadcastVars, inboxVars, contentVars, commentVars,
                    directoryVars, analyticsVars, keyVars, pipelineVars, realtimeVars>>
  \/ /\ part = "realtime" /\ RealtimeNext
     /\ UNCHANGED <<part, broadcastVars, inboxVars, contentVars, commentVars,
                    directoryVars, analyticsVars, keyVars, pipelineVars, rateVars>>

servicesVars ==
  <<part, broadcastVars, inboxVars, contentVars, commentVars, directoryVars,
    analyticsVars, keyVars, pipelineVars, rateVars, realtimeVars>>

ServicesSpec == ServicesInit /\ [][ServicesNext]_servicesVars

\* The types of the component that runs, the others being as they were initially:
\* only values their code can produce are reached.
ServicesTypeOK ==
  /\ part = "broadcast" => BroadcastTypeOK
  /\ part = "inbox" => InboxTypeOK
  /\ part = "content" => WorkspaceContentTypeOK
  /\ part = "comments" => CommentsTypeOK
  /\ part = "directory" => WorkspaceDirectoryTypeOK
  /\ part = "analytics" => AnalyticsTypeOK
  /\ part = "idempotency" => IdempotencyTypeOK
  /\ part = "pipeline" => EventPipelineTypeOK
  /\ part = "rate" => RateLimitTypeOK
  /\ part = "realtime" => RealtimeTypeOK

\* What a user sees of their notifications, by both roads: a cached unread count
\* differs from the stored one, and a notification misses a browser, only for the
\* causes Inbox and Realtime name.
NotificationsExplained == CountExplained /\ StreamsExplained
=============================================================================
