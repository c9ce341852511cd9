# CollabSpace in TLA+

CollabSpace is a task-management application made of NestJS services (auth,
user, workspace, task, notification, analytics, dlq) that talk over HTTP, gRPC
and Kafka. Each service owns its database. A change is written to the service's
tables together with a row of an outbox table; the rows reach Kafka (through
Debezium for task, workspace and user) or the e-mail provider (auth); consumers
deduplicate events by id, retry them, and park what they cannot handle in a dead
letter topic, from which the dlq service replays them. In front of the databases
stand Redis caches that readers fill and writers clear.

The hard behaviour of this system is in those chains: several replicas of every
service, handlers that read, decide and write in separate calls, claims, locks
and caches with time limits, calls that fail after they took effect. The modules
here model the chains call by call, TLC checks them on small instances, and
TLAPS proves every safety property the runs check, for all parameters.

Files: `X.tla` is the model of a component with its properties, `MCX.tla` and
the `.cfg` files its instances for TLC, `X_proofs.tla` theorems about one module
or one group of modules. `PROJECT.json` maps every definition to the lines it
models and lists the runs, the mutants, the hazards, the findings and the
theorems.

    tlc -config MCDlqRecords.cfg MCDlqRecords       # a run
    tlapm DlqRecords_proofs.tla                     # the proofs

## 1. Inventory

Paths are below `src/services/<service>/src` unless they begin with `packages`.

| Component | State | Operations | Modules |
|---|---|---|---|
| Task aggregate (task) | event stream `task_events`, projection `tasks`, feed `task_activity`, `task_outbox_events`, attachment blobs | create, move, assign, unassign, edit, attach, detach, delete | `TaskEvents`, `TaskAggregate`, `AbstractTask` |
| Event consumer (notification; the shared retry loop in `packages/shared/src/kafka`) | committed offset, `processed_events` claims, notifications, pushes, dead letter topic | parse, claim, notify, mark, release, retry, park, commit | `EventConsumer` |
| DLQ service (dlq) | `dlq_records`: status, lock, retry count, next retry | ingest, scheduled and manual replay, lock, release, stale-lock cleanup, resolve, discard | `DlqRecords` |
| Event pipeline (all consumers, dlq) | source topic, offsets and processed events of the groups, dead-letter topic, records | produce, claim, handle, skip, park, ingest, replay, resolve, discard | `EventPipeline` |
| Membership and invitations (workspace) | `workspaces`, `workspace_members`, `invitations`, `workspace_outbox_events` | create, invite, accept, reject, remove, change role, delete, force-join | `WorkspaceMembers` |
| Invitation and deletion notices (auth, user, workspace, notification) | replicas of people, pending messages of two consumer groups, notifications | announce, look up, consume, retry, park | `Notices` |
| Workspace directory (workspace) | row, name, projects, caches of the workspace and of the lists | get, list, rename, create and change projects, change a role, delete | `WorkspaceDirectory` |
| Auth outbox (auth; `packages/shared/src/outbox`) | `auth_outbox_events`; per replica: poll loop, wake flag, batch | enqueue, mark exhausted, reclaim, claim, publish, mark, start-up release | `AuthOutbox` |
| Sessions (auth) | row of the account, refresh tokens with families, reset key in Redis | login, refresh, revoke, change and reset the password, disable and enable | `Sessions` |
| Registration (auth) | account, role, profile, one-time code, cooldown and counter in Redis | register, roll back, recover, resend, verify | `Registration` |
| Roles and permissions (auth) | roles, assignments, permission rows | create, update, delete, assign, grant, ungrant, ensure on registration | `AccessRoles` |
| Access token verification (auth and every guard) | answers kept in Redis and in memory, with times to live | verify, cache, disable | `AccessTokens` |
| Profiles (user) | `profiles`, outbox | create for a registration, edit, erase | `Profiles` |
| Replicas of profiles (user, task, notification) | row, cache, two topics, replica | edit, erase, read through the cache, consume, look up on demand | `UserReplicas` |
| Settings (user) | preferences and status rows, cached copies | read, create on first read, save | `UserSettings` |
| Workspace content (task) | tasks, activity, comments, events; cached membership | create, move, delete, comment; cascade on `workspace_deleted`, clearing on `member_left` | `WorkspaceContent` |
| Comments (task) | one document per comment, outbox | create, reply, edit, delete | `Comments` |
| Notification read side (notification) | status of each notification, unread count in Redis | list, count, mark, mark all, archive | `Inbox` |
| Realtime streams (notification) | streams of a pod, Redis subscription | open, publish, tell, fetch, break | `Realtime` |
| Broadcast jobs (notification) | job with key, lease and cursor | start, claim, page, address, save progress | `Broadcast` |
| Analytics (analytics) | marks with a time to live, counters | mark, increment, unmark, retry, park | `Analytics` |
| Idempotency keys (workspace, task) | key to stored answer | look up, execute, store | `Idempotency` |
| Resilience helpers (`packages/shared/src/resilience`) | windows per client; circuit breaker; retry | admit, refuse, prune | `RateLimit` |
| Controllers, service JWTs, configuration, gateway, migrations | none of their own | validate, route | none |

What makes each of them correct, and what is hard about it:

- **Task aggregate.** The stream must stay one task's history however handlers
  interleave; projection, feed, outbox and blobs must follow it. Five stores, of
  which only some commands write several in one transaction; optimistic
  versions; a driver that re-runs transaction callbacks over an aggregate
  already changed in memory.
- **Event consumer and pipeline.** Every event has its effect once, or is parked;
  nothing blocks the partition; no part drops what another handed to it.
  Redelivery, abandoned commands that go on running, claims with a TTL, crashes
  between claim and effect, groups that read the same topic with different luck.
- **DLQ service.** One replayer per record, retries within the budget, no record
  stuck. Separate database and Kafka calls, releases by id, locks that age.
- **Membership, directory, notices.** One owner; members, invitations and
  announcements agree; deleted workspaces stay deleted; whom an invitation
  concerns hears of it. Check-then-write in separate statements, an ORM that
  writes back columns of an object loaded earlier, caches filled across a write.
- **Auth outbox.** E-mails go out and their rows say so, on several replicas.
  Stale and released claims, marks by id, publishes that outlive their timeout.
- **Sessions, roles, tokens.** A changed password or a disabled account ends what
  it should end, in a bounded time, and stays changed. READ COMMITTED rotations,
  whole-row saves, cached verdicts.
- **Registration, profiles, replicas, settings.** No account without profile;
  names are unique; copies follow the row; an erasure is final. Sagas without a
  transaction, whole-row saves, messages lost, parked, repeated or crossed.
- **Content, comments.** Nothing of a deleted workspace survives unseen; a save
  that overlaps another loses no more than one expects.
- **Notifications.** Counts and streams show what is stored; every recipient is
  addressed. Leases, cursors, invalidations that overtake a read.
- **Analytics, idempotency keys, rate limit.** Each event counted, each key
  executed, each client admitted as often as promised, and not more. Marks that
  expire before a replay, or that are released after another consumer skipped.

`PROJECT.json` lists the hazards at their lines, with the properties that would
catch each going wrong.

## 2. Modules, and how they correspond to the code

Conventions. A request, handler or pod is a record with its program counter and
what it has read so far; one database, Redis, Kafka or HTTP call is one action.
An execution that takes no further step is a pod that died. A failing call either
takes effect or not. Contents are numbered: the revision of a profile, the save
that set a field, the position of an event. *History variables* (`silent`,
`overtaken`, `gone`, `crossed` and the like) record that a race or a fault took
place, are read by no guard, and let a property say "holds unless": the exceptions
are the ways the code can go wrong, each reachable, and anything else is a
violation. Names of variables are the module's own, as modules are checked
together.

**Task service.** `TaskEvents` holds the values: commands, events, `Apply` (the
`when` switch of `Task.ts`), `Refused` and `Ineffective` (guards and early returns
of the aggregate's methods), `States`/`Replay` (a recursive function over the
stream). `TaskAggregate` is one task under any number of handler executions
(`req`), each with the aggregate in memory (`task`, `version`, `pending`) and the
projection revision its transaction saw (`rev`). Its actions are load (stream, or
projection for a task without events), start of a transaction, check of the
version, insert into the stream, feed, projection, commit with its outbox row, and
the re-run of the callback after a write conflict or a transient error, which
starts from the aggregate as the first run left it. `AbstractTask` is what callers
rely on: one value that commands change atomically, each deciding on the state it
changes. `TaskAggregate` implements it with `task <- Replay(stream)`.
`WorkspaceContent` has the four collections as sets of tasks, the handlers that
write them after they asked for the membership, the membership cache and the two
messages that end it. `Comments` has the documents, whole-document saves and the
recipients of a comment. `Idempotency` covers this and the workspace service; the
initial value of `service` says whose treatment of an expired record runs.

**Kafka.** `EventConsumer`: one partition (`Log`, possibly with one event twice),
the pods that may own it, the `eachMessage` loop of each (`pod`) and up to `Slots`
executions of the create-notification command per pod (`cmd`): one may be abandoned
after its time limit while its replacement runs. `claims` is `processed_events`
(held, lapsed after its TTL, done, and none again when a processed row's TTL ends).
The claim-and-handle shape is that of `task_assigned`. `DlqRecords`: every record
with status, lock, retry count and next retry (never, later, due); every execution
of the replay service with its candidates and phase. Scan, lock, publish and release
are separate actions; `ReleaseStaleLock` may take the lock of a worker that is only
slow (`LockAges`). `EventPipeline` composes the two at the grain of messages: a
topic with its groups, the rows of their processed events (`entry`), the letters
they park, the records and the replays, which publish the event anew for every
group. A message is handled in one step, skipped as processed, or passed over for a
claim that is held (`PassOver`); a claim stays held when a pod stops, a release
fails or a command outlives its time limit (`ClaimStays`), until the command ends
(`AbandonedEnds`) or the claim runs out (`EntryLapses`). `Analytics` has the mark of
an event, the increments of each kind of event one by one, the release of the mark
after a failed one (`DeleteMark`) and the attempts that follow (`retrying`), the
dead letter (`ParkEvent`), the replay of an event whose offset is committed
(`ReplayEvent`) and the end of a mark's seven days (`MarkExpires`).

**Workspace service.** `WorkspaceMembers`: one workspace with its members,
invitations and outbox rows in order. `Accept` is one step because it is one
transaction that locks the invitation; everything else is a call per step.
`WorkspaceDirectory`: the row, a project, the owner and a member whom the owner may
make a manager (`SetRole`), the caches of the workspace and of the lists, and the
ORM's way of saving an object that was loaded earlier. Whoever owns or manages may
write projects (`SomebodyManages`). `Notices`
follows an invitation and a deletion through the auth, user, workspace and
notification services to the stored notification.

**Auth service.** `AuthOutbox`: the table (`rows`, `claimedAt`, `availableAt`,
`attemptCount`, `processedAt`, `failedAt`) and the poll loop of every replica
(`pc`, `pendingWake`, `batch`, `job`). `claimedAt` is no, fresh or stale and
`availableAt` now or later, with `Stale` and `Due` as the passing of time; nothing
bounds how slow a replica is. A sending the replica stopped waiting for is in
`late` until it arrives or fails. `attempt_count` may exceed the limit (a replica
past `markExhaustedClaims` claims a row released meanwhile), and a straggler's
`markFailed` may re-open a failed row: the properties hold nevertheless.
`Sessions` is one account with its families of refresh tokens; password and active
flag are columns of one row (`user`), which a request loads, changes in one column
and saves whole (`SaveUser`), as TypeORM writes each column that differs by then.
`Registration` is one e-mail address, `AccessRoles` the tables of the admin API and
of a registration, `AccessTokens` one token presented to the guards of all services,
in ticks of time.

**User service.** `Profiles` has the rows of several persons who compete for a
username, `UserReplicas` one person's profile and its copies, `UserSettings` one
row with its cached copy.

**Notification service.** `Inbox` one recipient's notifications and the cached
count; `Realtime` the streams of one recipient; `Broadcast` the jobs.

**Shared.** `RateLimit` is the middleware; a request is one step because it runs to
its end without giving way.

**Compositions.** Components that interact are composed in `EventPipeline`,
`Notices`, `UserReplicas`, `WorkspaceContent` and `AccessTokens`. `MCAccounts`,
`MCServices` and `MCWorkspaceMembers` only check several modules in one run: a
variable `part` says which of them runs and the others keep their initial state.

## 3. Runs

| Run | Instance | Distinct states | Shows |
|---|---|---|---|
| `task` | 4 handler executions out of all commands, 2 titles, 1 user, 1 transient abort beside conflicts | 744,625 | stream, projection, feed, outbox and blob properties; refinement of `AbstractTask` |
| `task_phantom` (violation) | the same without aborts | | an outbox row whose event was never stored |
| `task_stale` (violation) | the same | | a projection that stays behind for good |
| `consumer` | 2 pods, partition e1, garbled, e1 again, misfit; 2 attempts; 3 faults of any kind | 1,227,581 | an event is notified and pushed once; failures are retried, then parked; the partition is consumed |
| `consumer_lost` (violation) | crashes only | | an event committed, not notified, not parked |
| `dlq` | 2 records (one automatic, one manual category), 2 executions; 1 manual request and 1 fault | 232,699 | locks, budgets, exclusion, counting; no record stays locked, every due retry happens |
| `dlq_terminal` (violation) | the same | | a discarded record becomes pending |
| `members` | `WorkspaceMembers`: owner, invitee with 2 invitations, platform admin, 2 concurrent requests of 6, 1 stop; `Notices`: 2 people, 1 notice, 2 mishaps; `Profiles`: 2 people, 5 calls | 1,445,487 | ownership, accounting of announcements; who hears of an invitation or a deletion; usernames and messages of profiles |
| `outbox` | 2 e-mails, 2 replicas, batch 2, 2 attempts, 1 fault | 560,666 | attempts, marks, holders, duplicates, and that every row settles |
| `accounts` | `Sessions`, `Registration`, `AccessRoles`, `AccessTokens`, `UserReplicas`, `UserSettings`, two overlapping requests each | 595,033 | what a password change, a deleted role, a disabled account or an erased profile still allows |
| `services` | `Broadcast`, `Inbox`, `WorkspaceContent`, `Comments`, `WorkspaceDirectory`, `Analytics`, `Idempotency`, `EventPipeline`, `RateLimit`, `Realtime`, two or three actors each | 830,004 | the properties of those modules |
| `broadcast_stuck` (violation) | 1 pod, 1 job, more users than a page, no fault | | a broadcast that never ends |

A violation run checks a statement of the repository's documentation that the
code does not keep; the finding in `PROJECT.json` quotes the statement.

**What the properties say.** Each run has one type invariant. The others:

- `StreamWellFormed`, `ProjectionFollowsStream`, `RecordsFollowStream`: the stream
  is one task's history; the projection is the replay of a prefix, of all of it if
  only transactional handlers stored events; outbox and feed have what was stored.
  `DanglingFileExplained`: a task names a missing blob only because a detach
  deleted the blob and failed, or has not saved its event yet.
  `ImplementsAbstractTask`: the refinement.
- `NotifiedOnce`: processed means notified, and pushed at most once.
  `FailuresAreRetried`: parked after the last attempt and not before.
- `LocksAndBudgets`, `ReplaysCounted`, `RecordsProgress` of the DLQ records.
- `EventsAccounted`: an event a group's offset has passed is handled, ahead as a
  replay, in the letters, on record, or gone for one of the causes the code has; one
  of them is a claim that was held when the event was delivered again, and that
  takes a crash, a timeout or a failed release (`consumer_lost` shows one such
  loss call by call).
- `MembershipKept`: one owner, an invitation brings its user in once.
  `ArrivalsAndDepartures`: announcements and rows balance. `NoticesExplained`,
  `ProfilesKept`, `ContentExplained`: who is not told, whose row
  or message differs, what of a deleted workspace is still there, and why.
- `AttemptsHonoured`, `ClaimsExclusive`, `EventuallySettled` of the e-mails.
- `SessionsExplained`, `RegistrationKept`, `RolesExplained`, `VerdictsFounded`,
  `CopiesExplained`, `SettingsExplained`: what the accounts' stores promise, with
  the race that explains each deviation. `SessionsExplained` is three: a completed
  change of the account ends the sessions older than it (`SavesEndSessions`); a
  password changed, an account disabled, stays so until somebody asks otherwise,
  but for a save of a row loaded before another save (`AccountStands`); one-time
  credentials are used twice only by overlap (`ReuseOnlyByOverlap`).
- `DirectoryKept`: a deleted workspace and its projects stay deleted, but for an
  execution that overlapped the deletion, or one that made a manager of a member who
  joined afterwards; a cache that shows what is no more has such a reader, or an
  invalidation that failed, behind it.
- `CountsAddUp`: a counter is the sum of what the events contribute, each once for
  the life of its mark, unless a handling that concerns it broke off; and no event
  is passed uncounted unless it is parked, will be attempted again, or a fault kept
  it from that.
- `CompletedReachedEveryone`, `CommentsExplained`, `RepeatsExplained`,
  `LimitHonoured`, and `NotificationsExplained`, which joins
  `CountExplained` of `Inbox` and `StreamsExplained` of `Realtime`.

**Bounds and why they suffice.** `MaxAborts`, `MaxFaults`, `MaxMishaps`,
`MaxManual`, `MaxStops`, `MaxTurns`, `MaxTime` and the `...Calls`, `...Saves`,
`...Faults` bound how often the environment interferes; nothing else is cut off. Two
actors are needed for every race in the code (each is between a holder and one who
overtakes it); the task run has four handlers because the deepest cases need one
task created, and then two handlers interleaved with a third that changes the
projection. Two records, events, invitations or persons are needed for batches and
unique keys; two attempts are the fewest with a first and a last one; three users
with pages of two make a full and a short page. `Slots` lets a pod of the consumer
run the command it awaits and one abandoned one (the proofs keep this bound, as it
is part of the model). In `dlq` an admin's request and a fault share one bound, so
that each is combined with every interleaving of two workers. `Analytics` reads
feeds of at most two events and lets one mark expire (`MaxMarkLapses`): an event counted
twice needs no more, and two pods are enough for one to skip what the other then
releases. The pipeline's letters have one retry (`RetryBudget`), their first and
last; what a scheduler does with the second is in `dlq`, and the proof has any
number. Larger instances that were checked once: the outbox with two faults
(5,618,618 states), `Profiles` with three persons and two suffixes (349,538) and
with three requests (2,656,450), `dlq` with two faults beside a request (840,781).
The proofs remove the bounds for the properties they cover.

**Time limits taken as kept.** Seven days outlast the handling of one analytics
event, so a mark does not expire in its consumer's hand (`MarkExpires`); a claim of
five minutes outlasts the command it is for in `EventPipeline` (`EntryLapses`;
`EventConsumer` does without this), and a processed row's seven days outlast a
command in `EventConsumer` (`Lapse`).

**Symmetry** is used in `task`, `members`, `accounts` and `services`, which check
safety only; only sets of interchangeable actors and values are permuted. In
`members` the parts share model values so that few permutations serve all of them.
**Deadlock** is not checked where requests, messages or records run out and the
system rightly stops; it is checked in `outbox`, whose timers never stop.

**Mutants.** Each property of a passing run has a mutant: a definition of the model
changed as a plausible bug would. The changed form stands before the original
under a comment "Variant with a bug" and takes part in no specification. TLC finds
the property violated under the run's own configuration.

## 4. Fairness

Safety runs need none. Where liveness is checked:

- `EventuallyConsumed`: weak fairness for each pod's steps (every call of the loop
  returns or is timed out; Node runs what is ready) and for the assignment of
  partitions (Kafka's group coordinator). Faults are not fair, and their number is
  bounded: the claim is that a bounded number of mishaps blocks nothing.
- `RecordsProgress`: weak fairness for each worker's steps, for the scheduler's
  cron (every minute, `dlq-auto-retry.scheduler.ts`; on whichever execution is
  free), for the cleanup of stale locks (every five minutes), and for time. An
  admin need not ever act.
- `EventuallySettled`: weak fairness for each replica's timer, start-up release and
  cycle steps (every statement returns; a publish at the latest with its timeout)
  and for time. New e-mails, faults and late arrivals are not fair.
- `BroadcastFinishes` (violated): weak fairness for each pod's steps (its timer
  fires again and again) and for the running out of claims.

## 5. Proofs

Assumptions are those named `...Assumption` in the modules (finite sets, positive
limits, values that mean "nothing" outside the sets); TLC evaluates them in every
run. Each proof states an inductive invariant, shows that the initial states satisfy
it and every action keeps it (one lemma or step per action), and derives the
property. The theorems hold for every value of the constants: any number of
requests, pods, users, messages, faults.

- **TaskAggregate_proofs.** `ReplayAppend`: replay of a longer stream is one more
  `Apply`; a consequence of the recursive function's equation, not an induction.
  The invariant ties each request to the stream: its aggregate in memory is the
  replay of the prefix it read plus its pending event, its event is stored at most
  once, and a transaction is only open on the stream it saw (`RequestOK`); every
  stored event comes from its request (`Provenance`). From it: types,
  `StreamWellFormed`, `ProjectionFollowsStream`, `RecordsFollowStream`, and the
  **refinement** of `AbstractTask` for `StartLegacy = FALSE`. Without the clause on
  pending events neither the outbox nor the projection property is inductive: both
  depend on what a re-run callback finds in memory. `FilesOK` follows an
  attachment: once stored it stays in the container unless a detach took it out,
  and when that detach is through, the event that removes it is in the stream.
- **EventConsumer_proofs.** `NotifiedOnce`: the invariant says what each execution
  past its notification knows, also when it was abandoned or overtaken; only the
  execution that inserted the notification can be about to push. `FailuresAreRetried`
  is a matter of debts: each failed attempt owes a counted failure, to the pod that
  ran it or to a crash, and parking an event settles `Attempts` of them; while
  nothing but transient failures occurred, an event that is passed was handled.
- **DlqRecords_proofs.** `LocksAndBudgets`, `ReplaysCounted`. `InHand` says what a
  lock is worth: while none was overtaken, whoever has a record in hand holds its
  lock, knows its retry count, and has published it at most once more than that
  count says.
- **EventPipeline_proofs.** `EventsAccounted`. The property speaks of all messages
  of an event, the invariant of one message at a time: a group that passed it
  handled it, gave it up, passed it over or wrote its letter (`Passed`); a letter
  that was taken has a record (`Taken`); a record that asks for nothing has a later
  message of the same event (`Answered`). Going to the last message of the event
  (`LastMessage`) joins the three. A group that passed a message over met a claim,
  and no claim is there before the first fault (`ClaimsExplained`).
- **WorkspaceMembers_proofs.** `MembershipKept`: `RequestOK` states what a request's
  earlier reads still guarantee when it writes; `Joined`, that an invitation that
  brought somebody in is neither pending nor can become so. `ArrivalsAndDepartures`
  is a balance per user of outbox rows, requests about to announce, and the member
  row; an appended row and a request that moves on change it by one each.
  `NoticesExplained`: a command knows the person and one about to mark has stored; a
  message the group is past was stored, refused or passed over, and when it was
  passed over no registration consumed by then had left a replica. `ProfilesKept`:
  of the transactions about to commit no two change one row or take one username, so
  what save read and what the constraints saw still holds at the commit. That a
  creation loses its username only to a race is stated where it is about to be
  refused: the proof showed that after the refusal, with three requests, an erased
  row may have moved on to another name before the error is answered.
- **AuthOutbox_proofs.** What a replica has in hand was counted when it was claimed
  and counts never fall (`Known`), no event is twice in one hand (`LoopOK`), and a
  replica about to mark has sent (`PublishedWasSent`): with them one unit at a time
  moves from "to send" to "sent" or "late" (`AttemptsHonoured`). `Claims` (an event
  not overtaken has one holder, and while it is open its claim stands) and `Clean`
  (before the first fault an event was sent only if it is processed or its holder is
  about to mark it) give `ClaimsExclusive`.
- **Accounts_proofs.** `RolesExplained`: what a request read was so in that very
  turn, so a deletion that counted no assignment and an assignment that saw the role
  overlapped. `VerdictsFounded`: an entry lives at most its time to live from now,
  and was stored no later than one verification after the account was last good.
  `CopiesExplained`: no copy is newer than the row, pending messages end with the
  last one published, and whoever may still write an older revision is one of the
  causes named. `SettingsExplained`: of two updates that overlap the later one read
  first; each field shown is that of the last update to set it, or an update of an
  older row is among the causes. `SessionsExplained`: a live token goes back to a
  login validated against a row saved since the last purge, or its family has a
  token whose request overlapped one; a token with a successor is revoked; a
  consumed key was mailed, and no mailed key is set again. `RowOK` follows the row:
  one that was loaded is what is stored as long as nobody saved since, so that a
  save without an overlap changes its own column only, and a login that is still the
  last save's was of an active account. `RegistrationKept`: a request about to
  delete has seen the account pending, one about to verify has a mailed code, a code
  was mailed after the profile was made or early, and the resends let through are at
  most those counted.
- **Services_proofs.** `LimitHonoured`: windows of a client do not overlap, a
  stretch as long as a window meets at most two of them, and the requests passed in
  it map one-to-one into 1..2·Limit. `RepeatsExplained`: a stored answer is found
  until it lapses. `CountExplained`: a cached count that differs has a reader, a
  broadcast or a failed invalidation behind it. `StreamsExplained`: what is in
  transit was published and what was published is in transit, told, or unheard for a
  cause. `CommentsExplained`: a handler knows every save made before it looked; a
  later one is written over. `CompletedReachedEveryone`: the rank of an active user
  only grows, a page has at most `BatchSize` users, and a short page ends with the
  last of them, so that every user is behind the cursor when the job completes.
  `DirectoryKept`: the owner of a deleted workspace is no member and no manager is
  left, so who still writes its row or a project passed the check before, or is a
  manager made by one who did; a cache behind a change has an invalidation under way
  or a cause on record. `ContentExplained`: until the sweep begins, a document
  belongs to a task with a row or to a deleted one; while it runs, to a task listed
  in a collection still to be swept, or to a leftover explained. `CountsAddUp`: a
  counter nobody broke is the sum, over the marked events, of the increments made so
  far (`CountedTo`), and over the marks that expired of all of them, and the total
  of the tasks differs from the sum over the statuses by what the consumers at work
  have still to write (`Gaps`); a mark is held by one consumer at a time, which
  knows how far it is (`TallyInv`). An event whose offset is committed has one of
  the outcomes named (`Outcomes`): that of one skipped for a mark another consumer
  then releases is that consumer's next attempt.
- **The compositions.** `MembersImplementsParts`, `AccountsImplementsParts` and
  `ServicesImplementsParts`: a behaviour of a composed run is one of each part's
  specification, so that every theorem about a part holds beside the others. From
  them the types of the three runs, and `NotificationsExplained`, which joins the
  halves of `Inbox` and `Realtime`. The broadcast jobs keep to their specification
  without its fairness, on which no invariant depends.

Sums and replays are recursive functions, and the provers cannot instantiate an
induction theorem. Where a proof needs what such a function is for every argument,
its equation is enough: one unfolding of it (`ReplayAppend`), or the least argument
at which the claim fails (`LeastNat`), which the next smaller one refutes: the types
of a replay, and that a sum does not depend on the order in which it takes the
elements (`SumUnique`, `SumAdd`, `SumChange`).

**Only model-checked**: the liveness properties `EventuallyConsumed`,
`RecordsProgress` and `EventuallySettled`, since liveness under fairness and ENABLED
are out of the prover's reach. Every other property a passing run checks is a
theorem. No module declares a RECURSIVE operator.

## 6. Findings

Checked by a run:

- A transaction callback that runs again after the save commits an outbox row
  without its event (`task_phantom`).
- Saves outside transactions may leave the projection behind the stream for good
  (`task_stale`).
- A crash between claim and notification loses the event: the redelivery is skipped
  as already processed (`consumer_lost`).
- A discarded dead letter comes back to life when a replay releases it
  (`dlq_terminal`).
- A broadcast to more users than a page stops after its first page
  (`broadcast_stuck`).

Met while modelling, and part of the models (`PROJECT.json` quotes the statements):

- A second scheduler replays a record before its back-off is over (`DlqRecords`).
- `member_left` may be announced after the same user's later joining:
  `AnnouncedMembership` of `WorkspaceMembers` states what the documentation says;
  as an INVARIANT of `MCWorkspaceMembers.cfg` it is violated.
- An address whose registration was rolled back cannot be registered again
  (`Registration`, `EmailStaysRegistrable`).
- The revocation of a family on reuse of a token is rolled back with the
  transaction that throws (`Sessions`).
- A deleted task keeps its comments; a removed member may be let in by a cached
  membership stored after it was cleared (`WorkspaceContent`).
- A field its owner clears stays in the replicas (`UserReplicas`).
- A retry applies increments of the first attempt again; the mark of an event is
  dropped after seven days while a replay may publish the event at any later time;
  and four counters are written by nobody (`Analytics`).
- An expired idempotency key of the task service protects nothing any more
  (`Idempotency`).
- A letter whose ingestion fails is not read again (`EventPipeline`), and no pod
  disconnects its consumers on SIGTERM.
- The rate limit is per address and method (`RateLimit`); the circuit breaker opens
  at one failure in a hundred once five calls were made.

## 7. What is not modelled, and why

- **Controllers, DTO validation, service JWTs, configuration, seeds, health checks,
  metrics, Nest modules, generated declarations.** They keep no state of their own
  or describe deployment; they are most of the source lines no definition is mapped
  to. The routes that start a handler appear as the `Next` of its module.
- **Kafka, Debezium, MongoDB, PostgreSQL, Redis** enter as assumptions: a partition
  is an ordered log that may repeat messages; a MongoDB transaction is atomic and
  aborts on a write conflict; one SQL statement is atomic; READ COMMITTED; a Redis
  entry ends with its time to live.
- **The circuit breaker** is a library's state machine (opossum) behind a wrapper.
  What it and the retries do to a component, a call that fails or is repeated, is a
  fault of that component.
- **Code without a caller**: `replayFailedEvent` and `releaseClaimsByIds` of the auth
  outbox, and the polling publishers of the services whose outbox Debezium relays.
- **In the modelled components**: listings, statistics and searches, texts of
  e-mails and notifications, descriptions of workspaces, avatars, the in-memory
  profile repository (development only), the second look at a membership some
  handlers take after the guard, audit log entries. `StartLegacy = TRUE` (a task
  older than event sourcing) is modelled and proved about, and no run has it.
