------------------------------ MODULE DlqRecords ------------------------------
(***************************************************************************)
(* The life of dead letter records in the DLQ service: ingest, automatic   *)
(* retry, manual replay, the replay lock and its cleanup, and the admin's  *)
(* resolve and discard.                                                    *)
(*                                                                         *)
(* A worker is one execution of replayBatch, replayManyByIds or replayOne: *)
(* the scheduler's cron on one replica, or an admin's request.  It reads   *)
(* its candidates once and then locks, publishes and releases them one by  *)
(* one, each a separate database or Kafka call.                            *)
(***************************************************************************)
EXTENDS Integers

CONSTANTS
    Records,     \* identities (topic, partition, offset) of failed messages
    Category,    \* the error category each one is published with
    Workers,     \* executions of the replay service
    MaxRetries,  \* maxRetriesTransient and maxRetriesUnknown
    MaxManual,   \* bound: replay requests of admins
    MaxFaults,   \* bound: those, calls that fail and workers that crash, together
    None

Automatic == {"transient", "unknown"}
Categories == Automatic \cup {"logic", "schema"}

ASSUME ParametersAssumption ==
    /\ Category \in [Records -> Categories]
    /\ MaxRetries \in [Automatic -> Nat \ {0}]
    /\ MaxManual \in Nat
    /\ MaxFaults \in Nat
    /\ None \notin Records \cup Workers

VARIABLES
    rec,         \* the dlq_records collection
    worker,      \* the replay executions
    published,   \* how often each record's message went back to its topic
    overtaken,   \* a lock was given up while its worker may still go on
    manual,      \* replay requests of admins so far
    faults       \* faults so far

vars == <<rec, worker, published, overtaken, manual, faults>>

\* `review' is requires_manual_review, `absent' a message not ingested (yet).
Statuses == {"absent", "pending", "replaying", "review", "resolved", "discarded"}

\* lockedAt: null, or less or more than five minutes ago.  next (nextRetryAt):
\* null, in the future, or passed.
Record == [status : Statuses, lockedBy : Workers \cup {None},
           lockedAt : {"null", "recent", "old"}, count : Nat,
           next : {"never", "later", "due"}]

Worker == [pc : {"idle", "batch", "produce", "success", "failure"},
           by : {"scheduler", "admin"}, todo : SUBSET Records,
           cur : Records \cup {None}, count : Nat]

\* A record nobody has locked.
Unlocked(status, count, next) ==
    [status |-> status, lockedBy |-> None, lockedAt |-> "null", count |-> count,
     next |-> next]

Absent == Unlocked("absent", 0, "never")
Idle == [pc |-> "idle", by |-> "scheduler", todo |-> {}, cur |-> None, count |-> 0]
Batch(by, todo) == [pc |-> "batch", by |-> by, todo |-> todo, cur |-> None, count |-> 0]

\* Variant with a bug: the record in hand is not put down.
RestInHand(q, todo) ==
    IF todo = {} THEN [Idle EXCEPT !.cur = q.cur] ELSE Batch(q.by, todo)

\* A worker moves on to the rest of its batch.
Rest(q, todo) == IF todo = {} THEN Idle ELSE Batch(q.by, todo)

Init ==
    /\ rec = [d \in Records |-> Absent]
    /\ worker = [w \in Workers |-> Idle]
    /\ published = [d \in Records |-> 0]
    /\ overtaken = FALSE
    /\ manual = 0
    /\ faults = 0

Fault == faults + manual < MaxFaults /\ faults' = faults + 1

BudgetOf(d) == IF Category[d] \in Automatic THEN MaxRetries[Category[d]] ELSE 0

(***************************************************************************)
(* Ingest.                                                                 *)
(***************************************************************************)

\* resolveInitialState
InitialState(d) == IF Category[d] \in Automatic THEN Unlocked("pending", 0, "later")
                                               ELSE Unlocked("review", 0, "never")

\* upsertFromEnvelope; an envelope that comes again changes nothing.
Ingest(d) ==
    /\ rec[d].status = "absent"
    /\ rec' = [rec EXCEPT ![d] = InitialState(d)]
    /\ UNCHANGED <<worker, published, overtaken, manual, faults>>

(***************************************************************************)
(* Starting a replay.                                                      *)
(***************************************************************************)

\* Variant with a bug: the scheduler's query finds first retries only.
FirstRetryDue(r) == r.status = "pending" /\ r.lockedBy = None /\ r.next = "due" /\ r.count = 0

\* findForReplay as the scheduler calls it.
Candidate(r) == r.status = "pending" /\ r.lockedBy = None /\ r.next = "due"

\* runAutoRetry: read the candidates.
Scan(w) ==
    LET found == {d \in Records : Candidate(rec[d])} IN
    /\ worker[w].pc = "idle"
    /\ found # {}
    /\ worker' = [worker EXCEPT ![w] = Batch("scheduler", found)]
    /\ UNCHANGED <<rec, published, overtaken, manual, faults>>

\* An admin's request names records, or filters them by anything but time.
Request(w, D) ==
    /\ worker[w].pc = "idle"
    /\ D # {} /\ \A d \in D : rec[d].status # "absent"
    /\ manual < MaxManual /\ faults + manual < MaxFaults
    /\ manual' = manual + 1
    /\ worker' = [worker EXCEPT ![w] = Batch("admin", D)]
    /\ UNCHANGED <<rec, published, overtaken, faults>>

\* Variant with a bug: a lock that only asks for a status worth replaying.
LockableWhileReplaying(r) == r.status \in {"pending", "review", "replaying"}

\* The filter of acquireLock.
Lockable(r) == r.status \in {"pending", "review"} /\ r.lockedBy = None

Locked(r, w) == [status |-> "replaying", lockedBy |-> w, lockedAt |-> "recent",
                 count |-> r.count, next |-> r.next]

\* The worker has the lock and the record as it was locked.
Taken(q, d) == [pc |-> "produce", by |-> q.by, todo |-> q.todo \ {d}, cur |-> d,
                count |-> rec[d].count]

\* acquireLock on the next candidate: lock it, or skip it.
Lock(w, d) ==
    /\ worker[w].pc = "batch"
    /\ d \in worker[w].todo
    /\ IF Lockable(rec[d])
       THEN /\ rec' = [rec EXCEPT ![d] = Locked(@, w)]
            /\ worker' = [worker EXCEPT ![w] = Taken(@, d)]
       ELSE /\ worker' = [worker EXCEPT ![w] = Rest(@, @.todo \ {d})]
            /\ UNCHANGED rec
    /\ UNCHANGED <<published, overtaken, manual, faults>>

\* A call outside executeReplay's try throws.  It ends the batch, except that
\* replayManyByIds goes on with the next record.
Abandon(w) ==
    \/ worker' = [worker EXCEPT ![w] = Idle]
    \/ /\ worker[w].by = "admin"
       /\ worker' = [worker EXCEPT ![w] = Rest(@, @.todo)]

LockFails(w, d) ==
    /\ worker[w].pc = "batch"
    /\ d \in worker[w].todo
    /\ Lockable(rec[d])
    /\ Fault
    /\ rec' \in {rec, [rec EXCEPT ![d] = Locked(@, w)]}
    /\ \/ worker' = [worker EXCEPT ![w] = Idle]
       \/ /\ worker[w].by = "admin"
          /\ worker' = [worker EXCEPT ![w] = Rest(@, @.todo \ {d})]
    /\ UNCHANGED <<published, overtaken, manual>>

(***************************************************************************)
(* executeReplay.                                                          *)
(***************************************************************************)

\* The message goes back to its source topic.
Produce(w) ==
    /\ worker[w].pc = "produce"
    /\ published' = [published EXCEPT ![worker[w].cur] = @ + 1]
    /\ worker' = [worker EXCEPT ![w].pc = "success"]
    /\ UNCHANGED <<rec, overtaken, manual, faults>>

ProduceFails(w) ==
    /\ worker[w].pc = "produce"
    /\ Fault
    /\ published' \in {published, [published EXCEPT ![worker[w].cur] = @ + 1]}
    /\ worker' = [worker EXCEPT ![w].pc = "failure"]
    /\ UNCHANGED <<rec, overtaken, manual>>

\* Variant with a bug: a release that leaves the lock.
ReleasedLocked(r, status, count, next) ==
    [r EXCEPT !.status = status, !.count = count, !.next = next]

\* releaseAfterReplay: by id alone, whoever holds the lock by now.
Released(r, status, count, next) == Unlocked(status, count, next)

\* Variant with a bug: only failures count as retries.
SuccessNotCounted(r, n) == Released(r, "pending", n, "never")

\* After a publication: done as far as this service goes.
AfterSuccess(r, n) == Released(r, "pending", n + 1, "never")

\* Variant with a bug: one retry too many.
ExhaustedLate(n, max) == n > max

Exhausted(n, max) == n >= max

\* After a failure: back off, or leave it to an admin.
AfterFailure(r, n, max) ==
    IF Exhausted(n + 1, max) THEN Released(r, "review", n + 1, "never")
                             ELSE Released(r, "pending", n + 1, "later")

ReleaseSuccess(w) ==
    LET d == worker[w].cur IN
    /\ worker[w].pc = "success"
    /\ rec' = [rec EXCEPT ![d] = AfterSuccess(@, worker[w].count)]
    /\ worker' = [worker EXCEPT ![w] = Rest(@, @.todo)]
    /\ UNCHANGED <<published, overtaken, manual, faults>>

\* The release throws inside the try: executeReplay takes the failure branch.
ReleaseSuccessFails(w) ==
    LET d == worker[w].cur IN
    /\ worker[w].pc = "success"
    /\ Fault
    /\ \/ UNCHANGED <<rec, overtaken>>
       \/ /\ rec' = [rec EXCEPT ![d] = AfterSuccess(@, worker[w].count)]
          /\ overtaken' = TRUE
    /\ worker' = [worker EXCEPT ![w].pc = "failure"]
    /\ UNCHANGED <<published, manual>>

ReleaseFailure(w) ==
    LET d == worker[w].cur IN
    /\ worker[w].pc = "failure"
    /\ rec' = [rec EXCEPT ![d] = AfterFailure(@, worker[w].count, BudgetOf(d))]
    /\ worker' = [worker EXCEPT ![w] = Rest(@, @.todo)]
    /\ UNCHANGED <<published, overtaken, manual, faults>>

ReleaseFailureFails(w) ==
    LET d == worker[w].cur IN
    /\ worker[w].pc = "failure"
    /\ Fault
    /\ rec' \in {rec, [rec EXCEPT ![d] = AfterFailure(@, worker[w].count, BudgetOf(d))]}
    /\ Abandon(w)
    /\ UNCHANGED <<published, overtaken, manual>>

Crash(w) ==
    /\ worker[w].pc # "idle"
    /\ Fault
    /\ worker' = [worker EXCEPT ![w] = Idle]
    /\ UNCHANGED <<rec, published, overtaken, manual>>

(***************************************************************************)
(* Cleanup, admins, time.                                                  *)
(***************************************************************************)

\* Variant with a bug: the cleanup forgets records without a next retry.
StaleAndScheduled(r) == r.status = "replaying" /\ r.lockedAt = "old" /\ r.next # "never"

\* The filter of releaseStaleLocks.
Stale(r) == r.status = "replaying" /\ r.lockedAt = "old"

\* releaseStaleLocks, one document of its updateMany.
ReleaseStaleLock(d) ==
    /\ Stale(rec[d])
    /\ rec' = [rec EXCEPT ![d] = Released(@, "pending", @.count, @.next)]
    /\ overtaken' = TRUE
    /\ UNCHANGED <<worker, published, manual, faults>>

\* updateStatusByAdmin: from any status but discarded; the lock stays.
Close(d, status) ==
    /\ rec[d].status \notin {"absent", "discarded"}
    /\ rec' = [rec EXCEPT ![d].status = status]
    /\ UNCHANGED <<worker, published, overtaken, manual, faults>>

Resolve(d) == Close(d, "resolved")
Discard(d) == Close(d, "discarded")

RetryTimeComes(d) ==
    /\ rec[d].next = "later"
    /\ rec' = [rec EXCEPT ![d].next = "due"]
    /\ UNCHANGED <<worker, published, overtaken, manual, faults>>

LockAges(d) ==
    /\ rec[d].lockedAt = "recent"
    /\ rec' = [rec EXCEPT ![d].lockedAt = "old"]
    /\ UNCHANGED <<worker, published, overtaken, manual, faults>>

-----------------------------------------------------------------------------
Step(w) == \/ \E d \in Records : Lock(w, d)
           \/ Produce(w) \/ ReleaseSuccess(w) \/ ReleaseFailure(w)

Failure(w) == \/ \E d \in Records : LockFails(w, d)
              \/ ProduceFails(w) \/ ReleaseSuccessFails(w)
              \/ ReleaseFailureFails(w) \/ Crash(w)

Next ==
    \/ \E w \in Workers : \/ Scan(w) \/ Step(w) \/ Failure(w)
                          \/ \E D \in SUBSET Records : Request(w, D)
    \/ \E d \in Records : \/ Ingest(d) \/ Resolve(d) \/ Discard(d)
                          \/ ReleaseStaleLock(d)
                          \/ RetryTimeComes(d) \/ LockAges(d)

\* Started executions go on, both crons keep firing, and time passes.
Fairness ==
    /\ \A w \in Workers : WF_vars(Step(w))
    /\ WF_vars(\E w \in Workers : Scan(w))
    /\ \A d \in Records : WF_vars(ReleaseStaleLock(d)) /\ WF_vars(LockAges(d))

Spec == Init /\ [][Next]_vars /\ Fairness

-----------------------------------------------------------------------------
(***************************************************************************)
(* Properties.                                                             *)
(***************************************************************************)

\* Types; a worker past its lock has a record in hand, any other has none.
TypeOK ==
    /\ rec \in [Records -> Record]
    /\ worker \in [Workers -> Worker]
    /\ published \in [Records -> Nat]
    /\ overtaken \in BOOLEAN
    /\ manual \in 0..MaxManual
    /\ faults \in 0..MaxFaults
    /\ \A w \in Workers :
           worker[w].cur # None <=> worker[w].pc \in {"produce", "success", "failure"}

\* The lock and the status say the same: a record is locked while it is being
\* replayed, and a locked record is being replayed unless an admin closed it
\* meanwhile.  A record that broke this could never be replayed again.
LockMatchesStatus ==
    \A d \in Records :
        /\ rec[d].status = "replaying" => rec[d].lockedBy # None
        /\ rec[d].lockedBy # None => rec[d].status \in {"replaying", "resolved", "discarded"}

\* A record that waits for an automatic retry has one left: although neither
\* findForReplay nor acquireLock compares the two, and overlapping replays
\* overwrite each other's counts, no schedule outlives the budget.
ScheduledWithinBudget ==
    \A d \in Records : rec[d].next # "never" => rec[d].count < BudgetOf(d)

\* No record is left where nobody can lock it, and none is scheduled that may
\* not be retried.
LocksAndBudgets == LockMatchesStatus /\ ScheduledWithinBudget

\* As long as no lock was overtaken (by the cleanup of stale locks, or by a
\* release that took effect and reported an error), a record is in the hands of
\* at most one worker, whatever admins and other replicas do.
ExclusiveReplay ==
    ~ overtaken => \A v, w \in Workers : worker[v].cur # None /\ worker[v].cur = worker[w].cur
                                         => v = w

\* As long as no lock was overtaken, retryCount accounts for every
\* publication of a record but the one its lock is held for, also when the
\* publication or the release reported an error and took effect.
PublicationsCounted ==
    ~ overtaken => \A d \in Records :
        published[d] <= rec[d].count + (IF rec[d].lockedBy # None THEN 1 ELSE 0)

\* Both together: what is published is published by one worker, and counted.
ReplaysCounted == ExclusiveReplay /\ PublicationsCounted

\* No record stays in replaying, whatever crashed while it held the lock.
ReplayingEnds ==
    \A d \in Records : rec[d].status = "replaying" ~> rec[d].status # "replaying"

RetryDue(r) == r.status = "pending" /\ r.next = "due"

\* A record whose retry is due, first or later, is retried, or an admin closes it.
DueIsRetried ==
    \A d \in Records : RetryDue(rec[d]) ~> ~ RetryDue(rec[d])

\* No record is stuck, neither locked nor due.
RecordsProgress == ReplayingEnds /\ DueIsRetried

-----------------------------------------------------------------------------
(***************************************************************************)
(* What the documentation says and the code does not do.                   *)
(***************************************************************************)

\* "discarded: not replayed again (terminal)": nothing changes that status.
DiscardedIsTerminal ==
    [][\A d \in Records : rec[d].status = "discarded" => rec'[d].status = "discarded"]_vars
=============================================================================
