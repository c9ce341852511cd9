------------------------------- MODULE AuthOutbox -------------------------------
(***************************************************************************)
(* The auth service's e-mail outbox: the table auth_outbox_events and the  *)
(* poll loop every replica runs over it (mark exhausted rows, reclaim      *)
(* stale claims, claim a batch, publish each event, mark it).              *)
(*                                                                         *)
(* A replica publishes its batch one event after the other, so a claim may *)
(* go stale before its turn comes; a replica that starts releases every    *)
(* claim, whoever holds it; and the marks are written by id alone.  What   *)
(* an overtaken replica still does is the subject of this module.          *)
(***************************************************************************)
EXTENDS Integers, FiniteSets

CONSTANTS
    Events,        \* rows of the outbox, e-mails to send
    Replicas,      \* replicas of the auth service
    MaxAttempts,   \* outbox.maxAttempts
    BatchSize,     \* outbox.batchSize
    MaxFaults,     \* bound: calls that fail or time out (not markFailed), replicas that stop
    None

ASSUME ParametersAssumption ==
    /\ IsFiniteSet(Events) /\ IsFiniteSet(Replicas)
    /\ MaxAttempts \in Nat \ {0}
    /\ BatchSize \in Nat \ {0}
    /\ MaxFaults \in Nat
    /\ None \notin Events

VARIABLES
    rows,          \* the events enqueued
    claimedAt,     \* of each row: no, fresh, or stale (over staleClaimThresholdMs)
    availableAt,   \* of each row: now, or later
    attemptCount,
    processedAt,   \* the rows that have one
    failedAt,      \* the rows that have one
    booting,       \* replicas whose start-up release has not happened
    pc,            \* of each replica: where its poll loop is
    pendingWake,   \* replicas with the flag set
    batch,         \* of each replica: what it claimed and has not begun
    job,           \* of each replica: what it is publishing or marking
    sent,          \* of each event: e-mails delivered
    late,          \* of each event: sendings nobody waits for any more
    overtaken,     \* history: events whose claim was released in a holder's hands
    faults         \* faults to come

marks == <<processedAt, failedAt>>
table == <<rows, claimedAt, availableAt, attemptCount, marks>>
loop == <<pc, pendingWake, batch, job>>
mail == <<sent, late>>
vars == <<table, booting, loop, mail, overtaken, faults>>

Jobs == [event : Events, attempt : Nat]
NoJob == [event |-> None, attempt |-> 0]

Init ==
    /\ rows = {}
    /\ claimedAt = [e \in Events |-> "no"]
    /\ availableAt = [e \in Events |-> "now"]
    /\ attemptCount = [e \in Events |-> 0]
    /\ processedAt = {}
    /\ failedAt = {}
    /\ booting = {}
    /\ pc = [r \in Replicas |-> "idle"]
    /\ pendingWake = {}
    /\ batch = [r \in Replicas |-> {}]
    /\ job = [r \in Replicas |-> NoJob]
    /\ sent = [e \in Events |-> 0]
    /\ late = [e \in Events |-> 0]
    /\ overtaken = {}
    /\ faults = MaxFaults

Fault == faults > 0 /\ faults' = faults - 1

InHand(r) == {j.event : j \in batch[r] \cup {job[r]}} \ {None}
Holders(e) == {r \in Replicas : e \in InHand(r)}

\* Variant with a bug: a processed row is looked at again.
OpenUnlessFailed == rows \ failedAt

\* Neither processed nor failed.
Open == rows \ (processedAt \cup failedAt)

(***************************************************************************)
(* The writes to the table.                                                *)
(***************************************************************************)

\* enqueueEvent
Enqueue(e) ==
    /\ e \notin rows
    /\ rows' = rows \cup {e}
    /\ UNCHANGED <<claimedAt, availableAt, attemptCount, marks, booting, loop, mail,
                   overtaken, faults>>

Exhausted(e) == attemptCount[e] >= MaxAttempts

\* markExhaustedClaims
FailExhausted ==
    LET E == {e \in Open : Exhausted(e)} IN
    /\ claimedAt' = [e \in Events |-> IF e \in E THEN "no" ELSE claimedAt[e]]
    /\ failedAt' = failedAt \cup E
    /\ UNCHANGED <<rows, availableAt, attemptCount, processedAt, overtaken>>

\* A claim of each row in E is taken back and the row is due at once.
ReleaseClaims(E) ==
    /\ claimedAt' = [e \in Events |-> IF e \in E THEN "no" ELSE claimedAt[e]]
    /\ availableAt' = [e \in Events |-> IF e \in E THEN "now" ELSE availableAt[e]]
    /\ overtaken' = overtaken \cup {e \in E : Holders(e) # {}}
    /\ UNCHANGED <<rows, attemptCount, marks>>

\* Variant with a bug: the claim of a first attempt does not come back.
ReclaimableRetried(e) == claimedAt[e] = "stale" /\ attemptCount[e] > 1

Reclaimable(e) == claimedAt[e] = "stale"

\* Variant with a bug: the claim is not looked at.
ClaimableAgain(e) == availableAt[e] = "now"

Claimable(e) == claimedAt[e] = "no" /\ availableAt[e] = "now"

\* Variant with a bug: attempts are not counted.
NotCounted(n) == n

Counted(n) == n + 1

\* claimPendingBatch.  Which of the claimable rows come first, and which are
\* skipped as locked, is left open.
Batches ==
    LET E == {e \in Open : Claimable(e)}
        n == Cardinality(E)
    IN {B \in SUBSET E : Cardinality(B) = IF n < BatchSize THEN n ELSE BatchSize}

ClaimRows(B) ==
    /\ claimedAt' = [e \in Events |-> IF e \in B THEN "fresh" ELSE claimedAt[e]]
    /\ attemptCount' = [e \in Events |-> IF e \in B THEN Counted(attemptCount[e])
                                         ELSE attemptCount[e]]
    /\ UNCHANGED <<rows, availableAt, marks, overtaken>>

\* What the claiming replica gets.
Claimed(B) == {[event |-> e, attempt |-> Counted(attemptCount[e])] : e \in B}

\* markProcessed, by id.
SetProcessed(e) ==
    /\ claimedAt' = [claimedAt EXCEPT ![e] = "no"]
    /\ processedAt' = processedAt \cup {e}
    /\ failedAt' = failedAt \ {e}
    /\ UNCHANGED <<rows, availableAt, attemptCount>>

\* Variant with a bug: gives up one attempt early.
PermanentEarly(n) == n + 1 >= MaxAttempts

Permanent(n) == n >= MaxAttempts

\* markFailed, by id: the row fails for good or is due again later.
SetFailed(j) ==
    /\ claimedAt' = [claimedAt EXCEPT ![j.event] = "no"]
    /\ IF Permanent(j.attempt)
       THEN failedAt' = failedAt \cup {j.event} /\ UNCHANGED availableAt
       ELSE /\ failedAt' = failedAt \ {j.event}
            /\ availableAt' = [availableAt EXCEPT ![j.event] = "later"]
    /\ UNCHANGED <<rows, attemptCount, processedAt>>

(***************************************************************************)
(* The poll loop: processPendingEvents and runOutboxPollCycle.             *)
(***************************************************************************)

Goto(r, label) == pc' = [pc EXCEPT ![r] = label] /\ UNCHANGED <<pendingWake, batch, job>>

\* The cycle is over: another if somebody asked for one meanwhile.
EndCycle(r) ==
    /\ pc' = [pc EXCEPT ![r] = IF r \in pendingWake THEN "exhaust" ELSE "idle"]
    /\ pendingWake' = pendingWake \ {r}
    /\ batch' = [batch EXCEPT ![r] = {}]
    /\ job' = [job EXCEPT ![r] = NoJob]

\* Variant with a bug: the event begun stays in the batch.
RestWith(b, j) == b

Rest(b, j) == b \ {j}

\* On with a batch, or with the end of the cycle.
Continue(r, b) ==
    \/ b = {} /\ EndCycle(r)
    \/ \E j \in b : /\ pc' = [pc EXCEPT ![r] = "publish"]
                    /\ batch' = [batch EXCEPT ![r] = Rest(b, j)]
                    /\ job' = [job EXCEPT ![r] = j]
                    /\ UNCHANGED pendingWake

\* processPendingEvents is called, by the timer or for an event just enqueued.
Wake(r) ==
    /\ \/ pc[r] = "idle" /\ Goto(r, "exhaust")
       \/ /\ pc[r] # "idle" /\ r \notin pendingWake
          /\ pendingWake' = pendingWake \cup {r}
          /\ UNCHANGED <<pc, batch, job>>
    /\ UNCHANGED <<table, booting, mail, overtaken, faults>>

\* bootstrapOutboxProcessing: the release (the timer may have fired before).
Boot(r) ==
    /\ r \in booting
    /\ booting' = booting \ {r}
    /\ ReleaseClaims({e \in Open : claimedAt[e] # "no"})
    /\ UNCHANGED <<loop, mail, faults>>

MarkExhausted(r) ==
    /\ pc[r] = "exhaust"
    /\ FailExhausted
    /\ Goto(r, "reclaim")
    /\ UNCHANGED <<booting, mail, faults>>

Reclaim(r) ==
    /\ pc[r] = "reclaim"
    /\ ReleaseClaims({e \in Open : Reclaimable(e)})
    /\ Goto(r, "claim")
    /\ UNCHANGED <<booting, mail, faults>>

Claim(r) ==
    /\ pc[r] = "claim"
    /\ \E B \in Batches : ClaimRows(B) /\ Continue(r, Claimed(B))
    /\ UNCHANGED <<booting, mail, faults>>

\* One of the three calls fails, with or without effect: the cycle is given up.
CycleFails(r) ==
    /\ \/ pc[r] = "exhaust" /\ FailExhausted
       \/ pc[r] = "reclaim" /\ ReleaseClaims({e \in Open : Reclaimable(e)})
       \/ pc[r] = "claim" /\ \E B \in Batches : ClaimRows(B)
       \/ pc[r] \in {"exhaust", "reclaim", "claim"} /\ UNCHANGED <<table, overtaken>>
    /\ Fault
    /\ EndCycle(r)
    /\ UNCHANGED <<booting, mail>>

Publish(r) ==
    /\ pc[r] = "publish"
    /\ sent' = [sent EXCEPT ![job[r].event] = @ + 1]
    /\ Goto(r, "processed")
    /\ UNCHANGED <<table, booting, late, overtaken, faults>>

\* Variant with a bug: an error counts as success.
OnErrorIgnored == "processed"

\* Where an error of publish or markProcessed leads.
OnError == "failed"

\* The provider refuses, or its answer is lost.
PublishFails(r) ==
    /\ pc[r] = "publish"
    /\ Fault
    /\ sent' \in {sent, [sent EXCEPT ![job[r].event] = @ + 1]}
    /\ Goto(r, OnError)
    /\ UNCHANGED <<table, booting, late, overtaken>>

\* withTimeout gives up on the sending; the sending goes on.
PublishTimesOut(r) ==
    /\ pc[r] = "publish"
    /\ Fault
    /\ late' = [late EXCEPT ![job[r].event] = @ + 1]
    /\ Goto(r, OnError)
    /\ UNCHANGED <<table, booting, sent, overtaken>>

\* A sending nobody waits for arrives or fails.
LateSettles(e) ==
    /\ late[e] > 0
    /\ late' = [late EXCEPT ![e] = @ - 1]
    /\ sent' \in {sent, [sent EXCEPT ![e] = @ + 1]}
    /\ UNCHANGED <<table, booting, loop, overtaken, faults>>

MarkProcessed(r) ==
    /\ pc[r] = "processed"
    /\ SetProcessed(job[r].event)
    /\ Continue(r, batch[r])
    /\ UNCHANGED <<booting, mail, overtaken, faults>>

\* The update fails, with or without effect: the event counts as failed.
MarkProcessedFails(r) ==
    /\ pc[r] = "processed"
    /\ Fault
    /\ SetProcessed(job[r].event) \/ UNCHANGED table
    /\ Goto(r, OnError)
    /\ UNCHANGED <<booting, mail, overtaken>>

MarkFailed(r) ==
    /\ pc[r] = "failed"
    /\ SetFailed(job[r])
    /\ Continue(r, batch[r])
    /\ UNCHANGED <<booting, mail, overtaken, faults>>

\* The update fails, with or without effect (safeMarkFailed): the row stays claimed.
\* It belongs to the fault that led here and is not counted again.
MarkFailedFails(r) ==
    /\ pc[r] = "failed"
    /\ SetFailed(job[r]) \/ UNCHANGED table
    /\ Continue(r, batch[r])
    /\ UNCHANGED <<booting, mail, overtaken, faults>>

\* A replica stops (or its start-up release fails, which ends the process) and
\* starts again; a sending under way may still arrive.
Stop(r) ==
    /\ Fault
    /\ booting' = booting \cup {r}
    /\ pc' = [pc EXCEPT ![r] = "idle"]
    /\ pendingWake' = pendingWake \ {r}
    /\ batch' = [batch EXCEPT ![r] = {}]
    /\ job' = [job EXCEPT ![r] = NoJob]
    /\ late' = IF pc[r] = "publish" THEN [late EXCEPT ![job[r].event] = @ + 1] ELSE late
    /\ UNCHANGED <<table, sent, overtaken>>

\* Time passes: a back-off ends, a claim goes stale.
Due(e) ==
    /\ availableAt[e] = "later"
    /\ availableAt' = [availableAt EXCEPT ![e] = "now"]
    /\ UNCHANGED <<rows, claimedAt, attemptCount, marks, booting, loop, mail, overtaken, faults>>

Stale(e) ==
    /\ claimedAt[e] = "fresh"
    /\ claimedAt' = [claimedAt EXCEPT ![e] = "stale"]
    /\ UNCHANGED <<rows, availableAt, attemptCount, marks, booting, loop, mail, overtaken, faults>>

-----------------------------------------------------------------------------
CycleStep(r) == \/ MarkExhausted(r) \/ Reclaim(r) \/ Claim(r)
                \/ Publish(r) \/ MarkProcessed(r) \/ MarkFailed(r)

CycleFault(r) == \/ CycleFails(r) \/ PublishFails(r) \/ PublishTimesOut(r)
                 \/ MarkProcessedFails(r) \/ MarkFailedFails(r)

Next ==
    \/ \E r \in Replicas : \/ Wake(r) \/ Boot(r) \/ CycleStep(r)
                           \/ CycleFault(r) \/ Stop(r)
    \/ \E e \in Events : Enqueue(e) \/ LateSettles(e) \/ Due(e) \/ Stale(e)

\* The timer fires, calls come back (a sending at the latest with its timeout)
\* and time passes.  Faults and new events are not fair.
Fairness ==
    /\ \A r \in Replicas : WF_vars(Wake(r)) /\ WF_vars(Boot(r)) /\ WF_vars(CycleStep(r))
    /\ \A e \in Events : WF_vars(Due(e)) /\ WF_vars(Stale(e))

Spec == Init /\ [][Next]_vars /\ Fairness

-----------------------------------------------------------------------------
(***************************************************************************)
(* Properties.                                                             *)
(***************************************************************************)

\* Types; a replica has a job exactly while it publishes or marks, what it began
\* has left its batch, and it knows no more attempts than the row counts.
TypeOK ==
    /\ rows \subseteq Events
    /\ claimedAt \in [Events -> {"no", "fresh", "stale"}]
    /\ availableAt \in [Events -> {"now", "later"}]
    /\ attemptCount \in [Events -> Nat]
    /\ processedAt \subseteq rows
    /\ failedAt \subseteq rows
    /\ booting \subseteq Replicas
    /\ pc \in [Replicas -> {"idle", "exhaust", "reclaim", "claim", "publish",
                            "processed", "failed"}]
    /\ pendingWake \subseteq {r \in Replicas : pc[r] # "idle"}
    /\ batch \in [Replicas -> SUBSET Jobs]
    /\ job \in [Replicas -> Jobs \cup {NoJob}]
    /\ \A r \in Replicas :
          /\ job[r] # NoJob <=> pc[r] \in {"publish", "processed", "failed"}
          /\ job[r] = NoJob => batch[r] = {}
          /\ job[r] \notin batch[r]
          /\ \A j \in batch[r] \cup {job[r]} :
                j # NoJob => j.event \in rows /\ j.attempt <= attemptCount[j.event]
    /\ sent \in [Events -> Nat]
    /\ late \in [Events -> Nat]
    /\ overtaken \subseteq rows
    /\ faults \in 0..MaxFaults

\* The replicas that have yet to send the e-mail.
ToSend(e) == {r \in Replicas :
                 \/ \E j \in batch[r] : j.event = e
                 \/ pc[r] = "publish" /\ job[r].event = e}

\* However claims are overtaken, released and retried, an e-mail goes out at most
\* once for every attempt the row has counted.
SendsWithinAttempts ==
    \A e \in Events : sent[e] + late[e] + Cardinality(ToSend(e)) <= attemptCount[e]

\* A row is marked processed only if its e-mail went out, whoever marked it.
ProcessedWasSent == \A e \in processedAt : sent[e] > 0

\* A row fails only after all its attempts, also when the replica that gives up
\* was overtaken or knows an older count.
FailedAfterAttempts == \A e \in failedAt : attemptCount[e] >= MaxAttempts

\* The row tells the truth: its attempts bound the sendings, it is processed only
\* when one went out and failed only when all attempts were made.
AttemptsHonoured == SendsWithinAttempts /\ ProcessedWasSent /\ FailedAfterAttempts

\* Unless its claim was released from under it, a replica is alone with an event.
OneHolder == \A e \in Events \ overtaken : Cardinality(Holders(e)) <= 1

\* An e-mail goes out twice only after a fault, or when a claim was released from
\* under its holder.
DuplicatesExplained ==
    faults = MaxFaults => \A e \in Events \ overtaken : sent[e] <= 1

\* What a claim is worth: one replica at a time, and so one e-mail.
ClaimsExclusive == OneHolder /\ DuplicatesExplained

\* No row stays open for ever: each ends processed or failed.
EventuallySettled == <>[](Open = {})
=============================================================================
