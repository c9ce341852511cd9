----------------------------- MODULE EventConsumer -----------------------------
(***************************************************************************)
(* The notification service's Kafka consumer of one partition: the shared  *)
(* parse / retry / dead-letter loop, the claim an event needs before its   *)
(* handler may run (processed_events), and the handler that turns an event *)
(* into a notification and a realtime push.                                *)
(*                                                                         *)
(* Several pods run it; Kafka assigns the partition to one of them and     *)
(* redelivers from the committed offset when the assignment moves.  A      *)
(* command that exceeds its time limit is abandoned, not cancelled: it     *)
(* keeps running next to the attempt that replaces it.                     *)
(***************************************************************************)
EXTENDS Integers, Sequences, FiniteSets

CONSTANTS
    Pods,        \* replicas of the notification service
    Events,      \* event ids
    Kind,        \* what an event's payload is, see Kinds
    Log,         \* the partition: event ids; the outbox may publish one twice
    Attempts,    \* maxRetries + 1
    MayFail,     \* the kinds of fault that happen, a subset of Faults
    MaxFaults,   \* bound: how many faults happen
    None

\* good: handled.  garbled: not JSON.  misfit: JSON without the event's fields.
Kinds == {"good", "garbled", "misfit"}

\* A store call that fails (claim, any other, the release), a failed publish to
\* the dead letter topic, a command over its time limit, a pod that stops, a
\* partition taken away from a live pod.
Faults == {"claim", "store", "release", "park", "timeout", "crash", "rebalance"}

ASSUME ParametersAssumption ==
    /\ Kind \in [Events -> Kinds]
    /\ Log \in Seq(Events)
    /\ Attempts \in Nat \ {0}
    /\ MayFail \subseteq Faults
    /\ MaxFaults \in Nat
    /\ IsFiniteSet(Pods)
    /\ None \notin Pods \cup Events

VARIABLES
    committed,   \* the group's committed offset: Log[1..committed] is behind it
    owner,       \* the pod the partition is assigned to, or None
    pod,         \* the eachMessage loop of every pod
    cmd,         \* the command executions of every pod
    claims,      \* processed_events: none, held, lapsed (TTL over) or done
    notified,    \* events with a notification (unique on eventDedupeKey)
    pushes,      \* realtime pushes per event
    dlq,         \* offsets published to the dead letter topic
    faults,      \* faults so far, by kind
    budget       \* faults still to come

kafka == <<committed, owner>>
stores == <<claims, notified, pushes>>
mishaps == <<faults, budget>>
vars == <<kafka, pod, cmd, stores, dlq, mishaps>>

\* Bound: a pod runs the awaited command and at most one abandoned one.
Slots == {1, 2}

PodState == [pc : {"poll", "handle", "park"}, pos : 0..Len(Log),
             attempt : 0..Attempts, slot : Slots]

\* Where a command is; announce is mark with a notification it has just made.
CmdPcs == {"off", "claim", "reclaim", "insert", "mark", "announce", "push", "release"}

CmdState == [pc : CmdPcs, event : Events \cup {None}]

Off == [pc |-> "off", event |-> None]
Started(e) == [pc |-> "claim", event |-> e]

Init ==
    /\ committed = 0
    /\ owner = None
    /\ pod = [p \in Pods |-> [pc |-> "poll", pos |-> 0, attempt |-> 0, slot |-> 1]]
    /\ cmd = [p \in Pods |-> [k \in Slots |-> Off]]
    /\ claims = [e \in Events |-> "none"]
    /\ notified = {}
    /\ pushes = [e \in Events |-> 0]
    /\ dlq = {}
    /\ faults = [f \in Faults |-> 0]
    /\ budget = MaxFaults

Fault(f) == /\ f \in MayFail
            /\ budget > 0
            /\ budget' = budget - 1
            /\ faults' = [faults EXCEPT ![f] = @ + 1]

\* The event a pod is at.
Current(p) == Log[pod[p].pos + 1]

Other(k) == 3 - k
FreeSlot(p) == CHOOSE k \in Slots : cmd[p][k].pc = "off"
Awaited(p, k) == pod[p].pc = "handle" /\ pod[p].slot = k

\* The pod is through with its message.
Resolved(q) == [pc |-> "poll", pos |-> q.pos + 1, attempt |-> 0, slot |-> 1]

\* The pod is back where it was before the message.
Refetched(q) == [pc |-> "poll", pos |-> q.pos, attempt |-> 0, slot |-> 1]

\* Variants with a bug: one attempt too few, one too many.
MayRetryButLast(q) == q.attempt + 1 < Attempts
MayRetryOnceMore(q) == q.attempt <= Attempts

\* retryWithBackoff: is there an attempt left?
MayRetry(q) == q.attempt < Attempts

(***************************************************************************)
(* The pod: processKafkaConsumerMessage and the consumer group.            *)
(***************************************************************************)

\* Variant with a bug: a payload without the event's fields throws.
ReceivedOrThrown(q, kind, k) ==
    CASE kind = "good"    -> [q EXCEPT !.pc = "handle", !.attempt = 1, !.slot = k]
      [] kind = "garbled" -> [q EXCEPT !.pc = "park"]
      [] kind = "misfit"  -> q

\* What a message makes of the pod: it handles a good one, publishes an
\* unparseable one to the dead letter topic, and drops one that lacks fields.
Received(q, kind, k) ==
    CASE kind = "good"    -> [q EXCEPT !.pc = "handle", !.attempt = 1, !.slot = k]
      [] kind = "garbled" -> [q EXCEPT !.pc = "park"]
      [] kind = "misfit"  -> Resolved(q)

Poll(p) ==
    /\ owner = p
    /\ pod[p].pc = "poll"
    /\ pod[p].pos < Len(Log)
    /\ LET e == Current(p)
           k == FreeSlot(p)
       IN /\ pod' = [pod EXCEPT ![p] = Received(@, Kind[e], k)]
          /\ cmd' = IF Kind[e] = "good" THEN [cmd EXCEPT ![p][k] = Started(e)] ELSE cmd
    /\ UNCHANGED <<kafka, stores, dlq, mishaps>>

\* The awaited attempt failed: again, in slot k, or on to the dead letters.
\* `c' is what becomes of the pod's commands otherwise.
AttemptFailed(p, k, c) ==
    IF MayRetry(pod[p])
    THEN /\ pod' = [pod EXCEPT ![p].attempt = @ + 1, ![p].slot = k]
         /\ cmd' = [c EXCEPT ![p][k] = Started(Current(p))]
    ELSE /\ pod' = [pod EXCEPT ![p].pc = "park"]
         /\ cmd' = c

\* withCommandTimeout gives up on the command; the command goes on.
Timeout(p) ==
    /\ pod[p].pc = "handle"
    /\ cmd[p][Other(pod[p].slot)].pc = "off"
    /\ Fault("timeout")
    /\ AttemptFailed(p, Other(pod[p].slot), cmd)
    /\ UNCHANGED <<kafka, stores, dlq>>

\* publishToDlq; the message counts as processed.
Park(p) ==
    /\ pod[p].pc = "park"
    /\ dlq' = dlq \cup {pod[p].pos + 1}
    /\ pod' = [pod EXCEPT ![p] = Resolved(@)]
    /\ UNCHANGED <<kafka, cmd, stores, mishaps>>

\* publishToDlq throws out of eachMessage: the message is fetched again.
ParkFails(p) ==
    /\ pod[p].pc = "park"
    /\ Fault("park")
    /\ dlq' \in {dlq, dlq \cup {pod[p].pos + 1}}
    /\ pod' = [pod EXCEPT ![p] = Refetched(@)]
    /\ UNCHANGED <<kafka, cmd, stores>>

\* Auto-commit of what the owner has processed.
Commit(p) ==
    /\ owner = p
    /\ committed < pod[p].pos
    /\ committed' = pod[p].pos
    /\ UNCHANGED <<owner, pod, cmd, stores, dlq, mishaps>>

\* A pod joins with the partition free and starts at the committed offset.  It
\* joins between messages only.
Assign(p) ==
    /\ owner = None
    /\ pod[p].pc = "poll"
    /\ owner' = p
    /\ pod' = [pod EXCEPT ![p].pos = committed]
    /\ UNCHANGED <<committed, cmd, stores, dlq, mishaps>>

\* The owner loses the partition and finishes its message all the same.
Rebalance ==
    /\ owner # None
    /\ Fault("rebalance")
    /\ owner' = None
    /\ UNCHANGED <<committed, pod, cmd, stores, dlq>>

\* A pod dies with everything it was running, and restarts.
Crash(p) ==
    /\ Fault("crash")
    /\ owner' = IF owner = p THEN None ELSE owner
    /\ pod' = [pod EXCEPT ![p] = Refetched(@)]
    /\ cmd' = [cmd EXCEPT ![p] = [k \in Slots |-> Off]]
    /\ UNCHANGED <<committed, stores, dlq>>

(***************************************************************************)
(* The command: CreateNotificationHandler.execute and processed_events.    *)
(***************************************************************************)

\* The command ends.  Only the awaited one has somebody to tell.
Return(p, k) ==
    /\ cmd' = [cmd EXCEPT ![p][k] = Off]
    /\ pod' = IF Awaited(p, k) THEN [pod EXCEPT ![p] = Resolved(@)] ELSE pod

Throw(p, k) ==
    LET c == [cmd EXCEPT ![p][k] = Off] IN
    IF Awaited(p, k) THEN AttemptFailed(p, k, c) ELSE cmd' = c /\ UNCHANGED pod

Goto(p, k, label) == cmd' = [cmd EXCEPT ![p][k].pc = label] /\ UNCHANGED pod

Claimed(e) == [claims EXCEPT ![e] = "held"]

\* tryClaim, first write: the insert, refused if the event has a row.
Claim(p, k) ==
    LET e == cmd[p][k].event IN
    /\ cmd[p][k].pc = "claim"
    /\ IF claims[e] = "none"
       THEN claims' = Claimed(e) /\ Goto(p, k, "insert")
       ELSE Goto(p, k, "reclaim") /\ UNCHANGED claims
    /\ UNCHANGED <<kafka, notified, pushes, dlq, mishaps>>

\* tryClaim, second write: take over a lapsed claim.  Otherwise the event
\* counts as already processed, whoever holds the claim.
Reclaim(p, k) ==
    LET e == cmd[p][k].event IN
    /\ cmd[p][k].pc = "reclaim"
    /\ IF claims[e] = "lapsed"
       THEN claims' = Claimed(e) /\ Goto(p, k, "insert")
       ELSE Return(p, k) /\ UNCHANGED claims
    /\ UNCHANGED <<kafka, notified, pushes, dlq, mishaps>>

\* A write of tryClaim fails, with or without effect: outside the handler's try.
ClaimFails(p, k) ==
    LET e == cmd[p][k].event IN
    /\ \/ cmd[p][k].pc = "claim" /\ claims[e] = "none"
       \/ cmd[p][k].pc = "reclaim" /\ claims[e] = "lapsed"
    /\ Fault("claim")
    /\ claims' \in {claims, Claimed(e)}
    /\ Throw(p, k)
    /\ UNCHANGED <<kafka, notified, pushes, dlq>>

\* Variant with a bug: a duplicate insert is taken for a new notification.
AlwaysFresh(e) == TRUE

\* createForEventAsync's `created': no notification had the event's key.
Fresh(e) == e \notin notified

Insert(p, k) ==
    LET e == cmd[p][k].event IN
    /\ cmd[p][k].pc = "insert"
    /\ notified' = notified \cup {e}
    /\ Goto(p, k, IF Fresh(e) THEN "announce" ELSE "mark")
    /\ UNCHANGED <<kafka, claims, pushes, dlq, mishaps>>

\* markProcessed updates the event's row if there is one, whoever made it.
Marked(e) == IF claims[e] = "none" THEN claims ELSE [claims EXCEPT ![e] = "done"]

Mark(p, k) ==
    /\ \/ cmd[p][k].pc = "announce" /\ Goto(p, k, "push")
       \/ cmd[p][k].pc = "mark" /\ Return(p, k)
    /\ claims' = Marked(cmd[p][k].event)
    /\ UNCHANGED <<kafka, notified, pushes, dlq, mishaps>>

\* emitNotificationCreated
Push(p, k) ==
    /\ cmd[p][k].pc = "push"
    /\ pushes' = [pushes EXCEPT ![cmd[p][k].event] = @ + 1]
    /\ Return(p, k)
    /\ UNCHANGED <<kafka, claims, notified, dlq, mishaps>>

\* A store call inside the try fails, a write with or without effect.
StoreFails(p, k) ==
    LET e == cmd[p][k].event IN
    /\ \/ cmd[p][k].pc = "insert" /\ notified' \in {notified, notified \cup {e}}
                                  /\ UNCHANGED claims
       \/ cmd[p][k].pc \in {"mark", "announce"}
                                  /\ claims' \in {claims, Marked(e)} /\ UNCHANGED notified
       \/ cmd[p][k].pc = "push" /\ UNCHANGED <<claims, notified>>
    /\ Fault("store")
    /\ Goto(p, k, "release")
    /\ UNCHANGED <<kafka, pushes, dlq>>

\* Variants with a bug: the failed attempt keeps its claim, or counts the event
\* as processed.
NotReleased(e) == claims
ReleasedAsDone(e) == [claims EXCEPT ![e] = "done"]

\* releaseClaim deletes the event's row, whoever made it, unless it is done.
Released(e) == IF claims[e] = "done" THEN claims ELSE [claims EXCEPT ![e] = "none"]

Release(p, k) ==
    /\ cmd[p][k].pc = "release"
    /\ claims' = Released(cmd[p][k].event)
    /\ Throw(p, k)
    /\ UNCHANGED <<kafka, notified, pushes, dlq, mishaps>>

ReleaseFails(p, k) ==
    /\ cmd[p][k].pc = "release"
    /\ Fault("release")
    /\ claims' \in {claims, Released(cmd[p][k].event)}
    /\ Throw(p, k)
    /\ UNCHANGED <<kafka, notified, pushes, dlq>>

\* claimedUntil passes; or a processed row is dropped after seven days, which
\* outlast a command.
Lapse(e) ==
    /\ \/ claims[e] = "held"
       \/ claims[e] = "done" /\ \A p \in Pods : \A k \in Slots : cmd[p][k].event # e
    /\ claims' = [claims EXCEPT ![e] = IF @ = "held" THEN "lapsed" ELSE "none"]
    /\ UNCHANGED <<kafka, pod, cmd, notified, pushes, dlq, mishaps>>

-----------------------------------------------------------------------------
PodStep(p) == Poll(p) \/ Park(p) \/ Commit(p)

CmdStep(p, k) == Claim(p, k) \/ Reclaim(p, k) \/ Insert(p, k) \/ Mark(p, k)
                 \/ Push(p, k) \/ Release(p, k)

CmdFault(p, k) == ClaimFails(p, k) \/ StoreFails(p, k) \/ ReleaseFails(p, k)

Next ==
    \/ \E p \in Pods : \/ PodStep(p) \/ Assign(p)
                       \/ Timeout(p) \/ ParkFails(p) \/ Crash(p)
                       \/ \E k \in Slots : CmdStep(p, k) \/ CmdFault(p, k)
    \/ Rebalance
    \/ \E e \in Events : Lapse(e)

\* The event loop of a pod keeps running and its calls come back; a free
\* partition is assigned.  Faults and the passing of the claim's time are not
\* fair.
Fairness ==
    /\ \A p \in Pods : WF_vars(PodStep(p) \/ \E k \in Slots : CmdStep(p, k))
    /\ WF_vars(\E p \in Pods : Assign(p))

Spec == Init /\ [][Next]_vars /\ Fairness

-----------------------------------------------------------------------------
(***************************************************************************)
(* Properties.                                                             *)
(***************************************************************************)

\* Types; a handling pod awaits a running command for the event it is at.
TypeOK ==
    /\ committed \in 0..Len(Log)
    /\ owner \in Pods \cup {None}
    /\ pod \in [Pods -> PodState]
    /\ cmd \in [Pods -> [Slots -> CmdState]]
    /\ \A p \in Pods : pod[p].pc = "handle" =>
           /\ cmd[p][pod[p].slot].pc # "off"
           /\ cmd[p][pod[p].slot].event = Current(p)
    /\ claims \in [Events -> {"none", "held", "lapsed", "done"}]
    /\ notified \subseteq Events
    /\ pushes \in [Events -> Nat]
    /\ dlq \subseteq 1..Len(Log)
    /\ faults \in [Faults -> Nat]
    /\ budget \in 0..MaxFaults

\* A row that stops every later delivery for as long as it is there (done cannot
\* be claimed again) belongs to an event that has its notification, however many
\* executions claimed, lost and marked it.
ProcessedImpliesNotified ==
    \A e \in Events : claims[e] = "done" => e \in notified

\* However often an event is delivered and its handler retried or run twice at
\* once, its recipient sees at most one realtime push.
AtMostOnePush == \A e \in Events : pushes[e] <= 1

\* What a claim is for: one notification and one push, and no fewer.
NotifiedOnce == ProcessedImpliesNotified /\ AtMostOnePush

GoodOffsets == {i \in 1..Len(Log) : Kind[Log[i]] = "good"}

Handled(i) == Log[i] \in notified \/ i \in dlq

Harmless == \A f \in Faults \ {"store", "park"} : faults[f] = 0

\* Failing writes, and failing publishes to the dead letter topic, lose no
\* event: with no other fault, what is behind the committed offset was notified
\* or parked (the claim is released before every retry).
TransientFaultsLoseNothing ==
    Harmless => \A i \in GoodOffsets : i <= committed => Handled(i)

\* A good event is parked only after all its attempts failed, so it takes that
\* many failures for every parked event.
ParkedAfterAllAttempts ==
    Attempts * Cardinality(dlq \cap GoodOffsets)
        <= faults["claim"] + faults["store"] + faults["timeout"]

\* What becomes of an event whose handling fails: it is attempted again, parked
\* after the last attempt and not before, and lost by neither.
FailuresAreRetried == TransientFaultsLoseNothing /\ ParkedAfterAllAttempts

\* Once the faults stop every message is behind the committed offset: no
\* message, claim or dead pod blocks the partition.
EventuallyConsumed == <>[](committed = Len(Log))

-----------------------------------------------------------------------------
(***************************************************************************)
(* What the documentation says and the code does not do.                   *)
(***************************************************************************)

InProgress(e) == \E p \in Pods, k \in Slots : cmd[p][k].event = e

\* "A failed message is not dropped", and a pod that dies while it handles one
\* leaves it to another pod: when the whole partition is behind the committed
\* offset, every good event was notified or parked, or is still worked on.
CommittedIsHandled ==
    committed = Len(Log) => \A i \in GoodOffsets : Handled(i) \/ InProgress(Log[i])
=============================================================================
