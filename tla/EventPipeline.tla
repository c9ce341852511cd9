---------------------------- MODULE EventPipeline ----------------------------
(***************************************************************************)
(* What becomes of an event on its way through Kafka: the consumer groups  *)
(* that read its topic, the dead-letter topic they park it in, the dlq     *)
(* service that keeps a record of every letter, and the replays that       *)
(* publish the event to its topic again, for every group.                  *)
(*                                                                         *)
(* EventConsumer and DlqRecords model the attempts a group makes at one    *)
(* message and the locking of a record in detail.  Here a message is       *)
(* handled in one step or not at all, and a replay is one step too; the    *)
(* question is whether the parts hand an event on without dropping it.     *)
(***************************************************************************)
EXTENDS Naturals, Sequences

CONSTANTS
  PipelineEvents,   \* domain events, published through an outbox
  Groups,           \* consumer groups of the topic: one per service
  Lenient,          \* those that start without their dead-letter producer if need be
  RetryBudget,      \* maxRetries of a letter that is retried automatically
  MaxLog,           \* bound on the messages of the topic
  MaxPipelineFaults \* bound on failing calls and on processes that stop

ASSUME PipelineAssumption ==
  /\ Lenient \subseteq Groups
  /\ RetryBudget \in Nat \ {0} /\ MaxLog \in Nat /\ MaxPipelineFaults \in Nat

VARIABLES
  log,            \* the topic's partition: the event of each message
  reader,         \* [at, pc] of each group: the offset committed and how far the
                  \* handling of the next message is
  producers,      \* groups whose dead-letter producer is connected
  entry,          \* the row of <<group, event>> in the group's processed events
  handled,        \* history: <<group, event>> whose handling once came to its end
  letters,        \* the dead-letter topic: [at, group]
  subscribed,     \* the dlq service has joined the dead-letter topic
  ingest,         \* the offset it has committed there
  letterRecords,  \* [status, left], one per failed message; "scheduled" is a pending
                  \* one with a next retry
  stranded,       \* history: records a clean-up made pending without a next retry
  gone,           \* history: <<group, message>> given up on the way to a record
  passedOver,     \* history: <<group, message>> committed for the claim of another
                  \* execution
  pipelineFaults

pipelineVars ==
  <<log, reader, producers, entry, handled, letters, subscribed, ingest, letterRecords,
    stranded, gone, passedOver, pipelineFaults>>

\* What the groups keep, and what the dlq service keeps.
groupVars == <<reader, producers, entry, handled, passedOver>>
dlqVars == <<subscribed, ingest, letterRecords, stranded>>

NoRecord == [status |-> "none", left |-> 0]

EventPipelineInit ==
  /\ log = <<>>
  /\ reader = [g \in Groups |-> [at |-> 0, pc |-> "idle"]]
  /\ producers = Groups
  /\ entry = [x \in Groups \X PipelineEvents |-> "none"]
  /\ handled = {} /\ passedOver = {}
  /\ letters = <<>>
  /\ subscribed = FALSE /\ ingest = 0
  /\ letterRecords = [k \in 1 .. MaxLog |-> NoRecord]
  /\ stranded = {}
  /\ gone = {}
  /\ pipelineFaults = 0

PipelineFault ==
  /\ pipelineFaults < MaxPipelineFaults
  /\ pipelineFaults' = pipelineFaults + 1

-----------------------------------------------------------------------------
(***************************************************************************)
(* The source topic and the groups that read it.                           *)
(***************************************************************************)

\* An outbox row reaches the topic.
PublishEvent(e) ==
  /\ Len(log) < MaxLog
  /\ \A k \in DOMAIN log : log[k] # e
  /\ log' = Append(log, e)
  /\ UNCHANGED <<groupVars, letters, dlqVars, gone, pipelineFaults>>

Reading(g, pc) == reader[g].pc = pc
ReadOn(g, pc) == reader' = [reader EXCEPT ![g].pc = pc]
NextMessage(g) == reader[g].at + 1

NextEvent(g) == <<g, log[NextMessage(g)]>>
MessageWaits(g) == Reading(g, "idle") /\ NextMessage(g) \in DOMAIN log
SetEntry(x, state) == entry' = [entry EXCEPT ![x] = state]

\* tryClaim finds no row, or one whose claim ran out; the handler does its work and
\* marks the event.
HandleMessage(g) ==
  /\ MessageWaits(g)
  /\ entry[NextEvent(g)] = "none"
  /\ SetEntry(NextEvent(g), "processed")
  /\ handled' = handled \cup {NextEvent(g)}
  /\ ReadOn(g, "commit")
  /\ UNCHANGED <<log, producers, passedOver, letters, dlqVars, gone, pipelineFaults>>

SkipProcessed(g) ==
  /\ MessageWaits(g)
  /\ entry[NextEvent(g)] = "processed"
  /\ ReadOn(g, "commit")
  /\ UNCHANGED <<log, producers, entry, handled, passedOver, letters, dlqVars, gone,
                 pipelineFaults>>

\* An event somebody else has claimed counts as processed too.
PassOver(g) ==
  /\ MessageWaits(g)
  /\ entry[NextEvent(g)] \in {"claimed", "abandoned"}
  /\ passedOver' = passedOver \cup {<<g, NextMessage(g)>>}
  /\ ReadOn(g, "commit")
  /\ UNCHANGED <<log, producers, entry, handled, letters, dlqVars, gone, pipelineFaults>>

\* All attempts fail, of a processed event too: before the claim, or after it with
\* the claim released again.
HandlingFails(g) ==
  /\ MessageWaits(g)
  /\ ReadOn(g, "park")
  /\ UNCHANGED <<log, producers, entry, handled, passedOver, letters, dlqVars, gone,
                 pipelineFaults>>

\* An attempt ends without its claim being released: the pod dies or the release
\* fails, or the command goes on by itself, over its time limit or on a pod that has
\* lost the partition. The message is attempted again.
ClaimStays(g, state) ==
  /\ MessageWaits(g)
  /\ entry[NextEvent(g)] = "none"
  /\ PipelineFault
  /\ SetEntry(NextEvent(g), state)
  /\ UNCHANGED <<log, reader, producers, handled, passedOver, letters, dlqVars, gone>>

\* A command that was given up on comes to its end, or fails and releases.
AbandonedEnds(x, done) ==
  /\ entry[x] = "abandoned"
  /\ SetEntry(x, IF done THEN "processed" ELSE "none")
  /\ handled' = IF done THEN handled \cup {x} ELSE handled
  /\ UNCHANGED <<log, reader, producers, passedOver, letters, dlqVars, gone, pipelineFaults>>

\* claimedUntil passes, or the time to live of a processed row. A claim outlasts the
\* command it is for.
EntryLapses(x) ==
  /\ entry[x] \in {"claimed", "processed"}
  /\ SetEntry(x, "none")
  /\ UNCHANGED <<log, reader, producers, handled, passedOver, letters, dlqVars, gone,
                 pipelineFaults>>

\* The envelope names the message by its offset.
ParkMessage(g) ==
  /\ Reading(g, "park") /\ g \in producers
  /\ letters' = Append(letters, [at |-> NextMessage(g), group |-> g])
  /\ ReadOn(g, "commit")
  /\ UNCHANGED <<log, producers, entry, handled, passedOver, dlqVars, gone, pipelineFaults>>

\* Variant with a bug: a letter that was not sent counts as sent.
ParkSwallowsError(g) ==
  /\ Reading(g, "park") /\ g \in producers
  /\ PipelineFault
  /\ ReadOn(g, "commit")
  /\ UNCHANGED <<log, producers, entry, handled, passedOver, letters, dlqVars, gone>>

\* The send throws, and so does eachMessage: the message will be fetched again.
ParkMessageFails(g) ==
  /\ Reading(g, "park") /\ g \in producers
  /\ PipelineFault
  /\ ReadOn(g, "idle")
  /\ UNCHANGED <<log, producers, entry, handled, passedOver, letters, dlqVars, gone>>

\* Without a producer the letter is skipped with a warning.
SkipLetter(g) ==
  /\ Reading(g, "park") /\ g \notin producers
  /\ gone' = gone \cup {<<g, NextMessage(g)>>}
  /\ ReadOn(g, "commit")
  /\ UNCHANGED <<log, producers, entry, handled, passedOver, letters, dlqVars, pipelineFaults>>

CommitMessage(g) ==
  /\ Reading(g, "commit")
  /\ reader' = [reader EXCEPT ![g] = [at |-> NextMessage(g), pc |-> "idle"]]
  /\ UNCHANGED <<log, producers, entry, handled, passedOver, letters, dlqVars, gone,
                 pipelineFaults>>

\* The pod dies, perhaps in the middle of a message, and its successor reads from
\* the offset that was committed; the claims it held stay. Its producer may fail to
\* connect: the pod is started again, or does without one.
ConsumerRestarts(g, connected) ==
  /\ connected \/ g \in Lenient
  /\ g \in producers => PipelineFault
  /\ g \notin producers => UNCHANGED pipelineFaults
  /\ ReadOn(g, "idle")
  /\ entry' = [x \in DOMAIN entry |->
                 IF x[1] = g /\ entry[x] = "abandoned" THEN "claimed" ELSE entry[x]]
  /\ producers' = IF connected THEN producers \cup {g} ELSE producers \ {g}
  /\ UNCHANGED <<log, handled, passedOver, letters, dlqVars, gone>>

-----------------------------------------------------------------------------
(***************************************************************************)
(* The dlq service.                                                        *)
(***************************************************************************)

\* fromBeginning: false. A group without a committed offset starts at the end.
Subscribe ==
  /\ ~subscribed
  /\ subscribed' = TRUE
  /\ ingest' = Len(letters)
  /\ gone' = gone \cup {<<letters[j].group, letters[j].at>> : j \in DOMAIN letters}
  /\ UNCHANGED <<log, groupVars, letters, letterRecords, stranded, pipelineFaults>>

LetterWaits == subscribed /\ ingest < Len(letters)
NextLetter == letters[ingest + 1]

PutRecord(k, status, left) ==
  letterRecords' = [letterRecords EXCEPT ![k] = [status |-> status, left |-> left]]

\* $setOnInsert on topic, partition and offset: whichever group's letter comes
\* first makes the record, and the others leave it as it is. The category of the
\* error decides whether it will be retried by itself.
RecordLetter(k, auto) ==
  IF letterRecords[k].status # "none" THEN UNCHANGED letterRecords
  ELSE IF auto THEN PutRecord(k, "scheduled", RetryBudget)
  ELSE PutRecord(k, "requires_manual_review", 0)

\* A replica that stops before its offset is committed takes the letter again.
IngestLetter(auto, commits) ==
  /\ LetterWaits
  /\ RecordLetter(NextLetter.at, auto)
  /\ ingest' = IF commits THEN ingest + 1 ELSE ingest
  /\ UNCHANGED <<log, groupVars, letters, subscribed, stranded, gone, pipelineFaults>>

\* The error is logged and the offset committed all the same.
IngestFails ==
  /\ LetterWaits
  /\ PipelineFault
  /\ gone' = gone \cup {<<NextLetter.group, NextLetter.at>>}
  /\ ingest' = ingest + 1
  /\ UNCHANGED <<log, groupVars, letters, subscribed, letterRecords, stranded>>

MayReplay(k, manual) ==
  \/ letterRecords[k].status = "scheduled"
  \/ manual /\ letterRecords[k].status \in {"pending", "requires_manual_review"}

\* The event goes to the end of the topic, with an offset of its own.
Republish(k) == Len(log) < MaxLog /\ log' = Append(log, log[k])

\* maxRetries - retryCount; below zero they tell no further cases apart.
LeftAfter(k) == IF letterRecords[k].left = 0 THEN 0 ELSE letterRecords[k].left - 1

\* executeReplay: after a publication nothing is due any more, whatever the
\* consumers will make of it.
ReplayLetter(k, manual) ==
  /\ MayReplay(k, manual)
  /\ Republish(k)
  /\ PutRecord(k, "pending", LeftAfter(k))
  /\ UNCHANGED <<groupVars, letters, subscribed, ingest, stranded, gone, pipelineFaults>>

\* Publishing fails, or the release after it: a failed attempt in either case.
ReplayFails(k, manual, published) ==
  /\ MayReplay(k, manual)
  /\ PipelineFault
  /\ IF published THEN Republish(k) ELSE UNCHANGED log
  /\ PutRecord(k, IF LeftAfter(k) = 0 THEN "requires_manual_review" ELSE "scheduled",
               LeftAfter(k))
  /\ UNCHANGED <<groupVars, letters, subscribed, ingest, stranded, gone>>

\* The replica dies, and the clean-up of stale locks makes the record pending: one
\* without a next retry is left for an admin to find.
ReplayInterrupted(k, manual, published) ==
  /\ MayReplay(k, manual)
  /\ PipelineFault
  /\ IF published THEN Republish(k) ELSE UNCHANGED log
  /\ IF letterRecords[k].status = "scheduled" THEN UNCHANGED <<letterRecords, stranded>>
     ELSE PutRecord(k, "pending", letterRecords[k].left) /\ stranded' = stranded \cup {k}
  /\ UNCHANGED <<groupVars, letters, subscribed, ingest, gone>>

\* An admin resolves or discards a record.
CloseLetter(k) ==
  /\ letterRecords[k].status \notin {"none", "closed"}
  /\ PutRecord(k, "closed", letterRecords[k].left)
  /\ UNCHANGED <<log, groupVars, letters, subscribed, ingest, stranded, gone, pipelineFaults>>

EventPipelineNext ==
  \/ \E e \in PipelineEvents : PublishEvent(e)
  \/ \E g \in Groups :
       \/ HandleMessage(g) \/ SkipProcessed(g) \/ PassOver(g)
       \/ HandlingFails(g) \/ ClaimStays(g, "claimed") \/ ClaimStays(g, "abandoned")
       \/ ParkMessage(g) \/ ParkMessageFails(g) \/ SkipLetter(g) \/ CommitMessage(g)
       \/ \E connected \in BOOLEAN : ConsumerRestarts(g, connected)
  \/ \E x \in Groups \X PipelineEvents :
       EntryLapses(x) \/ (\E done \in BOOLEAN : AbandonedEnds(x, done))
  \/ Subscribe \/ IngestFails
  \/ \E auto, commits \in BOOLEAN : IngestLetter(auto, commits)
  \/ \E k \in DOMAIN log :
       \/ \E manual \in BOOLEAN :
            \/ ReplayLetter(k, manual)
            \/ \E published \in BOOLEAN :
                 ReplayFails(k, manual, published) \/ ReplayInterrupted(k, manual, published)
       \/ CloseLetter(k)

EventPipelineSpec == EventPipelineInit /\ [][EventPipelineNext]_pipelineVars

-----------------------------------------------------------------------------
LetterStatuses == {"none", "scheduled", "pending", "requires_manual_review", "closed"}

\* Types; whatever is parked or given up names a message that is there.
EventPipelineTypeOK ==
  /\ log \in Seq(PipelineEvents) /\ Len(log) <= MaxLog
  /\ reader \in [Groups -> [at : 0 .. Len(log), pc : {"idle", "park", "commit"}]]
  /\ producers \in SUBSET Groups
  /\ entry \in [Groups \X PipelineEvents -> {"none", "claimed", "abandoned", "processed"}]
  /\ handled \in SUBSET (Groups \X PipelineEvents)
  /\ letters \in Seq([at : 1 .. Len(log), group : Groups])
  /\ subscribed \in BOOLEAN /\ ingest \in 0 .. Len(letters)
  /\ letterRecords \in [1 .. MaxLog -> [status : LetterStatuses, left : 0 .. RetryBudget]]
  /\ stranded \in SUBSET (1 .. Len(log))
  /\ gone \in SUBSET (Groups \X (1 .. Len(log)))
  /\ passedOver \in SUBSET (Groups \X (1 .. Len(log)))
  /\ pipelineFaults \in Nat

\* The record still asks for something: a retry of its own, or an admin.
Owed(k) == letterRecords[k].status \in {"scheduled", "requires_manual_review"}

\* The group's letter met a record that asks for nothing: closed by an admin, or
\* left behind by the clean-up of stale locks.
Absorbed(g, k) ==
  /\ letterRecords[k].status = "closed" \/ k \in stranded
  /\ \E j \in DOMAIN letters : letters[j].at = k /\ letters[j].group = g

SameEvent(k) == {i \in DOMAIN log : log[i] = log[k]}

\* "A broken message is not lost" (docs/nfrs.md): once a group's offset has passed it,
\* the group has handled its event, has it still ahead as a replay, has its letter
\* in the dead-letter topic, or somebody will look at a record of it; unless the
\* letter was given up without a producer, by a failed ingest or by a subscription
\* that came later, the record it met was closed or left behind, or the group took
\* it for processed because of a claim; and a claim is only met after a crash, a
\* timeout or a failed release.
EventsAccounted ==
  /\ \A g \in Groups : \A k \in 1 .. reader[g].at :
       \/ <<g, log[k]>> \in handled
       \/ \E i \in SameEvent(k) : i > reader[g].at
       \/ \E j \in DOMAIN letters :
            j > ingest /\ letters[j].group = g /\ letters[j].at \in SameEvent(k)
       \/ \E i \in SameEvent(k) :
            Owed(i) \/ <<g, i>> \in gone \cup passedOver \/ Absorbed(g, i)
  /\ passedOver # {} => pipelineFaults > 0
=============================================================================
