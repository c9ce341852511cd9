------------------------ MODULE EventPipeline_proofs ------------------------
(***************************************************************************)
(* For any number of events, consumer groups, replays and faults, no       *)
(* message is dropped on its way but in the ways EventsAccounted names.    *)
(*                                                                         *)
(* The property speaks of all messages that carry an event; the inductive  *)
(* invariant speaks of one message at a time.  A group that has passed a   *)
(* message handled it, gave it up, took it for processed because of a      *)
(* claim, or parked its letter (Passed); a letter that was taken has a     *)
(* record (Taken); a record that asks for nothing has a later message of   *)
(* the same event (Answered).  Following an event to its last message      *)
(* (LastMessage) joins the three.  A claim that is met was left by a fault *)
(* (ClaimsExplained).                                                      *)
(***************************************************************************)
EXTENDS EventPipeline, SequenceTheorems, TLAPS

Record == [status : LetterStatuses, left : 0 .. RetryBudget]
Letter == [at : 1 .. Len(log), group : Groups]
Entries == [Groups \X PipelineEvents -> {"none", "claimed", "abandoned", "processed"}]

\* Messages whose handling by the group has ended, their offset committed or not.
Done(g) == IF reader[g].pc = "commit" THEN reader[g].at + 1 ELSE reader[g].at

InHand == \A g \in Groups : reader[g].pc # "idle" => reader[g].at < Len(log)

HasLetter(g, k) == \E j \in 1 .. Len(letters) : letters[j].at = k /\ letters[j].group = g

Passed ==
  \A g \in Groups : \A k \in 1 .. Len(log) :
    k <= Done(g) =>
      <<g, log[k]>> \in handled \/ <<g, k>> \in gone \cup passedOver \/ HasLetter(g, k)

ClaimsExplained ==
  /\ passedOver # {} => pipelineFaults > 0
  /\ \A x \in Groups \X PipelineEvents :
       /\ entry[x] \in {"claimed", "abandoned"} => pipelineFaults > 0
       /\ entry[x] = "processed" => x \in handled

Taken ==
  \A j \in 1 .. Len(letters) : j <= ingest =>
    \/ <<letters[j].group, letters[j].at>> \in gone
    \/ letterRecords[letters[j].at].status # "none"

Later(k) == \E i \in 1 .. Len(log) : i > k /\ log[i] = log[k]

Answered ==
  \A k \in 1 .. Len(log) :
    letterRecords[k].status = "pending" => k \in stranded \/ Later(k)

NothingAhead ==
  \A k \in 1 .. MaxLog : letterRecords[k].status # "none" => k <= Len(log)

LastMessage ==
  \A k \in 1 .. Len(log) : \E m \in 1 .. Len(log) :
    log[m] = log[k] /\ \A i \in 1 .. Len(log) : log[i] = log[k] => i <= m

IInv ==
  /\ EventPipelineTypeOK /\ InHand
  /\ Passed /\ Taken /\ Answered /\ NothingAhead /\ LastMessage /\ ClaimsExplained

-----------------------------------------------------------------------------
\* The messages of an event by their last: what the group did with that one
\* accounts for all of them.
LEMMA Accounted == IInv => EventsAccounted
<1>0. IInv => (passedOver # {} => pipelineFaults > 0)
  BY DEF IInv, ClaimsExplained
<1> SUFFICES ASSUME IInv, NEW g \in Groups, NEW k \in 1 .. reader[g].at
             PROVE  \/ <<g, log[k]>> \in handled
                    \/ \E i \in SameEvent(k) : i > reader[g].at
                    \/ \E j \in DOMAIN letters :
                         j > ingest /\ letters[j].group = g /\ letters[j].at \in SameEvent(k)
                    \/ \E i \in SameEvent(k) :
                         Owed(i) \/ <<g, i>> \in gone \cup passedOver \/ Absorbed(g, i)
  BY <1>0 DEF EventsAccounted
<1>1. log \in Seq(PipelineEvents) /\ letters \in Seq(Letter)
  BY DEF IInv, EventPipelineTypeOK, Letter
<1>2. Len(log) \in Nat /\ DOMAIN log = 1 .. Len(log) /\ DOMAIN letters = 1 .. Len(letters)
  BY <1>1
<1>3. reader[g].at \in 0 .. Len(log)
  BY DEF IInv, EventPipelineTypeOK
<1>4. k \in 1 .. Len(log)
  BY <1>2, <1>3
<1>5. PICK m \in 1 .. Len(log) : log[m] = log[k] /\ \A i \in 1 .. Len(log) : log[i] = log[k] => i <= m
  BY <1>4 DEF IInv, LastMessage
<1>6. m \in SameEvent(k)
  BY <1>2, <1>5 DEF SameEvent
<1>7. CASE m > reader[g].at
  BY <1>6, <1>7
<1>8. CASE m <= reader[g].at
  <2>1. m <= Done(g)
    BY <1>3, <1>8 DEF Done
  <2>2. <<g, log[m]>> \in handled \/ <<g, m>> \in gone \cup passedOver \/ HasLetter(g, m)
    BY <2>1 DEF IInv, Passed
  <2>3. CASE <<g, log[m]>> \in handled
    BY <2>3, <1>5
  <2>4. CASE <<g, m>> \in gone \cup passedOver
    BY <2>4, <1>6
  <2>5. CASE HasLetter(g, m)
    <3>1. PICK j \in 1 .. Len(letters) : letters[j].at = m /\ letters[j].group = g
      BY <2>5 DEF HasLetter
    <3>2. ingest \in Nat /\ j \in Nat
      BY <1>1 DEF IInv, EventPipelineTypeOK
    <3>3. CASE j > ingest
      BY <3>1, <3>3, <1>2, <1>6
    <3>4. CASE j <= ingest
      <4>1. <<g, m>> \in gone \/ letterRecords[m].status # "none"
        BY <3>1, <3>4 DEF IInv, Taken
      <4>2. ~ Later(m)
        BY <1>2, <1>5 DEF Later
      <4>3. letterRecords[m].status = "pending" => m \in stranded
        BY <4>2 DEF IInv, Answered
      <4>4. letterRecords[m].status \in LetterStatuses
        <5>1. m \in 1 .. MaxLog
          BY <1>2, PipelineAssumption DEF IInv, EventPipelineTypeOK
        <5> QED BY <5>1 DEF IInv, EventPipelineTypeOK
      <4>5. <<g, m>> \in gone \/ Owed(m) \/ letterRecords[m].status = "closed" \/ m \in stranded
        BY <4>1, <4>3, <4>4 DEF Owed, LetterStatuses
      <4>6. letterRecords[m].status = "closed" \/ m \in stranded => Absorbed(g, m)
        BY <3>1, <1>2 DEF Absorbed
      <4> QED BY <4>5, <4>6, <1>6
    <3> QED BY <3>2, <3>3, <3>4
  <2> QED BY <2>2, <2>3, <2>4, <2>5
<1>9. m > reader[g].at \/ m <= reader[g].at
  BY <1>3, <1>5
<1> QED BY <1>7, <1>8, <1>9

LEMMA PipelineInitially == EventPipelineInit => IInv
<1> SUFFICES ASSUME EventPipelineInit PROVE IInv
  OBVIOUS
<1> USE PipelineAssumption DEF EventPipelineInit
<1>1. Len(log) = 0 /\ Len(letters) = 0 /\ log \in Seq(PipelineEvents) /\ letters \in Seq(Letter)
  OBVIOUS
<1>2. reader \in [Groups -> [at : 0 .. Len(log), pc : {"idle", "park", "commit"}]]
  BY <1>1
<1>3. letterRecords \in [1 .. MaxLog -> Record]
  BY DEF Record, NoRecord, LetterStatuses
<1>4. EventPipelineTypeOK
  <2>1. /\ producers \in SUBSET Groups /\ handled \in SUBSET (Groups \X PipelineEvents)
        /\ stranded \in SUBSET (1 .. Len(log)) /\ gone \in SUBSET (Groups \X (1 .. Len(log)))
        /\ passedOver \in SUBSET (Groups \X (1 .. Len(log))) /\ entry \in Entries
    BY DEF Entries
  <2>2. ingest \in 0 .. Len(letters) /\ Len(log) <= MaxLog /\ pipelineFaults \in Nat
    BY <1>1
  <2>3. subscribed \in BOOLEAN
    OBVIOUS
  <2>4. letters \in Seq([at : 1 .. Len(log), group : Groups])
    BY <1>1 DEF Letter
  <2> QED BY <1>1, <1>2, <1>3, <2>1, <2>2, <2>3, <2>4
           DEF EventPipelineTypeOK, Record, Entries
<1>5. InHand /\ Passed /\ Taken /\ Answered /\ NothingAhead /\ LastMessage
  BY <1>1 DEF InHand, Passed, Taken, Answered, NothingAhead, NoRecord, LastMessage
<1>6. ClaimsExplained
  BY DEF ClaimsExplained
<1> QED BY <1>4, <1>5, <1>6 DEF IInv

-----------------------------------------------------------------------------
\* The writes the actions are made of.

LEMMA LetterAt ==
  ASSUME IInv, NEW j \in 1 .. Len(letters)
  PROVE  letters[j].at \in 1 .. Len(log) /\ letters[j].group \in Groups
<1>1. letters \in Seq(Letter)
  BY DEF IInv, EventPipelineTypeOK, Letter
<1>2. letters[j] \in Letter
  BY <1>1
<1> QED BY <1>2 DEF Letter

LEMMA ReaderMoves ==
  ASSUME IInv, NEW g \in Groups, NEW a \in 0 .. Len(log), NEW pc \in {"idle", "park", "commit"},
         reader' = [reader EXCEPT ![g] = [at |-> a, pc |-> pc]], UNCHANGED log
  PROVE  /\ reader' \in [Groups -> [at : 0 .. Len(log), pc : {"idle", "park", "commit"}]]'
         /\ reader'[g].at = a /\ reader'[g].pc = pc
         /\ \A h \in Groups : h # g => reader'[h] = reader[h]
BY DEF IInv, EventPipelineTypeOK

LEMMA ReadingOn ==
  ASSUME IInv, NEW g \in Groups, NEW pc \in {"idle", "park", "commit"},
         ReadOn(g, pc), UNCHANGED log
  PROVE  /\ reader' \in [Groups -> [at : 0 .. Len(log), pc : {"idle", "park", "commit"}]]'
         /\ reader'[g].at = reader[g].at /\ reader'[g].pc = pc
         /\ \A h \in Groups : h # g => reader'[h] = reader[h]
BY DEF IInv, EventPipelineTypeOK, ReadOn

LEMMA RecordPut ==
  ASSUME IInv, NEW k \in 1 .. Len(log), NEW status \in LetterStatuses,
         NEW left \in 0 .. RetryBudget, PutRecord(k, status, left)
  PROVE  /\ letterRecords' \in [1 .. MaxLog -> Record]
         /\ letterRecords'[k].status = status
         /\ \A i \in 1 .. Len(log) : i # k => letterRecords'[i] = letterRecords[i]
<1>1. 1 .. Len(log) \subseteq 1 .. MaxLog
  BY PipelineAssumption DEF IInv, EventPipelineTypeOK
<1>2. letterRecords \in [1 .. MaxLog -> Record]
  BY DEF IInv, EventPipelineTypeOK, Record
<1>3. [status |-> status, left |-> left] \in Record
  BY DEF Record
<1> QED BY <1>1, <1>2, <1>3 DEF PutRecord

LEMMA LogGrows ==
  ASSUME IInv, NEW e \in PipelineEvents, Len(log) < MaxLog, log' = Append(log, e)
  PROVE  /\ log' \in Seq(PipelineEvents) /\ Len(log') <= MaxLog
         /\ Len(log') = Len(log) + 1 /\ Len(log) \in Nat
         /\ log'[Len(log) + 1] = e
         /\ \A i \in 1 .. Len(log) : log'[i] = log[i]
         /\ LastMessage'
<1>1. log \in Seq(PipelineEvents) /\ MaxLog \in Nat
  BY PipelineAssumption DEF IInv, EventPipelineTypeOK
<1>2. /\ log' \in Seq(PipelineEvents) /\ Len(log') <= MaxLog
      /\ Len(log') = Len(log) + 1 /\ Len(log) \in Nat
      /\ log'[Len(log) + 1] = e
      /\ \A i \in 1 .. Len(log) : log'[i] = log[i]
  BY <1>1
<1>3. ASSUME NEW k \in 1 .. Len(log')
      PROVE  \E m \in 1 .. Len(log') :
               log'[m] = log'[k] /\ \A i \in 1 .. Len(log') : log'[i] = log'[k] => i <= m
  <2>1. CASE log'[k] = e
    BY <1>2, <2>1
  <2>2. CASE log'[k] # e
    <3>1. k \in 1 .. Len(log) /\ log[k] = log'[k]
      BY <1>2, <2>2
    <3>2. PICK m \in 1 .. Len(log) :
            log[m] = log[k] /\ \A i \in 1 .. Len(log) : log[i] = log[k] => i <= m
      BY <3>1 DEF IInv, LastMessage
    <3>3. m \in 1 .. Len(log') /\ log'[m] = log'[k]
      BY <1>2, <3>1, <3>2
    <3>4. ASSUME NEW i \in 1 .. Len(log'), log'[i] = log'[k] PROVE i <= m
      <4>1. i \in 1 .. Len(log) /\ log[i] = log[k]
        BY <1>2, <2>2, <3>1, <3>4
      <4> QED BY <4>1, <3>2
    <3> QED BY <3>3, <3>4
  <2> QED BY <2>1, <2>2
<1> QED BY <1>2, <1>3 DEF LastMessage

\* A longer topic, the groups and the dead-letter topic being as they were.
LEMMA Republished ==
  ASSUME IInv, NEW e \in PipelineEvents, Len(log) < MaxLog, log' = Append(log, e),
         UNCHANGED <<groupVars, letters, ingest, subscribed, gone>>
  PROVE  /\ log' \in Seq(PipelineEvents) /\ Len(log') <= MaxLog
         /\ reader' \in [Groups -> [at : 0 .. Len(log'), pc : {"idle", "park", "commit"}]]
         /\ producers' \in SUBSET Groups
         /\ handled' \in SUBSET (Groups \X PipelineEvents)
         /\ letters' \in Seq([at : 1 .. Len(log'), group : Groups])
         /\ subscribed' \in BOOLEAN /\ ingest' \in 0 .. Len(letters')
         /\ gone' \in SUBSET (Groups \X (1 .. Len(log')))
         /\ passedOver' \in SUBSET (Groups \X (1 .. Len(log'))) /\ entry' \in Entries
         /\ InHand' /\ Passed' /\ LastMessage'
<1> USE DEF groupVars
<1>1. /\ log' \in Seq(PipelineEvents) /\ Len(log') <= MaxLog
      /\ Len(log') = Len(log) + 1 /\ Len(log) \in Nat
      /\ \A i \in 1 .. Len(log) : log'[i] = log[i]
      /\ LastMessage'
  BY LogGrows
<1>2. reader \in [Groups -> [at : 0 .. Len(log), pc : {"idle", "park", "commit"}]]
  BY DEF IInv, EventPipelineTypeOK
<1>3. reader' \in [Groups -> [at : 0 .. Len(log'), pc : {"idle", "park", "commit"}]]
  BY <1>1, <1>2
<1>4. letters' \in Seq([at : 1 .. Len(log'), group : Groups])
  <2> DEFINE S == [at : 1 .. Len(log), group : Groups]
             T == [at : 1 .. Len(log'), group : Groups]
  <2>1. letters \in Seq(S)
    BY DEF IInv, EventPipelineTypeOK
  <2>2. S \subseteq T
    BY <1>1
  <2> HIDE DEF S, T
  <2>3. letters \in Seq(T)
    BY <2>1, <2>2, SeqMonotonic
  <2>4. letters' = letters
    OBVIOUS
  <2> QED BY <2>3, <2>4 DEF T
<1>5. InHand'
  BY <1>1, <1>2 DEF IInv, InHand
<1>6. Passed'
  <2> SUFFICES ASSUME NEW g \in Groups, NEW k \in 1 .. Len(log'), (k <= Done(g))'
               PROVE  (\/ <<g, log[k]>> \in handled \/ <<g, k>> \in gone \cup passedOver
                       \/ HasLetter(g, k))'
    BY DEF Passed
  <2>1. Done(g) <= Len(log) /\ Done(g)' = Done(g)
    BY <1>1, <1>2 DEF Done, IInv, InHand
  <2>2. k \in 1 .. Len(log) /\ k <= Done(g)
    BY <1>1, <1>2, <2>1 DEF Done
  <2>3. <<g, log[k]>> \in handled \/ <<g, k>> \in gone \cup passedOver \/ HasLetter(g, k)
    BY <2>2 DEF IInv, Passed
  <2> QED BY <2>2, <2>3, <1>1 DEF HasLetter
<1>7. /\ gone' \in SUBSET (Groups \X (1 .. Len(log')))
      /\ passedOver' \in SUBSET (Groups \X (1 .. Len(log')))
  BY <1>1 DEF IInv, EventPipelineTypeOK
<1>8. /\ producers' \in SUBSET Groups
      /\ handled' \in SUBSET (Groups \X PipelineEvents)
      /\ subscribed' \in BOOLEAN /\ ingest' \in 0 .. Len(letters')
      /\ entry' \in Entries
  BY DEF IInv, EventPipelineTypeOK, Entries
<1> QED BY <1>1, <1>3, <1>4, <1>5, <1>6, <1>7, <1>8

-----------------------------------------------------------------------------
\* Steps of a consumer group.

\* What a group newly ends it has handled, given up or parked.
LEMMA Passing ==
  ASSUME IInv, NEW g \in Groups, UNCHANGED log,
         \A h \in Groups : h # g => reader'[h] = reader[h],
         handled \subseteq handled', gone \subseteq gone', passedOver \subseteq passedOver',
         \A h \in Groups, k \in 1 .. Len(log) : HasLetter(h, k) => HasLetter(h, k)',
         \A k \in 1 .. Len(log) : (k <= Done(g))' =>
           \/ k <= Done(g)
           \/ <<g, log[k]>> \in handled' \/ <<g, k>> \in gone' \cup passedOver'
           \/ HasLetter(g, k)'
  PROVE  Passed'
<1> SUFFICES ASSUME NEW h \in Groups, NEW k \in 1 .. Len(log), (k <= Done(h))'
             PROVE  (\/ <<h, log[k]>> \in handled \/ <<h, k>> \in gone \cup passedOver
                     \/ HasLetter(h, k))'
  BY DEF Passed
<1>1. CASE k <= Done(h)
  BY <1>1 DEF IInv, Passed
<1>2. CASE ~ (k <= Done(h))
  <2>1. h = g
    BY <1>2 DEF Done
  <2> QED BY <2>1, <1>2
<1> QED BY <1>1, <1>2

\* The reader of one group moves and nothing else does but the sets it adds to.
LEMMA GroupStep ==
  ASSUME IInv, UNCHANGED <<log, letters, dlqVars>>,
         reader' \in [Groups -> [at : 0 .. Len(log), pc : {"idle", "park", "commit"}]],
         InHand', Passed',
         producers' \in SUBSET Groups,
         handled' \in SUBSET (Groups \X PipelineEvents),
         gone \subseteq gone', gone' \in SUBSET (Groups \X (1 .. Len(log))),
         passedOver' \in SUBSET (Groups \X (1 .. Len(log))), entry' \in Entries,
         ClaimsExplained', pipelineFaults' \in Nat
  PROVE  IInv'
<1> USE DEF dlqVars, Entries
<1>1. EventPipelineTypeOK'
  BY DEF IInv, EventPipelineTypeOK
<1>2. Taken'
  BY DEF IInv, Taken
<1>3. Answered' /\ NothingAhead' /\ LastMessage'
  BY DEF IInv, Answered, Later, NothingAhead, LastMessage
<1> QED BY <1>1, <1>2, <1>3 DEF IInv

LEMMA FaultCounted ==
  ASSUME IInv, PipelineFault
  PROVE  pipelineFaults' \in Nat /\ pipelineFaults' > 0
BY DEF IInv, EventPipelineTypeOK, PipelineFault

\* Faults are only ever added to, so claims that stay as they are stay explained.
LEMMA ClaimsKept ==
  ASSUME IInv, UNCHANGED <<entry, passedOver>>, handled \subseteq handled',
         UNCHANGED pipelineFaults \/ PipelineFault
  PROVE  /\ ClaimsExplained' /\ pipelineFaults' \in Nat
         /\ passedOver' \in SUBSET (Groups \X (1 .. Len(log))) /\ entry' \in Entries
BY FaultCounted DEF IInv, EventPipelineTypeOK, ClaimsExplained, Entries

\* One entry is written, perhaps by a fault.
LEMMA EntrySet ==
  ASSUME IInv, NEW x \in Groups \X PipelineEvents,
         NEW state \in {"none", "claimed", "abandoned", "processed"}, SetEntry(x, state),
         UNCHANGED passedOver, handled \subseteq handled',
         state = "processed" => x \in handled',
         \/ PipelineFault
         \/ UNCHANGED pipelineFaults /\ state \in {"none", "processed"}
  PROVE  /\ ClaimsExplained' /\ pipelineFaults' \in Nat
         /\ passedOver' \in SUBSET (Groups \X (1 .. Len(log))) /\ entry' \in Entries
<1>1. entry \in Entries
  BY DEF IInv, EventPipelineTypeOK, Entries
<1>2. entry' \in Entries /\ \A y \in Groups \X PipelineEvents : y # x => entry'[y] = entry[y]
  BY <1>1 DEF Entries, SetEntry
<1>3. entry'[x] = state
  BY <1>1 DEF Entries, SetEntry
<1>4. pipelineFaults' \in Nat /\ passedOver' \in SUBSET (Groups \X (1 .. Len(log)))
  BY FaultCounted DEF IInv, EventPipelineTypeOK
<1>5. ClaimsExplained'
  BY <1>2, <1>3, FaultCounted DEF IInv, ClaimsExplained
<1> QED BY <1>2, <1>4, <1>5

\* What waits for a group names a message of the topic, and an event.
LEMMA Waiting ==
  ASSUME IInv, NEW g \in Groups, MessageWaits(g)
  PROVE  /\ NextMessage(g) \in 1 .. Len(log) /\ NextMessage(g) = reader[g].at + 1
         /\ reader[g].at \in 0 .. Len(log) /\ Len(log) \in Nat /\ reader[g].pc = "idle"
         /\ NextEvent(g) = <<g, log[NextMessage(g)]>>
         /\ NextEvent(g) \in Groups \X PipelineEvents
<1>1. log \in Seq(PipelineEvents) /\ reader[g].at \in 0 .. Len(log)
  BY DEF IInv, EventPipelineTypeOK
<1>2. NextMessage(g) \in 1 .. Len(log)
  BY <1>1 DEF MessageWaits
<1> QED BY <1>1, <1>2 DEF MessageWaits, Reading, NextEvent, NextMessage

\* A message that waits is given up, parked or handled: the next step of its reader.
LEMMA WaitingEnds ==
  ASSUME IInv, NEW g \in Groups, MessageWaits(g), NEW pc \in {"park", "commit"},
         ReadOn(g, pc), UNCHANGED <<log, letters>>,
         handled \subseteq handled', gone \subseteq gone', passedOver \subseteq passedOver',
         pc = "commit" => \/ NextEvent(g) \in handled'
                          \/ <<g, NextMessage(g)>> \in passedOver'
  PROVE  /\ reader' \in [Groups -> [at : 0 .. Len(log), pc : {"idle", "park", "commit"}]]
         /\ InHand' /\ Passed'
<1>1. /\ NextMessage(g) \in 1 .. Len(log) /\ NextMessage(g) = reader[g].at + 1
      /\ reader[g].at \in 0 .. Len(log) /\ Len(log) \in Nat /\ reader[g].pc = "idle"
      /\ NextEvent(g) = <<g, log[NextMessage(g)]>>
  BY Waiting
<1>2. /\ reader' \in [Groups -> [at : 0 .. Len(log), pc : {"idle", "park", "commit"}]]
      /\ reader'[g].at = reader[g].at /\ reader'[g].pc = pc
      /\ \A h \in Groups : h # g => reader'[h] = reader[h]
  BY ReadingOn
<1>3. InHand'
  BY <1>1, <1>2 DEF IInv, InHand
<1>4. \A k \in 1 .. Len(log) : (k <= Done(g))' =>
        k <= Done(g) \/ (pc = "commit" /\ k = NextMessage(g))
  BY <1>1, <1>2 DEF Done
<1>5. \A k \in 1 .. Len(log) : (k <= Done(g))' =>
        \/ k <= Done(g)
        \/ <<g, log[k]>> \in handled' \/ <<g, k>> \in gone' \cup passedOver'
        \/ HasLetter(g, k)'
  BY <1>1, <1>4
<1>6. \A h \in Groups, k \in 1 .. Len(log) : HasLetter(h, k) => HasLetter(h, k)'
  BY DEF HasLetter
<1> QED BY <1>2, <1>3, <1>5, <1>6, Passing

LEMMA HandleMessageStep ==
  ASSUME IInv, NEW g \in Groups, HandleMessage(g)
  PROVE  IInv'
<1> USE DEF HandleMessage
<1>1. NextEvent(g) \in Groups \X PipelineEvents
  BY Waiting
<1>2. /\ reader' \in [Groups -> [at : 0 .. Len(log), pc : {"idle", "park", "commit"}]]
      /\ InHand' /\ Passed'
  BY WaitingEnds
<1>3. /\ ClaimsExplained' /\ pipelineFaults' \in Nat
      /\ passedOver' \in SUBSET (Groups \X (1 .. Len(log))) /\ entry' \in Entries
  BY <1>1, EntrySet
<1>4. /\ producers' \in SUBSET Groups /\ handled' \in SUBSET (Groups \X PipelineEvents)
      /\ gone \subseteq gone' /\ gone' \in SUBSET (Groups \X (1 .. Len(log)))
  BY <1>1 DEF IInv, EventPipelineTypeOK
<1> QED BY <1>2, <1>3, <1>4, GroupStep

\* A row that says processed was met after the handling came to its end.
LEMMA SkipProcessedStep ==
  ASSUME IInv, NEW g \in Groups, SkipProcessed(g)
  PROVE  IInv'
<1> USE DEF SkipProcessed
<1>1. NextEvent(g) \in handled
  BY Waiting DEF IInv, ClaimsExplained
<1>2. /\ reader' \in [Groups -> [at : 0 .. Len(log), pc : {"idle", "park", "commit"}]]
      /\ InHand' /\ Passed'
  BY <1>1, WaitingEnds
<1>3. /\ ClaimsExplained' /\ pipelineFaults' \in Nat
      /\ passedOver' \in SUBSET (Groups \X (1 .. Len(log))) /\ entry' \in Entries
  BY ClaimsKept
<1>4. /\ producers' \in SUBSET Groups /\ handled' \in SUBSET (Groups \X PipelineEvents)
      /\ gone \subseteq gone' /\ gone' \in SUBSET (Groups \X (1 .. Len(log)))
  BY DEF IInv, EventPipelineTypeOK
<1> QED BY <1>2, <1>3, <1>4, GroupStep

LEMMA PassOverStep ==
  ASSUME IInv, NEW g \in Groups, PassOver(g)
  PROVE  IInv'
<1> USE DEF PassOver
<1>1. NextMessage(g) \in 1 .. Len(log) /\ NextEvent(g) \in Groups \X PipelineEvents
  BY Waiting
<1>2. /\ reader' \in [Groups -> [at : 0 .. Len(log), pc : {"idle", "park", "commit"}]]
      /\ InHand' /\ Passed'
  BY WaitingEnds
<1>3. pipelineFaults > 0
  BY <1>1 DEF IInv, ClaimsExplained
<1>4. ClaimsExplained' /\ pipelineFaults' \in Nat /\ entry' \in Entries
  BY <1>3 DEF IInv, EventPipelineTypeOK, ClaimsExplained, Entries
<1>5. /\ producers' \in SUBSET Groups /\ handled' \in SUBSET (Groups \X PipelineEvents)
      /\ gone \subseteq gone' /\ gone' \in SUBSET (Groups \X (1 .. Len(log)))
      /\ passedOver' \in SUBSET (Groups \X (1 .. Len(log)))
  BY <1>1 DEF IInv, EventPipelineTypeOK
<1> QED BY <1>2, <1>4, <1>5, GroupStep

LEMMA HandlingFailsStep ==
  ASSUME IInv, NEW g \in Groups, HandlingFails(g)
  PROVE  IInv'
<1> USE DEF HandlingFails
<1>1. /\ reader' \in [Groups -> [at : 0 .. Len(log), pc : {"idle", "park", "commit"}]]
      /\ InHand' /\ Passed'
  BY WaitingEnds
<1>2. /\ ClaimsExplained' /\ pipelineFaults' \in Nat
      /\ passedOver' \in SUBSET (Groups \X (1 .. Len(log))) /\ entry' \in Entries
  BY ClaimsKept
<1>3. /\ producers' \in SUBSET Groups /\ handled' \in SUBSET (Groups \X PipelineEvents)
      /\ gone \subseteq gone' /\ gone' \in SUBSET (Groups \X (1 .. Len(log)))
  BY DEF IInv, EventPipelineTypeOK
<1> QED BY <1>1, <1>2, <1>3, GroupStep

\* The entry of an event is written while its readers stay where they are.
LEMMA EntryStep ==
  ASSUME IInv, NEW x \in Groups \X PipelineEvents,
         NEW state \in {"none", "claimed", "abandoned", "processed"}, SetEntry(x, state),
         handled' = (IF state = "processed" THEN handled \cup {x} ELSE handled),
         UNCHANGED <<log, reader, producers, passedOver, letters, dlqVars, gone>>,
         \/ PipelineFault
         \/ UNCHANGED pipelineFaults /\ state \in {"none", "processed"}
  PROVE  IInv'
<1>1. /\ ClaimsExplained' /\ pipelineFaults' \in Nat
      /\ passedOver' \in SUBSET (Groups \X (1 .. Len(log))) /\ entry' \in Entries
  BY EntrySet
<1>2. handled \subseteq handled' /\ handled' \in SUBSET (Groups \X PipelineEvents)
  BY DEF IInv, EventPipelineTypeOK
<1>3. InHand' /\ Passed'
  BY <1>2 DEF IInv, InHand, Passed, Done, HasLetter
<1>4. /\ reader' \in [Groups -> [at : 0 .. Len(log), pc : {"idle", "park", "commit"}]]
      /\ producers' \in SUBSET Groups
      /\ gone \subseteq gone' /\ gone' \in SUBSET (Groups \X (1 .. Len(log)))
  BY DEF IInv, EventPipelineTypeOK
<1> QED BY <1>1, <1>2, <1>3, <1>4, GroupStep

LEMMA EntrySteps ==
  ASSUME IInv,
         \/ \E g \in Groups : ClaimStays(g, "claimed") \/ ClaimStays(g, "abandoned")
         \/ \E x \in Groups \X PipelineEvents :
              EntryLapses(x) \/ (\E done \in BOOLEAN : AbandonedEnds(x, done))
  PROVE  IInv'
<1>1. ASSUME NEW g \in Groups, NEW state \in {"claimed", "abandoned"}, ClaimStays(g, state)
      PROVE  IInv'
  <2>1. NextEvent(g) \in Groups \X PipelineEvents
    BY <1>1, Waiting DEF ClaimStays
  <2> QED BY <1>1, <2>1, EntryStep DEF ClaimStays
<1>2. ASSUME NEW x \in Groups \X PipelineEvents, EntryLapses(x)
      PROVE  IInv'
  BY <1>2, EntryStep DEF EntryLapses
<1>3. ASSUME NEW x \in Groups \X PipelineEvents, NEW done \in BOOLEAN, AbandonedEnds(x, done)
      PROVE  IInv'
  <2>1. CASE done
    BY <1>3, <2>1, EntryStep DEF AbandonedEnds
  <2>2. CASE ~done
    BY <1>3, <2>2, EntryStep DEF AbandonedEnds
  <2> QED BY <2>1, <2>2
<1> QED BY <1>1, <1>2, <1>3

LEMMA ParkMessageFailsStep ==
  ASSUME IInv, NEW g \in Groups, ParkMessageFails(g)
  PROVE  IInv'
<1> USE DEF ParkMessageFails
<1>1. reader[g].at \in 0 .. Len(log) /\ reader[g].pc = "park"
  BY DEF IInv, EventPipelineTypeOK, Reading
<1>2. /\ reader' \in [Groups -> [at : 0 .. Len(log), pc : {"idle", "park", "commit"}]]
      /\ reader'[g].at = reader[g].at /\ reader'[g].pc = "idle"
      /\ \A h \in Groups : h # g => reader'[h] = reader[h]
  BY ReadingOn
<1>3. InHand'
  BY <1>2 DEF IInv, InHand
<1>4. Passed'
  <2>1. \A k \in 1 .. Len(log) : (k <= Done(g))' => k <= Done(g)
    BY <1>1, <1>2 DEF Done
  <2> QED BY <1>2, <2>1, Passing DEF HasLetter
<1>5. /\ producers' \in SUBSET Groups
      /\ handled' \in SUBSET (Groups \X PipelineEvents)
      /\ gone \subseteq gone' /\ gone' \in SUBSET (Groups \X (1 .. Len(log)))
  BY FaultCounted DEF IInv, EventPipelineTypeOK
<1>6. /\ ClaimsExplained' /\ pipelineFaults' \in Nat
      /\ passedOver' \in SUBSET (Groups \X (1 .. Len(log))) /\ entry' \in Entries
  BY ClaimsKept
<1> QED BY <1>2, <1>3, <1>4, <1>5, <1>6, GroupStep

LEMMA SkipLetterStep ==
  ASSUME IInv, NEW g \in Groups, SkipLetter(g)
  PROVE  IInv'
<1> USE DEF SkipLetter
<1>1. /\ reader[g].at \in 0 .. Len(log) /\ reader[g].pc = "park"
      /\ log \in Seq(PipelineEvents) /\ Len(log) \in Nat
  BY DEF IInv, EventPipelineTypeOK, Reading
<1>2. NextMessage(g) \in 1 .. Len(log)
  BY <1>1 DEF IInv, InHand, NextMessage
<1>3. /\ reader' \in [Groups -> [at : 0 .. Len(log), pc : {"idle", "park", "commit"}]]
      /\ reader'[g].at = reader[g].at /\ reader'[g].pc = "commit"
      /\ \A h \in Groups : h # g => reader'[h] = reader[h]
  BY ReadingOn
<1>4. InHand'
  BY <1>1, <1>3 DEF IInv, InHand
<1>5. Passed'
  <2>1. \A k \in 1 .. Len(log) : (k <= Done(g))' => k <= Done(g) \/ <<g, k>> \in gone'
    BY <1>1, <1>3 DEF Done, NextMessage
  <2> QED BY <1>3, <2>1, Passing DEF HasLetter
<1>6. /\ producers' \in SUBSET Groups
      /\ handled' \in SUBSET (Groups \X PipelineEvents)
      /\ gone \subseteq gone' /\ gone' \in SUBSET (Groups \X (1 .. Len(log)))
  BY <1>2 DEF IInv, EventPipelineTypeOK
<1>7. /\ ClaimsExplained' /\ pipelineFaults' \in Nat
      /\ passedOver' \in SUBSET (Groups \X (1 .. Len(log))) /\ entry' \in Entries
  BY ClaimsKept
<1> QED BY <1>3, <1>4, <1>5, <1>6, <1>7, GroupStep

LEMMA CommitMessageStep ==
  ASSUME IInv, NEW g \in Groups, CommitMessage(g)
  PROVE  IInv'
<1> USE DEF CommitMessage
<1>1. /\ reader[g].at \in 0 .. Len(log) /\ reader[g].pc = "commit"
      /\ log \in Seq(PipelineEvents) /\ Len(log) \in Nat
  BY DEF IInv, EventPipelineTypeOK, Reading
<1>2. NextMessage(g) \in 0 .. Len(log)
  BY <1>1 DEF IInv, InHand, NextMessage
<1>3. /\ reader' \in [Groups -> [at : 0 .. Len(log), pc : {"idle", "park", "commit"}]]
      /\ reader'[g].at = NextMessage(g) /\ reader'[g].pc = "idle"
      /\ \A h \in Groups : h # g => reader'[h] = reader[h]
  BY <1>2, ReaderMoves
<1>4. InHand'
  BY <1>3 DEF IInv, InHand
<1>5. Passed'
  <2>1. \A k \in 1 .. Len(log) : (k <= Done(g))' => k <= Done(g)
    BY <1>1, <1>3 DEF Done, NextMessage
  <2> QED BY <1>3, <2>1, Passing DEF HasLetter
<1>6. /\ producers' \in SUBSET Groups
      /\ handled' \in SUBSET (Groups \X PipelineEvents)
      /\ gone \subseteq gone' /\ gone' \in SUBSET (Groups \X (1 .. Len(log)))
  BY DEF IInv, EventPipelineTypeOK
<1>7. /\ ClaimsExplained' /\ pipelineFaults' \in Nat
      /\ passedOver' \in SUBSET (Groups \X (1 .. Len(log))) /\ entry' \in Entries
  BY ClaimsKept
<1> QED BY <1>3, <1>4, <1>5, <1>6, <1>7, GroupStep

LEMMA ConsumerRestartsStep ==
  ASSUME IInv, NEW g \in Groups, NEW connected \in BOOLEAN, ConsumerRestarts(g, connected)
  PROVE  IInv'
<1> USE DEF ConsumerRestarts
<1>1. reader[g].at \in 0 .. Len(log)
  BY DEF IInv, EventPipelineTypeOK
<1>2. /\ reader' \in [Groups -> [at : 0 .. Len(log), pc : {"idle", "park", "commit"}]]
      /\ reader'[g].at = reader[g].at /\ reader'[g].pc = "idle"
      /\ \A h \in Groups : h # g => reader'[h] = reader[h]
  BY ReadingOn
<1>3. InHand'
  BY <1>2 DEF IInv, InHand
<1>4. Passed'
  <2>1. \A k \in 1 .. Len(log) : (k <= Done(g))' => k <= Done(g)
    BY <1>1, <1>2 DEF Done
  <2> QED BY <1>2, <2>1, Passing DEF HasLetter
<1>5. pipelineFaults' \in Nat /\ (pipelineFaults > 0 => pipelineFaults' > 0)
  BY FaultCounted DEF IInv, EventPipelineTypeOK
<1>6. /\ entry \in Entries
      /\ \A x \in Groups \X PipelineEvents :
           \/ entry'[x] = entry[x]
           \/ entry[x] = "abandoned" /\ entry'[x] = "claimed"
      /\ entry' \in Entries
  BY DEF IInv, EventPipelineTypeOK, Entries
<1>7. ClaimsExplained'
  BY <1>5, <1>6 DEF IInv, ClaimsExplained
<1>8. /\ producers' \in SUBSET Groups
      /\ handled' \in SUBSET (Groups \X PipelineEvents)
      /\ gone \subseteq gone' /\ gone' \in SUBSET (Groups \X (1 .. Len(log)))
      /\ passedOver' \in SUBSET (Groups \X (1 .. Len(log)))
  BY DEF IInv, EventPipelineTypeOK
<1> QED BY <1>2, <1>3, <1>4, <1>5, <1>6, <1>7, <1>8, GroupStep

LEMMA ParkMessageStep ==
  ASSUME IInv, NEW g \in Groups, ParkMessage(g)
  PROVE  IInv'
<1> USE DEF ParkMessage, dlqVars
<1>0. PICK n \in 1 .. Len(log) : n = reader[g].at + 1
  <2>1. reader[g].at \in 0 .. Len(log) /\ log \in Seq(PipelineEvents)
    BY DEF IInv, EventPipelineTypeOK
  <2>2. reader[g].at < Len(log)
    BY DEF IInv, InHand, Reading
  <2> QED BY <2>1, <2>2
<1> DEFINE letter == [at |-> n, group |-> g]
           Parked == [at : 1 .. Len(log), group : Groups]
<1>1. /\ reader[g].at \in 0 .. Len(log) /\ reader[g].pc = "park"
      /\ log \in Seq(PipelineEvents) /\ Len(log) \in Nat
      /\ letters \in Seq(Parked) /\ Len(letters) \in Nat
  BY DEF IInv, EventPipelineTypeOK, Reading
<1>2. letter \in Parked /\ letter.at = n /\ letter.group = g
  OBVIOUS
<1>3. letters' = Append(letters, letter)
  BY <1>0 DEF NextMessage
<1> HIDE DEF letter, Parked
<1>4. /\ letters' \in Seq(Parked) /\ Len(letters') = Len(letters) + 1
      /\ letters'[Len(letters) + 1] = letter
      /\ \A j \in 1 .. Len(letters) : letters'[j] = letters[j]
  BY <1>1, <1>2, <1>3
<1>5. /\ reader' \in [Groups -> [at : 0 .. Len(log), pc : {"idle", "park", "commit"}]]
      /\ reader'[g].at = reader[g].at /\ reader'[g].pc = "commit"
      /\ \A h \in Groups : h # g => reader'[h] = reader[h]
  BY ReadingOn
<1>6. InHand'
  BY <1>1, <1>5 DEF IInv, InHand
<1>7. Passed'
  <2>1. \A h \in Groups, k \in 1 .. Len(log) : HasLetter(h, k) => HasLetter(h, k)'
    BY <1>1, <1>4 DEF HasLetter
  <2>2. HasLetter(g, n)'
    BY <1>1, <1>2, <1>4 DEF HasLetter
  <2>3. \A k \in 1 .. Len(log) : (k <= Done(g))' => k <= Done(g) \/ HasLetter(g, k)'
    BY <1>0, <1>1, <1>5, <2>2 DEF Done
  <2> QED BY <1>5, <2>1, <2>3, Passing
<1>8. EventPipelineTypeOK'
  <2>1. ingest \in 0 .. Len(letters')
    BY <1>1, <1>4 DEF IInv, EventPipelineTypeOK
  <2> QED BY <1>4, <1>5, <2>1 DEF IInv, EventPipelineTypeOK, Parked
<1>9. Taken'
  <2> SUFFICES ASSUME NEW j \in 1 .. Len(letters'), j <= ingest
               PROVE  \/ <<letters'[j].group, letters'[j].at>> \in gone
                      \/ letterRecords[letters'[j].at].status # "none"
    BY DEF Taken
  <2>1. j \in 1 .. Len(letters)
    BY <1>1, <1>4 DEF IInv, EventPipelineTypeOK
  <2> QED BY <2>1, <1>4 DEF IInv, Taken
<1>10. ClaimsExplained'
  BY ClaimsKept
<1>11. Answered' /\ NothingAhead' /\ LastMessage'
  BY DEF IInv, Answered, Later, NothingAhead, LastMessage
<1> QED BY <1>6, <1>7, <1>8, <1>9, <1>10, <1>11 DEF IInv

-----------------------------------------------------------------------------
\* Steps of the topic and of the dlq service.

LEMMA PublishEventStep ==
  ASSUME IInv, NEW e \in PipelineEvents, PublishEvent(e)
  PROVE  IInv'
<1> USE DEF PublishEvent, dlqVars
<1>1. /\ log' \in Seq(PipelineEvents) /\ Len(log') <= MaxLog
      /\ reader' \in [Groups -> [at : 0 .. Len(log'), pc : {"idle", "park", "commit"}]]
      /\ producers' \in SUBSET Groups
      /\ handled' \in SUBSET (Groups \X PipelineEvents)
      /\ letters' \in Seq([at : 1 .. Len(log'), group : Groups])
      /\ subscribed' \in BOOLEAN /\ ingest' \in 0 .. Len(letters')
      /\ gone' \in SUBSET (Groups \X (1 .. Len(log')))
      /\ passedOver' \in SUBSET (Groups \X (1 .. Len(log'))) /\ entry' \in Entries
      /\ InHand' /\ Passed' /\ LastMessage'
  BY Republished
<1>2. /\ Len(log') = Len(log) + 1 /\ Len(log) \in Nat /\ log'[Len(log) + 1] = e
      /\ \A i \in 1 .. Len(log) : log'[i] = log[i]
  BY LogGrows
<1>3. EventPipelineTypeOK'
  <2>1. stranded' \in SUBSET (1 .. Len(log'))
    BY <1>2 DEF IInv, EventPipelineTypeOK
  <2> QED BY <1>1, <2>1 DEF IInv, EventPipelineTypeOK, Entries
<1>4. Taken'
  BY DEF IInv, Taken
<1>5. Answered'
  <2> SUFFICES ASSUME NEW k \in 1 .. Len(log'), letterRecords[k].status = "pending"
               PROVE  k \in stranded \/ Later(k)'
    BY DEF Answered
  <2>1. k \in 1 .. Len(log)
    BY <1>1, <1>2, PipelineAssumption DEF IInv, NothingAhead
  <2> QED BY <2>1, <1>2 DEF IInv, Answered, Later
<1>6. NothingAhead'
  BY <1>2 DEF IInv, NothingAhead
<1>7. ClaimsExplained'
  BY ClaimsKept DEF groupVars
<1> QED BY <1>1, <1>3, <1>4, <1>5, <1>6, <1>7 DEF IInv

\* A record is written anew, with or without its event being published again.
LEMMA RecordStep ==
  ASSUME IInv, NEW k \in 1 .. Len(log),
         NEW status \in LetterStatuses \ {"none"}, NEW left \in 0 .. RetryBudget,
         PutRecord(k, status, left),
         UNCHANGED <<groupVars, letters, subscribed, ingest, gone>>,
         \/ UNCHANGED log
         \/ Len(log) < MaxLog /\ log' = Append(log, log[k]),
         stranded \subseteq stranded', stranded' \in SUBSET (1 .. Len(log)),
         status = "pending" => k \in stranded' \/ log' = Append(log, log[k]),
         UNCHANGED pipelineFaults \/ PipelineFault
  PROVE  IInv'
<1>1. /\ letterRecords' \in [1 .. MaxLog -> Record]
      /\ letterRecords'[k].status = status
      /\ \A i \in 1 .. Len(log) : i # k => letterRecords'[i] = letterRecords[i]
  BY RecordPut
<1>2. log \in Seq(PipelineEvents) /\ Len(log) \in Nat
  BY DEF IInv, EventPipelineTypeOK
<1>3. Taken'
  <2> SUFFICES ASSUME NEW j \in 1 .. Len(letters), j <= ingest
               PROVE  \/ <<letters[j].group, letters[j].at>> \in gone
                      \/ letterRecords'[letters[j].at].status # "none"
    BY DEF Taken
  <2>1. letters[j].at \in 1 .. Len(log)
    BY LetterAt
  <2> QED BY <1>1, <2>1 DEF IInv, Taken
<1>4. \A i \in 1 .. MaxLog : letterRecords'[i].status # "none" => i <= Len(log)
  BY <1>1, <1>2 DEF PutRecord, IInv, NothingAhead, EventPipelineTypeOK
<1>5. \A i \in 1 .. Len(log) :
        letterRecords'[i].status = "pending" =>
          i \in stranded' \/ Later(i) \/ (i = k /\ log' = Append(log, log[k]))
  BY <1>1 DEF IInv, Answered
<1>0. ClaimsExplained' /\ pipelineFaults' \in Nat
  BY ClaimsKept DEF groupVars
<1>6. CASE UNCHANGED log
  <2>1. EventPipelineTypeOK'
    BY <1>0, <1>1, <1>6 DEF IInv, EventPipelineTypeOK, Record, groupVars
  <2>2. InHand' /\ Passed' /\ LastMessage'
    BY <1>6 DEF IInv, InHand, Passed, Done, HasLetter, LastMessage, groupVars
  <2>3. Answered'
    <3>1. log # Append(log, log[k])
      BY <1>2
    <3> QED BY <1>5, <1>6, <3>1 DEF Answered, Later
  <2>4. NothingAhead'
    BY <1>4, <1>6 DEF NothingAhead
  <2> QED BY <1>0, <1>3, <2>1, <2>2, <2>3, <2>4 DEF IInv
<1>7. CASE Len(log) < MaxLog /\ log' = Append(log, log[k])
  <2>1. log[k] \in PipelineEvents
    BY <1>2
  <2>2. /\ log' \in Seq(PipelineEvents) /\ Len(log') <= MaxLog
        /\ reader' \in [Groups -> [at : 0 .. Len(log'), pc : {"idle", "park", "commit"}]]
        /\ producers' \in SUBSET Groups
        /\ handled' \in SUBSET (Groups \X PipelineEvents)
        /\ letters' \in Seq([at : 1 .. Len(log'), group : Groups])
        /\ subscribed' \in BOOLEAN /\ ingest' \in 0 .. Len(letters')
        /\ gone' \in SUBSET (Groups \X (1 .. Len(log')))
        /\ passedOver' \in SUBSET (Groups \X (1 .. Len(log'))) /\ entry' \in Entries
        /\ InHand' /\ Passed' /\ LastMessage'
    BY <1>7, <2>1, Republished
  <2>3. /\ Len(log') = Len(log) + 1 /\ log'[Len(log) + 1] = log[k]
        /\ \A i \in 1 .. Len(log) : log'[i] = log[i]
    BY <1>7, <2>1, LogGrows
  <2>4. stranded' \in SUBSET (1 .. Len(log'))
    BY <1>2, <2>3
  <2>5. EventPipelineTypeOK'
    BY <1>0, <1>1, <2>2, <2>4 DEF EventPipelineTypeOK, Record, Entries
  <2>6. Answered'
    <3> SUFFICES ASSUME NEW i \in 1 .. Len(log'), letterRecords'[i].status = "pending"
                 PROVE  i \in stranded' \/ Later(i)'
      BY DEF Answered
    <3>1. i \in 1 .. Len(log)
      BY <1>2, <1>4, <2>2, <2>3, PipelineAssumption
    <3>2. Later(i) => Later(i)'
      BY <1>2, <2>3, <3>1 DEF Later
    <3>3. Later(k)'
      BY <1>2, <2>3 DEF Later
    <3> QED BY <1>5, <3>1, <3>2, <3>3
  <2>7. NothingAhead'
    BY <1>2, <1>4, <2>3 DEF NothingAhead
  <2> QED BY <1>0, <1>3, <2>2, <2>5, <2>6, <2>7 DEF IInv
<1> QED BY <1>6, <1>7

LEMMA LeftTyped ==
  ASSUME IInv, NEW k \in 1 .. Len(log)
  PROVE  letterRecords[k].left \in 0 .. RetryBudget /\ LeftAfter(k) \in 0 .. RetryBudget
<1>1. k \in 1 .. MaxLog
  BY PipelineAssumption DEF IInv, EventPipelineTypeOK
<1> QED BY <1>1, PipelineAssumption DEF IInv, EventPipelineTypeOK, LeftAfter

LEMMA ReplayLetterStep ==
  ASSUME IInv, NEW k \in 1 .. Len(log), NEW manual \in BOOLEAN, ReplayLetter(k, manual)
  PROVE  IInv'
<1>1. LeftAfter(k) \in 0 .. RetryBudget /\ "pending" \in LetterStatuses \ {"none"}
  BY LeftTyped DEF LetterStatuses
<1>2. stranded \in SUBSET (1 .. Len(log))
  BY DEF IInv, EventPipelineTypeOK
<1> QED BY <1>1, <1>2, RecordStep DEF ReplayLetter, Republish

LEMMA ReplayFailsStep ==
  ASSUME IInv, NEW k \in 1 .. Len(log), NEW manual \in BOOLEAN, NEW published \in BOOLEAN,
         ReplayFails(k, manual, published)
  PROVE  IInv'
<1>1. /\ LeftAfter(k) \in 0 .. RetryBudget
      /\ {"requires_manual_review", "scheduled"} \subseteq LetterStatuses \ {"none", "pending"}
  BY LeftTyped DEF LetterStatuses
<1>2. stranded \in SUBSET (1 .. Len(log)) /\ PipelineFault
  BY DEF IInv, EventPipelineTypeOK, ReplayFails
<1>3. PICK status \in {"requires_manual_review", "scheduled"} :
        PutRecord(k, status, LeftAfter(k))
  BY DEF ReplayFails
<1>4. \/ UNCHANGED log
      \/ Len(log) < MaxLog /\ log' = Append(log, log[k])
  <2>1. CASE published
    BY <2>1 DEF ReplayFails, Republish
  <2>2. CASE ~ published
    BY <2>2 DEF ReplayFails
  <2> QED BY <2>1, <2>2
<1>5. UNCHANGED <<groupVars, letters, subscribed, ingest, gone, stranded>>
  BY DEF ReplayFails
<1> QED BY <1>1, <1>2, <1>3, <1>4, <1>5, RecordStep

LEMMA CloseLetterStep ==
  ASSUME IInv, NEW k \in 1 .. Len(log), CloseLetter(k)
  PROVE  IInv'
<1>1. letterRecords[k].left \in 0 .. RetryBudget /\ "closed" \in LetterStatuses \ {"none"}
  BY LeftTyped DEF LetterStatuses
<1>2. stranded \in SUBSET (1 .. Len(log))
  BY DEF IInv, EventPipelineTypeOK
<1> QED BY <1>1, <1>2, RecordStep DEF CloseLetter

LEMMA ReplayInterruptedStep ==
  ASSUME IInv, NEW k \in 1 .. Len(log), NEW manual \in BOOLEAN, NEW published \in BOOLEAN,
         ReplayInterrupted(k, manual, published)
  PROVE  IInv'
<1>1. letterRecords[k].left \in 0 .. RetryBudget
  BY LeftTyped
<1>2. stranded \in SUBSET (1 .. Len(log)) /\ PipelineFault
  BY DEF IInv, EventPipelineTypeOK, ReplayInterrupted
<1>3. \/ UNCHANGED log
      \/ Len(log) < MaxLog /\ log' = Append(log, log[k])
  <2>1. CASE published
    BY <2>1 DEF ReplayInterrupted, Republish
  <2>2. CASE ~ published
    BY <2>2 DEF ReplayInterrupted
  <2> QED BY <2>1, <2>2
<1>4. UNCHANGED <<groupVars, letters, subscribed, ingest, gone>>
  BY DEF ReplayInterrupted
<1>5. CASE letterRecords[k].status = "scheduled"
  <2>1. PutRecord(k, "scheduled", letterRecords[k].left) /\ UNCHANGED stranded
    <3>1. k \in 1 .. MaxLog
      BY PipelineAssumption DEF IInv, EventPipelineTypeOK
    <3>2. letterRecords \in [1 .. MaxLog -> Record]
      BY DEF IInv, EventPipelineTypeOK, Record
    <3>3. letterRecords[k] = [status |-> "scheduled", left |-> letterRecords[k].left]
      BY <1>5, <3>1, <3>2 DEF Record
    <3>4. letterRecords' = letterRecords /\ UNCHANGED stranded
      BY <1>5 DEF ReplayInterrupted
    <3> QED BY <3>1, <3>2, <3>3, <3>4 DEF PutRecord
  <2>2. "scheduled" \in LetterStatuses \ {"none"}
    BY DEF LetterStatuses
  <2> QED BY <1>1, <1>2, <1>3, <1>4, <2>1, <2>2, RecordStep
<1>6. CASE letterRecords[k].status # "scheduled"
  <2>1. PutRecord(k, "pending", letterRecords[k].left) /\ stranded' = stranded \cup {k}
    BY <1>6 DEF ReplayInterrupted
  <2>2. "pending" \in LetterStatuses \ {"none"}
    BY DEF LetterStatuses
  <2>3. stranded' \in SUBSET (1 .. Len(log)) /\ k \in stranded' /\ stranded \subseteq stranded'
    BY <1>2, <2>1
  <2> QED BY <1>1, <1>2, <1>3, <1>4, <2>1, <2>2, <2>3, RecordStep
<1> QED BY <1>5, <1>6

\* The letters that were there when the dlq service subscribed are given up.
LEMMA SubscribeStep ==
  ASSUME IInv, Subscribe
  PROVE  IInv'
<1> USE DEF Subscribe, groupVars
<1>1. letters \in Seq(Letter) /\ Len(letters) \in Nat /\ DOMAIN letters = 1 .. Len(letters)
  BY DEF IInv, EventPipelineTypeOK, Letter
<1>2. \A j \in 1 .. Len(letters) : <<letters[j].group, letters[j].at>> \in gone'
  BY <1>1
<1>3. gone \subseteq gone' /\ gone' \in SUBSET (Groups \X (1 .. Len(log)))
  <2>1. \A j \in 1 .. Len(letters) :
          <<letters[j].group, letters[j].at>> \in Groups \X (1 .. Len(log))
    BY LetterAt
  <2>2. gone \in SUBSET (Groups \X (1 .. Len(log)))
    BY DEF IInv, EventPipelineTypeOK
  <2> QED BY <1>1, <2>1, <2>2
<1>4. EventPipelineTypeOK'
  BY <1>1, <1>3 DEF IInv, EventPipelineTypeOK
<1>5. InHand' /\ Answered' /\ NothingAhead' /\ LastMessage'
  BY DEF IInv, InHand, Answered, Later, NothingAhead, LastMessage
<1>6. Passed'
  BY <1>3 DEF IInv, Passed, Done, HasLetter
<1>7. Taken'
  BY <1>2 DEF Taken
<1>8. ClaimsExplained'
  BY ClaimsKept
<1> QED BY <1>4, <1>5, <1>6, <1>7, <1>8 DEF IInv

LEMMA IngestFailsStep ==
  ASSUME IInv, IngestFails
  PROVE  IInv'
<1> USE DEF IngestFails, LetterWaits, NextLetter, groupVars
<1>1. letters \in Seq(Letter) /\ Len(letters) \in Nat /\ ingest \in 0 .. Len(letters)
  BY DEF IInv, EventPipelineTypeOK, Letter
<1>2. ingest + 1 \in 1 .. Len(letters)
  BY <1>1
<1>3. gone \subseteq gone' /\ gone' \in SUBSET (Groups \X (1 .. Len(log)))
  <2>1. <<letters[ingest + 1].group, letters[ingest + 1].at>> \in Groups \X (1 .. Len(log))
    BY <1>2, LetterAt
  <2>2. gone \in SUBSET (Groups \X (1 .. Len(log)))
    BY DEF IInv, EventPipelineTypeOK
  <2> QED BY <1>2, <2>1, <2>2
<1>4. EventPipelineTypeOK'
  <2>1. ingest' \in 0 .. Len(letters) /\ pipelineFaults' \in Nat
    BY <1>1, <1>2, FaultCounted
  <2> QED BY <1>3, <2>1 DEF IInv, EventPipelineTypeOK
<1>5. InHand' /\ Answered' /\ NothingAhead' /\ LastMessage'
  BY DEF IInv, InHand, Answered, Later, NothingAhead, LastMessage
<1>6. Passed'
  BY <1>3 DEF IInv, Passed, Done, HasLetter
<1>7. Taken'
  BY <1>1, <1>3 DEF IInv, Taken
<1>8. ClaimsExplained'
  BY ClaimsKept
<1> QED BY <1>4, <1>5, <1>6, <1>7, <1>8 DEF IInv

LEMMA IngestLetterStep ==
  ASSUME IInv, NEW auto \in BOOLEAN, NEW commits \in BOOLEAN, IngestLetter(auto, commits)
  PROVE  IInv'
<1> USE DEF IngestLetter, LetterWaits, NextLetter, groupVars
<1>1. letters \in Seq(Letter) /\ Len(letters) \in Nat /\ ingest \in 0 .. Len(letters)
  BY DEF IInv, EventPipelineTypeOK, Letter
<1>2. ingest + 1 \in 1 .. Len(letters)
  BY <1>1
<1>3. PICK k \in 1 .. Len(log) : k = letters[ingest + 1].at
  BY <1>2, LetterAt
<1>4. /\ letterRecords' \in [1 .. MaxLog -> Record]
      /\ letterRecords'[k].status # "none"
      /\ letterRecords'[k].status = "pending" => letterRecords[k].status = "pending"
      /\ \A i \in 1 .. Len(log) : i # k => letterRecords'[i] = letterRecords[i]
      /\ \A i \in 1 .. MaxLog : i # k => letterRecords'[i] = letterRecords[i]
  <2>1. CASE letterRecords[k].status # "none"
    BY <1>3, <2>1 DEF RecordLetter, IInv, EventPipelineTypeOK, Record
  <2>2. CASE letterRecords[k].status = "none" /\ auto
    <3>1. PutRecord(k, "scheduled", RetryBudget)
      BY <1>3, <2>2 DEF RecordLetter
    <3>2. "scheduled" \in LetterStatuses /\ RetryBudget \in 0 .. RetryBudget
      BY PipelineAssumption DEF LetterStatuses
    <3>3. \A i \in 1 .. MaxLog : i # k => letterRecords'[i] = letterRecords[i]
      BY <3>1 DEF PutRecord, IInv, EventPipelineTypeOK
    <3> QED BY <3>1, <3>2, <3>3, RecordPut
  <2>3. CASE letterRecords[k].status = "none" /\ ~ auto
    <3>1. PutRecord(k, "requires_manual_review", 0)
      BY <1>3, <2>3 DEF RecordLetter
    <3>2. "requires_manual_review" \in LetterStatuses /\ 0 \in 0 .. RetryBudget
      BY PipelineAssumption DEF LetterStatuses
    <3>3. \A i \in 1 .. MaxLog : i # k => letterRecords'[i] = letterRecords[i]
      BY <3>1 DEF PutRecord, IInv, EventPipelineTypeOK
    <3> QED BY <3>1, <3>2, <3>3, RecordPut
  <2> QED BY <2>1, <2>2, <2>3
<1>5. EventPipelineTypeOK'
  <2>1. ingest' \in 0 .. Len(letters)
    BY <1>1, <1>2
  <2> QED BY <1>4, <2>1 DEF IInv, EventPipelineTypeOK, Record
<1>6. InHand' /\ LastMessage'
  BY DEF IInv, InHand, LastMessage
<1>7. Passed'
  BY DEF IInv, Passed, Done, HasLetter
<1>8. Answered'
  BY <1>4 DEF IInv, Answered, Later
<1>9. NothingAhead'
  BY <1>4 DEF IInv, NothingAhead
<1>10. Taken'
  <2> SUFFICES ASSUME NEW j \in 1 .. Len(letters), j <= ingest'
               PROVE  \/ <<letters[j].group, letters[j].at>> \in gone
                      \/ letterRecords'[letters[j].at].status # "none"
    BY DEF Taken
  <2>1. letters[j].at \in 1 .. Len(log)
    BY LetterAt
  <2>2. CASE j <= ingest
    BY <1>4, <2>1, <2>2 DEF IInv, Taken
  <2>3. CASE ~ (j <= ingest)
    <3>1. j = ingest + 1
      BY <1>1, <2>3
    <3> QED BY <1>3, <1>4, <3>1
  <2> QED BY <2>2, <2>3
<1>11. ClaimsExplained'
  BY ClaimsKept
<1> QED BY <1>5, <1>6, <1>7, <1>8, <1>9, <1>10, <1>11 DEF IInv

LEMMA PipelinePreserved == IInv /\ [EventPipelineNext]_pipelineVars => IInv'
<1> SUFFICES ASSUME IInv, [EventPipelineNext]_pipelineVars PROVE IInv'
  OBVIOUS
<1>1. CASE UNCHANGED pipelineVars
  BY <1>1 DEF pipelineVars, IInv, EventPipelineTypeOK, InHand, Passed, Done, HasLetter,
              Taken, Answered, Later, NothingAhead, LastMessage, ClaimsExplained
<1>2. ASSUME NEW e \in PipelineEvents, PublishEvent(e) PROVE IInv'
  BY <1>2, PublishEventStep
<1>3. ASSUME NEW g \in Groups,
             \/ HandleMessage(g) \/ SkipProcessed(g) \/ PassOver(g) \/ HandlingFails(g)
             \/ ParkMessage(g) \/ ParkMessageFails(g) \/ SkipLetter(g) \/ CommitMessage(g)
             \/ \E connected \in BOOLEAN : ConsumerRestarts(g, connected)
      PROVE  IInv'
  BY <1>3, HandleMessageStep, SkipProcessedStep, PassOverStep, HandlingFailsStep,
     ParkMessageStep, ParkMessageFailsStep, SkipLetterStep, CommitMessageStep,
     ConsumerRestartsStep
<1>4. CASE Subscribe \/ IngestFails
  BY <1>4, SubscribeStep, IngestFailsStep
<1>5. ASSUME NEW auto \in BOOLEAN, NEW commits \in BOOLEAN, IngestLetter(auto, commits)
      PROVE  IInv'
  BY <1>5, IngestLetterStep
<1>6. ASSUME NEW k \in DOMAIN log, NEW manual \in BOOLEAN, NEW published \in BOOLEAN,
             \/ ReplayLetter(k, manual)
             \/ ReplayFails(k, manual, published)
             \/ ReplayInterrupted(k, manual, published)
             \/ CloseLetter(k)
      PROVE  IInv'
  <2>1. k \in 1 .. Len(log)
    BY DEF IInv, EventPipelineTypeOK
  <2> QED BY <1>6, <2>1, ReplayLetterStep, ReplayFailsStep, ReplayInterruptedStep,
             CloseLetterStep
<1> QED BY <1>1, <1>2, <1>3, <1>4, <1>5, <1>6, EntrySteps DEF EventPipelineNext

-----------------------------------------------------------------------------
\* The inductive invariant, over all interleavings of groups, replays and faults.
THEOREM PipelineInvariance == EventPipelineSpec => []IInv
BY PipelineInitially, PipelinePreserved, PTL DEF EventPipelineSpec

\* Types: offsets stay within their topics, records belong to messages.
THEOREM PipelineTypeCorrect == EventPipelineSpec => []EventPipelineTypeOK
<1>1. IInv => EventPipelineTypeOK
  BY DEF IInv
<1> QED BY <1>1, PipelineInvariance, PTL

\* No event is dropped between its topic, the dead-letter topic, the records and the
\* replays, except in the ways the property names; a claim passes an event over only after a fault.
THEOREM NoEventDropped == EventPipelineSpec => []EventsAccounted
BY Accounted, PipelineInvariance, PTL
=============================================================================
