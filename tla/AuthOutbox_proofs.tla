--------------------------- MODULE AuthOutbox_proofs ---------------------------
(***************************************************************************)
(* Proofs about AuthOutbox, for every finite set of events and replicas,   *)
(* every limit of attempts and batch size, and any number of faults.       *)
(***************************************************************************)
EXTENDS AuthOutbox, FiniteSetTheorems, TLAPS

Pcs == {"idle", "exhaust", "reclaim", "claim", "publish", "processed", "failed"}
Working == {"publish", "processed", "failed"}

\* One replica's loop: a job exactly while it works, and no event twice in hand.
LoopOK(p, b, j) ==
    /\ p \in Pcs
    /\ b \subseteq Jobs
    /\ j \in Jobs \cup {NoJob}
    /\ j # NoJob <=> p \in Working
    /\ j = NoJob => b = {}
    /\ j \notin b
    /\ \A x, y \in b \cup {j} : x.event = y.event => x = y

\* What is in hand is a row, and was claimed.
Known(J) == \A x \in J : x # NoJob => x.event \in rows /\ x.attempt <= attemptCount[x.event]

Loops ==
    /\ pc \in [Replicas -> Pcs]
    /\ batch \in [Replicas -> SUBSET Jobs]
    /\ job \in [Replicas -> Jobs \cup {NoJob}]
    /\ \A r \in Replicas : LoopOK(pc[r], batch[r], job[r]) /\ Known(batch[r] \cup {job[r]})
    /\ pendingWake \subseteq {r \in Replicas : pc[r] # "idle"}

Table ==
    /\ rows \subseteq Events
    /\ claimedAt \in [Events -> {"no", "fresh", "stale"}]
    /\ availableAt \in [Events -> {"now", "later"}]
    /\ attemptCount \in [Events -> Nat]
    /\ processedAt \subseteq rows
    /\ failedAt \subseteq rows

Others ==
    /\ booting \subseteq Replicas
    /\ overtaken \subseteq rows
    /\ faults \in 0..MaxFaults

Mail ==
    /\ sent \in [Events -> Nat]
    /\ late \in [Events -> Nat]

\* A replica about to mark its event processed has sent it.
PublishedWasSent == \A r \in Replicas : pc[r] = "processed" => sent[job[r].event] > 0

\* The inductive invariant.
IInv ==
    /\ Loops
    /\ Table
    /\ Others
    /\ Mail
    /\ PublishedWasSent
    /\ ProcessedWasSent
    /\ FailedAfterAttempts
    /\ SendsWithinAttempts

\* The invariant has the types of the model.
LEMMA InvTypes == IInv => TypeOK
<1> SUFFICES ASSUME IInv PROVE TypeOK
  OBVIOUS
<1>1. \A r \in Replicas :
          /\ job[r] # NoJob <=> pc[r] \in {"publish", "processed", "failed"}
          /\ job[r] = NoJob => batch[r] = {}
          /\ job[r] \notin batch[r]
          /\ \A j \in batch[r] \cup {job[r]} :
                j # NoJob => j.event \in rows /\ j.attempt <= attemptCount[j.event]
  BY DEF IInv, Loops, LoopOK, Known, Working
<1> QED BY <1>1 DEF IInv, Loops, Table, Others, Mail, TypeOK, Pcs

\* A job is none of the placeholder.
LEMMA JobValues ==
    /\ NoJob \notin Jobs
    /\ \A j \in Jobs : j.event \in Events /\ j.attempt \in Nat
    /\ \A e \in Events, n \in Nat : /\ [event |-> e, attempt |-> n] \in Jobs
                                    /\ [event |-> e, attempt |-> n].event = e
                                    /\ [event |-> e, attempt |-> n].attempt = n
BY ParametersAssumption, SMT DEF NoJob, Jobs

\* Sets of replicas are finite.
LEMMA Replicated ==
    /\ \A S \in SUBSET Replicas : IsFiniteSet(S) /\ Cardinality(S) \in Nat
    /\ \A S, T \in SUBSET Replicas : S \subseteq T => Cardinality(S) <= Cardinality(T)
    /\ \A S \in SUBSET Replicas, r \in Replicas :
          /\ Cardinality(S \cup {r}) <= Cardinality(S) + 1
          /\ r \in S => Cardinality(S \ {r}) = Cardinality(S) - 1
<1>1. \A S \in SUBSET Replicas : IsFiniteSet(S) /\ Cardinality(S) \in Nat
  BY ParametersAssumption, FS_Subset, FS_CardinalityType
<1>2. \A S, T \in SUBSET Replicas : S \subseteq T => Cardinality(S) <= Cardinality(T)
  BY <1>1, FS_Subset
<1>3. \A S \in SUBSET Replicas, r \in Replicas : Cardinality(S \cup {r}) <= Cardinality(S) + 1
  <2> TAKE S \in SUBSET Replicas, r \in Replicas
  <2>1. CASE r \in S
    <3>1. S \cup {r} = S
      BY <2>1
    <3> QED BY <1>1, <3>1
  <2>2. CASE r \notin S
    BY <1>1, <2>2, FS_AddElement
  <2> QED BY <2>1, <2>2
<1>4. \A S \in SUBSET Replicas : \A r \in S : Cardinality(S \ {r}) = Cardinality(S) - 1
  BY <1>1, FS_RemoveElement
<1> QED BY <1>1, <1>2, <1>3, <1>4

\* The initial states satisfy the invariant.
LEMMA Initially == Init => IInv
<1> SUFFICES ASSUME Init PROVE IInv
  OBVIOUS
<1>1. \A r \in Replicas : LoopOK(pc[r], batch[r], job[r]) /\ Known(batch[r] \cup {job[r]})
  BY DEF Init, LoopOK, Known, Pcs, Working
<1>2. Loops
  BY <1>1 DEF Init, Loops, Pcs
<1>3. Table /\ Others /\ Mail
  BY ParametersAssumption DEF Init, Table, Others, Mail
<1>4. PublishedWasSent /\ ProcessedWasSent /\ FailedAfterAttempts
  BY DEF Init, PublishedWasSent, ProcessedWasSent, FailedAfterAttempts
<1>5. SendsWithinAttempts
  <2>1. ASSUME NEW e \in Events PROVE ToSend(e) = {}
    BY DEF Init, ToSend
  <2>2. \A e \in Events : Cardinality(ToSend(e)) = 0
    BY <2>1, FS_EmptySet
  <2> QED BY <2>2 DEF Init, SendsWithinAttempts
<1> QED BY <1>2, <1>3, <1>4, <1>5 DEF IInv

-----------------------------------------------------------------------------
(***************************************************************************)
(* Moves of a replica's loop.                                              *)
(***************************************************************************)

\* Replica r goes on to p with b and j in hand.
MovesTo(r, p, b, j) ==
    /\ LoopOK(p, b, j)
    /\ pc' = [pc EXCEPT ![r] = p]
    /\ batch' = [batch EXCEPT ![r] = b]
    /\ job' = [job EXCEPT ![r] = j]
    /\ pendingWake' \ {r} \subseteq pendingWake
    /\ r \in pendingWake' => p # "idle"

\* Rows stay and attempts are not forgotten.
Remembers ==
    /\ rows \subseteq rows'
    /\ attemptCount' \in [Events -> Nat]
    /\ \A e \in Events : attemptCount[e] <= attemptCount'[e]

\* A move keeps the loops in order if what it takes in hand is known.
LEMMA MoveKeeps ==
    ASSUME IInv, NEW r \in Replicas, NEW p, NEW b, NEW j, MovesTo(r, p, b, j), Remembers,
           \A x \in b \cup {j} : x # NoJob =>
               x.event \in rows' /\ x.attempt <= attemptCount'[x.event]
    PROVE  Loops'
<1>1. /\ \A q \in Replicas : pc'[q] = IF q = r THEN p ELSE pc[q]
      /\ \A q \in Replicas : batch'[q] = IF q = r THEN b ELSE batch[q]
      /\ \A q \in Replicas : job'[q] = IF q = r THEN j ELSE job[q]
      /\ pc' \in [Replicas -> Pcs]
      /\ batch' \in [Replicas -> SUBSET Jobs]
      /\ job' \in [Replicas -> Jobs \cup {NoJob}]
  BY DEF MovesTo, LoopOK, IInv, Loops
<1>2. \A q \in Replicas : LoopOK(pc'[q], batch'[q], job'[q])
  BY <1>1 DEF MovesTo, IInv, Loops
<1>3. ASSUME NEW q \in Replicas, q # r, NEW x \in batch[q] \cup {job[q]}, x # NoJob
      PROVE  x.event \in rows' /\ x.attempt <= attemptCount'[x.event]
  <2>1. x \in Jobs /\ x.event \in rows /\ x.attempt <= attemptCount[x.event]
    BY <1>3 DEF IInv, Loops, LoopOK, Known
  <2>2. x.event \in Events /\ x.attempt \in Nat /\ attemptCount[x.event] \in Nat
    BY <2>1, JobValues DEF IInv, Table
  <2> QED BY <2>1, <2>2 DEF Remembers
<1>4. \A q \in Replicas : Known(batch[q] \cup {job[q]})'
  BY <1>1, <1>3 DEF Known
<1>5. pendingWake' \subseteq {q \in Replicas : pc'[q] # "idle"}
  BY <1>1 DEF MovesTo, IInv, Loops
<1> QED BY <1>1, <1>2, <1>4, <1>5 DEF Loops

\* A step that leaves the loops alone.
LEMMA LoopsStay ==
    ASSUME IInv, UNCHANGED loop, Remembers
    PROVE  Loops'
<1>1. ASSUME NEW q \in Replicas, NEW x \in batch[q] \cup {job[q]}, x # NoJob
      PROVE  x.event \in rows' /\ x.attempt <= attemptCount'[x.event]
  <2>1. x \in Jobs /\ x.event \in rows /\ x.attempt <= attemptCount[x.event]
    BY <1>1 DEF IInv, Loops, LoopOK, Known
  <2>2. x.event \in Events /\ x.attempt \in Nat /\ attemptCount[x.event] \in Nat
    BY <2>1, JobValues DEF IInv, Table
  <2> QED BY <2>1, <2>2 DEF Remembers
<1>2. \A q \in Replicas : Known(batch[q] \cup {job[q]})'
  BY <1>1 DEF Known, loop
<1> QED BY <1>2 DEF IInv, Loops, loop

\* A replica's move that adds nothing to what it has in hand.
Moves(r) ==
    \E p, b, j : /\ MovesTo(r, p, b, j)
                 /\ b \subseteq batch[r] /\ j \in batch[r] \cup {job[r], NoJob}

LEMMA MovesKeep ==
    ASSUME IInv, NEW r \in Replicas, Moves(r), Remembers
    PROVE  Loops'
<1> PICK p, b, j : /\ MovesTo(r, p, b, j)
                   /\ b \subseteq batch[r] /\ j \in batch[r] \cup {job[r], NoJob}
  BY DEF Moves
<1>1. ASSUME NEW x \in b \cup {j}, x # NoJob
      PROVE  x.event \in rows' /\ x.attempt <= attemptCount'[x.event]
  <2>1. x \in Jobs /\ x.event \in rows /\ x.attempt <= attemptCount[x.event]
    BY <1>1 DEF IInv, Loops, LoopOK, Known
  <2>2. x.event \in Events /\ x.attempt \in Nat /\ attemptCount[x.event] \in Nat
    BY <2>1, JobValues DEF IInv, Table
  <2> QED BY <2>1, <2>2 DEF Remembers
<1> QED BY <1>1, MoveKeeps

\* What a replica may count on.
LEMMA LoopFacts ==
    ASSUME IInv, NEW r \in Replicas
    PROVE  /\ LoopOK(pc[r], batch[r], job[r])
           /\ pc[r] \in Working =>
                 /\ job[r] \in Jobs /\ job[r] # NoJob
                 /\ job[r].event \in rows /\ job[r].event \in Events
                 /\ job[r].attempt \in Nat
                 /\ job[r].attempt <= attemptCount[job[r].event]
           /\ pc[r] \notin Working => batch[r] = {} /\ job[r] = NoJob
<1>1. LoopOK(pc[r], batch[r], job[r]) /\ Known(batch[r] \cup {job[r]})
  BY DEF IInv, Loops
<1> QED BY <1>1, JobValues DEF LoopOK, Known

LEMMA GotoMoves ==
    ASSUME IInv, NEW r \in Replicas, NEW p \in Pcs \ {"idle"}, Goto(r, p),
           p \in Working <=> pc[r] \in Working
    PROVE  Moves(r)
<1>1. LoopOK(p, batch[r], job[r])
  BY LoopFacts DEF LoopOK
<1>2. MovesTo(r, p, batch[r], job[r])
  BY <1>1 DEF MovesTo, Goto, IInv, Loops
<1> QED BY <1>2 DEF Moves

LEMMA EndCycleMoves ==
    ASSUME IInv, NEW r \in Replicas, EndCycle(r)
    PROVE  Moves(r)
<1> DEFINE p == IF r \in pendingWake THEN "exhaust" ELSE "idle"
<1>1. LoopOK(p, {}, NoJob)
  BY DEF LoopOK, Pcs, Working
<1>2. MovesTo(r, p, {}, NoJob)
  BY <1>1 DEF MovesTo, EndCycle
<1> QED BY <1>2 DEF Moves

\* The next job of a batch, with everything else in hand.
LEMMA NextJobMoves ==
    ASSUME IInv, NEW r \in Replicas, NEW b \in SUBSET Jobs, NEW j \in b,
           \A x, y \in b : x.event = y.event => x = y,
           pc' = [pc EXCEPT ![r] = "publish"],
           batch' = [batch EXCEPT ![r] = Rest(b, j)],
           job' = [job EXCEPT ![r] = j], UNCHANGED pendingWake
    PROVE  MovesTo(r, "publish", b \ {j}, j)
<1>1. LoopOK("publish", b \ {j}, j)
  BY JobValues DEF LoopOK, Pcs, Working
<1> QED BY <1>1 DEF MovesTo, Rest

\* A replica is through with its job.
LEMMA ContinueMoves ==
    ASSUME IInv, NEW r \in Replicas, Continue(r, batch[r])
    PROVE  Moves(r)
<1>1. CASE EndCycle(r)
  BY <1>1, EndCycleMoves
<1>2. ASSUME NEW j \in batch[r],
             pc' = [pc EXCEPT ![r] = "publish"],
             batch' = [batch EXCEPT ![r] = Rest(batch[r], j)],
             job' = [job EXCEPT ![r] = j], UNCHANGED pendingWake
      PROVE  Moves(r)
  <2>1. batch[r] \in SUBSET Jobs /\ \A x, y \in batch[r] : x.event = y.event => x = y
    BY LoopFacts DEF LoopOK
  <2>2. MovesTo(r, "publish", batch[r] \ {j}, j)
    BY <1>2, <2>1, NextJobMoves
  <2> QED BY <2>2 DEF Moves
<1> QED BY <1>1, <1>2 DEF Continue

-----------------------------------------------------------------------------
(***************************************************************************)
(* Who has yet to send.                                                    *)
(***************************************************************************)

\* After a move of r that adds nothing, nobody has more to send.
LEMMA ToSendShrinks ==
    ASSUME IInv, NEW r \in Replicas, Moves(r), NEW e \in Events,
           pc'[r] = "publish" => job'[r] \in batch[r]
    PROVE  ToSend(e)' \subseteq ToSend(e)
<1> PICK p, b, j : /\ MovesTo(r, p, b, j)
                   /\ b \subseteq batch[r] /\ j \in batch[r] \cup {job[r], NoJob}
  BY DEF Moves
<1>1. /\ \A q \in Replicas : pc'[q] = IF q = r THEN p ELSE pc[q]
      /\ \A q \in Replicas : batch'[q] = IF q = r THEN b ELSE batch[q]
      /\ \A q \in Replicas : job'[q] = IF q = r THEN j ELSE job[q]
  BY DEF MovesTo, IInv, Loops
<1> QED BY <1>1 DEF ToSend

\* Nobody has more to send, and no more was sent: the sendings stay covered.
LEMMA SendsKept ==
    ASSUME IInv, Mail', Remembers,
           \A e \in Events : ToSend(e)' \subseteq ToSend(e),
           \A e \in Events : sent'[e] + late'[e] <= sent[e] + late[e]
    PROVE  SendsWithinAttempts'
<1> SUFFICES ASSUME NEW e \in Events
             PROVE  sent'[e] + late'[e] + Cardinality(ToSend(e)') <= attemptCount'[e]
  BY DEF SendsWithinAttempts
<1>1. ToSend(e) \in SUBSET Replicas /\ ToSend(e)' \in SUBSET Replicas
  BY DEF ToSend
<1>2. /\ Cardinality(ToSend(e)) \in Nat /\ Cardinality(ToSend(e)') \in Nat
      /\ Cardinality(ToSend(e)') <= Cardinality(ToSend(e))
  BY <1>1, Replicated
<1>3. /\ sent[e] \in Nat /\ late[e] \in Nat /\ sent'[e] \in Nat /\ late'[e] \in Nat
      /\ attemptCount[e] \in Nat /\ attemptCount'[e] \in Nat
      /\ attemptCount[e] <= attemptCount'[e]
      /\ sent'[e] + late'[e] <= sent[e] + late[e]
      /\ sent[e] + late[e] + Cardinality(ToSend(e)) <= attemptCount[e]
  BY DEF IInv, Mail, Table, Remembers, SendsWithinAttempts
<1> QED BY <1>2, <1>3

\* r sends what it had to send, or leaves it to the mail on its way.
LEMMA SendsMoved ==
    ASSUME IInv, Mail', UNCHANGED attemptCount, NEW r \in Replicas, NEW f \in Events,
           r \in ToSend(f), r \notin ToSend(f)',
           \A e \in Events : ToSend(e)' \subseteq ToSend(e),
           sent'[f] + late'[f] <= sent[f] + late[f] + 1,
           \A e \in Events \ {f} : sent'[e] + late'[e] = sent[e] + late[e]
    PROVE  SendsWithinAttempts'
<1> SUFFICES ASSUME NEW e \in Events
             PROVE  sent'[e] + late'[e] + Cardinality(ToSend(e)') <= attemptCount'[e]
  BY DEF SendsWithinAttempts
<1>1. ToSend(e) \in SUBSET Replicas /\ ToSend(e)' \in SUBSET Replicas
  BY DEF ToSend
<1>2. /\ Cardinality(ToSend(e)) \in Nat /\ Cardinality(ToSend(e)') \in Nat
      /\ Cardinality(ToSend(e)') <= Cardinality(ToSend(e))
  BY <1>1, Replicated
<1>3. e = f => Cardinality(ToSend(e)') <= Cardinality(ToSend(e)) - 1
  <2> HAVE e = f
  <2>1. ToSend(e)' \subseteq ToSend(e) \ {r} /\ ToSend(e) \ {r} \in SUBSET Replicas
    BY <1>1
  <2>2. Cardinality(ToSend(e)') <= Cardinality(ToSend(e) \ {r})
    BY <1>1, <2>1, Replicated
  <2>3. Cardinality(ToSend(e) \ {r}) = Cardinality(ToSend(e)) - 1
    BY <1>1, Replicated
  <2> QED BY <2>2, <2>3
<1>4. /\ sent[e] \in Nat /\ late[e] \in Nat /\ sent'[e] \in Nat /\ late'[e] \in Nat
      /\ attemptCount[e] \in Nat /\ attemptCount'[e] = attemptCount[e]
      /\ sent[e] + late[e] + Cardinality(ToSend(e)) <= attemptCount[e]
  BY DEF IInv, Mail, Table, SendsWithinAttempts
<1>5. CASE e = f
  BY <1>2, <1>3, <1>4, <1>5
<1>6. CASE e # f
  BY <1>2, <1>4, <1>6
<1> QED BY <1>5, <1>6

\* r claims the events in B and has one more attempt of each to send.
LEMMA SendsClaimed ==
    ASSUME IInv, UNCHANGED mail, NEW r \in Replicas, NEW B \in SUBSET Events, ClaimRows(B),
           \A e \in Events : ToSend(e)' \subseteq
               ToSend(e) \cup (IF e \in B THEN {r} ELSE {})
    PROVE  SendsWithinAttempts'
<1> SUFFICES ASSUME NEW e \in Events
             PROVE  sent'[e] + late'[e] + Cardinality(ToSend(e)') <= attemptCount'[e]
  BY DEF SendsWithinAttempts
<1>1. ToSend(e) \in SUBSET Replicas /\ ToSend(e)' \in SUBSET Replicas
  BY DEF ToSend
<1>2. /\ sent[e] \in Nat /\ late[e] \in Nat /\ sent'[e] = sent[e] /\ late'[e] = late[e]
      /\ attemptCount[e] \in Nat
      /\ sent[e] + late[e] + Cardinality(ToSend(e)) <= attemptCount[e]
  BY DEF IInv, Mail, Table, SendsWithinAttempts, mail
<1>3. attemptCount'[e] = IF e \in B THEN attemptCount[e] + 1 ELSE attemptCount[e]
  BY DEF ClaimRows, Counted
<1>4. Cardinality(ToSend(e)) \in Nat /\ Cardinality(ToSend(e)') \in Nat
  BY <1>1, Replicated
<1>5. CASE e \in B
  <2>1. ToSend(e)' \subseteq ToSend(e) \cup {r} /\ ToSend(e) \cup {r} \in SUBSET Replicas
    BY <1>1, <1>5
  <2>2. /\ Cardinality(ToSend(e)') <= Cardinality(ToSend(e) \cup {r})
        /\ Cardinality(ToSend(e) \cup {r}) <= Cardinality(ToSend(e)) + 1
        /\ Cardinality(ToSend(e) \cup {r}) \in Nat
    BY <1>1, <2>1, Replicated
  <2> QED BY <1>2, <1>3, <1>4, <1>5, <2>2
<1>6. CASE e \notin B
  <2>1. Cardinality(ToSend(e)') <= Cardinality(ToSend(e))
    BY <1>1, <1>6, Replicated
  <2> QED BY <1>2, <1>3, <1>4, <1>6, <2>1
<1> QED BY <1>5, <1>6

-----------------------------------------------------------------------------
(***************************************************************************)
(* The writes to the table.                                                *)
(***************************************************************************)

\* What every write keeps.
TableKept ==
    /\ Table'
    /\ Remembers
    /\ overtaken' \subseteq rows'
    /\ FailedAfterAttempts'

LEMMA WritesKeep ==
    ASSUME IInv
    PROVE  /\ FailExhausted => TableKept /\ UNCHANGED processedAt
           /\ \A E \in SUBSET Open : ReleaseClaims(E) => TableKept /\ UNCHANGED processedAt
           /\ \A B \in SUBSET Open : ClaimRows(B) => TableKept /\ UNCHANGED processedAt
           /\ \A e \in rows : SetProcessed(e) /\ UNCHANGED overtaken =>
                 TableKept /\ processedAt' = processedAt \cup {e}
           /\ UNCHANGED <<table, overtaken>> => TableKept /\ UNCHANGED processedAt
<1> USE DEF TableKept, Table, Remembers, FailedAfterAttempts
<1>1. Table /\ overtaken \subseteq rows /\ FailedAfterAttempts
  BY DEF IInv, Others
<1>2. \A e \in Events : attemptCount[e] \in Nat
  BY <1>1
<1>3. ASSUME FailExhausted PROVE TableKept /\ UNCHANGED processedAt
  BY <1>1, <1>2, <1>3 DEF FailExhausted, Open, Exhausted
<1>4. ASSUME NEW E \in SUBSET Open, ReleaseClaims(E) PROVE TableKept /\ UNCHANGED processedAt
  BY <1>1, <1>2, <1>4 DEF ReleaseClaims, Open, marks
<1>5. ASSUME NEW B \in SUBSET Open, ClaimRows(B) PROVE TableKept /\ UNCHANGED processedAt
  <2>1. /\ attemptCount' \in [Events -> Nat]
        /\ \A e \in Events : attemptCount[e] <= attemptCount'[e]
    BY <1>1, <1>2, <1>5 DEF ClaimRows, Counted
  <2>2. claimedAt' \in [Events -> {"no", "fresh", "stale"}]
    BY <1>1, <1>5 DEF ClaimRows
  <2>3. FailedAfterAttempts'
    BY <1>1, <1>2, <1>5, <2>1, ParametersAssumption DEF ClaimRows, marks
  <2> QED BY <1>1, <1>5, <2>1, <2>2, <2>3 DEF ClaimRows, marks
<1>6. ASSUME NEW e \in rows, SetProcessed(e), UNCHANGED overtaken
      PROVE  TableKept /\ processedAt' = processedAt \cup {e}
  BY <1>1, <1>2, <1>6 DEF SetProcessed
<1>7. ASSUME UNCHANGED <<table, overtaken>> PROVE TableKept /\ UNCHANGED processedAt
  BY <1>1, <1>2, <1>7 DEF table, marks
<1> QED BY <1>3, <1>4, <1>5, <1>6, <1>7

\* markFailed of a known job.
LEMMA FailureKeeps ==
    ASSUME IInv, NEW j \in Jobs, j.event \in rows, j.attempt <= attemptCount[j.event],
           SetFailed(j), UNCHANGED overtaken
    PROVE  TableKept /\ UNCHANGED processedAt
<1>1. Table /\ overtaken \subseteq rows /\ FailedAfterAttempts
  BY DEF IInv, Others
<1>2. j.attempt \in Nat /\ j.event \in Events /\ attemptCount[j.event] \in Nat
  BY <1>1, JobValues DEF Table
<1>3. UNCHANGED <<rows, attemptCount, processedAt>>
  BY DEF SetFailed
<1>4. /\ claimedAt' \in [Events -> {"no", "fresh", "stale"}]
      /\ availableAt' \in [Events -> {"now", "later"}]
      /\ failedAt' \subseteq rows'
  BY <1>1, <1>3 DEF SetFailed, Table
<1>5. FailedAfterAttempts'
  <2>1. \A e \in failedAt' : e \in failedAt \/ (e = j.event /\ Permanent(j.attempt))
    BY DEF SetFailed
  <2>2. Permanent(j.attempt) => attemptCount[j.event] >= MaxAttempts
    BY <1>2, ParametersAssumption DEF Permanent
  <2> QED BY <1>1, <1>3, <2>1, <2>2 DEF FailedAfterAttempts
<1> QED BY <1>1, <1>3, <1>4, <1>5 DEF TableKept, Table, Remembers

-----------------------------------------------------------------------------
(***************************************************************************)
(* The invariant is inductive.                                             *)
(***************************************************************************)

\* The parts that follow once the table is kept.
LEMMA Assemble ==
    ASSUME IInv, TableKept, Loops', Mail', PublishedWasSent', SendsWithinAttempts',
           booting' \subseteq Replicas, faults' = faults \/ Fault,
           \A e \in Events : sent[e] <= sent'[e],
           \A e \in processedAt' : e \in processedAt \/ (e \in Events /\ sent[e] > 0)
    PROVE  IInv'
<1>1. Others'
  BY ParametersAssumption DEF IInv, Others, TableKept, Fault
<1>2. ProcessedWasSent'
  <2>1. \A e \in Events : sent[e] \in Nat /\ sent'[e] \in Nat
    BY DEF IInv, Mail
  <2>2. \A e \in processedAt : e \in Events /\ sent[e] > 0
    BY DEF IInv, Table, ProcessedWasSent
  <2> QED BY <2>1, <2>2 DEF ProcessedWasSent
<1> QED BY <1>1, <1>2 DEF IInv, TableKept

\* A replica moves without sending.
LEMMA QuietMove ==
    ASSUME IInv, NEW r \in Replicas, Moves(r), TableKept, UNCHANGED mail,
           pc'[r] # "processed", pc'[r] = "publish" => job'[r] \in batch[r],
           booting' \subseteq Replicas, faults' = faults \/ Fault,
           \A e \in processedAt' : e \in processedAt \/ (e \in Events /\ sent[e] > 0)
    PROVE  IInv'
<1>1. Remembers
  BY DEF TableKept
<1>2. Loops'
  BY <1>1, MovesKeep
<1>3. Mail' /\ \A e \in Events : sent[e] <= sent'[e]
  BY DEF IInv, Mail, mail
<1>4. \A q \in Replicas \ {r} : pc'[q] = pc[q] /\ job'[q] = job[q]
  BY DEF Moves, MovesTo, IInv, Loops
<1>5. PublishedWasSent'
  BY <1>4 DEF IInv, PublishedWasSent, mail
<1>6. \A e \in Events : ToSend(e)' \subseteq ToSend(e)
  BY ToSendShrinks
<1>7. \A e \in Events : sent'[e] + late'[e] <= sent[e] + late[e]
  BY DEF IInv, Mail, mail
<1>8. SendsWithinAttempts'
  BY <1>1, <1>3, <1>6, <1>7, SendsKept
<1> QED BY <1>2, <1>3, <1>5, <1>8, Assemble

\* No replica moves and nothing is sent.
LEMMA NobodyMoves ==
    ASSUME IInv, UNCHANGED loop, UNCHANGED mail, TableKept, UNCHANGED processedAt,
           booting' \subseteq Replicas, UNCHANGED faults
    PROVE  IInv'
<1>1. Remembers
  BY DEF TableKept
<1>2. Loops'
  BY <1>1, LoopsStay
<1>3. /\ Mail' /\ PublishedWasSent'
      /\ \A e \in Events : sent[e] <= sent'[e] /\ sent'[e] + late'[e] <= sent[e] + late[e]
  BY DEF IInv, Mail, PublishedWasSent, loop, mail
<1>4. \A e \in Events : ToSend(e)' \subseteq ToSend(e)
  BY DEF ToSend, loop
<1>5. SendsWithinAttempts'
  BY <1>1, <1>3, <1>4, SendsKept
<1> QED BY <1>2, <1>3, <1>5, Assemble

\* Where the moves of a cycle lead.
LEMMA MovesLead ==
    ASSUME IInv, NEW r \in Replicas
    PROVE  /\ \A p : Goto(r, p) => pc'[r] = p /\ job'[r] = job[r]
           /\ EndCycle(r) => pc'[r] \in {"idle", "exhaust"}
           /\ Continue(r, batch[r]) =>
                 \/ pc'[r] \in {"idle", "exhaust"}
                 \/ pc'[r] = "publish" /\ job'[r] \in batch[r]
<1>1. r \in DOMAIN pc /\ r \in DOMAIN job
  BY DEF IInv, Loops
<1>2. \A p : Goto(r, p) => pc'[r] = p /\ job'[r] = job[r]
  BY <1>1 DEF Goto
<1>3. EndCycle(r) => pc'[r] \in {"idle", "exhaust"}
  BY <1>1 DEF EndCycle
<1>4. Continue(r, batch[r]) =>
         \/ pc'[r] \in {"idle", "exhaust"}
         \/ pc'[r] = "publish" /\ job'[r] \in batch[r]
  BY <1>1, <1>3 DEF Continue
<1> QED BY <1>2, <1>3, <1>4

\* The calls that open a cycle, and a cycle given up.
LEMMA OpeningKeeps ==
    ASSUME IInv, NEW r \in Replicas, MarkExhausted(r) \/ Reclaim(r) \/ CycleFails(r)
    PROVE  IInv'
<1>1. booting' \subseteq Replicas
  BY DEF MarkExhausted, Reclaim, CycleFails, IInv, Others
<1>2. TableKept /\ UNCHANGED processedAt
  <2>1. {e \in Open : Reclaimable(e)} \in SUBSET Open
    OBVIOUS
  <2>2. \A B \in Batches : B \in SUBSET Open
    BY DEF Batches
  <2> QED BY <2>1, <2>2, WritesKeep DEF MarkExhausted, Reclaim, CycleFails
<1>3. Moves(r) /\ pc'[r] \notin {"processed", "publish"}
  <2>1. CASE MarkExhausted(r)
    <3>1. Goto(r, "reclaim") /\ pc[r] = "exhaust"
      BY <2>1 DEF MarkExhausted
    <3>2. Moves(r)
      BY <3>1, GotoMoves DEF Pcs, Working
    <3> QED BY <3>1, <3>2, MovesLead
  <2>2. CASE Reclaim(r)
    <3>1. Goto(r, "claim") /\ pc[r] = "reclaim"
      BY <2>2 DEF Reclaim
    <3>2. Moves(r)
      BY <3>1, GotoMoves DEF Pcs, Working
    <3> QED BY <3>1, <3>2, MovesLead
  <2>3. CASE CycleFails(r)
    <3>1. EndCycle(r)
      BY <2>3 DEF CycleFails
    <3>2. Moves(r) /\ pc'[r] \in {"idle", "exhaust"}
      BY <3>1, EndCycleMoves, MovesLead
    <3> QED BY <3>2
  <2> QED BY <2>1, <2>2, <2>3
<1>4. UNCHANGED mail /\ (faults' = faults \/ Fault)
  BY DEF MarkExhausted, Reclaim, CycleFails
<1> QED BY <1>1, <1>2, <1>3, <1>4, QuietMove

\* A claim adds what it counts.
LEMMA ClaimKeeps ==
    ASSUME IInv, NEW r \in Replicas, Claim(r)
    PROVE  IInv'
<1> PICK B \in Batches : ClaimRows(B) /\ Continue(r, Claimed(B))
  BY DEF Claim
<1>1. B \in SUBSET Open /\ B \in SUBSET Events /\ B \subseteq rows
  BY DEF Batches, Open, IInv, Table
<1>2. TableKept /\ UNCHANGED processedAt
  BY <1>1, WritesKeep
<1>3. /\ batch[r] = {} /\ job[r] = NoJob /\ pc[r] = "claim"
      /\ UNCHANGED mail /\ UNCHANGED faults /\ booting' \subseteq Replicas
  BY LoopFacts DEF Claim, Working, IInv, Others
<1>4. \A e \in Events : attemptCount[e] \in Nat
  BY DEF IInv, Table
<1>5. /\ Claimed(B) \in SUBSET Jobs
      /\ \A x \in Claimed(B) : /\ x.event \in B
                               /\ x.attempt = attemptCount[x.event] + 1
                               /\ x = [event |-> x.event, attempt |-> attemptCount[x.event] + 1]
  BY <1>1, <1>4, JobValues DEF Claimed, Counted
<1>6. \A x, y \in Claimed(B) : x.event = y.event => x = y
  BY <1>5
<1>7. ASSUME NEW x \in Claimed(B)
      PROVE  x.event \in rows' /\ x.attempt <= attemptCount'[x.event]
  <2>1. x.event \in B /\ x.event \in Events /\ x.attempt = attemptCount[x.event] + 1
    BY <1>1, <1>5, <1>7
  <2>2. attemptCount'[x.event] = attemptCount[x.event] + 1 /\ rows' = rows
    BY <2>1 DEF ClaimRows, Counted
  <2> QED BY <1>1, <1>4, <2>1, <2>2
<1>8. CASE EndCycle(r)
  <2>1. Moves(r) /\ pc'[r] \in {"idle", "exhaust"}
    BY <1>8, EndCycleMoves, MovesLead
  <2> QED BY <1>2, <1>3, <2>1, QuietMove
<1>9. ASSUME NEW j \in Claimed(B),
             pc' = [pc EXCEPT ![r] = "publish"],
             batch' = [batch EXCEPT ![r] = Rest(Claimed(B), j)],
             job' = [job EXCEPT ![r] = j], UNCHANGED pendingWake
      PROVE  IInv'
  <2> DEFINE b == Claimed(B) \ {j}
  <2>1. MovesTo(r, "publish", b, j)
    BY <1>5, <1>6, <1>9, NextJobMoves
  <2>2. \A x \in b \cup {j} : x.event \in rows' /\ x.attempt <= attemptCount'[x.event]
    BY <1>7
  <2>3. Remembers
    BY <1>2 DEF TableKept
  <2> HIDE DEF b
  <2>4. Loops'
    BY <2>1, <2>2, <2>3, MoveKeeps
  <2>5. /\ \A q \in Replicas : pc'[q] = IF q = r THEN "publish" ELSE pc[q]
        /\ \A q \in Replicas : batch'[q] = IF q = r THEN b ELSE batch[q]
        /\ \A q \in Replicas : job'[q] = IF q = r THEN j ELSE job[q]
    BY <2>1 DEF MovesTo, IInv, Loops
  <2>6. /\ Mail' /\ PublishedWasSent'
        /\ \A e \in Events : sent[e] <= sent'[e]
    BY <1>3, <2>5 DEF IInv, Mail, PublishedWasSent, mail
  <2>7. \A x \in b \cup {j} : x.event \in B
    BY <1>5 DEF b
  <2>8. \A e \in Events : ToSend(e)' \subseteq ToSend(e) \cup (IF e \in B THEN {r} ELSE {})
    BY <2>5, <2>7 DEF ToSend
  <2>9. SendsWithinAttempts'
    BY <1>1, <1>3, <2>8, SendsClaimed
  <2> QED BY <1>2, <1>3, <2>4, <2>6, <2>9, Assemble
<1> QED BY <1>8, <1>9 DEF Continue

\* A replica sends its event, fails to, or leaves the sending to the mail.
LEMMA SendingKeeps ==
    ASSUME IInv, NEW r \in Replicas, pc[r] = "publish", Moves(r),
           UNCHANGED <<table, overtaken>>, Mail',
           pc'[r] \in {"processed", "failed", "idle"},
           pc'[r] = "processed" => job'[r] = job[r] /\ sent'[job[r].event] > 0,
           \A e \in Events : sent[e] <= sent'[e],
           sent'[job[r].event] + late'[job[r].event]
               <= sent[job[r].event] + late[job[r].event] + 1,
           \A e \in Events \ {job[r].event} : sent'[e] + late'[e] = sent[e] + late[e],
           booting' \subseteq Replicas, faults' = faults \/ Fault
    PROVE  IInv'
<1>1. LoopOK(pc[r], batch[r], job[r]) /\ job[r].event \in Events
  BY LoopFacts DEF Working
<1> PICK f \in Events : f = job[r].event
  BY <1>1
<1>2. TableKept /\ UNCHANGED processedAt
  BY WritesKeep
<1>3. Loops'
  BY <1>2, MovesKeep DEF TableKept
<1>4. \A q \in Replicas \ {r} : pc'[q] = pc[q] /\ job'[q] = job[q]
  BY DEF Moves, MovesTo, IInv, Loops
<1>5. PublishedWasSent'
  <2> SUFFICES ASSUME NEW q \in Replicas, pc'[q] = "processed"
               PROVE  sent'[job'[q].event] > 0
    BY DEF PublishedWasSent
  <2>1. CASE q = r
    BY <2>1
  <2>2. CASE q # r
    <3>1. pc[q] = "processed" /\ job'[q] = job[q]
      BY <1>4, <2>2
    <3>2. job[q].event \in Events
      BY <3>1, LoopFacts DEF Working
    <3>3. /\ sent[job[q].event] > 0 /\ sent[job[q].event] \in Nat
          /\ sent'[job[q].event] \in Nat /\ sent[job[q].event] <= sent'[job[q].event]
      BY <3>1, <3>2 DEF IInv, PublishedWasSent, Mail
    <3> QED BY <3>1, <3>3
  <2> QED BY <2>1, <2>2
<1>6. \A e \in Events : ToSend(e)' \subseteq ToSend(e)
  BY ToSendShrinks
<1>7. r \in ToSend(f)
  BY DEF ToSend
<1>8. r \notin ToSend(f)'
  <2>1. batch'[r] \subseteq batch[r]
    BY DEF Moves, MovesTo, IInv, Loops
  <2>2. \A x \in batch[r] : x.event # f
    BY <1>1 DEF LoopOK
  <2> QED BY <2>1, <2>2 DEF ToSend
<1>9. UNCHANGED attemptCount
  BY DEF table
<1>10. SendsWithinAttempts'
  BY <1>6, <1>7, <1>8, <1>9, SendsMoved
<1> QED BY <1>2, <1>3, <1>5, <1>10, Assemble DEF IInv, Table, TableKept

\* Every outcome of publish.
LEMMA PublishKeeps ==
    ASSUME IInv, NEW r \in Replicas, Publish(r) \/ PublishFails(r) \/ PublishTimesOut(r)
    PROVE  IInv'
<1> DEFINE f == job[r].event
<1>1. pc[r] = "publish" /\ f \in Events
  BY LoopFacts DEF Working, Publish, PublishFails, PublishTimesOut
<1>2. UNCHANGED <<table, overtaken>> /\ booting' \subseteq Replicas
  BY DEF Publish, PublishFails, PublishTimesOut, IInv, Others
<1>3. /\ sent \in [Events -> Nat] /\ late \in [Events -> Nat]
      /\ \A e \in Events : sent[e] \in Nat /\ late[e] \in Nat
  BY DEF IInv, Mail
<1>4. \/ sent' = [sent EXCEPT ![f] = sent[f] + 1] /\ late' = late
      \/ sent' = sent /\ late' = late
      \/ sent' = sent /\ late' = [late EXCEPT ![f] = late[f] + 1]
  BY DEF Publish, PublishFails, PublishTimesOut
<1>5. /\ Mail'
      /\ \A e \in Events : sent[e] <= sent'[e]
      /\ sent'[f] + late'[f] <= sent[f] + late[f] + 1
      /\ \A e \in Events \ {f} : sent'[e] + late'[e] = sent[e] + late[e]
  BY <1>1, <1>3, <1>4 DEF Mail
<1>6. CASE Publish(r)
  <2>1. Goto(r, "processed") /\ faults' = faults /\ sent'[f] > 0
    BY <1>1, <1>3, <1>6 DEF Publish
  <2>2. Moves(r) /\ pc'[r] = "processed" /\ job'[r] = job[r]
    BY <1>1, <2>1, GotoMoves, MovesLead DEF Pcs, Working
  <2> QED BY <1>1, <1>2, <1>5, <2>1, <2>2, SendingKeeps
<1>7. CASE PublishFails(r) \/ PublishTimesOut(r)
  <2>1. Goto(r, "failed") /\ Fault
    BY <1>7 DEF PublishFails, PublishTimesOut, OnError
  <2>2. Moves(r) /\ pc'[r] = "failed"
    BY <1>1, <2>1, GotoMoves, MovesLead DEF Pcs, Working
  <2> QED BY <1>1, <1>2, <1>5, <2>1, <2>2, SendingKeeps
<1> QED BY <1>6, <1>7

\* Marking the event processed, or failing to.
LEMMA ProcessedKeeps ==
    ASSUME IInv, NEW r \in Replicas, MarkProcessed(r) \/ MarkProcessedFails(r)
    PROVE  IInv'
<1>1. /\ pc[r] = "processed" /\ UNCHANGED mail /\ UNCHANGED overtaken
      /\ booting' \subseteq Replicas /\ (faults' = faults \/ Fault)
  BY DEF MarkProcessed, MarkProcessedFails, IInv, Others
<1>2. job[r].event \in rows /\ job[r].event \in Events /\ sent[job[r].event] > 0
  BY <1>1, LoopFacts DEF Working, IInv, PublishedWasSent
<1>3. SetProcessed(job[r].event) \/ UNCHANGED table
  BY DEF MarkProcessed, MarkProcessedFails
<1>4. TableKept /\ \A e \in processedAt' : e \in processedAt \/ e = job[r].event
  BY <1>1, <1>2, <1>3, WritesKeep
<1>5. \A e \in processedAt' : e \in processedAt \/ (e \in Events /\ sent[e] > 0)
  BY <1>2, <1>4
<1>6. CASE MarkProcessed(r)
  <2>1. Continue(r, batch[r])
    BY <1>6 DEF MarkProcessed
  <2>2. /\ Moves(r) /\ pc'[r] # "processed"
        /\ pc'[r] = "publish" => job'[r] \in batch[r]
    BY <2>1, ContinueMoves, MovesLead
  <2> QED BY <1>1, <1>4, <1>5, <2>2, QuietMove
<1>7. CASE MarkProcessedFails(r)
  <2>1. Goto(r, "failed")
    BY <1>7 DEF MarkProcessedFails, OnError
  <2>2. Moves(r) /\ pc'[r] = "failed"
    BY <1>1, <2>1, GotoMoves, MovesLead DEF Pcs, Working
  <2> QED BY <1>1, <1>4, <1>5, <2>2, QuietMove
<1> QED BY <1>6, <1>7

\* Marking the event failed, or failing to.
LEMMA FailedKeeps ==
    ASSUME IInv, NEW r \in Replicas, MarkFailed(r) \/ MarkFailedFails(r)
    PROVE  IInv'
<1>1. /\ pc[r] = "failed" /\ UNCHANGED mail /\ UNCHANGED overtaken
      /\ booting' \subseteq Replicas /\ (faults' = faults \/ Fault)
      /\ Continue(r, batch[r])
  BY DEF MarkFailed, MarkFailedFails, IInv, Others
<1>2. /\ job[r] \in Jobs /\ job[r].event \in rows
      /\ job[r].attempt <= attemptCount[job[r].event]
  BY <1>1, LoopFacts DEF Working
<1>3. SetFailed(job[r]) \/ UNCHANGED table
  BY DEF MarkFailed, MarkFailedFails
<1>4. TableKept /\ UNCHANGED processedAt
  BY <1>1, <1>2, <1>3, WritesKeep, FailureKeeps
<1>5. /\ Moves(r) /\ pc'[r] # "processed"
      /\ pc'[r] = "publish" => job'[r] \in batch[r]
  BY <1>1, ContinueMoves, MovesLead
<1> QED BY <1>1, <1>4, <1>5, QuietMove

\* A replica stops and starts again.
LEMMA StopKeeps ==
    ASSUME IInv, NEW r \in Replicas, Stop(r)
    PROVE  IInv'
<1>1. LoopOK("idle", {}, NoJob)
  BY DEF LoopOK, Pcs, Working
<1>2. MovesTo(r, "idle", {}, NoJob)
  BY <1>1 DEF MovesTo, Stop
<1>3. Moves(r)
  BY <1>2 DEF Moves
<1>4. /\ pc'[r] = "idle" /\ UNCHANGED <<table, overtaken>> /\ sent' = sent
      /\ booting' \subseteq Replicas /\ Fault
  BY DEF Stop, IInv, Loops, Others
<1>5. CASE pc[r] = "publish"
  <2> DEFINE f == job[r].event
  <2>1. f \in Events /\ late' = [late EXCEPT ![f] = late[f] + 1]
    BY <1>5, LoopFacts DEF Stop, Working
  <2>2. \A e \in Events : sent[e] \in Nat /\ late[e] \in Nat
    BY DEF IInv, Mail
  <2>3. /\ Mail'
        /\ \A e \in Events : sent[e] <= sent'[e]
        /\ sent'[f] + late'[f] <= sent[f] + late[f] + 1
        /\ \A e \in Events \ {f} : sent'[e] + late'[e] = sent[e] + late[e]
    BY <1>4, <2>1, <2>2 DEF IInv, Mail
  <2> QED BY <1>3, <1>4, <1>5, <2>3, SendingKeeps
<1>6. CASE pc[r] # "publish"
  <2>1. UNCHANGED mail
    BY <1>4, <1>6 DEF Stop, mail
  <2>2. TableKept /\ UNCHANGED processedAt
    BY <1>4, WritesKeep
  <2> QED BY <1>3, <1>4, <2>1, <2>2, QuietMove
<1> QED BY <1>5, <1>6

\* A cycle is asked for.
LEMMA WakeKeeps ==
    ASSUME IInv, NEW r \in Replicas, Wake(r)
    PROVE  IInv'
<1>1. /\ UNCHANGED <<table, overtaken>> /\ UNCHANGED mail /\ UNCHANGED faults
      /\ booting' \subseteq Replicas
  BY DEF Wake, IInv, Others
<1>2. TableKept /\ UNCHANGED processedAt
  BY <1>1, WritesKeep
<1>3. CASE pc[r] = "idle" /\ Goto(r, "exhaust")
  <2>1. Moves(r) /\ pc'[r] = "exhaust"
    BY <1>3, GotoMoves, MovesLead DEF Pcs, Working
  <2> QED BY <1>1, <1>2, <2>1, QuietMove
<1>4. CASE pc[r] # "idle" /\ pendingWake' = pendingWake \cup {r} /\ UNCHANGED <<pc, batch, job>>
  <2>1. Remembers
    BY <1>2 DEF TableKept
  <2>2. MovesTo(r, pc[r], batch[r], job[r])
    BY <1>4, LoopFacts DEF MovesTo, IInv, Loops
  <2>3. Moves(r)
    BY <2>2 DEF Moves
  <2>4. Loops'
    BY <2>1, <2>3, MovesKeep
  <2>5. /\ Mail' /\ PublishedWasSent'
        /\ \A e \in Events : sent[e] <= sent'[e] /\ sent'[e] + late'[e] <= sent[e] + late[e]
    BY <1>1, <1>4 DEF IInv, Mail, PublishedWasSent, mail
  <2>6. \A e \in Events : ToSend(e)' \subseteq ToSend(e)
    BY <1>4 DEF ToSend
  <2>7. SendsWithinAttempts'
    BY <2>1, <2>5, <2>6, SendsKept
  <2> QED BY <1>1, <1>2, <2>4, <2>5, <2>7, Assemble
<1> QED BY <1>3, <1>4 DEF Wake

\* A sending nobody waits for settles.
LEMMA LateKeeps ==
    ASSUME IInv, NEW e \in Events, LateSettles(e)
    PROVE  IInv'
<1>1. /\ UNCHANGED <<table, overtaken>> /\ UNCHANGED loop /\ UNCHANGED faults
      /\ booting' \subseteq Replicas
  BY DEF LateSettles, IInv, Others
<1>2. TableKept /\ UNCHANGED processedAt
  BY <1>1, WritesKeep
<1>3. Remembers
  BY <1>2 DEF TableKept
<1>4. Loops'
  BY <1>1, <1>3, LoopsStay
<1>5. /\ Mail'
      /\ \A d \in Events : sent[d] <= sent'[d] /\ sent'[d] + late'[d] <= sent[d] + late[d]
  <2>1. \A d \in Events : sent[d] \in Nat /\ late[d] \in Nat
    BY DEF IInv, Mail
  <2>2. /\ late[e] > 0 /\ late' = [late EXCEPT ![e] = late[e] - 1]
        /\ sent' = sent \/ sent' = [sent EXCEPT ![e] = sent[e] + 1]
    BY DEF LateSettles
  <2> QED BY <2>1, <2>2 DEF IInv, Mail
<1>6. PublishedWasSent'
  <2> SUFFICES ASSUME NEW q \in Replicas, pc[q] = "processed"
               PROVE  sent'[job[q].event] > 0
    BY <1>1 DEF PublishedWasSent, loop
  <2>1. job[q].event \in Events
    BY LoopFacts DEF Working
  <2>2. /\ sent[job[q].event] > 0 /\ sent[job[q].event] \in Nat
        /\ sent'[job[q].event] \in Nat /\ sent[job[q].event] <= sent'[job[q].event]
    BY <1>5, <2>1 DEF IInv, PublishedWasSent, Mail
  <2> QED BY <2>2
<1>7. \A d \in Events : ToSend(d)' \subseteq ToSend(d)
  BY <1>1 DEF ToSend, loop
<1>8. SendsWithinAttempts'
  BY <1>3, <1>5, <1>7, SendsKept
<1> QED BY <1>1, <1>2, <1>4, <1>5, <1>6, <1>8, Assemble

\* The start-up release, new rows, and time.
LEMMA OutsideKeeps ==
    ASSUME IInv,
           \/ \E r \in Replicas : Boot(r)
           \/ \E e \in Events : Enqueue(e) \/ Due(e) \/ Stale(e)
    PROVE  IInv'
<1>1. UNCHANGED loop /\ UNCHANGED mail /\ UNCHANGED faults /\ booting' \subseteq Replicas
  BY DEF Boot, Enqueue, Due, Stale, IInv, Others
<1>2. Table /\ overtaken \subseteq rows /\ FailedAfterAttempts
  BY DEF IInv, Others
<1>3. \A e \in Events : attemptCount[e] \in Nat
  BY <1>2 DEF Table
<1>4. TableKept /\ UNCHANGED processedAt
  <2>1. CASE \E r \in Replicas : Boot(r)
    <3>1. {e \in Open : claimedAt[e] # "no"} \in SUBSET Open
      OBVIOUS
    <3> QED BY <2>1, <3>1, WritesKeep DEF Boot
  <2>2. CASE \E e \in Events : Enqueue(e) \/ Due(e) \/ Stale(e)
    BY <1>2, <1>3, <2>2
      DEF Enqueue, Due, Stale, marks, TableKept, Table, Remembers, FailedAfterAttempts
  <2> QED BY <2>1, <2>2
<1> QED BY <1>1, <1>4, NobodyMoves

\* Every step keeps the invariant.
LEMMA Inductive == IInv /\ [Next]_vars => IInv'
<1> SUFFICES ASSUME IInv, [Next]_vars PROVE IInv'
  OBVIOUS
<1>1. ASSUME NEW r \in Replicas,
             Wake(r) \/ Boot(r) \/ CycleStep(r) \/ CycleFault(r) \/ Stop(r)
      PROVE  IInv'
  BY <1>1, WakeKeeps, OutsideKeeps, OpeningKeeps, ClaimKeeps, PublishKeeps,
     ProcessedKeeps, FailedKeeps, StopKeeps DEF CycleStep, CycleFault
<1>2. ASSUME NEW e \in Events, Enqueue(e) \/ LateSettles(e) \/ Due(e) \/ Stale(e)
      PROVE  IInv'
  BY <1>2, LateKeeps, OutsideKeeps
<1>3. CASE UNCHANGED vars
  <2>1. /\ UNCHANGED loop /\ UNCHANGED mail /\ UNCHANGED <<table, overtaken>>
        /\ UNCHANGED faults /\ booting' \subseteq Replicas
    BY <1>3 DEF vars, IInv, Others
  <2>2. TableKept /\ UNCHANGED processedAt
    BY <2>1, WritesKeep
  <2> QED BY <2>1, <2>2, NobodyMoves
<1> QED BY <1>1, <1>2, <1>3 DEF Next

-----------------------------------------------------------------------------
\* The inductive invariant holds in every reachable state, whatever the replicas,
\* faults and limits: auth-outbox.service.ts and its poll loop.
THEOREM Invariance == Spec => []IInv
<1> QED BY Initially, Inductive, PTL DEF Spec

\* The types of the outbox table and of the loops.
THEOREM TypeCorrect == Spec => []TypeOK
<1> QED BY Invariance, InvTypes, PTL

\* An e-mail goes out at most once per attempt claimPendingBatch has counted.
THEOREM SentWithinAttempts == Spec => []SendsWithinAttempts
<1>1. IInv => SendsWithinAttempts
  BY DEF IInv
<1> QED BY <1>1, Invariance, PTL

\* markProcessed is only ever applied to an event whose e-mail went out.
THEOREM ProcessedSent == Spec => []ProcessedWasSent
<1>1. IInv => ProcessedWasSent
  BY DEF IInv
<1> QED BY <1>1, Invariance, PTL

\* markFailed and markExhaustedClaims give up no event before its last attempt.
THEOREM FailedExhausted == Spec => []FailedAfterAttempts
<1>1. IInv => FailedAfterAttempts
  BY DEF IInv
<1> QED BY <1>1, Invariance, PTL

\* All three together: no attempt is taken twice (claimPendingBatch), none is
\* withheld (markRetry, markFailed, markExhaustedClaims), and no row is marked
\* processed whose e-mail was never sent (markProcessed).
THEOREM AttemptsKept == Spec => []AttemptsHonoured
<1>1. SendsWithinAttempts /\ ProcessedWasSent /\ FailedAfterAttempts => AttemptsHonoured
  BY DEF AttemptsHonoured
<1> QED BY <1>1, SentWithinAttempts, ProcessedSent, FailedExhausted, PTL

-----------------------------------------------------------------------------
(***************************************************************************)
(* Holders.                                                                *)
(***************************************************************************)

\* What a claim is worth: until it is released, nobody else can take the event.
Held(e) == \A r \in Holders(e) : /\ e \in Open => claimedAt[e] # "no"
                                 /\ \A s \in Holders(e) : s = r

Claims == \A e \in Events \ overtaken : Held(e)

\* What r has in hand, by itself and with all others.
LEMMA HandFacts ==
    /\ \A r, e : e \in InHand(r) <=> e # None /\ \E j \in batch[r] \cup {job[r]} : j.event = e
    /\ \A r, e : r \in Holders(e) <=> r \in Replicas /\ e \in InHand(r)
BY DEF InHand, Holders

\* A move that adds nothing adds no holder.
LEMMA HoldersShrink ==
    ASSUME IInv, NEW r \in Replicas, Moves(r), NEW e \in Events
    PROVE  Holders(e)' \subseteq Holders(e)
<1> PICK p, b, j : /\ MovesTo(r, p, b, j)
                   /\ b \subseteq batch[r] /\ j \in batch[r] \cup {job[r], NoJob}
  BY DEF Moves
<1>1. /\ \A q \in Replicas : batch'[q] = IF q = r THEN b ELSE batch[q]
      /\ \A q \in Replicas : job'[q] = IF q = r THEN j ELSE job[q]
  BY DEF MovesTo, IInv, Loops
<1>2. ASSUME NEW q \in Replicas, NEW x \in batch'[q] \cup {job'[q]}, x.event = e
      PROVE  \E y \in batch[q] \cup {job[q]} : y.event = e
  <2>1. NoJob.event # e
    BY ParametersAssumption DEF NoJob
  <2> QED BY <1>1, <1>2, <2>1
<1>3. ASSUME NEW q \in Holders(e)' PROVE q \in Holders(e)
  <2>1. q \in Replicas /\ e # None /\ \E x \in batch'[q] \cup {job'[q]} : x.event = e
    BY <1>3 DEF Holders, InHand
  <2> QED BY <1>2, <2>1 DEF Holders, InHand
<1> QED BY <1>3

\* A replica through with its job does not hold its event any more.
LEMMA JobLeaves ==
    ASSUME IInv, NEW r \in Replicas, pc[r] \in Working, Continue(r, batch[r])
    PROVE  \A e \in Events : e = job[r].event => r \notin Holders(e)'
<1> SUFFICES ASSUME NEW e \in Events, e = job[r].event, r \in Holders(e)' PROVE FALSE
  OBVIOUS
<1>1. LoopOK(pc[r], batch[r], job[r]) /\ job[r] \notin batch[r]
  BY LoopFacts DEF LoopOK
<1>2. \A x \in batch[r] : x.event # e
  BY <1>1 DEF LoopOK
<1>3. \E x \in batch'[r] \cup {job'[r]} : x.event = e
  BY DEF Holders, InHand
<1>4. batch'[r] \cup {job'[r]} \subseteq batch[r] \cup {NoJob}
  BY DEF Continue, EndCycle, Rest, IInv, Loops
<1>5. NoJob.event # e
  BY ParametersAssumption DEF NoJob
<1> QED BY <1>2, <1>3, <1>4, <1>5

\* No new holder, and the claim of an event still held is kept.
LEMMA HeldKept ==
    ASSUME Claims, overtaken \subseteq overtaken',
           \A e \in Events : Holders(e)' \subseteq Holders(e),
           \A e \in Events \ overtaken' : Holders(e)' # {} /\ e \in Open' =>
               e \in Open /\ (claimedAt[e] # "no" => claimedAt'[e] # "no")
    PROVE  Claims'
<1> SUFFICES ASSUME NEW e \in Events \ overtaken' PROVE Held(e)'
  BY DEF Claims
<1>1. Held(e)
  BY DEF Claims
<1>2. \A r \in Holders(e)' : r \in Holders(e)
  OBVIOUS
<1>3. ASSUME NEW r \in Holders(e)' PROVE e \in Open' => claimedAt'[e] # "no"
  <2>1. r \in Holders(e) /\ Holders(e)' # {}
    BY <1>2
  <2> QED BY <1>1, <2>1 DEF Held
<1>4. ASSUME NEW r \in Holders(e)', NEW s \in Holders(e)' PROVE s = r
  BY <1>1, <1>2 DEF Held
<1> QED BY <1>3, <1>4 DEF Held

\* The writes that any replica may make keep the claims of events held.
LEMMA WritesHold ==
    ASSUME IInv, Claims, \A e \in Events : Holders(e)' \subseteq Holders(e),
           \/ FailExhausted
           \/ \E E \in SUBSET Open : ReleaseClaims(E)
           \/ \E B \in SUBSET Open : ClaimRows(B)
           \/ \E e \in Events : SetProcessed(e) /\ UNCHANGED overtaken
           \/ UNCHANGED <<table, overtaken>>
    PROVE  Claims'
<1>1. overtaken \subseteq overtaken'
  BY DEF FailExhausted, ReleaseClaims, ClaimRows
<1> SUFFICES ASSUME NEW e \in Events \ overtaken', Holders(e)' # {}, e \in Open'
             PROVE  e \in Open /\ (claimedAt[e] # "no" => claimedAt'[e] # "no")
  BY <1>1, HeldKept
<1>2. Holders(e) # {} /\ claimedAt \in [Events -> {"no", "fresh", "stale"}]
  BY DEF IInv, Table
<1>3. CASE FailExhausted
  BY <1>2, <1>3 DEF FailExhausted, Open
<1>4. CASE \E E \in SUBSET Open : ReleaseClaims(E)
  BY <1>2, <1>4 DEF ReleaseClaims, Open, marks
<1>5. CASE \E B \in SUBSET Open : ClaimRows(B)
  BY <1>2, <1>5 DEF ClaimRows, Open, marks
<1>6. CASE \E d \in Events : SetProcessed(d) /\ UNCHANGED overtaken
  BY <1>2, <1>6 DEF SetProcessed, Open
<1>7. CASE UNCHANGED <<table, overtaken>>
  BY <1>7 DEF table, marks, Open
<1> QED BY <1>3, <1>4, <1>5, <1>6, <1>7

\* A claim makes its replica the one holder.
LEMMA ClaimHolds ==
    ASSUME IInv, Claims, NEW r \in Replicas, Claim(r)
    PROVE  /\ Claims'
           /\ \E B \in Batches :
                 /\ \A e \in Events : Holders(e)' \subseteq
                       Holders(e) \cup (IF e \in B THEN {r} ELSE {})
                 /\ \A e \in B : e \in Events /\ e \in Open
                                 /\ (e \notin overtaken => Holders(e) = {})
<1> PICK B \in Batches : ClaimRows(B) /\ Continue(r, Claimed(B))
  BY DEF Claim
<1>1. /\ batch[r] = {} /\ job[r] = NoJob
  BY LoopFacts DEF Claim, Working
<1>2. \A e \in B : e \in Open /\ e \in Events /\ claimedAt[e] = "no"
  BY DEF Batches, Claimable, Open, IInv, Table
<1>3. \A e \in B : e \notin overtaken => Holders(e) = {}
  BY <1>2 DEF Claims, Held
<1>4. ASSUME NEW e \in Events, NEW q \in Holders(e)', q \notin Holders(e)
      PROVE  q = r /\ e \in B
  <2>1. q \in Replicas /\ \E x \in batch'[q] \cup {job'[q]} : x.event = e
    BY <1>4 DEF Holders, InHand
  <2>2. q # r => batch'[q] = batch[q] /\ job'[q] = job[q]
    BY <2>1 DEF Continue, EndCycle, IInv, Loops
  <2>3. q = r
    BY <1>4, <2>1, <2>2 DEF Holders, InHand
  <2>4. batch'[r] \cup {job'[r]} \subseteq Claimed(B) \cup {NoJob}
    BY DEF Continue, EndCycle, Rest, IInv, Loops
  <2>5. NoJob.event # e /\ \A x \in Claimed(B) : x.event \in B
    BY ParametersAssumption DEF NoJob, Claimed
  <2> QED BY <2>1, <2>3, <2>4, <2>5
<1>5. \A e \in Events : Holders(e)' \subseteq Holders(e) \cup (IF e \in B THEN {r} ELSE {})
  BY <1>4
<1>6. Claims'
  <2> SUFFICES ASSUME NEW e \in Events \ overtaken' PROVE Held(e)'
    BY DEF Claims
  <2>1. e \notin overtaken /\ Held(e)
    BY DEF Claims, ClaimRows
  <2>2. CASE e \in B
    <3>1. claimedAt'[e] = "fresh"
      BY <2>2 DEF ClaimRows
    <3>2. Holders(e)' \subseteq {r}
      BY <1>3, <1>5, <2>1, <2>2
    <3>3. \A q \in Holders(e)' : q = r
      BY <3>2
    <3> QED BY <3>1, <3>3 DEF Held
  <2>3. CASE e \notin B
    <3>1. Holders(e)' \subseteq Holders(e)
      BY <1>5, <2>3
    <3>2. claimedAt'[e] = claimedAt[e] /\ (e \in Open' => e \in Open)
      BY <2>3 DEF ClaimRows, Open, marks
    <3>3. \A q \in Holders(e)' : q \in Holders(e)
      BY <3>1
    <3> QED BY <2>1, <3>2, <3>3 DEF Held
  <2> QED BY <2>2, <2>3
<1> QED BY <1>2, <1>3, <1>5, <1>6

\* A replica marks its event failed, or fails to, and lets go of it.
LEMMA FailureHolds ==
    ASSUME IInv, Claims, NEW r \in Replicas, MarkFailed(r) \/ MarkFailedFails(r)
    PROVE  Claims'
<1>1. pc[r] = "failed" /\ Continue(r, batch[r]) /\ UNCHANGED overtaken
  BY DEF MarkFailed, MarkFailedFails
<1>2. Moves(r) /\ \A e \in Events : e = job[r].event => r \notin Holders(e)'
  BY <1>1, ContinueMoves, JobLeaves DEF Working
<1>3. \A e \in Events : Holders(e)' \subseteq Holders(e)
  BY <1>2, HoldersShrink
<1>4. SetFailed(job[r]) \/ UNCHANGED table
  BY DEF MarkFailed, MarkFailedFails
<1> SUFFICES ASSUME NEW e \in Events \ overtaken', Holders(e)' # {}, e \in Open'
             PROVE  e \in Open /\ (claimedAt[e] # "no" => claimedAt'[e] # "no")
  BY <1>1, <1>3, HeldKept
<1>5. CASE e = job[r].event
  <2>1. e # None /\ Held(e) /\ r \in Holders(e)
    BY <1>1, <1>5, ParametersAssumption DEF Claims, Holders, InHand
  <2>2. Holders(e)' \subseteq {}
    BY <1>2, <1>3, <1>5, <2>1 DEF Held
  <2> QED BY <2>2
<1>6. CASE e # job[r].event
  BY <1>4, <1>6 DEF SetFailed, table, marks, Open, IInv, Table
<1> QED BY <1>5, <1>6

\* The claims hold through every step.
LEMMA ClaimsInductive == IInv /\ Claims /\ [Next]_vars => Claims'
<1> SUFFICES ASSUME IInv, Claims, [Next]_vars PROVE Claims'
  OBVIOUS
<1>1. UNCHANGED loop => \A e \in Events : Holders(e)' \subseteq Holders(e)
  BY DEF loop, Holders, InHand
<1>2. \A r \in Replicas : Moves(r) => \A e \in Events : Holders(e)' \subseteq Holders(e)
  BY HoldersShrink
<1>3. /\ {e \in Open : Reclaimable(e)} \in SUBSET Open
      /\ {e \in Open : claimedAt[e] # "no"} \in SUBSET Open
      /\ \A B \in Batches : B \in SUBSET Open
  BY DEF Batches
<1>4. ASSUME NEW r \in Replicas, Wake(r) PROVE Claims'
  <2>1. UNCHANGED <<table, overtaken>>
    BY <1>4 DEF Wake
  <2>2. CASE Goto(r, "exhaust")
    BY <1>4, <2>1, <2>2, WritesHold DEF Goto, Holders, InHand
  <2>3. CASE UNCHANGED <<batch, job>>
    BY <2>1, <2>3, WritesHold DEF Holders, InHand
  <2> QED BY <1>4, <2>2, <2>3 DEF Wake
<1>5. ASSUME NEW r \in Replicas, Boot(r) PROVE Claims'
  <2>1. UNCHANGED loop /\ \E E \in SUBSET Open : ReleaseClaims(E)
    BY <1>3, <1>5 DEF Boot
  <2> QED BY <1>1, <2>1, WritesHold
<1>6. ASSUME NEW r \in Replicas, MarkExhausted(r) PROVE Claims'
  BY <1>6, WritesHold DEF MarkExhausted, Goto, Holders, InHand
<1>7. ASSUME NEW r \in Replicas, Reclaim(r) PROVE Claims'
  <2>1. \E E \in SUBSET Open : ReleaseClaims(E)
    BY <1>3, <1>7 DEF Reclaim
  <2> QED BY <1>7, <2>1, WritesHold DEF Reclaim, Goto, Holders, InHand
<1>8. ASSUME NEW r \in Replicas, CycleFails(r) PROVE Claims'
  <2>1. \/ FailExhausted
        \/ \E E \in SUBSET Open : ReleaseClaims(E)
        \/ \E B \in SUBSET Open : ClaimRows(B)
        \/ UNCHANGED <<table, overtaken>>
    BY <1>3, <1>8 DEF CycleFails
  <2>2. Moves(r)
    BY <1>8, EndCycleMoves DEF CycleFails
  <2> QED BY <1>2, <2>1, <2>2, WritesHold
<1>9. ASSUME NEW r \in Replicas, Publish(r) \/ PublishFails(r) \/ PublishTimesOut(r) PROVE Claims'
  <2>1. UNCHANGED <<batch, job>> /\ UNCHANGED <<table, overtaken>>
    BY <1>9 DEF Publish, PublishFails, PublishTimesOut, Goto
  <2> QED BY <2>1, WritesHold DEF Holders, InHand
<1>10. ASSUME NEW r \in Replicas, MarkProcessed(r) \/ MarkProcessedFails(r) PROVE Claims'
  <2>1. pc[r] = "processed" /\ job[r].event \in Events
    BY <1>10, LoopFacts DEF MarkProcessed, MarkProcessedFails, Working
  <2>2. \/ \E e \in Events : SetProcessed(e) /\ UNCHANGED overtaken
        \/ UNCHANGED <<table, overtaken>>
    BY <1>10, <2>1 DEF MarkProcessed, MarkProcessedFails
  <2>3. Moves(r) \/ UNCHANGED <<batch, job>>
    BY <1>10, ContinueMoves DEF MarkProcessed, MarkProcessedFails, Goto
  <2>4. \A e \in Events : Holders(e)' \subseteq Holders(e)
    BY <1>2, <2>3 DEF Holders, InHand
  <2> QED BY <2>2, <2>4, WritesHold
<1>11. ASSUME NEW r \in Replicas, Stop(r) PROVE Claims'
  <2>1. LoopOK("idle", {}, NoJob)
    BY DEF LoopOK, Pcs, Working
  <2>2. MovesTo(r, "idle", {}, NoJob)
    BY <1>11, <2>1 DEF MovesTo, Stop
  <2>3. Moves(r) /\ UNCHANGED <<table, overtaken>>
    BY <1>11, <2>2 DEF Moves, Stop
  <2> QED BY <1>2, <2>3, WritesHold
<1>12. ASSUME NEW e \in Events, LateSettles(e) PROVE Claims'
  BY <1>1, <1>12, WritesHold DEF LateSettles
<1>13. ASSUME NEW e \in Events, Enqueue(e) \/ Due(e) \/ Stale(e) PROVE Claims'
  <2>1. UNCHANGED loop /\ UNCHANGED overtaken
    BY <1>13 DEF Enqueue, Due, Stale
  <2>2. \A d \in Events : d \in rows' /\ Holders(d) # {} => d \in rows
    BY DEF Holders, InHand, IInv, Loops, Known, NoJob
  <2> SUFFICES ASSUME NEW d \in Events \ overtaken', Holders(d)' # {}, d \in Open'
               PROVE  d \in Open /\ (claimedAt[d] # "no" => claimedAt'[d] # "no")
    BY <1>1, <2>1, HeldKept
  <2>3. Holders(d) # {} /\ d \in Open
    BY <1>1, <1>13, <2>1, <2>2 DEF Enqueue, Due, Stale, Open, marks
  <2>4. claimedAt[d] # "no" => claimedAt'[d] # "no"
    BY <1>13 DEF Enqueue, Due, Stale, IInv, Table
  <2> QED BY <2>3, <2>4
<1>14. CASE UNCHANGED vars
  BY <1>1, <1>14, WritesHold DEF vars
<1> QED BY <1>4, <1>5, <1>6, <1>7, <1>8, <1>9, <1>10, <1>11, <1>12, <1>13, <1>14,
           ClaimHolds, FailureHolds DEF Next, CycleStep, CycleFault

-----------------------------------------------------------------------------
(***************************************************************************)
(* Without faults.                                                         *)
(***************************************************************************)

\* An event not overtaken was sent at most once, and then it is processed or
\* about to be; a processed one is in nobody's hands.
CleanEvent(e) ==
    /\ sent[e] <= 1
    /\ sent[e] = 1 => \/ e \in processedAt
                      \/ \E r \in Replicas : pc[r] = "processed" /\ job[r].event = e
    /\ e \in processedAt => Holders(e) = {}

Clean ==
    faults = MaxFaults =>
        /\ \A r \in Replicas : pc[r] # "failed"
        /\ \A e \in Events : late[e] = 0
        /\ \A e \in Events \ overtaken : CleanEvent(e)

\* Steps that neither send nor mark.
LEMMA CleanKept ==
    ASSUME Clean, UNCHANGED <<mail, processedAt, faults>>, overtaken \subseteq overtaken',
           \A e \in Events : Holders(e)' \subseteq Holders(e),
           \A q \in Replicas : pc[q] = "processed" => pc'[q] = "processed" /\ job'[q] = job[q],
           \A q \in Replicas : pc'[q] = "failed" => pc[q] = "failed"
    PROVE  Clean'
<1> SUFFICES ASSUME faults' = MaxFaults
             PROVE  /\ \A r \in Replicas : pc'[r] # "failed"
                    /\ \A e \in Events : late'[e] = 0
                    /\ \A e \in Events \ overtaken' : CleanEvent(e)'
  BY DEF Clean
<1>1. /\ \A r \in Replicas : pc[r] # "failed"
      /\ \A e \in Events : late[e] = 0
      /\ \A e \in Events \ overtaken : CleanEvent(e)
  BY DEF Clean
<1>2. ASSUME NEW e \in Events \ overtaken' PROVE CleanEvent(e)'
  <2>1. CleanEvent(e) /\ Holders(e)' \subseteq Holders(e)
    BY <1>1
  <2> QED BY <2>1 DEF CleanEvent, mail
<1> QED BY <1>1, <1>2 DEF mail

\* A claim takes up an event nobody has sent.
LEMMA ClaimClean ==
    ASSUME IInv, Claims, Clean, NEW r \in Replicas, Claim(r)
    PROVE  Clean'
<1> PICK B \in Batches :
        /\ \A e \in Events : Holders(e)' \subseteq
              Holders(e) \cup (IF e \in B THEN {r} ELSE {})
        /\ \A e \in B : e \in Events /\ e \in Open /\ (e \notin overtaken => Holders(e) = {})
  BY ClaimHolds
<1>1. /\ pc[r] = "claim" /\ UNCHANGED mail /\ UNCHANGED faults
      /\ UNCHANGED processedAt /\ UNCHANGED overtaken
  BY DEF Claim, ClaimRows, marks
<1>2. /\ \A q \in Replicas \ {r} : pc'[q] = pc[q] /\ job'[q] = job[q]
      /\ pc'[r] # "failed"
  BY DEF Claim, Continue, EndCycle, IInv, Loops
<1> SUFFICES ASSUME faults' = MaxFaults
             PROVE  /\ \A q \in Replicas : pc'[q] # "failed"
                    /\ \A e \in Events : late'[e] = 0
                    /\ \A e \in Events \ overtaken' : CleanEvent(e)'
  BY DEF Clean
<1>3. /\ \A q \in Replicas : pc[q] # "failed"
      /\ \A e \in Events : late[e] = 0
      /\ \A e \in Events \ overtaken : CleanEvent(e)
  BY <1>1 DEF Clean
<1>4. ASSUME NEW e \in Events \ overtaken' PROVE CleanEvent(e)'
  <2>1. CleanEvent(e) /\ e \notin overtaken
    BY <1>1, <1>3
  <2>2. e \in processedAt => e \notin B
    BY DEF Open
  <2>3. e \in processedAt' => Holders(e)' = {}
    BY <1>1, <2>1, <2>2 DEF CleanEvent
  <2>4. \A q \in Replicas : pc[q] = "processed" => pc'[q] = "processed" /\ job'[q] = job[q]
    BY <1>1, <1>2
  <2> QED BY <1>1, <2>1, <2>3, <2>4 DEF CleanEvent, mail
<1> QED BY <1>1, <1>2, <1>3, <1>4 DEF mail

\* A holder sends what nobody has sent.
LEMMA PublishClean ==
    ASSUME IInv, Claims, Clean, NEW r \in Replicas, Publish(r)
    PROVE  Clean'
<1>1. /\ pc[r] = "publish" /\ Goto(r, "processed")
      /\ UNCHANGED <<processedAt, overtaken, late, faults, batch, job>>
  BY DEF Publish, table, marks, Goto
<1> PICK f \in Events : f = job[r].event
  BY <1>1, LoopFacts DEF Working
<1>2. /\ sent' = [sent EXCEPT ![f] = sent[f] + 1] /\ sent \in [Events -> Nat]
      /\ \A q \in Replicas : pc'[q] = IF q = r THEN "processed" ELSE pc[q]
  BY <1>1 DEF Publish, Goto, IInv, Loops, Mail
<1> SUFFICES ASSUME faults' = MaxFaults
             PROVE  /\ \A q \in Replicas : pc'[q] # "failed"
                    /\ \A e \in Events : late'[e] = 0
                    /\ \A e \in Events \ overtaken' : CleanEvent(e)'
  BY DEF Clean
<1>3. /\ \A q \in Replicas : pc[q] # "failed"
      /\ \A e \in Events : late[e] = 0
      /\ \A e \in Events \ overtaken : CleanEvent(e)
  BY <1>1 DEF Clean
<1>4. ASSUME NEW e \in Events \ overtaken' PROVE CleanEvent(e)'
  <2>1. CleanEvent(e) /\ Held(e) /\ Holders(e)' = Holders(e)
    BY <1>1, <1>3 DEF Claims, Holders, InHand
  <2>2. CASE e = f
    <3>1. r \in Holders(e)
      BY <2>2, ParametersAssumption DEF Holders, InHand
    <3>2. e \notin processedAt
      BY <2>1, <3>1 DEF CleanEvent
    <3>3. ASSUME NEW q \in Replicas, pc[q] = "processed", job[q].event = e PROVE FALSE
      <4>1. q \in Holders(e)
        BY <3>3, ParametersAssumption DEF Holders, InHand
      <4> QED BY <1>1, <2>1, <3>1, <3>3, <4>1 DEF Held
    <3>4. sent[e] = 0
      BY <1>2, <2>1, <3>2, <3>3 DEF CleanEvent
    <3>5. sent'[e] = 1 /\ pc'[r] = "processed" /\ job'[r].event = e
      BY <1>1, <1>2, <2>2, <3>4
    <3> QED BY <1>1, <3>2, <3>5 DEF CleanEvent
  <2>3. CASE e # f
    <3>1. sent'[e] = sent[e]
      BY <1>2, <2>3
    <3>2. \A q \in Replicas : pc[q] = "processed" => pc'[q] = "processed" /\ job'[q] = job[q]
      BY <1>1, <1>2
    <3> QED BY <1>1, <2>1, <3>1, <3>2 DEF CleanEvent
  <2> QED BY <2>2, <2>3
<1> QED BY <1>1, <1>2, <1>3, <1>4

\* The holder marks its event and lets go of it.
LEMMA ProcessedClean ==
    ASSUME IInv, Claims, Clean, NEW r \in Replicas, MarkProcessed(r)
    PROVE  Clean'
<1>1. /\ pc[r] = "processed" /\ SetProcessed(job[r].event) /\ Continue(r, batch[r])
      /\ UNCHANGED <<overtaken, mail, faults>>
  BY DEF MarkProcessed
<1> PICK f \in Events : f = job[r].event
  BY <1>1, LoopFacts DEF Working
<1>2. r \notin Holders(f)' /\ \A e \in Events : Holders(e)' \subseteq Holders(e)
  BY <1>1, JobLeaves, ContinueMoves, HoldersShrink DEF Working
<1>3. /\ \A q \in Replicas \ {r} : pc'[q] = pc[q] /\ job'[q] = job[q]
      /\ pc'[r] # "failed"
  BY <1>1 DEF Continue, EndCycle, IInv, Loops
<1>4. processedAt' = processedAt \cup {f}
  BY <1>1 DEF SetProcessed
<1> SUFFICES ASSUME faults' = MaxFaults
             PROVE  /\ \A q \in Replicas : pc'[q] # "failed"
                    /\ \A e \in Events : late'[e] = 0
                    /\ \A e \in Events \ overtaken' : CleanEvent(e)'
  BY DEF Clean
<1>5. /\ \A q \in Replicas : pc[q] # "failed"
      /\ \A e \in Events : late[e] = 0
      /\ \A e \in Events \ overtaken : CleanEvent(e)
  BY <1>1 DEF Clean
<1>6. ASSUME NEW e \in Events \ overtaken' PROVE CleanEvent(e)'
  <2>1. CleanEvent(e) /\ Held(e)
    BY <1>1, <1>5 DEF Claims
  <2>2. CASE e = f
    <3>1. r \in Holders(e)
      BY <2>2, ParametersAssumption DEF Holders, InHand
    <3>2. Holders(e)' = {}
      BY <1>2, <2>1, <2>2, <3>1 DEF Held
    <3> QED BY <1>1, <1>4, <2>1, <2>2, <3>2 DEF CleanEvent, mail
  <2>3. CASE e # f
    <3>1. ASSUME NEW q \in Replicas, pc[q] = "processed", job[q].event = e
          PROVE  pc'[q] = "processed" /\ job'[q].event = e
      BY <1>3, <2>3, <3>1
    <3>2. Holders(e)' \subseteq Holders(e)
      BY <1>2
    <3> QED BY <1>1, <1>4, <2>1, <2>3, <3>1, <3>2 DEF CleanEvent, mail
  <2> QED BY <2>2, <2>3
<1> QED BY <1>1, <1>3, <1>5, <1>6 DEF mail

\* It stays clean through every step; a fault ends the claim.
LEMMA CleanInductive == IInv /\ Claims /\ Clean /\ [Next]_vars => Clean'
<1> SUFFICES ASSUME IInv, Claims, Clean, [Next]_vars PROVE Clean'
  OBVIOUS
<1>1. Fault => Clean'
  BY ParametersAssumption DEF Fault, Clean, IInv, Others
<1>2. UNCHANGED <<batch, job>> => \A e \in Events : Holders(e)' \subseteq Holders(e)
  BY DEF Holders, InHand
<1>3. ASSUME NEW r \in Replicas, Wake(r) \/ Boot(r) \/ MarkExhausted(r) \/ Reclaim(r)
      PROVE  Clean'
  <2>1. UNCHANGED <<mail, processedAt, faults, batch, job>> /\ overtaken \subseteq overtaken'
    BY <1>3 DEF Wake, Boot, MarkExhausted, Reclaim, FailExhausted, ReleaseClaims, Goto,
                table, marks, loop
  <2>2. \A q \in Replicas : \/ pc'[q] = pc[q]
                            \/ /\ pc[q] \in {"idle", "exhaust", "reclaim"}
                               /\ pc'[q] \in {"exhaust", "reclaim", "claim"}
    BY <1>3 DEF Wake, Boot, MarkExhausted, Reclaim, Goto, loop, IInv, Loops
  <2> QED BY <1>2, <2>1, <2>2, CleanKept
<1>4. ASSUME NEW r \in Replicas, MarkFailed(r) \/ MarkFailedFails(r) PROVE Clean'
  BY <1>4 DEF MarkFailed, MarkFailedFails, Clean
<1>5. ASSUME NEW r \in Replicas, CycleFault(r) \/ Stop(r) PROVE Clean'
  BY <1>1, <1>4, <1>5
    DEF CycleFault, Stop, CycleFails, PublishFails, PublishTimesOut, MarkProcessedFails
<1>6. ASSUME NEW e \in Events, LateSettles(e) PROVE Clean'
  BY <1>6 DEF LateSettles, Clean
<1>7. ASSUME NEW e \in Events, Enqueue(e) \/ Due(e) \/ Stale(e) PROVE Clean'
  <2>1. UNCHANGED <<mail, processedAt, faults, overtaken>> /\ UNCHANGED loop
    BY <1>7 DEF Enqueue, Due, Stale, marks
  <2> QED BY <1>2, <2>1, CleanKept DEF loop
<1>8. CASE UNCHANGED vars
  <2>1. UNCHANGED <<mail, processedAt, faults, overtaken>> /\ UNCHANGED loop
    BY <1>8 DEF vars, table, marks
  <2> QED BY <1>2, <2>1, CleanKept DEF loop
<1> QED BY <1>3, <1>4, <1>5, <1>6, <1>7, <1>8, ClaimClean, PublishClean, ProcessedClean
        DEF Next, CycleStep

\* Claims and clean events hold in every reachable state.
THEOREM ClaimsHold == Spec => [](Claims /\ Clean)
<1>1. Init => Claims /\ Clean
  <2> SUFFICES ASSUME Init PROVE Claims /\ Clean
    OBVIOUS
  <2>1. \A e \in Events : Holders(e) = {}
    BY DEF Init, Holders, InHand, NoJob
  <2>2. Claims
    BY <2>1 DEF Claims, Held
  <2>3. Clean
    BY DEF Init, Clean, CleanEvent
  <2> QED BY <2>2, <2>3
<1>2. IInv /\ Claims /\ Clean /\ [Next]_vars => (Claims /\ Clean)'
  BY ClaimsInductive, CleanInductive
<1> QED BY <1>1, <1>2, Invariance, PTL DEF Spec

\* A replica is alone with an event unless its claim was released from under it:
\* claimPendingBatch takes no row that is held.
THEOREM HolderAlone == Spec => []OneHolder
<1>1. Claims => OneHolder
  <2> SUFFICES ASSUME Claims, NEW e \in Events \ overtaken
               PROVE  Cardinality(Holders(e)) <= 1
    BY DEF OneHolder
  <2>1. CASE Holders(e) = {}
    BY <2>1, FS_EmptySet
  <2>2. ASSUME NEW r \in Holders(e) PROVE Cardinality(Holders(e)) <= 1
    <3>1. Holders(e) = {r}
      BY <2>2 DEF Claims, Held
    <3>2. Cardinality({r}) = 1
      BY FS_Singleton
    <3> QED BY <3>1, <3>2
  <2> QED BY <2>1, <2>2
<1> QED BY <1>1, ClaimsHold, PTL

\* Without faults and releases no e-mail goes out twice, on any number of replicas.
THEOREM NoUnexplainedDuplicate == Spec => []DuplicatesExplained
<1>1. Clean => DuplicatesExplained
  BY DEF Clean, CleanEvent, DuplicatesExplained
<1> QED BY <1>1, ClaimsHold, PTL

\* What a claim is worth, on any number of replicas: claimPendingBatch hands a row
\* to one replica at a time, and so its e-mail goes out once.
THEOREM ClaimExclusive == Spec => []ClaimsExclusive
<1>1. OneHolder /\ DuplicatesExplained => ClaimsExclusive
  BY DEF ClaimsExclusive
<1> QED BY <1>1, HolderAlone, NoUnexplainedDuplicate, PTL
=============================================================================
