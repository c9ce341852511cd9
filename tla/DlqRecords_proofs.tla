--------------------------- MODULE DlqRecords_proofs ---------------------------
(***************************************************************************)
(* Proofs about DlqRecords, for every set of records, workers and bounds.  *)
(***************************************************************************)
EXTENDS DlqRecords, TLAPS

\* The worker is past its lock.
Busy(w) == worker[w].pc \in {"produce", "success", "failure"}

\* What the lock is worth: unless a lock was overtaken, whoever has a record in
\* hand holds its lock, knows its retry count, and has published it at most
\* once more than that count says.
InHand ==
    ~ overtaken => \A w \in Workers : Busy(w) =>
        /\ rec[worker[w].cur].lockedBy = w
        /\ worker[w].count = rec[worker[w].cur].count
        /\ worker[w].pc = "produce" =>
               published[worker[w].cur] <= rec[worker[w].cur].count

\* What a record looks like by itself.
RecordOK(r, d) ==
    /\ r.status = "replaying" => r.lockedBy # None
    /\ r.lockedBy # None => r.status \in {"replaying", "resolved", "discarded"}
    /\ r.next # "never" => r.count < BudgetOf(d)
    /\ r.status = "absent" => r.count = 0

IInv ==
    /\ TypeOK
    /\ \A d \in Records : RecordOK(rec[d], d)
    /\ InHand
    /\ PublicationsCounted

\* Every record's budget is a number, positive where retries are automatic.
LEMMA BudgetType ==
    \A d \in Records : /\ BudgetOf(d) \in Nat
                       /\ Category[d] \in Automatic => BudgetOf(d) > 0
BY ParametersAssumption, SMT DEF BudgetOf, Categories, Automatic

\* What the writes of the replay make of a record.
LEMMA WritesType ==
    ASSUME NEW r \in Record, NEW n \in Nat, NEW max \in Nat, NEW w \in Workers
    PROVE  /\ AfterSuccess(r, n) = [status |-> "pending", lockedBy |-> None, lockedAt |-> "null",
                                    count |-> n + 1, next |-> "never"]
           /\ AfterFailure(r, n, max).lockedBy = None
           /\ AfterFailure(r, n, max).count = n + 1
           /\ AfterFailure(r, n, max).status \in {"pending", "review"}
           /\ AfterFailure(r, n, max).next # "never" => n + 1 < max
           /\ AfterSuccess(r, n) \in Record
           /\ AfterFailure(r, n, max) \in Record
           /\ Locked(r, w) \in Record
<1> DEFINE A(status, next) == Released(r, status, n + 1, next)
<1>1. \A status \in {"pending", "review"}, next \in {"never", "later"} :
         /\ A(status, next) = [status |-> status, lockedBy |-> None, lockedAt |-> "null",
                               count |-> n + 1, next |-> next]
         /\ A(status, next) \in Record
  BY SMT DEF Released, Unlocked, Record, Statuses
<1>2. /\ AfterSuccess(r, n) = A("pending", "never")
      /\ \/ AfterFailure(r, n, max) = A("review", "never")
         \/ n + 1 < max /\ AfterFailure(r, n, max) = A("pending", "later")
  BY SMT DEF AfterSuccess, AfterFailure, Exhausted
<1>3. Locked(r, w) \in Record
  BY SMT DEF Locked, Record, Statuses
<1> HIDE DEF A
<1> QED BY <1>1, <1>2, <1>3, SMT

\* What workers become.
LEMMA WorkerTypes ==
    ASSUME NEW q \in Worker, NEW todo \in SUBSET Records, NEW by \in {"scheduler", "admin"}
    PROVE  /\ Idle \in Worker /\ Idle.cur = None /\ Idle.pc = "idle"
           /\ Batch(by, todo) \in Worker /\ Batch(by, todo).cur = None
           /\ Batch(by, todo).pc = "batch"
           /\ Rest(q, todo) \in Worker /\ Rest(q, todo).cur = None
           /\ Rest(q, todo).pc \in {"idle", "batch"}
<1>1. /\ Idle \in Worker /\ Idle.cur = None /\ Idle.pc = "idle"
  BY SMT DEF Idle, Worker
<1>2. \A b \in {"scheduler", "admin"} :
         /\ Batch(b, todo) \in Worker /\ Batch(b, todo).cur = None
         /\ Batch(b, todo).pc = "batch"
  BY SMT DEF Batch, Worker
<1>3. q.by \in {"scheduler", "admin"}
  BY SMT DEF Worker
<1> QED BY <1>1, <1>2, <1>3 DEF Rest

-----------------------------------------------------------------------------
(***************************************************************************)
(* The two kinds of change a step makes.                                   *)
(***************************************************************************)

\* A record is written.
LEMMA RecordWritten ==
    ASSUME IInv, NEW d \in Records, NEW r \in Record, RecordOK(r, d),
           rec' = [rec EXCEPT ![d] = r]
    PROVE  /\ rec' \in [Records -> Record]
           /\ \A e \in Records : rec'[e] = IF e = d THEN r ELSE rec[e]
           /\ (\A e \in Records : RecordOK(rec[e], e))'
<1>1. rec \in [Records -> Record] /\ \A e \in Records : RecordOK(rec[e], e)
  BY DEF IInv, TypeOK
<1>2. \A e \in Records : rec'[e] = IF e = d THEN r ELSE rec[e]
  BY <1>1
<1> QED BY <1>1, <1>2

\* A worker moves.
LEMMA WorkerMoved ==
    ASSUME IInv, NEW w \in Workers, NEW q \in Worker,
           q.cur # None <=> q.pc \in {"produce", "success", "failure"},
           worker' = [worker EXCEPT ![w] = q]
    PROVE  /\ worker' \in [Workers -> Worker]
           /\ \A v \in Workers : worker'[v] = IF v = w THEN q ELSE worker[v]
           /\ \A v \in Workers :
                worker'[v].cur # None <=> worker'[v].pc \in {"produce", "success", "failure"}
<1>1. worker \in [Workers -> Worker]
  BY DEF IInv, TypeOK
<1>2. \A v \in Workers : worker'[v] = IF v = w THEN q ELSE worker[v]
  BY <1>1
<1>3. \A v \in Workers :
         worker[v].cur # None <=> worker[v].pc \in {"produce", "success", "failure"}
  BY DEF IInv, TypeOK
<1> QED BY <1>1, <1>2, <1>3

\* The types of the record and the worker at hand.
LEMMA Types ==
    ASSUME IInv
    PROVE  /\ \A d \in Records : /\ rec[d] \in Record /\ RecordOK(rec[d], d)
                                 /\ rec[d].count \in Nat /\ published[d] \in Nat
           /\ \A w \in Workers : /\ worker[w] \in Worker
                                 /\ worker[w].count \in Nat
                                 /\ worker[w].todo \in SUBSET Records
                                 /\ Busy(w) => worker[w].cur \in Records
           /\ published \in [Records -> Nat]
           /\ manual \in 0..MaxManual /\ faults \in 0..MaxFaults
           /\ overtaken \in BOOLEAN
BY DEF IInv, TypeOK, Record, Worker, Busy

\* Who holds a record has its lock: nobody else has it in hand.
LEMMA Exclusive ==
    ASSUME IInv, ~ overtaken, NEW v \in Workers, NEW w \in Workers,
           Busy(v), Busy(w), worker[v].cur = worker[w].cur
    PROVE  v = w
BY DEF IInv, InHand

-----------------------------------------------------------------------------
(***************************************************************************)
(* The invariant: it holds initially, and every action preserves it.       *)
(***************************************************************************)

LEMMA InitIInv == Init => IInv
<1> SUFFICES ASSUME Init PROVE IInv
  OBVIOUS
<1>1. /\ Absent \in Record /\ Absent.status = "absent" /\ Absent.lockedBy = None
      /\ Absent.count = 0 /\ Absent.next = "never"
  BY SMT DEF Absent, Unlocked, Record, Statuses
<1>2. Idle \in Worker /\ Idle.cur = None /\ Idle.pc = "idle"
  BY SMT DEF Idle, Worker
<1>3. /\ rec \in [Records -> Record] /\ worker \in [Workers -> Worker]
      /\ \A d \in Records : rec[d] = Absent
      /\ \A w \in Workers : worker[w] = Idle
  BY <1>1, <1>2 DEF Init
<1>4. TypeOK
  <2>1. published \in [Records -> Nat] /\ manual \in 0..MaxManual /\ faults \in 0..MaxFaults
    BY ParametersAssumption DEF Init
  <2>2. overtaken \in BOOLEAN
    BY DEF Init
  <2> QED BY <1>2, <1>3, <2>1, <2>2 DEF TypeOK
<1>5. \A d \in Records : RecordOK(rec[d], d)
  BY <1>1, <1>3 DEF RecordOK
<1>6. InHand
  BY <1>2, <1>3 DEF InHand, Busy
<1>7. PublicationsCounted
  <2>1. \A d \in Records : published[d] = 0
    BY DEF Init
  <2>2. \A d \in Records : rec[d].count = 0 /\ rec[d].lockedBy = None
    BY <1>1, <1>3
  <2> SUFFICES ASSUME NEW d \in Records
               PROVE  published[d] <= rec[d].count + (IF rec[d].lockedBy # None THEN 1 ELSE 0)
    BY DEF PublicationsCounted
  <2>3. published[d] = 0 /\ rec[d].count = 0 /\ ~ (rec[d].lockedBy # None)
    BY <2>1, <2>2
  <2> QED BY <2>3, SMT
<1> QED BY <1>4, <1>5, <1>6, <1>7 DEF IInv

LEMMA StepIngest ==
    ASSUME IInv, NEW d \in Records, Ingest(d)
    PROVE  IInv'
<1> DEFINE r == InitialState(d)
<1>1. /\ r \in Record /\ r.count = 0 /\ r.lockedBy = None
      /\ r.status \in {"pending", "review"}
      /\ r.next # "never" => Category[d] \in Automatic
  <2>1. CASE Category[d] \in Automatic
    BY <2>1, SMT DEF InitialState, Unlocked, Record, Statuses
  <2>2. CASE Category[d] \notin Automatic
    BY <2>2, SMT DEF InitialState, Unlocked, Record, Statuses
  <2> QED BY <2>1, <2>2
<1>2. RecordOK(r, d)
  BY <1>1, BudgetType DEF RecordOK
<1>3. /\ rec' = [rec EXCEPT ![d] = r]
      /\ UNCHANGED <<worker, published, overtaken, manual, faults>>
      /\ rec[d].status = "absent"
  BY DEF Ingest
<1> HIDE DEF r
<1>4. rec[d].count = 0 /\ rec[d].lockedBy = None
  BY <1>3, Types DEF RecordOK
<1>5. /\ rec' \in [Records -> Record]
      /\ \A e \in Records : rec'[e] = IF e = d THEN r ELSE rec[e]
      /\ (\A e \in Records : RecordOK(rec[e], e))'
  BY <1>1, <1>2, <1>3, RecordWritten
<1>6. TypeOK'
  BY <1>3, <1>5 DEF IInv, TypeOK
<1>7. InHand'
  BY <1>3, <1>4, <1>5, Types, ParametersAssumption DEF IInv, InHand, Busy
<1>8. PublicationsCounted'
  BY <1>1, <1>3, <1>4, <1>5, Types DEF IInv, PublicationsCounted
<1> QED BY <1>5, <1>6, <1>7, <1>8 DEF IInv

\* A worker without a record in hand moves, and nothing else does.
LEMMA WorkerOnly ==
    ASSUME IInv, NEW w \in Workers, NEW q \in Worker, q.cur = None, q.pc \in {"idle", "batch"},
           worker' = [worker EXCEPT ![w] = q],
           UNCHANGED <<rec, published, overtaken>>,
           manual' \in 0..MaxManual, faults' \in 0..MaxFaults
    PROVE  IInv'
<1>1. /\ worker' \in [Workers -> Worker]
      /\ \A v \in Workers : worker'[v] = IF v = w THEN q ELSE worker[v]
      /\ \A v \in Workers :
           worker'[v].cur # None <=> worker'[v].pc \in {"produce", "success", "failure"}
  BY WorkerMoved
<1>2. TypeOK'
  BY <1>1 DEF IInv, TypeOK
<1>3. InHand'
  BY <1>1 DEF IInv, InHand, Busy
<1>4. PublicationsCounted'
  BY DEF IInv, PublicationsCounted
<1> QED BY <1>2, <1>3, <1>4 DEF IInv

LEMMA StepScan ==
    ASSUME IInv, NEW w \in Workers, Scan(w)
    PROVE  IInv'
<1> DEFINE found == {d \in Records : Candidate(rec[d])}
<1>1. /\ Batch("scheduler", found) \in Worker /\ Batch("scheduler", found).cur = None
      /\ Batch("scheduler", found).pc = "batch"
  BY Types, WorkerTypes
<1>2. /\ worker' = [worker EXCEPT ![w] = Batch("scheduler", found)]
      /\ UNCHANGED <<rec, published, overtaken, manual, faults>>
  BY DEF Scan
<1> HIDE DEF found
<1> QED BY <1>1, <1>2, Types, WorkerOnly

LEMMA StepRequest ==
    ASSUME IInv, NEW w \in Workers, NEW D \in SUBSET Records, Request(w, D)
    PROVE  IInv'
<1>1. /\ Batch("admin", D) \in Worker /\ Batch("admin", D).cur = None
      /\ Batch("admin", D).pc = "batch"
  BY Types, WorkerTypes
<1>2. /\ worker' = [worker EXCEPT ![w] = Batch("admin", D)]
      /\ UNCHANGED <<rec, published, overtaken, faults>>
      /\ manual < MaxManual /\ manual' = manual + 1
  BY DEF Request
<1>3. manual' \in 0..MaxManual
  BY <1>2, Types, ParametersAssumption
<1> QED BY <1>1, <1>2, <1>3, Types, WorkerOnly

LEMMA FaultType == ASSUME IInv, Fault PROVE faults' \in 0..MaxFaults
BY Types, ParametersAssumption DEF Fault

\* Locking a record: what becomes of it.
LEMMA LockedOK ==
    ASSUME IInv, NEW w \in Workers, NEW d \in Records, Lockable(rec[d]),
           rec' = [rec EXCEPT ![d] = Locked(rec[d], w)]
    PROVE  /\ rec' \in [Records -> Record]
           /\ \A e \in Records : e # d => rec'[e] = rec[e]
           /\ rec'[d].lockedBy = w /\ rec'[d].count = rec[d].count
           /\ rec[d].lockedBy = None
           /\ (\A e \in Records : RecordOK(rec[e], e))'
<1> DEFINE r == Locked(rec[d], w)
<1>1. /\ r.status = "replaying" /\ r.lockedBy = w /\ r.count = rec[d].count
      /\ r.next = rec[d].next
  BY SMT DEF Locked
<1>2. r \in Record
  BY Types, WritesType, 0 \in Nat
<1>3. rec[d].lockedBy = None
  BY DEF Lockable
<1> HIDE DEF r
<1>4. RecordOK(r, d)
  BY <1>1, Types, ParametersAssumption DEF RecordOK
<1>5. /\ rec' \in [Records -> Record]
      /\ \A e \in Records : rec'[e] = IF e = d THEN r ELSE rec[e]
      /\ (\A e \in Records : RecordOK(rec[e], e))'
  BY <1>2, <1>4, RecordWritten DEF r
<1> QED BY <1>1, <1>3, <1>5

LEMMA StepLock ==
    ASSUME IInv, NEW w \in Workers, NEW d \in Records, Lock(w, d)
    PROVE  IInv'
<1>1. CASE Lockable(rec[d])
  <2> DEFINE q == Taken(worker[w], d)
  <2>1. /\ q.pc = "produce" /\ q.cur = d /\ q.count = rec[d].count
    BY SMT DEF Taken
  <2>2. q \in Worker
    BY Types, SMT DEF Taken, Worker
  <2>3. /\ rec' = [rec EXCEPT ![d] = Locked(rec[d], w)]
        /\ worker' = [worker EXCEPT ![w] = q]
        /\ UNCHANGED <<published, overtaken, manual, faults>>
    BY <1>1 DEF Lock
  <2> HIDE DEF q
  <2>4. /\ rec' \in [Records -> Record]
        /\ \A e \in Records : e # d => rec'[e] = rec[e]
        /\ rec'[d].lockedBy = w /\ rec'[d].count = rec[d].count
        /\ rec[d].lockedBy = None
        /\ (\A e \in Records : RecordOK(rec[e], e))'
    BY <1>1, <2>3, LockedOK
  <2>5. d # None /\ w # None
    BY ParametersAssumption
  <2>6. /\ worker' \in [Workers -> Worker]
        /\ \A v \in Workers : worker'[v] = IF v = w THEN q ELSE worker[v]
        /\ \A v \in Workers :
             worker'[v].cur # None <=> worker'[v].pc \in {"produce", "success", "failure"}
    BY <2>1, <2>2, <2>3, <2>5, WorkerMoved
  <2>7. TypeOK'
    BY <2>3, <2>4, <2>6 DEF IInv, TypeOK
  <2>8. InHand'
    <3>1. SUFFICES ASSUME ~ overtaken, NEW v \in Workers, Busy(v)'
                   PROVE  /\ rec'[worker'[v].cur].lockedBy = v
                          /\ worker'[v].count = rec'[worker'[v].cur].count
                          /\ worker'[v].pc = "produce" =>
                                 published[worker'[v].cur] <= rec'[worker'[v].cur].count
      BY <2>3 DEF InHand
    <3>2. CASE v = w
      <4>1. published[d] <= rec[d].count
        BY <2>4, <3>1, Types DEF IInv, PublicationsCounted
      <4> QED BY <3>2, <4>1, <2>1, <2>4, <2>6
    <3>3. CASE v # w
      <4>1. Busy(v) /\ worker'[v] = worker[v]
        BY <3>1, <3>3, <2>6 DEF Busy
      <4>2. worker[v].cur \in Records /\ worker[v].cur # d
        BY <4>1, <3>1, <2>4, Types, ParametersAssumption DEF IInv, InHand
      <4> QED BY <4>1, <4>2, <3>1, <2>4 DEF IInv, InHand
    <3> QED BY <3>2, <3>3
  <2>9. PublicationsCounted'
    BY <2>3, <2>4, <2>5, Types DEF IInv, PublicationsCounted
  <2> QED BY <2>4, <2>7, <2>8, <2>9 DEF IInv
<1>2. CASE ~ Lockable(rec[d])
  <2> DEFINE q == Rest(worker[w], worker[w].todo \ {d})
  <2>1. q \in Worker /\ q.cur = None /\ q.pc \in {"idle", "batch"}
    BY Types, WorkerTypes
  <2>2. worker' = [worker EXCEPT ![w] = q]
        /\ UNCHANGED <<rec, published, overtaken, manual, faults>>
    BY <1>2 DEF Lock
  <2> HIDE DEF q
  <2> QED BY <2>1, <2>2, Types, WorkerOnly
<1> QED BY <1>1, <1>2

\* A worker that gives up its record rests, or is idle.
LEMMA GivenUp ==
    ASSUME IInv, NEW w \in Workers, NEW todo \in SUBSET Records,
           NEW q \in {Idle, Rest(worker[w], todo)}
    PROVE  q \in Worker /\ q.cur = None /\ q.pc \in {"idle", "batch"}
<1>1. worker[w] \in Worker
  BY Types
<1>2. Idle \in Worker /\ Idle.cur = None /\ Idle.pc \in {"idle", "batch"}
  BY SMT DEF Idle, Worker
<1> DEFINE r == Rest(worker[w], todo)
<1>3. r \in Worker /\ r.cur = None /\ r.pc \in {"idle", "batch"}
  BY <1>1, WorkerTypes
<1>4. q = Idle \/ q = r
  OBVIOUS
<1> HIDE DEF r
<1> QED BY <1>2, <1>3, <1>4

LEMMA StepLockFails ==
    ASSUME IInv, NEW w \in Workers, NEW d \in Records, LockFails(w, d)
    PROVE  IInv'
<1>1. PICK q \in {Idle, Rest(worker[w], worker[w].todo \ {d})} :
         worker' = [worker EXCEPT ![w] = q]
  BY DEF LockFails
<1>2. q \in Worker /\ q.cur = None /\ q.pc \in {"idle", "batch"}
  BY Types, GivenUp
<1>3. /\ Lockable(rec[d]) /\ UNCHANGED <<published, overtaken, manual>>
      /\ rec' = rec \/ rec' = [rec EXCEPT ![d] = Locked(rec[d], w)]
      /\ faults' \in 0..MaxFaults
  BY FaultType DEF LockFails
<1>4. CASE rec' = rec
  BY <1>1, <1>2, <1>3, <1>4, Types, WorkerOnly
<1>5. CASE rec' = [rec EXCEPT ![d] = Locked(rec[d], w)]
  <2>1. /\ rec' \in [Records -> Record]
        /\ \A e \in Records : e # d => rec'[e] = rec[e]
        /\ rec'[d].lockedBy = w /\ rec'[d].count = rec[d].count
        /\ rec[d].lockedBy = None
        /\ (\A e \in Records : RecordOK(rec[e], e))'
    BY <1>3, <1>5, LockedOK
  <2>2. /\ worker' \in [Workers -> Worker]
        /\ \A v \in Workers : worker'[v] = IF v = w THEN q ELSE worker[v]
        /\ \A v \in Workers :
             worker'[v].cur # None <=> worker'[v].pc \in {"produce", "success", "failure"}
    BY <1>1, <1>2, WorkerMoved
  <2>3. TypeOK'
    BY <1>3, <2>1, <2>2 DEF IInv, TypeOK
  <2>4. InHand'
    <3>1. SUFFICES ASSUME ~ overtaken, NEW v \in Workers, Busy(v)'
                   PROVE  /\ rec'[worker'[v].cur].lockedBy = v
                          /\ worker'[v].count = rec'[worker'[v].cur].count
                          /\ worker'[v].pc = "produce" =>
                                 published[worker'[v].cur] <= rec'[worker'[v].cur].count
      BY <1>3 DEF InHand
    <3>2. Busy(v) /\ worker'[v] = worker[v]
      BY <1>2, <2>2, <3>1 DEF Busy
    <3>3. worker[v].cur \in Records /\ worker[v].cur # d
      BY <2>1, <3>1, <3>2, Types, ParametersAssumption DEF IInv, InHand
    <3> QED BY <2>1, <3>1, <3>2, <3>3 DEF IInv, InHand
  <2>5. PublicationsCounted'
    BY <1>3, <2>1, ParametersAssumption, Types DEF IInv, PublicationsCounted
  <2> QED BY <2>1, <2>3, <2>4, <2>5 DEF IInv
<1> QED BY <1>3, <1>4, <1>5

\* A worker goes on with its record, which it may have published.
LEMMA WorkerHolding ==
    ASSUME IInv, NEW w \in Workers, Busy(w), NEW label \in {"success", "failure"},
           worker' = [worker EXCEPT ![w].pc = label],
           \/ published' = published
           \/ /\ worker[w].pc = "produce"
              /\ published' = [published EXCEPT ![worker[w].cur] = @ + 1],
           UNCHANGED <<rec, overtaken, manual>>, faults' \in 0..MaxFaults
    PROVE  IInv'
<1> DEFINE q == [worker[w] EXCEPT !.pc = label]
           d == worker[w].cur
<1>1. /\ worker[w] \in Worker /\ d \in Records /\ published \in [Records -> Nat]
      /\ d # None
  BY Types, ParametersAssumption
<1>2. q \in Worker /\ q.pc = label /\ q.cur = d /\ q.count = worker[w].count
  BY <1>1, SMT DEF Worker
<1>3. worker' = [worker EXCEPT ![w] = q]
  BY DEF IInv, TypeOK
<1> HIDE DEF q, d
<1>4. /\ worker' \in [Workers -> Worker]
      /\ \A v \in Workers : worker'[v] = IF v = w THEN q ELSE worker[v]
      /\ \A v \in Workers :
           worker'[v].cur # None <=> worker'[v].pc \in {"produce", "success", "failure"}
  BY <1>1, <1>2, <1>3, WorkerMoved
<1>5. /\ published' \in [Records -> Nat]
      /\ \A e \in Records : e # d => published'[e] = published[e]
      /\ published'[d] = published[d]
           \/ (worker[w].pc = "produce" /\ published'[d] = published[d] + 1)
  BY <1>1 DEF d
<1>6. TypeOK'
  BY <1>4, <1>5 DEF IInv, TypeOK
<1>7. InHand'
  <2>1. SUFFICES ASSUME ~ overtaken, NEW v \in Workers, Busy(v)'
                 PROVE  /\ rec[worker'[v].cur].lockedBy = v
                        /\ worker'[v].count = rec[worker'[v].cur].count
                        /\ worker'[v].pc = "produce" =>
                               published'[worker'[v].cur] <= rec[worker'[v].cur].count
    BY DEF InHand
  <2>2. CASE v = w
    BY <1>2, <1>4, <2>1, <2>2 DEF IInv, InHand, d
  <2>3. CASE v # w
    <3>1. Busy(v) /\ worker'[v] = worker[v]
      BY <1>4, <2>1, <2>3 DEF Busy
    <3>2. worker[v].cur \in Records /\ worker[v].cur # d
      BY <2>1, <2>3, <3>1, Exclusive, Types DEF d
    <3> QED BY <1>5, <2>1, <3>1, <3>2 DEF IInv, InHand
  <2> QED BY <2>2, <2>3
<1>8. PublicationsCounted'
  <2>1. SUFFICES ASSUME ~ overtaken, NEW e \in Records
                 PROVE  published'[e] <= rec[e].count
                                           + (IF rec[e].lockedBy # None THEN 1 ELSE 0)
    BY DEF PublicationsCounted
  <2>2. CASE e # d \/ published'[d] = published[d]
    BY <1>5, <2>1, <2>2 DEF IInv, PublicationsCounted
  <2>3. CASE e = d /\ worker[w].pc = "produce" /\ published'[d] = published[d] + 1
    <3>1. rec[d].lockedBy = w /\ published[d] <= rec[d].count /\ w # None
      BY <2>1, <2>3, ParametersAssumption DEF IInv, InHand, d
    <3> QED BY <1>1, <2>3, <3>1, Types
  <2> QED BY <1>5, <2>2, <2>3
<1> QED BY <1>6, <1>7, <1>8 DEF IInv

LEMMA StepProduce ==
    ASSUME IInv, NEW w \in Workers, Produce(w)
    PROVE  IInv'
BY Types, WorkerHolding DEF Produce, Busy

LEMMA StepProduceFails ==
    ASSUME IInv, NEW w \in Workers, ProduceFails(w)
    PROVE  IInv'
<1>1. faults' \in 0..MaxFaults
  BY FaultType DEF ProduceFails
<1> QED BY <1>1, WorkerHolding DEF ProduceFails, Busy

\* What a worker writes back is a sound record with one more retry.
LEMMA WrittenBack ==
    ASSUME IInv, NEW w \in Workers, Busy(w),
           NEW r \in {AfterSuccess(rec[worker[w].cur], worker[w].count),
                      AfterFailure(rec[worker[w].cur], worker[w].count,
                                   BudgetOf(worker[w].cur))}
    PROVE  /\ r \in Record /\ RecordOK(r, worker[w].cur)
           /\ r.lockedBy = None /\ r.count = worker[w].count + 1
<1> DEFINE d == worker[w].cur
           n == worker[w].count
<1>1. d \in Records /\ rec[d] \in Record /\ n \in Nat /\ BudgetOf(d) \in Nat
  BY Types, BudgetType
<1> HIDE DEF d, n
<1>2. CASE r = AfterSuccess(rec[d], n)
  <2>1. r = [status |-> "pending", lockedBy |-> None, lockedAt |-> "null",
             count |-> n + 1, next |-> "never"] /\ r \in Record
    BY <1>1, <1>2, WritesType
  <2> QED BY <2>1, SMT DEF RecordOK, d, n
<1>3. CASE r = AfterFailure(rec[d], n, BudgetOf(d))
  <2>1. /\ r \in Record /\ r.lockedBy = None /\ r.count = n + 1
        /\ r.status \in {"pending", "review"}
        /\ r.next # "never" => n + 1 < BudgetOf(d)
    BY <1>1, <1>3, WritesType
  <2> QED BY <2>1 DEF RecordOK, d, n
<1> QED BY <1>2, <1>3 DEF d, n

\* A worker writes its record back and lets go of it.
LEMMA HandedBack ==
    ASSUME IInv, NEW w \in Workers, Busy(w),
           NEW r \in {AfterSuccess(rec[worker[w].cur], worker[w].count),
                      AfterFailure(rec[worker[w].cur], worker[w].count,
                                   BudgetOf(worker[w].cur))},
           NEW q \in Worker, q.cur = None, q.pc \in {"idle", "batch"},
           rec' = [rec EXCEPT ![worker[w].cur] = r],
           worker' = [worker EXCEPT ![w] = q],
           UNCHANGED <<published, overtaken, manual>>, faults' \in 0..MaxFaults
    PROVE  IInv'
<1> DEFINE d == worker[w].cur
<1>1. /\ d \in Records /\ r \in Record /\ RecordOK(r, d)
      /\ r.lockedBy = None /\ r.count = worker[w].count + 1
  BY Types, WrittenBack
<1> HIDE DEF d
<1>2. /\ rec' \in [Records -> Record]
      /\ \A e \in Records : rec'[e] = IF e = d THEN r ELSE rec[e]
      /\ (\A e \in Records : RecordOK(rec[e], e))'
  BY <1>1, RecordWritten DEF d
<1>3. /\ worker' \in [Workers -> Worker]
      /\ \A v \in Workers : worker'[v] = IF v = w THEN q ELSE worker[v]
      /\ \A v \in Workers :
           worker'[v].cur # None <=> worker'[v].pc \in {"produce", "success", "failure"}
  BY WorkerMoved
<1>4. TypeOK'
  BY <1>2, <1>3 DEF IInv, TypeOK
<1>5. InHand'
  <2>1. SUFFICES ASSUME ~ overtaken, NEW v \in Workers, Busy(v)'
                 PROVE  /\ rec'[worker'[v].cur].lockedBy = v
                        /\ worker'[v].count = rec'[worker'[v].cur].count
                        /\ worker'[v].pc = "produce" =>
                               published[worker'[v].cur] <= rec'[worker'[v].cur].count
    BY DEF InHand
  <2>2. v # w /\ Busy(v) /\ worker'[v] = worker[v]
    BY <1>3, <2>1 DEF Busy
  <2>3. worker[v].cur \in Records /\ worker[v].cur # d
    BY <2>1, <2>2, Exclusive, Types DEF d
  <2> QED BY <1>2, <2>1, <2>2, <2>3 DEF IInv, InHand
<1>6. PublicationsCounted'
  <2>1. SUFFICES ASSUME ~ overtaken, NEW e \in Records
                 PROVE  published[e] <= rec'[e].count
                                          + (IF rec'[e].lockedBy # None THEN 1 ELSE 0)
    BY DEF PublicationsCounted
  <2>2. CASE e = d
    <3>1. published[d] <= rec[d].count + (IF rec[d].lockedBy # None THEN 1 ELSE 0)
      BY <1>1, <2>1 DEF IInv, PublicationsCounted
    <3>2. rec[d].count = worker[w].count
      BY <2>1 DEF IInv, InHand, d
    <3>3. published[d] <= rec[d].count + 1
      BY <1>1, <3>1, Types
    <3> QED BY <1>1, <1>2, <2>2, <3>2, <3>3, Types
  <2>3. CASE e # d
    BY <1>2, <2>1, <2>3 DEF IInv, PublicationsCounted
  <2> QED BY <2>2, <2>3
<1> QED BY <1>2, <1>4, <1>5, <1>6 DEF IInv

LEMMA StepReleaseSuccess ==
    ASSUME IInv, NEW w \in Workers, ReleaseSuccess(w)
    PROVE  IInv'
<1>1. Busy(w)
  BY DEF ReleaseSuccess, Busy
<1>2. Rest(worker[w], worker[w].todo) \in Worker
      /\ Rest(worker[w], worker[w].todo).cur = None
      /\ Rest(worker[w], worker[w].todo).pc \in {"idle", "batch"}
  BY Types, WorkerTypes
<1> QED BY <1>1, <1>2, Types, HandedBack DEF ReleaseSuccess

LEMMA StepReleaseFailure ==
    ASSUME IInv, NEW w \in Workers, ReleaseFailure(w)
    PROVE  IInv'
<1>1. Busy(w)
  BY DEF ReleaseFailure, Busy
<1>2. Rest(worker[w], worker[w].todo) \in Worker
      /\ Rest(worker[w], worker[w].todo).cur = None
      /\ Rest(worker[w], worker[w].todo).pc \in {"idle", "batch"}
  BY Types, WorkerTypes
<1> QED BY <1>1, <1>2, Types, HandedBack DEF ReleaseFailure

LEMMA StepReleaseFailureFails ==
    ASSUME IInv, NEW w \in Workers, ReleaseFailureFails(w)
    PROVE  IInv'
<1>1. Busy(w)
  BY DEF ReleaseFailureFails, Busy
<1>2. PICK q \in {Idle, Rest(worker[w], worker[w].todo)} :
         worker' = [worker EXCEPT ![w] = q]
  BY DEF ReleaseFailureFails, Abandon
<1>3. q \in Worker /\ q.cur = None /\ q.pc \in {"idle", "batch"}
  BY Types, GivenUp
<1>4. faults' \in 0..MaxFaults
  BY FaultType DEF ReleaseFailureFails
<1>5. CASE rec' = rec
  BY <1>2, <1>3, <1>4, <1>5, Types, WorkerOnly DEF ReleaseFailureFails
<1>6. CASE rec' # rec
  BY <1>1, <1>2, <1>3, <1>4, <1>6, HandedBack DEF ReleaseFailureFails
<1> QED BY <1>5, <1>6

\* A lock is overtaken: nothing more is claimed about what workers have in hand.
LEMMA Overtaking ==
    ASSUME IInv, NEW d \in Records, NEW r \in Record, RecordOK(r, d),
           rec' = [rec EXCEPT ![d] = r], overtaken' = TRUE,
           worker' \in [Workers -> Worker],
           \A v \in Workers :
               worker'[v].cur # None <=> worker'[v].pc \in {"produce", "success", "failure"},
           UNCHANGED <<published, manual>>, faults' \in 0..MaxFaults
    PROVE  IInv'
<1>1. rec' \in [Records -> Record] /\ (\A e \in Records : RecordOK(rec[e], e))'
  BY RecordWritten
<1>2. TypeOK'
  BY <1>1 DEF IInv, TypeOK
<1>3. InHand' /\ PublicationsCounted'
  BY DEF InHand, PublicationsCounted
<1> QED BY <1>1, <1>2, <1>3 DEF IInv

LEMMA StepReleaseSuccessFails ==
    ASSUME IInv, NEW w \in Workers, ReleaseSuccessFails(w)
    PROVE  IInv'
<1>1. Busy(w) /\ faults' \in 0..MaxFaults
  BY FaultType DEF ReleaseSuccessFails, Busy
<1>2. worker' = [worker EXCEPT ![w].pc = "failure"] /\ UNCHANGED <<published, manual>>
  BY DEF ReleaseSuccessFails
<1>3. CASE UNCHANGED <<rec, overtaken>>
  BY <1>1, <1>2, <1>3, WorkerHolding
<1>4. CASE ~ UNCHANGED <<rec, overtaken>>
  <2> DEFINE d == worker[w].cur
             r == AfterSuccess(rec[d], worker[w].count)
             q == [worker[w] EXCEPT !.pc = "failure"]
  <2>1. rec' = [rec EXCEPT ![d] = r] /\ overtaken' = TRUE
    BY <1>4 DEF ReleaseSuccessFails
  <2>2. d \in Records /\ r \in Record /\ RecordOK(r, d) /\ d # None
    BY <1>1, Types, WrittenBack, ParametersAssumption
  <2>3. worker[w] \in Worker
    BY Types
  <2>4. q \in Worker /\ q.pc = "failure" /\ q.cur = d
    BY <2>3, SMT DEF Worker
  <2>5. worker' = [worker EXCEPT ![w] = q]
    BY <1>2 DEF IInv, TypeOK
  <2> HIDE DEF d, r, q
  <2>6. /\ worker' \in [Workers -> Worker]
        /\ \A v \in Workers :
             worker'[v].cur # None <=> worker'[v].pc \in {"produce", "success", "failure"}
    BY <2>2, <2>4, <2>5, WorkerMoved
  <2> QED BY <1>1, <1>2, <2>1, <2>2, <2>6, Overtaking
<1> QED BY <1>3, <1>4

LEMMA StepCrash ==
    ASSUME IInv, NEW w \in Workers, Crash(w)
    PROVE  IInv'
<1>1. faults' \in 0..MaxFaults
  BY FaultType DEF Crash
<1>2. Idle \in Worker /\ Idle.cur = None /\ Idle.pc = "idle"
  BY SMT DEF Idle, Worker
<1> QED BY <1>1, <1>2, Types, WorkerOnly DEF Crash

LEMMA StepReleaseStaleLock ==
    ASSUME IInv, NEW d \in Records, ReleaseStaleLock(d)
    PROVE  IInv'
<1> DEFINE r == Released(rec[d], "pending", rec[d].count, rec[d].next)
<1>1. /\ rec[d].count \in Nat /\ rec[d].next \in {"never", "later", "due"}
      /\ RecordOK(rec[d], d)
  BY Types DEF Record
<1>2. /\ r \in Record /\ r.status = "pending" /\ r.lockedBy = None
      /\ r.count = rec[d].count /\ r.next = rec[d].next
  BY <1>1, SMT DEF Released, Unlocked, Record, Statuses
<1> HIDE DEF r
<1>3. RecordOK(r, d)
  BY <1>1, <1>2 DEF RecordOK
<1>4. /\ rec' = [rec EXCEPT ![d] = r] /\ overtaken' = TRUE
      /\ UNCHANGED <<worker, published, manual, faults>>
  BY DEF ReleaseStaleLock, r
<1> QED BY <1>2, <1>3, <1>4, Overtaking, Types DEF IInv, TypeOK

\* A record changes, and neither its lock nor its retry count does.
LEMMA RecordOnly ==
    ASSUME IInv, NEW d \in Records, NEW r \in Record, RecordOK(r, d),
           r.lockedBy = rec[d].lockedBy, r.count = rec[d].count,
           rec' = [rec EXCEPT ![d] = r],
           UNCHANGED <<worker, published, overtaken, manual, faults>>
    PROVE  IInv'
<1>1. /\ rec' \in [Records -> Record]
      /\ \A e \in Records : rec'[e] = IF e = d THEN r ELSE rec[e]
      /\ (\A e \in Records : RecordOK(rec[e], e))'
  BY RecordWritten
<1>2. \A e \in Records : rec'[e].lockedBy = rec[e].lockedBy /\ rec'[e].count = rec[e].count
  BY <1>1
<1>3. TypeOK'
  BY <1>1 DEF IInv, TypeOK
<1>4. InHand'
  BY <1>2, Types DEF IInv, InHand, Busy
<1>5. PublicationsCounted'
  BY <1>2 DEF IInv, PublicationsCounted
<1> QED BY <1>1, <1>3, <1>4, <1>5 DEF IInv

LEMMA StepClose ==
    ASSUME IInv, NEW d \in Records, NEW status \in {"resolved", "discarded"},
           Close(d, status)
    PROVE  IInv'
<1> DEFINE r == [rec[d] EXCEPT !.status = status]
<1>1. rec[d] \in Record /\ RecordOK(rec[d], d)
  BY Types
<1>2. /\ r \in Record /\ r.status = status /\ r.lockedBy = rec[d].lockedBy
      /\ r.count = rec[d].count /\ r.next = rec[d].next
  BY <1>1, SMT DEF Record, Statuses
<1> HIDE DEF r
<1>3. RecordOK(r, d)
  BY <1>1, <1>2 DEF RecordOK
<1>4. rec' = [rec EXCEPT ![d] = r]
  BY DEF Close, r
<1> QED BY <1>2, <1>3, <1>4, RecordOnly DEF Close

LEMMA StepRetryTimeComes ==
    ASSUME IInv, NEW d \in Records, RetryTimeComes(d)
    PROVE  IInv'
<1> DEFINE r == [rec[d] EXCEPT !.next = "due"]
<1>1. rec[d] \in Record /\ RecordOK(rec[d], d) /\ rec[d].next = "later"
  BY Types DEF RetryTimeComes
<1>2. /\ r \in Record /\ r.status = rec[d].status /\ r.lockedBy = rec[d].lockedBy
      /\ r.count = rec[d].count
  BY <1>1, SMT DEF Record
<1> HIDE DEF r
<1>3. RecordOK(r, d)
  BY <1>1, <1>2 DEF RecordOK
<1>4. rec' = [rec EXCEPT ![d] = r]
  BY DEF RetryTimeComes, r
<1> QED BY <1>2, <1>3, <1>4, RecordOnly DEF RetryTimeComes

LEMMA StepLockAges ==
    ASSUME IInv, NEW d \in Records, LockAges(d)
    PROVE  IInv'
<1> DEFINE r == [rec[d] EXCEPT !.lockedAt = "old"]
<1>1. rec[d] \in Record /\ RecordOK(rec[d], d)
  BY Types
<1>2. /\ r \in Record /\ r.status = rec[d].status /\ r.lockedBy = rec[d].lockedBy
      /\ r.count = rec[d].count /\ r.next = rec[d].next
  BY <1>1, SMT DEF Record
<1> HIDE DEF r
<1>3. RecordOK(r, d)
  BY <1>1, <1>2 DEF RecordOK
<1>4. rec' = [rec EXCEPT ![d] = r]
  BY DEF LockAges, r
<1> QED BY <1>2, <1>3, <1>4, RecordOnly DEF LockAges

LEMMA StepIInv == IInv /\ [Next]_vars => IInv'
<1> SUFFICES ASSUME IInv, [Next]_vars PROVE IInv'
  OBVIOUS
<1>1. ASSUME NEW w \in Workers, Scan(w) PROVE IInv'
  BY <1>1, StepScan
<1>2. ASSUME NEW w \in Workers, Step(w) PROVE IInv'
  BY <1>2, StepLock, StepProduce, StepReleaseSuccess, StepReleaseFailure DEF Step
<1>3. ASSUME NEW w \in Workers, Failure(w) PROVE IInv'
  BY <1>3, StepLockFails, StepProduceFails, StepReleaseSuccessFails,
     StepReleaseFailureFails, StepCrash DEF Failure
<1>4. ASSUME NEW w \in Workers, NEW D \in SUBSET Records, Request(w, D) PROVE IInv'
  BY <1>4, StepRequest
<1>5. ASSUME NEW d \in Records, Ingest(d) PROVE IInv'
  BY <1>5, StepIngest
<1>6. ASSUME NEW d \in Records, Resolve(d) \/ Discard(d) PROVE IInv'
  BY <1>6, StepClose DEF Resolve, Discard
<1>7. ASSUME NEW d \in Records, ReleaseStaleLock(d) \/ RetryTimeComes(d) \/ LockAges(d)
      PROVE  IInv'
  BY <1>7, StepReleaseStaleLock, StepRetryTimeComes, StepLockAges
<1>8. CASE UNCHANGED vars
  BY <1>8 DEF vars, IInv, TypeOK, InHand, Busy, PublicationsCounted
<1> QED BY <1>1, <1>2, <1>3, <1>4, <1>5, <1>6, <1>7, <1>8 DEF Next

-----------------------------------------------------------------------------
(***************************************************************************)
(* The theorems.                                                           *)
(***************************************************************************)

\* The inductive invariant holds in every reachable state of the DLQ service.
THEOREM Invariance == Spec => []IInv
<1>1. Init => IInv
  BY InitIInv
<1>2. IInv /\ [Next]_vars => IInv'
  BY StepIInv
<1> QED BY <1>1, <1>2, PTL DEF Spec

\* Type correctness of the records and of the executions of the replay service.
THEOREM TypeCorrect == Spec => []TypeOK
<1>1. IInv => TypeOK
  BY DEF IInv
<1> QED BY <1>1, Invariance, PTL

\* The lock fields and the status of a record never contradict each other
\* (acquireLock, releaseAfterReplay, releaseStaleLocks, updateStatusByAdmin), and
\* no automatic retry is scheduled beyond maxRetries, whatever overlapping
\* replays write over each other's retryCount (executeReplay).
THEOREM LocksAndBudgetsKept == Spec => []LocksAndBudgets
<1>1. IInv => LockMatchesStatus
  BY DEF IInv, RecordOK, LockMatchesStatus
<1>2. IInv => ScheduledWithinBudget
  BY DEF IInv, RecordOK, ScheduledWithinBudget
<1>3. IInv => LocksAndBudgets
  BY <1>1, <1>2 DEF LocksAndBudgets
<1> QED BY <1>3, Invariance, PTL

\* Until the first overtaken lock no two executions replay the same record, and
\* retryCount accounts for every publication (acquireLock, executeReplay).
THEOREM ReplaysExclusive == Spec => []ReplaysCounted
<1>1. IInv => ExclusiveReplay
  <2>1. SUFFICES ASSUME IInv, ~ overtaken, NEW v \in Workers, NEW w \in Workers,
                        worker[v].cur # None, worker[v].cur = worker[w].cur
                 PROVE  v = w
    BY DEF ExclusiveReplay
  <2>2. Busy(v) /\ Busy(w)
    BY <2>1 DEF IInv, TypeOK, Busy
  <2> QED BY <2>1, <2>2, Exclusive
<1>2. IInv => PublicationsCounted
  BY DEF IInv
<1>3. IInv => ReplaysCounted
  BY <1>1, <1>2 DEF ReplaysCounted
<1> QED BY <1>3, Invariance, PTL
=============================================================================
