------------------------------ MODULE Broadcast ------------------------------
(***************************************************************************)
(* System broadcasts of the notification service: jobs stored in MongoDB,  *)
(* and on every pod a timer that claims the oldest job it may, addresses   *)
(* one batch of the active users and saves how far it got.                 *)
(*                                                                         *)
(* A claim is a date.  Of it the model keeps whether it is null ("none"),  *)
(* ahead ("held") or past ("over").                                        *)
(***************************************************************************)
EXTENDS Naturals, Sequences, FiniteSetsExt

CONSTANTS
  JobKeys,        \* Idempotency-Key values of the requests to broadcast
  Pods,
  MaxUsers,       \* the user ids are 1 .. MaxUsers; lists are sorted by them
  BatchSize,
  MaxBroadcastFaults   \* bound on database errors and crashes

ASSUME BroadcastAssumption ==
  /\ MaxUsers \in Nat /\ MaxBroadcastFaults \in Nat
  /\ BatchSize \in Nat \ {0}

Users == 1 .. MaxUsers

VARIABLES
  jobs,       \* [key, status, cursor, claim] of every job, oldest first
  active,     \* users whose replica says they are active
  addressed,  \* [1..Len(jobs) -> SUBSET Users]: notifications stored, by their dedupe key
  pod,        \* what each pod has in memory
  broadcastFaults,
  audience    \* history: the users who were active when each job was created

broadcastVars == <<jobs, active, addressed, pod, broadcastFaults, audience>>

NoJob == [pc |-> "waiting", job |-> 0, cursor |-> 0, left |-> {}, size |-> 0]

BroadcastInit ==
  /\ jobs = <<>>
  /\ active \in SUBSET Users
  /\ addressed = <<>>
  /\ pod = [p \in Pods |-> NoJob]
  /\ broadcastFaults = 0
  /\ audience = <<>>

-----------------------------------------------------------------------------
\* enqueue: the unique key answers a repeated request with a conflict.
Enqueue(k) ==
  /\ \A j \in DOMAIN jobs : jobs[j].key # k
  /\ jobs' = Append(jobs, [key |-> k, status |-> "pending", cursor |-> 0, claim |-> "none"])
  /\ addressed' = Append(addressed, {})
  /\ audience' = Append(audience, active)
  /\ UNCHANGED <<active, pod, broadcastFaults>>

\* user_registered makes a replica; none becomes inactive (see UserReplicas).
UserArrives(u) ==
  /\ u \notin active
  /\ active' = active \cup {u}
  /\ UNCHANGED <<jobs, addressed, pod, broadcastFaults, audience>>

\* The query for a job: a null claim is not `<= now`.
Claimable(j) ==
  \/ jobs[j].status = "pending"
  \/ jobs[j].status = "processing" /\ jobs[j].claim = "over"

\* processNext on a pod that is not in it already.
ClaimJob(p) ==
  /\ pod[p].pc = "waiting"
  /\ \E j \in DOMAIN jobs :
       /\ Claimable(j)
       /\ \A i \in 1 .. j - 1 : ~Claimable(i)
       /\ jobs' = [jobs EXCEPT ![j] = [@ EXCEPT !.status = "processing", !.claim = "held"]]
       /\ pod' = [pod EXCEPT ![p] = [pc |-> "list", job |-> j, cursor |-> jobs[j].cursor,
                                     left |-> {}, size |-> 0]]
  /\ UNCHANGED <<active, addressed, broadcastFaults, audience>>

\* The active users at positions cursor + 1 .. cursor + BatchSize by user id.
Batch(cursor) ==
  {u \in active : LET position == Cardinality({v \in active : v <= u}) IN
                  cursor < position /\ position <= cursor + BatchSize}

ListActiveUsers(p) ==
  /\ pod[p].pc = "list"
  /\ LET batch == Batch(pod[p].cursor) IN
     pod' = [pod EXCEPT ![p] = [@ EXCEPT !.pc = "address", !.left = batch,
                                         !.size = Cardinality(batch)]]
  /\ UNCHANGED <<jobs, active, addressed, broadcastFaults, audience>>

\* createBroadcastAsync upserts by "job:recipient", one recipient at a time.
AddressNext(p) ==
  /\ pod[p].pc = "address"
  /\ pod[p].left # {}
  /\ LET u == Min(pod[p].left) IN
       /\ addressed' = [addressed EXCEPT ![pod[p].job] = @ \cup {u}]
       /\ pod' = [pod EXCEPT ![p].left = @ \ {u}]
  /\ UNCHANGED <<jobs, active, broadcastFaults, audience>>

\* Variant with a bug: a full batch is taken for the last one.
SaveProgressOfFullBatch(p) ==
  LET j == pod[p].job
      status == IF pod[p].size <= BatchSize THEN "completed" ELSE jobs[j].status
      cursor == IF pod[p].size = 0 THEN jobs[j].cursor ELSE pod[p].cursor + pod[p].size
  IN
  /\ pod[p].pc = "address" /\ pod[p].left = {}
  /\ jobs' = [jobs EXCEPT ![j] = [@ EXCEPT !.claim = "none", !.status = status,
                                            !.cursor = cursor]]
  /\ pod' = [pod EXCEPT ![p] = NoJob]
  /\ UNCHANGED <<active, addressed, broadcastFaults, audience>>

\* save writes the fields that changed in the document the pod has: not the
\* status while it stays "processing".
SaveProgress(p) ==
  LET j == pod[p].job
      status == IF pod[p].size < BatchSize THEN "completed" ELSE jobs[j].status
      cursor == IF pod[p].size = 0 THEN jobs[j].cursor ELSE pod[p].cursor + pod[p].size
  IN
  /\ pod[p].pc = "address" /\ pod[p].left = {}
  /\ jobs' = [jobs EXCEPT ![j] = [@ EXCEPT !.claim = "none", !.status = status,
                                            !.cursor = cursor]]
  /\ pod' = [pod EXCEPT ![p] = NoJob]
  /\ UNCHANGED <<active, addressed, broadcastFaults, audience>>

\* An error is logged, a crash is not: either way the claim stays.
ProcessingStops(p) ==
  /\ pod[p].pc # "waiting"
  /\ broadcastFaults < MaxBroadcastFaults
  /\ broadcastFaults' = broadcastFaults + 1
  /\ pod' = [pod EXCEPT ![p] = NoJob]
  /\ UNCHANGED <<jobs, active, addressed, audience>>

\* Five minutes pass, also while the pod that claimed the job still works.
ClaimRunsOut(j) ==
  /\ jobs[j].claim = "held"
  /\ jobs' = [jobs EXCEPT ![j].claim = "over"]
  /\ UNCHANGED <<active, addressed, pod, broadcastFaults, audience>>

BroadcastNext ==
  \/ \E k \in JobKeys : Enqueue(k)
  \/ \E u \in Users : UserArrives(u)
  \/ \E p \in Pods :
       \/ ClaimJob(p) \/ ListActiveUsers(p) \/ AddressNext(p) \/ SaveProgress(p)
       \/ ProcessingStops(p)
  \/ \E j \in DOMAIN jobs : ClaimRunsOut(j)

\* Timers fire, calls return, time passes; nobody has to broadcast or sign up.
BroadcastSpec ==
  /\ BroadcastInit /\ [][BroadcastNext]_broadcastVars
  /\ \A p \in Pods : WF_broadcastVars(ClaimJob(p) \/ ListActiveUsers(p)
                                      \/ AddressNext(p) \/ SaveProgress(p))
  /\ \A j \in 1 .. Cardinality(JobKeys) :
       WF_broadcastVars(j \in DOMAIN jobs /\ ClaimRunsOut(j))

-----------------------------------------------------------------------------
BroadcastJob == [key : JobKeys, status : {"pending", "processing", "completed"},
                 cursor : Nat, claim : {"none", "held", "over"}]
BroadcastWork == [pc : {"waiting", "list", "address"}, job : Nat, cursor : Nat,
                  left : SUBSET Users, size : Nat]

BroadcastTypeOK ==
  /\ jobs \in Seq(BroadcastJob)
  /\ active \in SUBSET Users
  /\ addressed \in Seq(SUBSET Users)
  /\ pod \in [Pods -> BroadcastWork]
  /\ broadcastFaults \in Nat
  /\ audience \in Seq(SUBSET Users)

\* A completed broadcast has reached every user who was active when it was asked
\* for, whatever pods overlapped, stopped half-way or lost their claim, and
\* whoever signed up in between and shifted the pages.
CompletedReachedEveryone ==
  \A j \in DOMAIN jobs : jobs[j].status = "completed" => audience[j] \subseteq addressed[j]

\* "Broadcast notification toan he thong" (to the whole system): every job that
\* is enqueued completes.
BroadcastFinishes ==
  \A j \in 1 .. Cardinality(JobKeys) :
    j \in DOMAIN jobs ~> (j \in DOMAIN jobs /\ jobs[j].status = "completed")
=============================================================================
