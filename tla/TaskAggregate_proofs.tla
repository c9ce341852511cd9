-------------------------- MODULE TaskAggregate_proofs --------------------------
(***************************************************************************)
(* Proofs about TaskAggregate, for any number of concurrent requests and   *)
(* any set of commands.                                                    *)
(***************************************************************************)
EXTENDS TaskAggregate, TaskEvents, WellFoundedInduction, TLAPS

-----------------------------------------------------------------------------
(***************************************************************************)
(* Lemmas about the replay of a stream.  Replay is recursive; the proofs   *)
(* are by least counterexample, so they need no induction rule.            *)
(***************************************************************************)
\* Every non-empty set of naturals has a least element: the induction the
\* lemmas below use.
LEMMA LeastNat ==
    ASSUME NEW T \in SUBSET Nat, T # {}
    PROVE  \E m \in T : \A k \in T : m <= k
<1>1. \A x, y \in Nat : x < y => <<x, y>> \in OpToRel(<, Nat)
  BY SMT DEF OpToRel
<1>2. PICK m \in T : \A k \in T : ~ (<<k, m>> \in OpToRel(<, Nat))
  BY NatLessThanWellFounded, WFMin, T \subseteq Nat, Zenon
<1>3. \A k \in T : ~ (k < m)
  BY <1>1, <1>2, Zenon
<1>4. \A k \in T : m <= k
  BY <1>3, SMT
<1>. QED  BY <1>4, Zenon

\* Applying an event keeps the shape of a task.
LEMMA ApplyType ==
    ASSUME NEW t \in TaskState, NEW e \in Event
    PROVE  Apply(t, e) \in TaskState
<1>1. /\ t.title \in Titles \cup {None} /\ t.status \in Statuses
      /\ t.workspace \in {"ws", ""} /\ t.assignee \in Users \cup {None}
      /\ t.files \in SUBSET Files
  BY DEF TaskState
<1>2. /\ e.type \in {"created", "details"} => e.value \in Titles
      /\ e.type = "status" => e.value \in Statuses
      /\ e.type = "assignee" => e.value \in Users \cup {None}
      /\ e.type \in {"fileAdded", "fileRemoved"} => e.value \in Files
  BY DEF Event
<1>. DEFINE a == Apply(t, e)
<1>3. a.title \in Titles \cup {None} /\ a.workspace \in {"ws", ""}
  BY <1>1, <1>2 DEF Apply
<1>4. a.status \in Statuses
  BY <1>1, <1>2 DEF Apply, Statuses
<1>5. a.assignee \in Users \cup {None}
  BY <1>1, <1>2 DEF Apply
<1>6. a.files \in SUBSET Files
  BY <1>1, <1>2 DEF Apply
<1>7. a.deleted \in BOOLEAN
  BY Zenon DEF Apply
<1>8. a = [title |-> a.title, status |-> a.status, workspace |-> a.workspace,
           assignee |-> a.assignee, files |-> a.files, deleted |-> a.deleted]
  BY Zenon DEF Apply
<1>9. a \in TaskState
  <2>. HIDE DEF a
  <2>. QED  BY <1>3, <1>4, <1>5, <1>6, <1>7, <1>8 DEF TaskState
<1>. QED  BY <1>9

LEMMA EventOfType ==
    ASSUME NEW c \in Command, NEW r \in Requests
    PROVE  EventOf(c, r) \in Event
BY SMT DEF Command, EventOf, Event, EventType, Files

LEMMA ShellType == Shell \in TaskState
BY DEF Shell, TaskState, Statuses

\* The recursive definition of States has a solution, of the right type.
LEMMA StatesExist ==
    ASSUME NEW s \in Seq(Event)
    PROVE  \E f \in [0..Len(s) -> TaskState] :
               f = [n \in 0..Len(s) |-> IF n = 0 THEN Shell
                                        ELSE Apply(f[n - 1], s[n])]
<1>. DEFINE Solves(f, n) ==
              \A i \in 0..n : f[i] = IF i = 0 THEN Shell ELSE Apply(f[i - 1], s[i])
            Bad == {n \in 0..Len(s) : ~ \E f \in [0..n -> TaskState] : Solves(f, n)}
<1>1. Len(s) \in Nat /\ \A i \in 1..Len(s) : s[i] \in Event
  OBVIOUS
<1>2. Bad = {}
  <2>1. SUFFICES ASSUME Bad # {} PROVE FALSE
    OBVIOUS
  <2>2. PICK m \in Bad : \A k \in Bad : m <= k
    <3>1. Bad \in SUBSET Nat
      BY <1>1
    <3>. QED  BY <2>1, <3>1, LeastNat
  <2>3. m \in 0..Len(s) /\ ~ \E f \in [0..m -> TaskState] : Solves(f, m)
    BY <2>2
  <2>4. m # 0
    <3>. DEFINE f0 == [i \in 0..0 |-> Shell]
    <3>1. f0 \in [0..0 -> TaskState] /\ Solves(f0, 0)
      BY ShellType
    <3>. QED  BY <3>1, <2>3
  <2>5. m - 1 \in 0..Len(s) /\ ~ (m <= m - 1)
    BY <1>1, <2>3, <2>4
  <2>6. PICK f \in [0..(m - 1) -> TaskState] : Solves(f, m - 1)
    <3>. HIDE DEF Solves
    <3>. QED  BY <2>2, <2>5
  <2>. DEFINE g == [i \in 0..m |-> IF i = m THEN Apply(f[m - 1], s[m]) ELSE f[i]]
  <2>7. g \in [0..m -> TaskState]
    <3>1. Apply(f[m - 1], s[m]) \in TaskState
      BY <1>1, <2>3, <2>4, <2>6, ApplyType
    <3>. QED  BY <3>1, <2>3, <2>4, <2>6
  <2>8. Solves(g, m)
    <3>1. SUFFICES ASSUME NEW i \in 0..m
                   PROVE  g[i] = IF i = 0 THEN Shell ELSE Apply(g[i - 1], s[i])
      OBVIOUS
    <3>2. CASE i = m
      BY <3>2, <2>3, <2>4
    <3>3. CASE i # m
      BY <3>3, <2>3, <2>4, <2>6
    <3>. QED  BY <3>2, <3>3
  <2>. QED  BY <2>3, <2>7, <2>8
<1>3. PICK f \in [0..Len(s) -> TaskState] : Solves(f, Len(s))
  BY <1>1, <1>2
<1>4. f = [n \in 0..Len(s) |-> IF n = 0 THEN Shell ELSE Apply(f[n - 1], s[n])]
  BY <1>3
<1>. QED  BY <1>4

\* States satisfies its recursive definition.
LEMMA StatesDef ==
    ASSUME NEW s \in Seq(Event)
    PROVE  States(s) = [n \in 0..Len(s) |-> IF n = 0 THEN Shell
                                            ELSE Apply(States(s)[n - 1], s[n])]
BY StatesExist, Zenon DEF States

LEMMA StatesStep ==
    ASSUME NEW s \in Seq(Event)
    PROVE  /\ States(s)[0] = Shell
           /\ \A n \in 1..Len(s) : States(s)[n] = Apply(States(s)[n - 1], s[n])
<1>1. Len(s) \in Nat
  OBVIOUS
<1>. DEFINE f == States(s)
<1>2. f = [n \in 0..Len(s) |-> IF n = 0 THEN Shell ELSE Apply(f[n - 1], s[n])]
  BY StatesDef
<1>3. f[0] = Shell /\ \A n \in 1..Len(s) : f[n] = Apply(f[n - 1], s[n])
  <2>. HIDE DEF f
  <2>. QED  BY <1>1, <1>2
<1>. QED  BY <1>3

\* Whatever is stored, replaying it gives a task.
LEMMA StatesType ==
    ASSUME NEW s \in Seq(Event)
    PROVE  \A n \in 0..Len(s) : States(s)[n] \in TaskState
<1>. DEFINE Bad == {n \in 0..Len(s) : States(s)[n] \notin TaskState}
<1>1. Len(s) \in Nat /\ \A i \in 1..Len(s) : s[i] \in Event
  OBVIOUS
<1>2. SUFFICES ASSUME Bad # {} PROVE FALSE
  OBVIOUS
<1>3. PICK m \in Bad : \A k \in Bad : m <= k
  <2>1. Bad \in SUBSET Nat
    BY <1>1
  <2>. QED  BY <1>2, <2>1, LeastNat
<1>4. m \in 0..Len(s) /\ States(s)[m] \notin TaskState
  BY <1>3
<1>5. m # 0
  BY <1>4, StatesStep, ShellType
<1>6. m \in 1..Len(s) /\ m - 1 \in 0..Len(s) /\ ~ (m <= m - 1)
  BY <1>1, <1>4, <1>5
<1>7. States(s)[m - 1] \in TaskState
  BY <1>3, <1>6
<1>8. States(s)[m] \in TaskState
  BY <1>1, <1>6, <1>7, StatesStep, ApplyType
<1>. QED  BY <1>4, <1>8

\* Appending an event does not change the states before it.
LEMMA StatesPrefix ==
    ASSUME NEW s \in Seq(Event), NEW e \in Event
    PROVE  \A n \in 0..Len(s) : States(Append(s, e))[n] = States(s)[n]
<1>. DEFINE a == Append(s, e)
            Bad == {n \in 0..Len(s) : States(a)[n] # States(s)[n]}
<1>1. /\ Len(s) \in Nat /\ a \in Seq(Event) /\ Len(a) = Len(s) + 1
      /\ \A i \in 1..Len(s) : a[i] = s[i]
  OBVIOUS
<1>2. SUFFICES ASSUME Bad # {} PROVE FALSE
  OBVIOUS
<1>3. PICK m \in Bad : \A k \in Bad : m <= k
  <2>1. Bad \in SUBSET Nat
    BY <1>1
  <2>. QED  BY <1>2, <2>1, LeastNat
<1>4. m \in 0..Len(s) /\ States(a)[m] # States(s)[m]
  BY <1>3
<1>. HIDE DEF a
<1>5. m # 0
  BY <1>1, <1>4, StatesStep
<1>6. m \in 1..Len(s) /\ m \in 1..Len(a) /\ m - 1 \in 0..Len(s) /\ ~ (m <= m - 1)
  BY <1>1, <1>4, <1>5
<1>7. States(a)[m - 1] = States(s)[m - 1]
  BY <1>3, <1>6
<1>8. States(a)[m] = Apply(States(a)[m - 1], a[m])
  BY <1>1, <1>6, StatesStep
<1>9. States(s)[m] = Apply(States(s)[m - 1], s[m])
  BY <1>6, StatesStep
<1>. QED  BY <1>1, <1>4, <1>6, <1>7, <1>8, <1>9

LEMMA ReplayType ==
    ASSUME NEW s \in Seq(Event)
    PROVE  Replay(s) \in TaskState
BY StatesType, Len(s) \in 0..Len(s) DEF Replay

\* Replaying one more event is applying it to the replay of the others.
THEOREM ReplayAppend ==
    ASSUME NEW s \in Seq(Event), NEW e \in Event
    PROVE  Replay(Append(s, e)) = Apply(Replay(s), e)
<1>. DEFINE a == Append(s, e)
<1>1. /\ Len(s) \in Nat /\ a \in Seq(Event) /\ Len(a) = Len(s) + 1
      /\ a[Len(a)] = e /\ Len(a) \in 1..Len(a) /\ Len(a) - 1 = Len(s)
  OBVIOUS
<1>2. States(a)[Len(a)] = Apply(States(a)[Len(a) - 1], a[Len(a)])
  <2>. HIDE DEF a
  <2>. QED  BY <1>1, StatesStep
<1>3. States(a)[Len(s)] = States(s)[Len(s)]
  BY <1>1, StatesPrefix
<1>. QED  BY <1>1, <1>2, <1>3 DEF Replay

-----------------------------------------------------------------------------
(***************************************************************************)
(* The inductive invariant.  What a request knows is what the stream says  *)
(* at the version the request loaded; only if that version is still the    *)
(* last one does its event enter the stream.                               *)
(***************************************************************************)
Legal(t, c, r) == ~ Refused(t, c, r) /\ ~ Ineffective(t, c)

\* A loaded aggregate is the state at its version, and was not deleted there.
KnowsStream(q, s) ==
    /\ q.version <= Len(s)
    /\ q.version > 0 => s[q.version].type # "deleted"

\* A request that holds an aggregate it has not decided on.
LoadedOK(q, s) ==
    q.pc = "loaded" =>
        /\ KnowsStream(q, s)
        /\ q.cmd.op # "create"
        /\ q.version = 0 => StartLegacy \/ s # <<>>
        /\ q.version > 0 => q.task = States(s)[q.version]

\* A request with an event to append.
PendingOK(q, r, s) ==
    q.pending # <<>> =>
        /\ q.pc \in {"tx", "open", "check", "insert", "failed"}
        /\ q.pending = <<EventOf(q.cmd, r)>>
        /\ KnowsStream(q, s)
        /\ q.version = 0 /\ q.cmd.op # "create" => StartLegacy \/ s # <<>>
        /\ q.version = 0 /\ q.cmd.op = "create" => q.task = Apply(Shell, q.pending[1])
        /\ q.version > 0 => /\ q.cmd.op # "create"
                            /\ Legal(States(s)[q.version], q.cmd, r)
                            /\ q.task = Apply(States(s)[q.version], q.pending[1])

\* A request whose event is stored and that still has to project.
StoredOK(q, r, s) ==
    q.pc \in {"log", "project"} =>
        /\ q.version \in 1..Len(s)
        /\ s[q.version].by = r
        /\ ~ StartLegacy => q.task = States(s)[q.version]

PathOK(q) ==
    /\ q.pc # "idle" => q.cmd \in Commands
    /\ q.pc \in {"idle", "fallback"} => q.version = 0
    /\ q.pc = "fallback" => q.cmd.op # "create"
    /\ q.pc \in {"tx", "open"} => Transactional(q.cmd)
    /\ q.pc \in {"check", "insert", "log", "project"} => ~ Transactional(q.cmd)
    /\ q.pc \in {"check", "insert"} => q.pending # <<>>

RequestOK(q, r, s) ==
    LoadedOK(q, s) /\ PendingOK(q, r, s) /\ StoredOK(q, r, s) /\ PathOK(q)

\* Every stored event was raised by the request it names, for its command.
Provenance ==
    \A i \in 1..Len(stream) :
        /\ req[stream[i].by].pc \in {"log", "project", "done"}
        /\ stream[i] = EventOf(req[stream[i].by].cmd, stream[i].by)

\* The flags of the replayed task that decide whether it accepts commands.
ReplayOK ==
    /\ Replay(stream).deleted <=> EndsDeleted(stream)
    /\ ~ StartLegacy /\ stream # <<>> => Replay(stream).workspace = "ws"

\* There is no projection before there is an event.
NoEarlyProjection == ~ StartLegacy /\ stream = <<>> => doc = None

IInv ==
    /\ TypeOK
    /\ \A r \in Requests : RequestOK(req[r], r, stream)
    /\ Provenance
    /\ StreamWellFormed
    /\ ReplayOK
    /\ NoEarlyProjection
    /\ ProjectionIsSomePrefix
    /\ TransactionalProjectionExact
    /\ OutboxComplete
    /\ ActivityFollowsStream

-----------------------------------------------------------------------------
(***************************************************************************)
(* Lemmas about requests and streams.                                      *)
(***************************************************************************)

LEMMA EmptyReplay == Replay(<<>>) = Shell
BY <<>> \in Seq(Event), StatesStep DEF Replay

LEMMA LegacyTaskType == LegacyTask \in TaskState
<1>1. (CHOOSE x \in Titles : TRUE) \in Titles
  BY ParametersAssumption
<1>. QED  BY <1>1, ShellType DEF LegacyTask, TaskState

\* What a request knows survives the append of another event.
LEMMA AppendKeeps ==
    ASSUME NEW s \in Seq(Event), NEW e \in Event, NEW r \in Requests,
           NEW q \in Request, RequestOK(q, r, s)
    PROVE  RequestOK(q, r, Append(s, e))
<1>. DEFINE a == Append(s, e)
<1>1. /\ Len(s) \in Nat /\ Len(a) = Len(s) + 1 /\ a # <<>>
      /\ \A i \in 1..Len(s) : a[i] = s[i]
  OBVIOUS
<1>2. \A n \in 0..Len(s) : States(a)[n] = States(s)[n]
  BY StatesPrefix
<1>3. q.version \in Nat
  BY DEF Request
<1>. HIDE DEF a
<1>4. KnowsStream(q, s) => KnowsStream(q, a)
  BY <1>1, <1>3 DEF KnowsStream
<1>5. LoadedOK(q, s) => LoadedOK(q, a)
  BY <1>1, <1>2, <1>3, <1>4 DEF LoadedOK, KnowsStream
<1>6. PendingOK(q, r, s) => PendingOK(q, r, a)
  BY <1>1, <1>2, <1>3, <1>4 DEF PendingOK, KnowsStream
<1>7. StoredOK(q, r, s) => StoredOK(q, r, a)
  BY <1>1, <1>2, <1>3 DEF StoredOK
<1>. QED  BY <1>5, <1>6, <1>7 DEF RequestOK, a

\* A request whose event is not stored: nothing in the stream names it.
LEMMA NotInStream ==
    ASSUME IInv, NEW r \in Requests, req[r].pc \notin {"log", "project", "done"}
    PROVE  \A i \in 1..Len(stream) : stream[i].by # r
BY DEF IInv, Provenance

\* A step of request r that stores nothing preserves the invariant if what r
\* knows afterwards is right.
LEMMA QuietStep ==
    ASSUME IInv, NEW r \in Requests, NEW q \in Request,
           req[r].pc \notin {"log", "project", "done"},
           q.version <= Len(stream) + 1,
           RequestOK(q, r, stream),
           req' = [req EXCEPT ![r] = q],
           UNCHANGED <<stream, doc, docRev, activity>>,
           outbox \subseteq outbox', outbox' \subseteq OutboxRow,
           blobs' \subseteq Files, aborts' \in 0..MaxAborts
    PROVE  IInv'
<1>1. TypeOK'
  BY DEF IInv, TypeOK
<1>2. \A p \in Requests : req'[p] = IF p = r THEN q ELSE req[p]
  BY DEF IInv, TypeOK
<1>3. (\A p \in Requests : RequestOK(req[p], p, stream))'
  BY <1>2 DEF IInv
<1>4. \A i \in 1..Len(stream) : stream[i].by \in Requests \ {r}
  <2>1. \A i \in 1..Len(stream) : stream[i].by \in Requests
    BY DEF IInv, TypeOK, Event
  <2>. QED  BY <2>1, NotInStream
<1>5. \A i \in 1..Len(stream) : req'[stream[i].by] = req[stream[i].by]
  BY <1>2, <1>4
<1>6. Provenance'
  BY <1>5 DEF IInv, Provenance
<1>7. StreamWellFormed' /\ ReplayOK' /\ NoEarlyProjection' /\ ProjectionIsSomePrefix'
  BY DEF IInv, StreamWellFormed, ReplayOK, NoEarlyProjection, ProjectionIsSomePrefix,
         EndsDeleted
<1>8. TransactionalProjectionExact'
  BY <1>5 DEF IInv, TransactionalProjectionExact
<1>9. OutboxComplete'
  BY DEF IInv, OutboxComplete
<1>10. ActivityFollowsStream'
  BY <1>5 DEF IInv, ActivityFollowsStream
<1>. QED
  BY <1>1, <1>3, <1>6, <1>7, <1>8, <1>9, <1>10 DEF IInv

\* The event of a request that is at the expected version: what its append
\* does to the stream and to what the replay of the stream shows.
LEMMA AppendedEvent ==
    ASSUME IInv, NEW r \in Requests, req[r].pending # <<>>, AtExpectedVersion(r)
    PROVE  LET e == req[r].pending[1]
               a == Append(stream, e)
           IN  /\ e \in Event /\ e = EventOf(req[r].cmd, r)
               /\ req[r].cmd \in Commands
               /\ ~ EndsDeleted(stream)
               /\ Replay(a) = Apply(Replay(stream), e)
               /\ stream # <<>> => /\ req[r].cmd.op # "create"
                                   /\ Legal(Replay(stream), req[r].cmd, r)
               /\ stream = <<>> /\ ~ StartLegacy => req[r].cmd.op = "create"
               /\ ~ StartLegacy => req[r].task = Replay(a)
               /\ \A i \in 1..Len(stream) : stream[i].by # r
<1>. DEFINE q == req[r]
            e == q.pending[1]
<1>1. q \in Request /\ PendingOK(q, r, stream) /\ PathOK(q) /\ stream \in Seq(Event)
  BY DEF IInv, TypeOK, RequestOK
<1>2. q.pending = <<EventOf(q.cmd, r)>> /\ q.pc \in {"tx", "open", "check", "insert", "failed"}
  BY <1>1 DEF PendingOK
<1>3. q.cmd \in Commands
  BY <1>1, <1>2 DEF PathOK
<1>4. e = EventOf(q.cmd, r) /\ e \in Event
  BY <1>2, <1>3, EventOfType, ParametersAssumption
<1>5. Len(stream) \in Nat /\ q.version = Len(stream) /\ (stream = <<>> <=> Len(stream) = 0)
  BY <1>1 DEF AtExpectedVersion
<1>6. Replay(stream) = States(stream)[Len(stream)]
  BY DEF Replay
<1>7. ~ EndsDeleted(stream)
  BY <1>1, <1>5 DEF PendingOK, KnowsStream, EndsDeleted
<1>8. Replay(Append(stream, e)) = Apply(Replay(stream), e)
  BY <1>1, <1>4, ReplayAppend
<1>9. stream # <<>> => /\ q.cmd.op # "create" /\ Legal(Replay(stream), q.cmd, r)
                       /\ q.task = Apply(Replay(stream), e)
  BY <1>1, <1>5, <1>6 DEF PendingOK
<1>10. stream = <<>> /\ ~ StartLegacy =>
           q.cmd.op = "create" /\ q.task = Apply(Replay(stream), e)
  BY <1>1, <1>5, EmptyReplay DEF PendingOK
<1>11. \A i \in 1..Len(stream) : stream[i].by # r
  BY <1>2, NotInStream
<1>. QED
  BY <1>3, <1>4, <1>7, <1>8, <1>9, <1>10, <1>11

\* Storing the event of a request that is at the expected version.
LEMMA AppendStep ==
    ASSUME IInv, NEW r \in Requests, req[r].pending # <<>>, AtExpectedVersion(r),
           NEW q \in Request, q.cmd = req[r].cmd, q.task = req[r].task,
           q.pending = <<>>, q.version = Len(stream) + 1,
           q.pc = "done" \/ (q.pc = "log" /\ ~ Transactional(q.cmd)),
           req' = [req EXCEPT ![r] = q],
           stream' = Append(stream, req[r].pending[1])
    PROVE  /\ stream' \in Seq(Event)
           /\ (\A p \in Requests : RequestOK(req[p], p, stream))'
           /\ Provenance'
           /\ StreamWellFormed'
           /\ ReplayOK'
<1>. DEFINE e == req[r].pending[1]
<1>1. /\ e \in Event /\ e = EventOf(req[r].cmd, r)
      /\ req[r].cmd \in Commands
      /\ ~ EndsDeleted(stream)
      /\ Replay(stream') = Apply(Replay(stream), e)
      /\ stream # <<>> => req[r].cmd.op # "create"
      /\ stream = <<>> /\ ~ StartLegacy => req[r].cmd.op = "create"
      /\ ~ StartLegacy => req[r].task = Replay(stream')
      /\ \A i \in 1..Len(stream) : stream[i].by # r
  BY AppendedEvent
<1>2. /\ stream \in Seq(Event) /\ req \in [Requests -> Request]
      /\ \A p \in Requests : RequestOK(req[p], p, stream)
      /\ Provenance /\ StreamWellFormed /\ ReplayOK
  BY DEF IInv, TypeOK
<1>. HIDE DEF e
<1>3. /\ stream' = Append(stream, e) /\ stream' \in Seq(Event)
      /\ Len(stream) \in Nat /\ Len(stream') = Len(stream) + 1
      /\ stream'[Len(stream')] = e
      /\ \A i \in 1..Len(stream) : stream'[i] = stream[i]
  BY <1>1, <1>2 DEF e
<1>4. \A p \in Requests : req'[p] = IF p = r THEN q ELSE req[p]
  BY <1>2
<1>5. e.by = r
  BY <1>1 DEF EventOf
<1>6. RequestOK(q, r, stream')
  <2>1. stream'[q.version].by = r /\ q.version \in 1..Len(stream')
    BY <1>3, <1>5
  <2>2. ~ StartLegacy => q.task = States(stream')[q.version]
    BY <1>1, <1>3 DEF Replay
  <2>. QED
    BY <1>1, <2>1, <2>2 DEF RequestOK, LoadedOK, PendingOK, StoredOK, PathOK
<1>7. \A p \in Requests \ {r} : RequestOK(req[p], p, stream')
  BY <1>1, <1>2, <1>3, AppendKeeps
<1>8. (\A p \in Requests : RequestOK(req[p], p, stream))'
  BY <1>4, <1>6, <1>7
<1>9. \A i \in 1..Len(stream) : stream[i].by \in Requests
  BY <1>2 DEF Event
<1>10. Provenance'
  <2>1. SUFFICES ASSUME NEW i \in 1..Len(stream')
                 PROVE  /\ req'[stream'[i].by].pc \in {"log", "project", "done"}
                        /\ stream'[i] = EventOf(req'[stream'[i].by].cmd, stream'[i].by)
    BY DEF Provenance
  <2>2. CASE i = Len(stream')
    BY <2>2, <1>1, <1>3, <1>4, <1>5
  <2>3. CASE i # Len(stream')
    <3>1. i \in 1..Len(stream)
      BY <2>3, <1>3
    <3>. QED  BY <3>1, <1>1, <1>2, <1>3, <1>4, <1>9 DEF Provenance
  <2>. QED  BY <2>2, <2>3
<1>11. StreamWellFormed'
  <2>1. e.type = "created" <=> req[r].cmd.op = "create"
    <3>1. req[r].cmd \in Command
      BY <1>1, ParametersAssumption
    <3>. QED  BY <1>1, <3>1 DEF EventOf, EventType, Command
  <2>2. \A i \in 1..Len(stream) : stream[i].type # "deleted"
    BY <1>1, <1>2, <1>3 DEF StreamWellFormed, EndsDeleted
  <2>3. ASSUME NEW i \in 1..Len(stream')
        PROVE  ~ StartLegacy => (stream'[i].type = "created" <=> i = 1)
    <3>1. CASE i = Len(stream')
      BY <3>1, <2>1, <1>1, <1>2, <1>3
    <3>2. CASE i # Len(stream')
      BY <3>2, <1>2, <1>3 DEF StreamWellFormed
    <3>. QED  BY <3>1, <3>2
  <2>4. ASSUME NEW i \in 1..Len(stream')
        PROVE  stream'[i].type = "deleted" => i = Len(stream')
    BY <2>2, <1>3
  <2>5. ASSUME NEW i \in 1..Len(stream'), NEW j \in 1..Len(stream')
        PROVE  stream'[i].by = stream'[j].by => i = j
    <3>1. CASE i \in 1..Len(stream) /\ j \in 1..Len(stream)
      BY <3>1, <1>2, <1>3 DEF StreamWellFormed
    <3>2. CASE i \in 1..Len(stream) /\ j = Len(stream')
      BY <3>2, <1>1, <1>3, <1>5
    <3>3. CASE i = Len(stream') /\ j \in 1..Len(stream)
      BY <3>3, <1>1, <1>3, <1>5
    <3>4. CASE i = Len(stream') /\ j = Len(stream')
      BY <3>4
    <3>. QED  BY <3>1, <3>2, <3>3, <3>4, <1>3
  <2>. QED  BY <2>3, <2>4, <2>5 DEF StreamWellFormed
<1>12. ReplayOK'
  <2>1. Replay(stream').deleted <=> e.type = "deleted"
    <3>1. ~ Replay(stream).deleted
      BY <1>1, <1>2 DEF ReplayOK
    <3>2. Apply(Replay(stream), e).deleted
            = (e.type = "deleted" \/ (Replay(stream).deleted /\ e.type # "created"))
      BY Zenon DEF Apply
    <3>. QED  BY <1>1, <3>1, <3>2, Zenon
  <2>2. EndsDeleted(stream)' <=> e.type = "deleted"
    BY <1>3 DEF EndsDeleted
  <2>3. ~ StartLegacy => Replay(stream').workspace = "ws"
    <3>0. Apply(Replay(stream), e).workspace
            = IF e.type = "created" THEN "ws" ELSE Replay(stream).workspace
      BY Zenon DEF Apply
    <3>1. CASE stream = <<>> /\ ~ StartLegacy
      <4>1. req[r].cmd.op = "create"
        BY <1>1, <3>1
      <4>2. e.type = "created"
        BY <1>1, <4>1 DEF EventOf, EventType
      <4>. QED  BY <1>1, <3>0, <4>2
    <3>2. CASE stream # <<>>
      BY <3>2, <1>1, <1>2 DEF Apply, ReplayOK
    <3>. QED  BY <3>1, <3>2
  <2>. QED  BY <2>1, <2>2, <2>3 DEF ReplayOK
<1>. QED  BY <1>3, <1>8, <1>10, <1>11, <1>12

-----------------------------------------------------------------------------
(***************************************************************************)
(* The invariant: it holds initially, and every action preserves it.       *)
(***************************************************************************)

LEMMA InitIInv == Init => IInv
<1>. SUFFICES ASSUME Init PROVE IInv
  OBVIOUS
<1>1. IdleRequest \in Request
  BY ShellType DEF IdleRequest, Request, Pc, Uncommitted
<1>2. TypeOK
  BY <1>1, LegacyTaskType, ParametersAssumption DEF Init, TypeOK, IdleRequest, Uncommitted
<1>3. \A r \in Requests : RequestOK(req[r], r, stream)
  BY DEF Init, IdleRequest, RequestOK, LoadedOK, PendingOK, StoredOK, PathOK
<1>4. /\ Provenance /\ StreamWellFormed /\ NoEarlyProjection /\ ProjectionIsSomePrefix
      /\ TransactionalProjectionExact /\ OutboxComplete /\ ActivityFollowsStream
  BY DEF Init, Provenance, StreamWellFormed, NoEarlyProjection, ProjectionIsSomePrefix,
         TransactionalProjectionExact, View, OutboxComplete, ActivityFollowsStream
<1>5. ReplayOK
  <2>1. stream = <<>> /\ Replay(stream) = Shell
    BY EmptyReplay DEF Init
  <2>2. ~ Shell.deleted
    BY Zenon DEF Shell
  <2>. QED  BY <2>1, <2>2, Zenon DEF ReplayOK, EndsDeleted
<1>. QED  BY <1>2, <1>3, <1>4, <1>5 DEF IInv

LEMMA CreateTaskStep ==
    ASSUME IInv, NEW r \in Requests, NEW c \in Commands, CreateTask(r, c)
    PROVE  IInv'
<1>. DEFINE e == EventOf(c, r)
            q == [req[r] EXCEPT !.pc = "tx", !.cmd = c, !.raised = TRUE,
                                !.task = Apply(Shell, e), !.pending = <<e>>]
<1>1. req[r] \in Request /\ RequestOK(req[r], r, stream) /\ req[r].pc = "idle"
  BY DEF IInv, TypeOK, CreateTask
<1>2. e \in Event /\ Apply(Shell, e) \in TaskState
  BY ParametersAssumption, EventOfType, ShellType, ApplyType
<1>3. q \in Request
  <2>1. <<e>> \in Uncommitted
    BY <1>2 DEF Uncommitted
  <2>. QED  BY <1>1, <1>2, <2>1 DEF Request, Pc
<1>4. RequestOK(q, r, stream)
  <2>1. q.version = 0 /\ Len(stream) \in Nat /\ Transactional(c) /\ c.op = "create"
    BY <1>1 DEF RequestOK, PathOK, IInv, TypeOK, CreateTask, Transactional
  <2>. QED
    BY <1>1, <2>1 DEF RequestOK, LoadedOK, PendingOK, StoredOK, PathOK, KnowsStream, Request
<1>5. q.version <= Len(stream) + 1
  BY <1>1 DEF IInv, TypeOK
<1>6. req' = [req EXCEPT ![r] = q]
  BY DEF CreateTask
<1>. HIDE DEF q
<1>. QED
  BY <1>1, <1>3, <1>4, <1>5, <1>6, QuietStep DEF CreateTask, stores, IInv, TypeOK

LEMMA LoadStreamStep ==
    ASSUME IInv, NEW r \in Requests, NEW c \in Commands, LoadStream(r, c)
    PROVE  IInv'
<1>1. /\ req[r] \in Request /\ RequestOK(req[r], r, stream) /\ req[r].pc = "idle"
      /\ req[r].version = 0 /\ req[r].pending = <<>>
      /\ stream \in Seq(Event) /\ Len(stream) \in Nat
      /\ UNCHANGED <<stores, blobs, aborts>>
  BY DEF IInv, TypeOK, LoadStream, RequestOK, PathOK, PendingOK
<1>2. CASE stream = <<>>
  <2>. DEFINE q == [req[r] EXCEPT !.pc = "fallback", !.cmd = c]
  <2>1. q \in Request
    BY <1>1 DEF Request, Pc
  <2>2. q.pc = "fallback" /\ q.cmd = c /\ q.version = 0 /\ q.pending = <<>>
    BY <1>1 DEF Request
  <2>3. req' = [req EXCEPT ![r] = q]
    <3>1. ~ EndsDeleted(stream)
      BY <1>2 DEF EndsDeleted
    <3>. QED  BY <1>2, <3>1 DEF LoadStream
  <2>. HIDE DEF q
  <2>4. RequestOK(q, r, stream)
    BY <1>1, <2>2 DEF RequestOK, LoadedOK, PendingOK, StoredOK, PathOK, LoadStream
  <2>. QED  BY <1>1, <2>1, <2>2, <2>3, <2>4, QuietStep DEF stores, IInv, TypeOK
<1>3. CASE stream # <<>> /\ EndsDeleted(stream)
  <2>. DEFINE q == [req[r] EXCEPT !.pc = "failed", !.cmd = c]
  <2>1. q \in Request
    BY <1>1 DEF Request, Pc
  <2>2. q.pc = "failed" /\ q.cmd = c /\ q.version = 0 /\ q.pending = <<>>
    BY <1>1 DEF Request
  <2>3. req' = [req EXCEPT ![r] = q]
    BY <1>3 DEF LoadStream
  <2>. HIDE DEF q
  <2>4. RequestOK(q, r, stream)
    BY <1>1, <2>2 DEF RequestOK, LoadedOK, PendingOK, StoredOK, PathOK
  <2>. QED  BY <1>1, <2>1, <2>2, <2>3, <2>4, QuietStep DEF stores, IInv, TypeOK
<1>4. CASE stream # <<>> /\ ~ EndsDeleted(stream)
  <2>. DEFINE q == [req[r] EXCEPT !.pc = "loaded", !.cmd = c, !.task = Replay(stream),
                                  !.version = Len(stream)]
  <2>1. q \in Request
    <3>1. Replay(stream) \in TaskState
      BY <1>1, ReplayType
    <3>. QED  BY <1>1, <3>1 DEF Request, Pc
  <2>2. RequestOK(q, r, stream)
    <3>1. q.task = States(stream)[q.version] /\ KnowsStream(q, stream)
      BY <1>1, <1>4 DEF Replay, KnowsStream, EndsDeleted, Request
    <3>2. q.pc = "loaded" /\ q.cmd = c /\ q.pending = <<>> /\ c.op # "create"
      BY <1>1 DEF LoadStream, Request
    <3>. HIDE DEF q
    <3>. QED
      BY <1>4, <3>1, <3>2 DEF RequestOK, LoadedOK, PendingOK, StoredOK, PathOK
  <2>3. req' = [req EXCEPT ![r] = q]
    BY <1>4 DEF LoadStream
  <2>4. q.version <= Len(stream) + 1
    BY <1>1 DEF Request
  <2>. HIDE DEF q
  <2>. QED  BY <1>1, <2>1, <2>2, <2>3, <2>4, QuietStep DEF stores, IInv, TypeOK
<1>. QED  BY <1>2, <1>3, <1>4

LEMMA LoadProjectionStep ==
    ASSUME IInv, NEW r \in Requests, LoadProjection(r)
    PROVE  IInv'
<1>1. /\ req[r] \in Request /\ RequestOK(req[r], r, stream) /\ req[r].pc = "fallback"
      /\ req[r].version = 0 /\ req[r].pending = <<>> /\ req[r].cmd \in Commands
      /\ doc \in TaskState \cup {None} /\ Len(stream) \in Nat
      /\ UNCHANGED <<stores, blobs, aborts>>
  BY DEF IInv, TypeOK, LoadProjection, RequestOK, PathOK, PendingOK
<1>2. CASE doc = None
  <2>. DEFINE q == [req[r] EXCEPT !.pc = "failed"]
  <2>1. q \in Request
    BY <1>1 DEF Request, Pc
  <2>2. q.pc = "failed" /\ q.cmd = req[r].cmd /\ q.version = 0 /\ q.pending = <<>>
    BY <1>1 DEF Request
  <2>3. req' = [req EXCEPT ![r] = q]
    BY <1>2 DEF LoadProjection
  <2>. HIDE DEF q
  <2>4. RequestOK(q, r, stream)
    BY <1>1, <2>2 DEF RequestOK, LoadedOK, PendingOK, StoredOK, PathOK
  <2>. QED  BY <1>1, <2>1, <2>2, <2>3, <2>4, QuietStep DEF stores, IInv, TypeOK
<1>3. CASE doc # None
  <2>. DEFINE q == [req[r] EXCEPT !.pc = "loaded", !.task = doc]
  <2>1. q \in Request
    <3>1. doc \in TaskState
      BY <1>1, <1>3
    <3>. QED  BY <1>1, <3>1 DEF Request, Pc
  <2>2. RequestOK(q, r, stream)
    <3>1. StartLegacy \/ stream # <<>>
      BY <1>3, ParametersAssumption DEF IInv, NoEarlyProjection
    <3>2. /\ q.pc = "loaded" /\ q.cmd = req[r].cmd /\ q.version = 0
          /\ q.pending = <<>> /\ q.task = doc
      BY <1>1 DEF Request
    <3>3. q.cmd.op # "create"
      BY <1>1, <3>2 DEF RequestOK, PathOK
    <3>. HIDE DEF q
    <3>. QED
      BY <1>1, <3>1, <3>2, <3>3
         DEF RequestOK, LoadedOK, PendingOK, StoredOK, PathOK, KnowsStream
  <2>3. req' = [req EXCEPT ![r] = q]
    BY <1>3 DEF LoadProjection
  <2>4. q.version <= Len(stream) + 1
    BY <1>1 DEF Request
  <2>. HIDE DEF q
  <2>. QED  BY <1>1, <2>1, <2>2, <2>3, <2>4, QuietStep DEF stores, IInv, TypeOK
<1>. QED  BY <1>2, <1>3

\* A step that only moves a request's program counter.
LEMMA GotoStep ==
    ASSUME IInv, NEW r \in Requests, NEW label \in Pc, NEW q, NEW rev \in Nat,
           req[r].pc \notin {"log", "project", "done"},
           q = [req[r] EXCEPT !.pc = label, !.rev = rev],
           label = "failed"
               \/ (label \in {"tx", "open"} /\ req[r].pc \in {"tx", "open"})
               \/ (label = "insert" /\ req[r].pc = "check"),
           req[r].pc # "idle",
           req' = [req EXCEPT ![r] = q],
           UNCHANGED <<stores>>,
           blobs' \subseteq Files, aborts' \in 0..MaxAborts
    PROVE  IInv'
<1>1. /\ req[r] \in Request /\ RequestOK(req[r], r, stream)
      /\ req[r].version <= Len(stream) + 1 /\ outbox \subseteq OutboxRow
  BY DEF IInv, TypeOK
<1>2. q \in Request
  BY <1>1 DEF Request
<1>3. /\ q.pc = label /\ q.cmd = req[r].cmd /\ q.version = req[r].version
      /\ q.pending = req[r].pending /\ q.task = req[r].task
  BY <1>1 DEF Request
<1>4. LoadedOK(q, stream) /\ StoredOK(q, r, stream)
  BY <1>3 DEF LoadedOK, StoredOK
<1>5. PendingOK(q, r, stream)
  BY <1>1, <1>3 DEF RequestOK, PendingOK, KnowsStream
<1>6. PathOK(q)
  BY <1>1, <1>3 DEF RequestOK, PathOK
<1>. QED
  BY <1>1, <1>2, <1>3, <1>4, <1>5, <1>6, QuietStep DEF stores, RequestOK

\* The task is unchanged on disk and its event is lost in memory: what
\* clearUncommittedEvents does when the transaction does not commit.
LEMMA FlushedStep ==
    ASSUME IInv, NEW r \in Requests, NEW label \in {"tx", "done"}, NEW q,
           req[r].pc = "open",
           req[r].pending = <<>> \/ label = "tx",
           q = [Flushed(req[r]) EXCEPT !.pc = label],
           req' = [req EXCEPT ![r] = q],
           UNCHANGED <<stream, doc, docRev, activity>>,
           outbox \subseteq outbox', outbox' \subseteq OutboxRow,
           blobs' \subseteq Files, aborts' \in 0..MaxAborts
    PROVE  IInv'
<1>1. /\ req[r] \in Request /\ RequestOK(req[r], r, stream)
      /\ req[r].version <= Len(stream) + 1 /\ Len(stream) \in Nat
  BY DEF IInv, TypeOK
<1>2. q \in Request
  <2>1. <<>> \in Uncommitted /\ label \in Pc
    BY DEF Uncommitted, Pc
  <2>2. Flushed(req[r]) \in Request
    <3>1. CASE req[r].pending = <<>>
      BY <1>1, <3>1 DEF Flushed
    <3>2. CASE req[r].pending # <<>>
      <4>1. req[r].version + 1 \in Nat
        BY <1>1 DEF Request
      <4>2. [req[r] EXCEPT !.pending = <<>>, !.version = req[r].version + 1] \in Request
        BY <1>1, <2>1, <4>1 DEF Request
      <4>. QED  BY <3>2, <4>2, Zenon DEF Flushed
    <3>. QED  BY <3>1, <3>2
  <2>. QED  BY <2>1, <2>2 DEF Request
<1>3. q.pc = label /\ q.cmd = req[r].cmd /\ q.pending = <<>>
  BY <1>1 DEF Request, Flushed
<1>4. q.version <= Len(stream) + 1
  <2>1. CASE req[r].pending = <<>>
    BY <1>1, <2>1 DEF Request, Flushed
  <2>2. CASE req[r].pending # <<>>
    <3>1. req[r].version <= Len(stream) /\ req[r].version \in Nat
      BY <1>1, <2>2 DEF RequestOK, PendingOK, KnowsStream, Request
    <3>2. q.version = req[r].version + 1
      BY <1>1, <2>2 DEF Request, Flushed
    <3>. QED  BY <1>1, <3>1, <3>2
  <2>. QED  BY <2>1, <2>2
<1>5. RequestOK(q, r, stream)
  BY <1>1, <1>3 DEF RequestOK, LoadedOK, PendingOK, StoredOK, PathOK
<1>. HIDE DEF Flushed
<1>. QED  BY <1>2, <1>4, <1>5, QuietStep

LEMMA RemoteCallFailsStep ==
    ASSUME IInv, NEW r \in Requests, RemoteCallFails(r)
    PROVE  IInv'
<1>1. /\ req[r] \in Request /\ req[r].pc = "loaded" /\ blobs \subseteq Files
      /\ req[r].rev \in Nat /\ aborts' \in 0..MaxAborts
  BY DEF IInv, TypeOK, RemoteCallFails, Request
<1>2. BlobAfter(r, req[r].cmd) \subseteq Files
  BY <1>1 DEF BlobAfter, Files
<1>3. blobs' \subseteq Files /\ UNCHANGED stores
  BY <1>1, <1>2 DEF RemoteCallFails
<1>4. req' = [req EXCEPT ![r] = [req[r] EXCEPT !.pc = "failed", !.rev = req[r].rev]]
  <2>1. [req[r] EXCEPT !.pc = "failed", !.rev = req[r].rev] = [req[r] EXCEPT !.pc = "failed"]
    BY <1>1 DEF Request
  <2>. QED  BY <2>1 DEF RemoteCallFails, Goto
<1>. QED  BY <1>1, <1>3, <1>4, GotoStep DEF Pc

LEMMA DecideStep ==
    ASSUME IInv, NEW r \in Requests, Decide(r)
    PROVE  IInv'
<1>. DEFINE c == req[r].cmd
            t == req[r].task
            e == EventOf(c, r)
<1>1. /\ req[r] \in Request /\ RequestOK(req[r], r, stream) /\ req[r].pc = "loaded"
      /\ req[r].version <= Len(stream) + 1 /\ outbox \subseteq OutboxRow
      /\ blobs \subseteq Files /\ aborts \in 0..MaxAborts
      /\ UNCHANGED <<stores, aborts>>
  BY DEF IInv, TypeOK, Decide
<1>2. /\ c \in Commands /\ c.op # "create" /\ req[r].pending = <<>>
      /\ KnowsStream(req[r], stream) /\ req[r].version \in Nat
      /\ req[r].version = 0 => StartLegacy \/ stream # <<>>
      /\ req[r].version > 0 => t = States(stream)[req[r].version]
  BY <1>1 DEF RequestOK, LoadedOK, PendingOK, PathOK, Request
<1>3. blobs' \subseteq Files
  <2>1. BlobAfter(r, c) \subseteq Files
    BY <1>1 DEF BlobAfter, Files
  <2>. QED  BY <2>1 DEF Decide
<1>4. e \in Event /\ Apply(t, e) \in TaskState
  <2>1. e \in Event
    BY <1>2, ParametersAssumption, EventOfType
  <2>. QED  BY <1>1, <2>1, ApplyType DEF Request
<1>5. CASE Refused(t, c, r)
  <2>. DEFINE q == [req[r] EXCEPT !.pc = "failed"]
  <2>1. q \in Request
    BY <1>1 DEF Request, Pc
  <2>2. q.pc = "failed" /\ q.cmd = c /\ q.version = req[r].version /\ q.pending = <<>>
    BY <1>1, <1>2 DEF Request
  <2>3. req' = [req EXCEPT ![r] = q]
    BY <1>5 DEF Decide
  <2>. HIDE DEF q, c
  <2>4. RequestOK(q, r, stream)
    BY <1>2, <2>2 DEF RequestOK, LoadedOK, PendingOK, StoredOK, PathOK
  <2>. QED  BY <1>1, <1>3, <2>1, <2>2, <2>3, <2>4, QuietStep DEF stores
<1>6. CASE ~ Refused(t, c, r) /\ Ineffective(t, c)
  <2>. DEFINE label == IF Transactional(c) THEN "tx" ELSE "done"
              q == [req[r] EXCEPT !.pc = label]
  <2>1. q \in Request
    BY <1>1 DEF Request, Pc
  <2>2. q.pc = label /\ q.cmd = c /\ q.version = req[r].version /\ q.pending = <<>>
    BY <1>1, <1>2 DEF Request
  <2>3. req' = [req EXCEPT ![r] = q]
    BY <1>6 DEF Decide
  <2>. HIDE DEF q, c
  <2>4. RequestOK(q, r, stream)
    BY <1>2, <2>2 DEF RequestOK, LoadedOK, PendingOK, StoredOK, PathOK
  <2>. QED  BY <1>1, <1>3, <2>1, <2>2, <2>3, <2>4, QuietStep DEF stores
<1>7. CASE Legal(t, c, r)
  <2>. DEFINE q == [req[r] EXCEPT !.pc = SavePath(c), !.raised = TRUE,
                                  !.task = Apply(t, e), !.pending = <<e>>]
  <2>1. q \in Request
    <3>1. <<e>> \in Uncommitted /\ SavePath(c) \in Pc
      BY <1>4 DEF Uncommitted, SavePath, Pc
    <3>. QED  BY <1>1, <1>4, <3>1 DEF Request
  <2>2. /\ q.pc = SavePath(c) /\ q.cmd = c /\ q.version = req[r].version
        /\ q.pending = <<e>> /\ q.task = Apply(t, e)
    BY <1>1 DEF Request
  <2>3. req' = [req EXCEPT ![r] = q]
    BY <1>7 DEF Decide, Legal
  <2>. HIDE DEF q
  <2>4. RequestOK(q, r, stream)
    <3>1. q.pending[1] = e /\ q.pending # <<>>
      BY <2>2
    <3>2. PendingOK(q, r, stream)
      BY <1>2, <1>7, <2>2, <3>1 DEF PendingOK, KnowsStream, SavePath
    <3>3. LoadedOK(q, stream) /\ StoredOK(q, r, stream) /\ PathOK(q)
      BY <1>2, <2>2, <3>1 DEF LoadedOK, StoredOK, PathOK, SavePath
    <3>. QED  BY <3>2, <3>3 DEF RequestOK
  <2>. QED  BY <1>1, <1>3, <2>1, <2>2, <2>3, <2>4, QuietStep DEF stores
<1>. QED  BY <1>5, <1>6, <1>7 DEF Legal

LEMMA TxOpenStep ==
    ASSUME IInv, NEW r \in Requests, TxOpen(r)
    PROVE  IInv'
<1>1. /\ req[r] \in Request /\ req[r].pc = "tx" /\ req[r].rev \in Nat /\ docRev \in Nat
      /\ blobs' \subseteq Files /\ aborts' \in 0..MaxAborts /\ UNCHANGED stores
  BY DEF IInv, TypeOK, TxOpen, Request
<1>2. CASE req[r].pending # <<>> /\ ~ AtExpectedVersion(r)
  <2>1. req' = [req EXCEPT ![r] = [req[r] EXCEPT !.pc = "failed", !.rev = req[r].rev]]
    <3>1. [req[r] EXCEPT !.pc = "failed", !.rev = req[r].rev]
            = [req[r] EXCEPT !.pc = "failed"]
      BY <1>1 DEF Request
    <3>. QED  BY <1>2, <3>1 DEF TxOpen
  <2>. QED  BY <1>1, <2>1, GotoStep DEF Pc
<1>3. CASE ~ (req[r].pending # <<>> /\ ~ AtExpectedVersion(r))
  <2>1. req' = [req EXCEPT ![r] = [req[r] EXCEPT !.pc = "open", !.rev = docRev]]
    BY <1>3 DEF TxOpen
  <2>. QED  BY <1>1, <2>1, GotoStep DEF Pc
<1>. QED  BY <1>2, <1>3

LEMMA TxRetryStep ==
    ASSUME IInv, NEW r \in Requests,
           TxInsertConflict(r) \/ TxProjectionConflict(r) \/ TxAborted(r)
    PROVE  IInv'
<1>1. /\ req[r] \in Request /\ req[r].pc = "open" /\ req[r].rev \in Nat
      /\ outbox \subseteq OutboxRow /\ blobs' \subseteq Files /\ UNCHANGED stores
      /\ aborts' \in 0..MaxAborts
  BY ParametersAssumption
     DEF IInv, TypeOK, TxInsertConflict, TxProjectionConflict, TxAborted, Request
<1>2. CASE Goto(r, "tx")
  <2>1. [req[r] EXCEPT !.pc = "tx", !.rev = req[r].rev] = [req[r] EXCEPT !.pc = "tx"]
    BY <1>1 DEF Request
  <2>2. req' = [req EXCEPT ![r] = [req[r] EXCEPT !.pc = "tx", !.rev = req[r].rev]]
    BY <1>2, <2>1 DEF Goto
  <2>. QED  BY <1>1, <2>2, GotoStep DEF Pc
<1>3. CASE req' = [req EXCEPT ![r] = [Flushed(req[r]) EXCEPT !.pc = "tx"]]
  BY <1>1, <1>3, FlushedStep DEF stores
<1>. QED
  BY <1>2, <1>3 DEF TxInsertConflict, TxProjectionConflict, TxAborted

\* What appending does to the conjuncts about the other stores, once it is
\* known what it does to the stream.
LEMMA TxCommitStep ==
    ASSUME IInv, NEW r \in Requests, TxCommit(r)
    PROVE  IInv'
<1>. DEFINE q == [Flushed(req[r]) EXCEPT !.pc = "done"]
<1>1. /\ req \in [Requests -> Request] /\ req[r] \in Request /\ req[r].pc = "open"
      /\ stream \in Seq(Event) /\ Len(stream) \in Nat
      /\ outbox \subseteq OutboxRow /\ docRev \in Nat /\ activity \subseteq Nat
      /\ blobs' = blobs /\ blobs \subseteq Files
      /\ aborts' = aborts /\ aborts \in 0..MaxAborts
      /\ req' = [req EXCEPT ![r] = q]
  BY DEF IInv, TypeOK, TxCommit
<1>2. Transactional(req[r].cmd) /\ req[r].cmd \in Commands
  BY <1>1 DEF IInv, RequestOK, PathOK
<1>3. outbox \subseteq outbox' /\ outbox' \subseteq OutboxRow
  <2>1. [by |-> r, raised |-> req[r].raised] \in OutboxRow
    BY <1>1 DEF Request, OutboxRow
  <2>. QED  BY <1>1, <2>1 DEF TxCommit, Enqueued
<1>4. CASE req[r].pending = <<>>
  <2>1. UNCHANGED <<stream, doc, docRev, activity>>
    BY <1>4 DEF TxCommit, Saved
  <2>. QED  BY <1>1, <1>3, <1>4, <2>1, FlushedStep
<1>5. CASE req[r].pending # <<>>
  <2>. DEFINE e == req[r].pending[1]
  <2>1. /\ AtExpectedVersion(r)
        /\ stream' = Append(stream, e)
        /\ activity' = activity \cup {req[r].version + 1}
        /\ doc' = Projection(req[r].task)
        /\ docRev' = docRev + 1
    BY <1>5 DEF TxCommit, Saved
  <2>2. /\ q.pc = "done" /\ q.cmd = req[r].cmd /\ q.task = req[r].task
        /\ q.pending = <<>> /\ q.version = Len(stream) + 1
    BY <1>1, <1>5, <2>1 DEF Flushed, Request, AtExpectedVersion
  <2>3. q \in Request
    <3>1. <<>> \in Uncommitted /\ "done" \in Pc /\ req[r].version + 1 \in Nat
      BY <1>1 DEF Uncommitted, Pc, Request
    <3>2. [req[r] EXCEPT !.pending = <<>>, !.version = req[r].version + 1] \in Request
      BY <1>1, <3>1 DEF Request
    <3>3. Flushed(req[r]) \in Request
      BY <1>5, <3>2, Zenon DEF Flushed
    <3>. QED  BY <3>1, <3>3 DEF Request
  <2>4. /\ e \in Event /\ e = EventOf(req[r].cmd, r)
        /\ ~ StartLegacy => req[r].task = Replay(stream')
        /\ \A i \in 1..Len(stream) : stream[i].by # r
    BY <1>5, <2>1, AppendedEvent
  <2>. HIDE DEF q, e
  <2>5. /\ stream' \in Seq(Event)
        /\ (\A p \in Requests : RequestOK(req[p], p, stream))'
        /\ Provenance' /\ StreamWellFormed' /\ ReplayOK'
    BY <1>1, <1>5, <2>1, <2>2, <2>3, AppendStep DEF e
  <2>6. /\ Len(stream') = Len(stream) + 1 /\ stream' # <<>>
        /\ stream'[Len(stream')] = e /\ e.by = r
        /\ \A i \in 1..Len(stream) : stream'[i] = stream[i]
    BY <1>1, <2>1, <2>4 DEF EventOf
  <2>7. \A p \in Requests : req'[p] = IF p = r THEN q ELSE req[p]
    BY <1>1
  <2>8. \A i \in 1..Len(stream) :
            stream[i].by \in Requests \ {r} /\ req'[stream[i].by] = req[stream[i].by]
    <3>1. \A i \in 1..Len(stream) : stream[i].by \in Requests
      BY <1>1 DEF Event
    <3>. QED  BY <2>4, <2>7, <3>1
  <2>9. TypeOK'
    <3>1. doc' \in TaskState \cup {None}
      BY <1>1, <2>1 DEF Projection, Request
    <3>2. \A p \in Requests : req'[p].version <= Len(stream') + 1
      BY <1>1, <2>2, <2>6, <2>7 DEF IInv, TypeOK, Request
    <3>3. activity' \subseteq Nat /\ docRev' \in Nat
      <4>1. req[r].version + 1 \in Nat /\ docRev + 1 \in Nat
        BY <1>1, <2>1 DEF AtExpectedVersion
      <4>2. activity' = activity \cup {req[r].version + 1} /\ docRev' = docRev + 1
        BY <2>1
      <4>. QED  BY <1>1, <4>1, <4>2, Zenon
    <3>4. req' \in [Requests -> Request]
      BY <1>1, <2>3
    <3>. QED  BY <1>1, <1>3, <2>5, <3>1, <3>2, <3>3, <3>4 DEF TypeOK
  <2>10. NoEarlyProjection'
    BY <2>6 DEF NoEarlyProjection
  <2>11. ~ StartLegacy => doc' = View(stream')
    BY <2>1, <2>4, <2>6 DEF View
  <2>12. ProjectionIsSomePrefix' /\ TransactionalProjectionExact'
    BY <2>6, <2>11, <1>1
       DEF ProjectionIsSomePrefix, TransactionalProjectionExact, View, Projection, Replay
  <2>13. OutboxComplete'
    <3>1. \A i \in 1..Len(stream) :
              MustBeAnnounced(stream'[i]) => \E row \in outbox' : row.by = stream'[i].by
      BY <1>3, <2>6 DEF IInv, OutboxComplete
    <3>2. MustBeAnnounced(e) => Announces(req[r].cmd)
      <4>1. req[r].cmd \in Command
        BY <1>2, ParametersAssumption
      <4>. QED
        BY <1>2, <2>4, <4>1
           DEF MustBeAnnounced, Announces, Transactional, EventOf, EventType, Command
    <3>3. Announces(req[r].cmd) => \E row \in outbox' : row.by = r
      <4>1. Announces(req[r].cmd) => [by |-> r, raised |-> req[r].raised] \in outbox'
        BY DEF TxCommit, Enqueued
      <4>2. [by |-> r, raised |-> req[r].raised].by = r
        OBVIOUS
      <4>. QED  BY <4>1, <4>2, Zenon
    <3>. QED  BY <1>1, <2>6, <3>1, <3>2, <3>3 DEF OutboxComplete
  <2>14. ActivityFollowsStream'
    <3>1. req[r].version + 1 = Len(stream')
      BY <1>1, <2>1, <2>6 DEF AtExpectedVersion
    <3>2. req'[r].pc = "done"
      BY <2>2, <2>7
    <3>3. \A i \in 1..Len(stream) :
              req'[stream'[i].by].pc # "log" <=> req[stream[i].by].pc # "log"
      BY <2>6, <2>8
    <3>4. activity = {i \in 1..Len(stream) : req[stream[i].by].pc # "log"}
      BY DEF IInv, ActivityFollowsStream
    <3>. QED  BY <1>1, <2>1, <2>6, <3>1, <3>2, <3>3, <3>4 DEF ActivityFollowsStream
  <2>. QED
    BY <2>5, <2>9, <2>10, <2>12, <2>13, <2>14 DEF IInv
<1>. QED  BY <1>4, <1>5

LEMMA CheckVersionStep ==
    ASSUME IInv, NEW r \in Requests, CheckVersion(r)
    PROVE  IInv'
<1>. DEFINE label == IF AtExpectedVersion(r) THEN "insert" ELSE "failed"
<1>1. /\ req[r] \in Request /\ req[r].pc = "check" /\ req[r].rev \in Nat
      /\ blobs' \subseteq Files /\ aborts' \in 0..MaxAborts /\ UNCHANGED stores
      /\ req' = [req EXCEPT ![r].pc = label]
  BY DEF IInv, TypeOK, CheckVersion, Request, Goto
<1>2. req' = [req EXCEPT ![r] = [req[r] EXCEPT !.pc = label, !.rev = req[r].rev]]
  <2>1. [req[r] EXCEPT !.pc = label, !.rev = req[r].rev] = [req[r] EXCEPT !.pc = label]
    BY <1>1 DEF Request
  <2>. QED  BY <1>1, <2>1
<1>3. label \in Pc /\ (label = "insert" \/ label = "failed")
  BY DEF Pc
<1>. HIDE DEF label
<1>. QED  BY <1>1, <1>2, <1>3, GotoStep

LEMMA InsertEventStep ==
    ASSUME IInv, NEW r \in Requests, InsertEvent(r)
    PROVE  IInv'
<1>1. /\ req \in [Requests -> Request] /\ req[r] \in Request /\ req[r].pc = "insert"
      /\ stream \in Seq(Event) /\ Len(stream) \in Nat
      /\ UNCHANGED <<doc, docRev, activity, outbox, blobs, aborts>>
      /\ blobs \subseteq Files /\ aborts \in 0..MaxAborts /\ outbox \subseteq OutboxRow
  BY DEF IInv, TypeOK, InsertEvent
<1>2. ~ Transactional(req[r].cmd) /\ req[r].cmd \in Commands /\ req[r].pending # <<>>
  BY <1>1 DEF IInv, RequestOK, PathOK
<1>3. CASE ~ AtExpectedVersion(r)
  <2>1. [req[r] EXCEPT !.pc = "failed", !.rev = req[r].rev] = [req[r] EXCEPT !.pc = "failed"]
    BY <1>1 DEF Request
  <2>2. req' = [req EXCEPT ![r] = [req[r] EXCEPT !.pc = "failed", !.rev = req[r].rev]]
    BY <1>3, <2>1 DEF InsertEvent, Goto
  <2>3. UNCHANGED stores /\ req[r].rev \in Nat
    BY <1>1, <1>3 DEF InsertEvent, stores, Request
  <2>. QED  BY <1>1, <2>2, <2>3, GotoStep DEF Pc
<1>4. CASE AtExpectedVersion(r)
  <2>. DEFINE e == req[r].pending[1]
              q == [Flushed(req[r]) EXCEPT !.pc = "log"]
  <2>1. stream' = Append(stream, e) /\ req' = [req EXCEPT ![r] = q]
    BY <1>4 DEF InsertEvent
  <2>2. /\ q.pc = "log" /\ q.cmd = req[r].cmd /\ q.task = req[r].task
        /\ q.pending = <<>> /\ q.version = Len(stream) + 1
    BY <1>1, <1>2, <1>4 DEF Flushed, Request, AtExpectedVersion
  <2>3. q \in Request
    <3>1. <<>> \in Uncommitted /\ "log" \in Pc /\ req[r].version + 1 \in Nat
      BY <1>1 DEF Uncommitted, Pc, Request
    <3>2. [req[r] EXCEPT !.pending = <<>>, !.version = req[r].version + 1] \in Request
      BY <1>1, <3>1 DEF Request
    <3>3. Flushed(req[r]) \in Request
      BY <1>2, <3>2, Zenon DEF Flushed
    <3>. QED  BY <3>1, <3>3 DEF Request
  <2>4. /\ e \in Event /\ e = EventOf(req[r].cmd, r)
        /\ stream = <<>> /\ ~ StartLegacy => req[r].cmd.op = "create"
        /\ \A i \in 1..Len(stream) : stream[i].by # r
    BY <1>2, <1>4, AppendedEvent
  <2>. HIDE DEF q, e
  <2>5. /\ stream' \in Seq(Event)
        /\ (\A p \in Requests : RequestOK(req[p], p, stream))'
        /\ Provenance' /\ StreamWellFormed' /\ ReplayOK'
    BY <1>1, <1>2, <1>4, <2>1, <2>2, <2>3, AppendStep DEF e
  <2>6. /\ Len(stream') = Len(stream) + 1 /\ stream' # <<>>
        /\ stream'[Len(stream')] = e /\ e.by = r
        /\ \A i \in 1..Len(stream) : stream'[i] = stream[i]
    BY <1>1, <2>1, <2>4 DEF EventOf
  <2>7. \A p \in Requests : req'[p] = IF p = r THEN q ELSE req[p]
    BY <1>1, <2>1
  <2>8. \A i \in 1..Len(stream) :
            stream[i].by \in Requests \ {r} /\ req'[stream[i].by] = req[stream[i].by]
    <3>1. \A i \in 1..Len(stream) : stream[i].by \in Requests
      BY <1>1 DEF Event
    <3>. QED  BY <2>4, <2>7, <3>1
  <2>9. TypeOK'
    <3>1. \A p \in Requests : req'[p].version <= Len(stream') + 1
      BY <1>1, <2>2, <2>6, <2>7 DEF IInv, TypeOK, Request
    <3>2. req' \in [Requests -> Request]
      BY <1>1, <2>1, <2>3
    <3>. QED  BY <1>1, <2>5, <3>1, <3>2 DEF IInv, TypeOK
  <2>10. NoEarlyProjection'
    BY <2>6 DEF NoEarlyProjection
  <2>11. ProjectionIsSomePrefix'
    <3>1. \A n \in 0..Len(stream) : States(stream')[n] = States(stream)[n]
      BY <1>1, <2>1, <2>4, StatesPrefix
    <3>. QED  BY <1>1, <2>6, <3>1 DEF IInv, ProjectionIsSomePrefix
  <2>12. TransactionalProjectionExact'
    <3>1. Len(stream') \in 1..Len(stream')
      BY <1>1, <2>6
    <3>2. ~ Transactional(req'[stream'[Len(stream')].by].cmd)
      BY <1>2, <2>2, <2>6, <2>7
    <3>. QED  BY <3>1, <3>2 DEF TransactionalProjectionExact
  <2>13. OutboxComplete'
    <3>1. ~ MustBeAnnounced(e)
      <4>1. req[r].cmd \in Command
        BY <1>2, ParametersAssumption
      <4>. QED
        BY <1>2, <2>4, <4>1
           DEF MustBeAnnounced, Transactional, EventOf, EventType, Command
    <3>. QED  BY <1>1, <2>6, <3>1 DEF IInv, OutboxComplete
  <2>14. ActivityFollowsStream'
    <3>1. req'[r].pc = "log"
      BY <2>2, <2>7
    <3>2. \A i \in 1..Len(stream) :
              req'[stream'[i].by].pc # "log" <=> req[stream[i].by].pc # "log"
      BY <2>6, <2>8
    <3>3. activity = {i \in 1..Len(stream) : req[stream[i].by].pc # "log"}
      BY DEF IInv, ActivityFollowsStream
    <3>. QED  BY <1>1, <2>6, <3>1, <3>2, <3>3 DEF ActivityFollowsStream
  <2>. QED
    BY <2>5, <2>9, <2>10, <2>11, <2>12, <2>13, <2>14 DEF IInv
<1>. QED  BY <1>3, <1>4

LEMMA LogActivityStep ==
    ASSUME IInv, NEW r \in Requests, LogActivity(r)
    PROVE  IInv'
<1>. DEFINE q == [req[r] EXCEPT !.pc = "project"]
<1>1. /\ req \in [Requests -> Request] /\ req[r] \in Request /\ req[r].pc = "log"
      /\ stream \in Seq(Event) /\ Len(stream) \in Nat /\ activity \subseteq Nat
      /\ UNCHANGED <<stream, doc, docRev, outbox, blobs, aborts>>
      /\ req' = [req EXCEPT ![r] = q]
      /\ activity' = activity \cup {req[r].version}
  BY DEF IInv, TypeOK, LogActivity, Goto
<1>2. /\ RequestOK(req[r], r, stream) /\ req[r].version \in 1..Len(stream)
      /\ stream[req[r].version].by = r
  BY <1>1 DEF IInv, RequestOK, StoredOK
<1>3. q \in Request
  BY <1>1 DEF Request, Pc
<1>4. /\ q.pc = "project" /\ q.cmd = req[r].cmd /\ q.task = req[r].task
      /\ q.pending = req[r].pending /\ q.version = req[r].version
  BY <1>1 DEF Request
<1>. HIDE DEF q
<1>5. \A p \in Requests : req'[p] = IF p = r THEN q ELSE req[p]
  BY <1>1
<1>6. RequestOK(q, r, stream)
  BY <1>1, <1>2, <1>4 DEF RequestOK, LoadedOK, PendingOK, StoredOK, PathOK
<1>7. \A i \in 1..Len(stream) : stream[i].by \in Requests
  BY <1>1 DEF Event
<1>8. TypeOK'
  <2>1. req' \in [Requests -> Request]
    BY <1>1, <1>3
  <2>2. \A p \in Requests : req'[p].version <= Len(stream') + 1
    BY <1>1, <1>4, <1>5 DEF IInv, TypeOK
  <2>3. activity' \subseteq Nat
    <3>1. req[r].version \in Nat
      BY <1>2
    <3>. QED  BY <1>1, <3>1, Zenon
  <2>. QED  BY <1>1, <2>1, <2>2, <2>3 DEF IInv, TypeOK
<1>9. (\A p \in Requests : RequestOK(req[p], p, stream))'
  BY <1>1, <1>5, <1>6 DEF IInv
<1>10. Provenance' /\ TransactionalProjectionExact'
  BY <1>1, <1>4, <1>5, <1>7 DEF IInv, Provenance, TransactionalProjectionExact
<1>11. /\ StreamWellFormed' /\ ReplayOK' /\ NoEarlyProjection'
       /\ ProjectionIsSomePrefix' /\ OutboxComplete'
  BY <1>1 DEF IInv, StreamWellFormed, ReplayOK, EndsDeleted, NoEarlyProjection,
              ProjectionIsSomePrefix, OutboxComplete
<1>12. ActivityFollowsStream'
  <2>1. \A i \in 1..Len(stream) : stream[i].by = r <=> i = req[r].version
    BY <1>2 DEF IInv, StreamWellFormed
  <2>2. \A i \in 1..Len(stream) :
            req'[stream[i].by].pc # "log"
                <=> req[stream[i].by].pc # "log" \/ i = req[r].version
    BY <1>1, <1>4, <1>5, <1>7, <2>1
  <2>3. activity = {i \in 1..Len(stream) : req[stream[i].by].pc # "log"}
    BY DEF IInv, ActivityFollowsStream
  <2>. QED  BY <1>1, <1>2, <2>2, <2>3 DEF ActivityFollowsStream
<1>. QED
  BY <1>8, <1>9, <1>10, <1>11, <1>12 DEF IInv

LEMMA SyncProjectionStep ==
    ASSUME IInv, NEW r \in Requests, SyncProjection(r)
    PROVE  IInv'
<1>. DEFINE q == [req[r] EXCEPT !.pc = "done"]
<1>1. /\ req \in [Requests -> Request] /\ req[r] \in Request /\ req[r].pc = "project"
      /\ stream \in Seq(Event) /\ Len(stream) \in Nat /\ docRev \in Nat
      /\ UNCHANGED <<stream, activity, outbox, blobs, aborts>>
      /\ req' = [req EXCEPT ![r] = q]
      /\ doc' = Projection(req[r].task)
      /\ docRev' = docRev + 1
  BY DEF IInv, TypeOK, SyncProjection, Goto
<1>2. /\ RequestOK(req[r], r, stream) /\ req[r].version \in 1..Len(stream)
      /\ stream[req[r].version].by = r
      /\ ~ StartLegacy => req[r].task = States(stream)[req[r].version]
      /\ ~ Transactional(req[r].cmd)
  BY <1>1 DEF IInv, RequestOK, StoredOK, PathOK
<1>3. q \in Request
  BY <1>1 DEF Request, Pc
<1>4. /\ q.pc = "done" /\ q.cmd = req[r].cmd
      /\ q.pending = req[r].pending /\ q.version = req[r].version
  BY <1>1 DEF Request
<1>. HIDE DEF q
<1>5. \A p \in Requests : req'[p] = IF p = r THEN q ELSE req[p]
  BY <1>1
<1>6. RequestOK(q, r, stream)
  BY <1>1, <1>2, <1>4 DEF RequestOK, LoadedOK, PendingOK, StoredOK, PathOK
<1>7. \A i \in 1..Len(stream) : stream[i].by \in Requests
  BY <1>1 DEF Event
<1>8. TypeOK'
  <2>1. req' \in [Requests -> Request]
    BY <1>1, <1>3
  <2>2. \A p \in Requests : req'[p].version <= Len(stream') + 1
    BY <1>1, <1>4, <1>5 DEF IInv, TypeOK
  <2>3. doc' \in TaskState \cup {None}
    BY <1>1 DEF Projection, Request
  <2>4. docRev' \in Nat
    BY <1>1
  <2>. QED  BY <1>1, <2>1, <2>2, <2>3, <2>4 DEF IInv, TypeOK
<1>9. (\A p \in Requests : RequestOK(req[p], p, stream))'
  BY <1>1, <1>5, <1>6 DEF IInv
<1>10. Provenance'
  BY <1>1, <1>4, <1>5, <1>7 DEF IInv, Provenance
<1>11. StreamWellFormed' /\ ReplayOK' /\ OutboxComplete'
  BY <1>1 DEF IInv, StreamWellFormed, ReplayOK, EndsDeleted, OutboxComplete
<1>12. NoEarlyProjection'
  <2>1. stream # <<>>
    BY <1>2
  <2>. QED  BY <1>1, <2>1 DEF NoEarlyProjection
<1>13. ProjectionIsSomePrefix'
  BY <1>1, <1>2 DEF ProjectionIsSomePrefix, Projection
<1>14. TransactionalProjectionExact'
  BY <1>1, <1>2, <1>4, <1>5 DEF TransactionalProjectionExact
<1>15. ActivityFollowsStream'
  <2>1. \A i \in 1..Len(stream) :
            req'[stream[i].by].pc # "log" <=> req[stream[i].by].pc # "log"
    BY <1>1, <1>4, <1>5, <1>7
  <2>. QED  BY <1>1, <2>1 DEF IInv, ActivityFollowsStream
<1>. QED
  BY <1>8, <1>9, <1>10, <1>11, <1>12, <1>13, <1>14, <1>15 DEF IInv

LEMMA NextIInv == IInv /\ [Next]_vars => IInv'
<1>. SUFFICES ASSUME IInv, [Next]_vars PROVE IInv'
  OBVIOUS
<1>1. CASE UNCHANGED vars
  BY <1>1 DEF IInv, TypeOK, Provenance, StreamWellFormed, ReplayOK, EndsDeleted,
              NoEarlyProjection, ProjectionIsSomePrefix, TransactionalProjectionExact,
              OutboxComplete, ActivityFollowsStream, vars, stores
<1>2. CASE Next
  <2>1. PICK r \in Requests :
            \/ \E c \in Commands : CreateTask(r, c) \/ LoadStream(r, c)
            \/ LoadProjection(r) \/ RemoteCallFails(r) \/ Decide(r)
            \/ Transaction(r) \/ PlainSave(r)
    BY <1>2 DEF Next
  <2>2. CASE \E c \in Commands : CreateTask(r, c) \/ LoadStream(r, c)
    BY <2>2, CreateTaskStep, LoadStreamStep
  <2>3. CASE LoadProjection(r) \/ RemoteCallFails(r) \/ Decide(r)
    BY <2>3, LoadProjectionStep, RemoteCallFailsStep, DecideStep
  <2>4. CASE Transaction(r)
    BY <2>4, TxOpenStep, TxCommitStep, TxRetryStep DEF Transaction
  <2>5. CASE PlainSave(r)
    BY <2>5, CheckVersionStep, InsertEventStep, LogActivityStep, SyncProjectionStep
       DEF PlainSave
  <2>. QED  BY <2>1, <2>2, <2>3, <2>4, <2>5
<1>. QED  BY <1>1, <1>2

-----------------------------------------------------------------------------
(***************************************************************************)
(* Theorems.                                                               *)
(***************************************************************************)

\* The inductive invariant holds in every reachable state of the task's stores and
\* handlers (saveAsync in and outside of a transaction).
THEOREM Invariance == Spec => []IInv
<1>1. Init => IInv
  BY InitIInv
<1>2. IInv /\ [Next]_vars => IInv'
  BY NextIInv
<1>. QED  BY <1>1, <1>2, PTL DEF Spec

\* Every reachable state is well typed (domain/entities/Task.ts and the
\* stores), and a request's version is at most one ahead of the stream.
THEOREM TypeCorrect == Spec => []TypeOK
<1>1. IInv => TypeOK
  BY DEF IInv
<1>. QED  BY <1>1, Invariance, PTL

\* The event stream is the history of one task: optimistic append plus the
\* unique index of task_events keep creation first, deletion last, and every
\* event stored at most once.
THEOREM StreamIsWellFormed == Spec => []StreamWellFormed
<1>1. IInv => StreamWellFormed
  BY DEF IInv
<1>. QED  BY <1>1, Invariance, PTL

\* The read projection is always the replay of a prefix of the stream, and
\* all of it as long as only transactional handlers have written.
THEOREM ProjectionIsReplay == Spec => []ProjectionFollowsStream
<1>1. IInv => ProjectionFollowsStream
  BY DEF IInv, ProjectionFollowsStream
<1>. QED  BY <1>1, Invariance, PTL

\* No stored change goes unannounced, through every conflict and retry (event
\* and outbox row are stored by the same transaction), and the activity feed lists
\* exactly the stored events, apart from those whose handler stopped right after
\* its append.
THEOREM RecordsAreComplete == Spec => []RecordsFollowStream
<1>1. IInv => RecordsFollowStream
  BY DEF IInv, RecordsFollowStream
<1>. QED  BY <1>1, Invariance, PTL

\* The only step that changes the stream appends the event of a request that
\* is at the expected version.
LEMMA StreamStep ==
    ASSUME IInv, [Next]_vars
    PROVE  \/ stream' = stream
           \/ \E r \in Requests : /\ req[r].pending # <<>>
                                  /\ AtExpectedVersion(r)
                                  /\ stream' = Append(stream, req[r].pending[1])
<1>1. CASE UNCHANGED vars
  BY <1>1 DEF vars, stores
<1>2. ASSUME NEW r \in Requests, Transaction(r)
      PROVE  \/ stream' = stream
             \/ /\ req[r].pending # <<>> /\ AtExpectedVersion(r)
                /\ stream' = Append(stream, req[r].pending[1])
  BY <1>2 DEF Transaction, TxOpen, TxCommit, Saved, TxInsertConflict,
              TxProjectionConflict, TxAborted, stores
<1>3. ASSUME NEW r \in Requests, PlainSave(r)
      PROVE  \/ stream' = stream
             \/ /\ req[r].pending # <<>> /\ AtExpectedVersion(r)
                /\ stream' = Append(stream, req[r].pending[1])
  BY <1>3 DEF PlainSave, CheckVersion, InsertEvent, LogActivity, SyncProjection,
              stores, IInv, RequestOK, PathOK
<1>4. ASSUME NEW r \in Requests,
             \/ \E c \in Commands : CreateTask(r, c) \/ LoadStream(r, c)
             \/ LoadProjection(r) \/ RemoteCallFails(r) \/ Decide(r)
      PROVE  stream' = stream
  BY <1>4 DEF CreateTask, LoadStream, LoadProjection, RemoteCallFails, Decide, stores
<1>. QED  BY <1>1, <1>2, <1>3, <1>4 DEF Next

\* The abstract specification's copies of the operators on task values.
LEMMA AbstractOperators ==
    /\ Abstract!Shell = Shell
    /\ \A c, r : Abstract!EventOf(c, r) = EventOf(c, r)
    /\ \A t, e : Abstract!Apply(t, e) = Apply(t, e)
    /\ \A t, c, r : Abstract!Refused(t, c, r) <=> Refused(t, c, r)
    /\ \A t, c : Abstract!Ineffective(t, c) <=> Ineffective(t, c)
BY Zenon
   DEF Abstract!Shell, Shell, Abstract!EventOf, EventOf, Abstract!EventType, EventType,
       Abstract!Apply, Apply, Abstract!Refused, Refused,
       Abstract!CanTransition, CanTransition, Abstract!Ineffective, Ineffective

\* A task born event-sourced behaves, through the replay of its stream, as
\* one atomic value: every stored change was legal on the state it changed.
THEOREM Refinement ==
    ASSUME ~ StartLegacy
    PROVE  Spec => ImplementsAbstractTask
<1>1. Init => Abstract!Init
  BY EmptyReplay, AbstractOperators DEF Init, Abstract!Init
<1>2. IInv /\ [Next]_vars => [Abstract!Next]_(Replay(stream))
  <2>1. SUFFICES ASSUME IInv, [Next]_vars, Replay(stream') # Replay(stream)
                 PROVE  Abstract!Next
    OBVIOUS
  <2>2. PICK r \in Requests : /\ req[r].pending # <<>> /\ AtExpectedVersion(r)
                              /\ stream' = Append(stream, req[r].pending[1])
    BY <2>1, StreamStep
  <2>. DEFINE c == req[r].cmd
  <2>3. /\ c \in Commands /\ ~ EndsDeleted(stream)
        /\ Replay(stream') = Apply(Replay(stream), EventOf(c, r))
        /\ stream # <<>> => c.op # "create" /\ Legal(Replay(stream), c, r)
        /\ stream = <<>> => c.op = "create"
    BY <2>1, <2>2, AppendedEvent
  <2>. HIDE DEF c
  <2>4. CASE stream = <<>>
    <3>1. Replay(stream) = Shell
      BY <2>4, EmptyReplay
    <3>. QED
      BY <2>3, <2>4, <3>1, AbstractOperators DEF Abstract!Next, Abstract!Create
  <2>5. CASE stream # <<>>
    <3>1. Replay(stream).workspace = "ws" /\ ~ Replay(stream).deleted
      BY <2>1, <2>3, <2>5 DEF IInv, ReplayOK
    <3>. QED
      BY <2>1, <2>3, <2>5, <3>1, AbstractOperators
         DEF Abstract!Next, Abstract!Change, Abstract!Exists, Legal
  <2>. QED  BY <2>4, <2>5
<1>. QED
  BY <1>1, <1>2, Invariance, PTL DEF Spec, ImplementsAbstractTask, Abstract!Spec
-----------------------------------------------------------------------------
(***************************************************************************)
(* Attachments.  A file is named after the request that uploaded it, so    *)
(* there is one attach per file, but any number of detaches.               *)
(***************************************************************************)
Stored == {"log", "project", "done"}
Deciding == {"check", "insert"} \cup Stored

Attaches(q) == q.pc # "idle" /\ q.cmd.op = "attach"
Detaches(q, f) == q.pc # "idle" /\ q.cmd = [op |-> "detach", arg |-> f]

Attached(q) == Attaches(q) /\ q.pc \in Stored
Uploaded(q) == Attaches(q) /\ q.pc \in Deciding
Detached(q, f) == Detaches(q, f) /\ q.pc \in Stored
Detaching(q, f) == Detaches(q, f) /\ q.pc \in Deciding
Deleted(q, f) == Detaches(q, f) /\ q.pc \in Deciding \cup {"failed"}

\* The attachments a stream shows, the projection lists or a request knows of are
\* stored, but for the one it adds itself.
StreamFiles == \A f \in Replay(stream).files : Attached(req[f])
DocFiles == doc # None => \A f \in doc.files : Attached(req[f])
TaskFiles ==
    \A r \in Requests : \A f \in req[r].task.files :
        Attached(req[f]) \/ (f = r /\ Attaches(req[r]))

\* Only a stored attachment is removed, and once its removal is stored it is
\* not in the task again.
DetachLegal ==
    \A r, f \in Requests : Detaching(req[r], f) => Attached(req[f])
DetachFinal ==
    \A r, f \in Requests : Detached(req[r], f) => f \notin Replay(stream).files

\* A blob that was uploaded is there, or somebody deleted it.
BlobKept ==
    \A f \in Requests : Uploaded(req[f]) =>
        f \in blobs \/ \E r \in Requests : Deleted(req[r], f)

FilesOK == StreamFiles /\ DocFiles /\ TaskFiles /\ DetachLegal /\ DetachFinal /\ BlobKept

LEMMA FilesExplained == TypeOK /\ FilesOK => DanglingFileExplained
<1>. SUFFICES ASSUME TypeOK, FilesOK, NEW f \in Replay(stream).files, f \notin blobs
              PROVE  \E r \in Requests : /\ req[r].cmd = [op |-> "detach", arg |-> f]
                                         /\ req[r].pc # "done"
  BY DEF DanglingFileExplained
<1>1. f \in Requests
  BY ReplayType DEF TypeOK, TaskState, Files
<1>2. Attached(req[f])
  BY DEF FilesOK, StreamFiles
<1>3. Uploaded(req[f])
  BY <1>2 DEF Attached, Uploaded, Deciding
<1>4. PICK r \in Requests : Deleted(req[r], f)
  BY <1>1, <1>3 DEF FilesOK, BlobKept
<1>5. ~ Detached(req[r], f)
  BY <1>1 DEF FilesOK, DetachFinal
<1>. QED  BY <1>4, <1>5 DEF Deleted, Detached, Detaches, Stored

\* What a step of one request must do for the attachments to stay explained.
LEMMA FilesMove ==
    ASSUME FilesOK, TypeOK, NEW r \in Requests, NEW q \in Request,
           req' = [req EXCEPT ![r] = q],
           Replay(stream').files \subseteq Files,
           Attached(req[r]) => Attached(q),
           \A f \in Replay(stream').files :
               \/ f \in Replay(stream).files
               \/ f = r /\ Attached(q) /\ ~ Attached(req[r]),
           \A f \in Requests : Detached(q, f) => f \notin Replay(stream').files,
           \/ doc' = doc
           \/ doc' = None
           \/ \A f \in doc'.files : Attached(req'[f]),
           \A f \in q.task.files : Attached(req'[f]) \/ (f = r /\ Attaches(q)),
           \A f \in Requests : Detaching(q, f) => Attached(req'[f]),
           Attaches(req[r]) => Attaches(q),
           Uploaded(q) => Uploaded(req[r]) \/ r \in blobs',
           \A f \in blobs \ blobs' : Deleted(q, f),
           \A f \in Requests : Deleted(req[r], f) => Deleted(q, f)
    PROVE  FilesOK'
<1>1. \A p \in Requests : req'[p] = IF p = r THEN q ELSE req[p]
  BY DEF TypeOK
<1>2. \A p \in Requests : Attached(req[p]) => Attached(req'[p])
  BY <1>1
<1>3. Replay(stream).files \subseteq Files /\ blobs \subseteq Files
  BY ReplayType DEF TypeOK, TaskState
<1>4. StreamFiles'
  BY <1>1, <1>2, <1>3 DEF StreamFiles, FilesOK, Files
<1>5. DocFiles'
  <2>1. ASSUME doc' # None, doc' = doc, NEW f \in doc'.files PROVE Attached(req'[f])
    <3>1. doc \in TaskState
      BY <2>1 DEF TypeOK
    <3>2. f \in Requests
      BY <2>1, <3>1 DEF TaskState, Files
    <3>. QED  BY <2>1, <3>2, <1>2 DEF FilesOK, DocFiles
  <2>. QED  BY <2>1 DEF DocFiles
<1>6. TaskFiles'
  <2>1. ASSUME NEW p \in Requests, NEW f \in req'[p].task.files, p # r
        PROVE  Attached(req'[f]) \/ (f = p /\ Attaches(req'[p]))
    <3>1. req'[p] = req[p] /\ f \in Requests
      BY <2>1, <1>1 DEF TypeOK, Request, TaskState, Files
    <3>. QED  BY <2>1, <3>1, <1>2 DEF FilesOK, TaskFiles
  <2>. QED  BY <2>1, <1>1 DEF TaskFiles
<1>7. DetachLegal'
  BY <1>1, <1>2 DEF FilesOK, DetachLegal
<1>8. DetachFinal'
  <2>1. ASSUME NEW p \in Requests, NEW f \in Requests, p # r, Detached(req[p], f),
               f \in Replay(stream').files
        PROVE  FALSE
    <3>1. f \notin Replay(stream).files /\ Attached(req[f])
      BY <2>1 DEF FilesOK, DetachFinal, DetachLegal, Detached, Detaching, Deciding
    <3>. QED  BY <2>1, <3>1
  <2>. QED  BY <2>1, <1>1 DEF DetachFinal
<1>9. BlobKept'
  <2>1. ASSUME NEW f \in Requests, Uploaded(req'[f])
        PROVE  f \in blobs' \/ \E p \in Requests : Deleted(req'[p], f)
    <3>1. CASE f \in blobs \ blobs'
      BY <3>1, <1>1
    <3>2. CASE f \notin blobs /\ Uploaded(req[f])
      <4>1. PICK p \in Requests : Deleted(req[p], f)
        BY <3>2 DEF FilesOK, BlobKept
      <4>2. Deleted(req'[p], f)
        BY <4>1, <1>1
      <4>. QED  BY <4>2
    <3>3. CASE f \notin blobs /\ ~ Uploaded(req[f])
      BY <3>3, <2>1, <1>1
    <3>. QED  BY <3>1, <3>2, <3>3
  <2>. QED  BY <2>1 DEF BlobKept
<1>. QED  BY <1>4, <1>5, <1>6, <1>7, <1>8, <1>9 DEF FilesOK

\* The files of a task after an event.
LEMMA FilesApply ==
    ASSUME NEW t, NEW e
    PROVE  Apply(t, e).files = IF e.type = "fileAdded" THEN t.files \cup {e.value}
                               ELSE IF e.type = "fileRemoved" THEN t.files \ {e.value}
                               ELSE t.files
BY Zenon DEF Apply

\* Which commands move files.
LEMMA EventFiles ==
    ASSUME NEW c \in Command, NEW r \in Requests
    PROVE  LET e == EventOf(c, r) IN
           /\ e.type = "fileAdded" <=> c.op = "attach"
           /\ e.type = "fileRemoved" <=> c.op = "detach"
           /\ c.op = "attach" => e.value = r
           /\ c.op = "detach" => e.value = c.arg
BY DEF Command, EventOf, EventType

\* A step that stores and projects nothing, makes no decision and moves no blob.
LEMMA FilesQuiet ==
    ASSUME FilesOK, TypeOK, NEW r \in Requests, NEW q \in Request,
           req' = [req EXCEPT ![r] = q],
           UNCHANGED <<stream, doc, blobs>>,
           req[r].pc # "idle",
           q.cmd = req[r].cmd, q.pc # "idle",
           q.pc \in Stored => req[r].pc \in Stored,
           q.pc \in Deciding => req[r].pc \in Deciding,
           req[r].pc \in Stored => q.pc \in Stored,
           req[r].pc \in Deciding \cup {"failed"} => q.pc \in Deciding \cup {"failed"},
           q.task = req[r].task
    PROVE  FilesOK'
<1>1. Attached(req[r]) <=> Attached(q)
  BY DEF Attached, Attaches
<1>2. \A f \in Requests : Attached(req'[f]) <=> Attached(req[f])
  BY <1>1 DEF TypeOK
<1>3. Attaches(req[r]) <=> Attaches(q)
  BY DEF Attaches
<1>4. \A f \in Requests : /\ Detached(q, f) => Detached(req[r], f)
                          /\ Detaching(q, f) => Detaching(req[r], f)
                          /\ Deleted(req[r], f) => Deleted(q, f)
  BY DEF Detached, Detaching, Deleted, Detaches
<1>5. Uploaded(q) => Uploaded(req[r])
  BY <1>3 DEF Uploaded
<1>6. Replay(stream').files = Replay(stream).files /\ Replay(stream).files \subseteq Files
  BY ReplayType DEF TypeOK, TaskState
<1>7. \A f \in q.task.files : f \in Requests
  BY DEF Request, TaskState, Files
<1>8. \A f \in q.task.files : Attached(req'[f]) \/ (f = r /\ Attaches(q))
  BY <1>2, <1>3, <1>7 DEF FilesOK, TaskFiles
<1>9. \A f \in Requests : Detached(q, f) => f \notin Replay(stream').files
  BY <1>4, <1>6 DEF FilesOK, DetachFinal
<1>10. \A f \in Requests : Detaching(q, f) => Attached(req'[f])
  BY <1>2, <1>4 DEF FilesOK, DetachLegal
<1>. QED  BY <1>1, <1>3, <1>4, <1>5, <1>6, <1>8, <1>9, <1>10, FilesMove

LEMMA FilesInit == Init => FilesOK
<1>. SUFFICES ASSUME Init PROVE FilesOK
  OBVIOUS
<1>1. Replay(stream).files = {}
  <2>1. Replay(stream) = Shell
    BY EmptyReplay DEF Init
  <2>2. Shell.files = {}
    BY DEF Shell
  <2>. QED  BY <2>1, <2>2
<1>2. \A r \in Requests : req[r].pc = "idle" /\ req[r].task.files = {}
  BY DEF Init, IdleRequest, Shell
<1>3. DocFiles
  BY DEF Init, DocFiles, LegacyTask, Shell
<1>. QED
  BY <1>1, <1>2, <1>3
     DEF FilesOK, StreamFiles, TaskFiles, DetachLegal, DetachFinal, BlobKept,
         Uploaded, Attaches, Detaching, Detached, Detaches

\* A command arrives: nothing is decided yet, and the request knows no files
\* (create), those of the stream, or none yet.
LEMMA FilesArrive ==
    ASSUME FilesOK, TypeOK, NEW r \in Requests, NEW q \in Request,
           req[r].pc = "idle", q.pc \notin Deciding,
           req' = [req EXCEPT ![r] = q],
           UNCHANGED <<stream, doc, blobs>>,
           q.task.files \subseteq Replay(stream).files \cup req[r].task.files
    PROVE  FilesOK'
<1>1. /\ ~ Attached(q) /\ ~ Uploaded(q) /\ ~ Attaches(req[r]) /\ ~ Attached(req[r])
      /\ \A f : ~ Detached(q, f) /\ ~ Detaching(q, f) /\ ~ Deleted(req[r], f)
  BY DEF Attached, Uploaded, Attaches, Detached, Detaching, Detaches, Deleted, Deciding,
         Stored
<1>2. \A f \in Requests : Attached(req'[f]) <=> Attached(req[f])
  BY <1>1 DEF TypeOK
<1>3. Replay(stream').files = Replay(stream).files /\ Replay(stream).files \subseteq Files
  BY ReplayType DEF TypeOK, TaskState
<1>4. \A f \in q.task.files : f \in Requests /\ Attached(req[f])
  BY <1>1, <1>3 DEF FilesOK, StreamFiles, TaskFiles, TypeOK, Request, TaskState, Files
<1>. QED  BY <1>1, <1>2, <1>3, <1>4, FilesMove

LEMMA FilesCreateTask ==
    ASSUME IInv, FilesOK, IInv', NEW r \in Requests, NEW c \in Commands, CreateTask(r, c)
    PROVE  FilesOK'
<1>. DEFINE q == req'[r]
<1>1. TypeOK /\ q \in Request /\ req[r].pc = "idle"
  BY DEF IInv, TypeOK, CreateTask
<1>2. req' = [req EXCEPT ![r] = q] /\ q.pc = "tx" /\ q.task = Apply(Shell, EventOf(c, r))
  BY <1>1 DEF CreateTask, TypeOK, Request
<1>3. q.task.files = {}
  <2>1. c.op = "create" /\ c \in Command
    BY ParametersAssumption DEF CreateTask
  <2>2. EventOf(c, r).type \notin {"fileAdded", "fileRemoved"}
    BY <2>1, EventFiles
  <2>3. Apply(Shell, EventOf(c, r)).files = Shell.files
    BY <2>2, FilesApply
  <2>4. Shell.files = {}
    BY DEF Shell
  <2>. QED  BY <1>2, <2>3, <2>4
<1>4. UNCHANGED <<stream, doc, blobs>>
  BY DEF CreateTask, stores
<1>. HIDE DEF q
<1>. QED  BY <1>1, <1>2, <1>3, <1>4, FilesArrive DEF Deciding, Stored

LEMMA FilesLoadStream ==
    ASSUME IInv, FilesOK, IInv', NEW r \in Requests, NEW c \in Commands, LoadStream(r, c)
    PROVE  FilesOK'
<1>. DEFINE q == req'[r]
<1>1. TypeOK /\ q \in Request /\ req[r].pc = "idle" /\ req[r] \in Request
  BY DEF IInv, TypeOK, LoadStream
<1>2. /\ req' = [req EXCEPT ![r] = q] /\ q.pc \in {"fallback", "failed", "loaded"}
      /\ q.task \in {req[r].task, Replay(stream)}
  <2>1. CASE stream = <<>>
    BY <1>1, <2>1 DEF LoadStream, TypeOK, Request
  <2>2. CASE stream # <<>> /\ EndsDeleted(stream)
    BY <1>1, <2>2 DEF LoadStream, TypeOK, Request
  <2>3. CASE stream # <<>> /\ ~ EndsDeleted(stream)
    BY <1>1, <2>3 DEF LoadStream, TypeOK, Request
  <2>. QED  BY <2>1, <2>2, <2>3
<1>3. q.task.files \subseteq Replay(stream).files \cup req[r].task.files
  BY <1>2
<1>4. UNCHANGED <<stream, doc, blobs>>
  BY DEF LoadStream, stores
<1>. HIDE DEF q
<1>. QED  BY <1>1, <1>2, <1>3, <1>4, FilesArrive DEF Deciding, Stored

LEMMA FilesLoadProjection ==
    ASSUME IInv, FilesOK, IInv', NEW r \in Requests, LoadProjection(r)
    PROVE  FilesOK'
<1>. DEFINE q == req'[r]
<1>1. TypeOK /\ q \in Request /\ req[r].pc = "fallback" /\ req[r] \in Request
  BY DEF IInv, TypeOK, LoadProjection
<1>2. /\ req' = [req EXCEPT ![r] = q] /\ q.pc \in {"failed", "loaded"} /\ q.cmd = req[r].cmd
      /\ q.task = req[r].task \/ (doc # None /\ q.task = doc)
  <2>1. CASE doc = None
    BY <1>1, <2>1 DEF LoadProjection, TypeOK, Request
  <2>2. CASE doc # None
    BY <1>1, <2>2 DEF LoadProjection, TypeOK, Request
  <2>. QED  BY <2>1, <2>2
<1>3. UNCHANGED <<stream, doc, blobs>>
  BY DEF LoadProjection, stores
<1>. HIDE DEF q
<1>4. /\ ~ Attached(q) /\ ~ Uploaded(q) /\ ~ Attached(req[r])
      /\ Attaches(req[r]) <=> Attaches(q)
      /\ \A f : ~ Detached(q, f) /\ ~ Detaching(q, f) /\ ~ Deleted(req[r], f)
  BY <1>1, <1>2 DEF Attached, Uploaded, Attaches, Detached, Detaching, Detaches, Deleted,
     Deciding, Stored
<1>5. \A f \in Requests : Attached(req'[f]) <=> Attached(req[f])
  BY <1>1, <1>2, <1>4 DEF TypeOK
<1>6. Replay(stream').files = Replay(stream).files /\ Replay(stream).files \subseteq Files
  BY <1>1, <1>3, ReplayType DEF TypeOK, TaskState
<1>7. \A f \in q.task.files : f \in Requests
  BY <1>1 DEF Request, TaskState, Files
<1>8. \A f \in q.task.files : Attached(req'[f]) \/ (f = r /\ Attaches(q))
  BY <1>2, <1>4, <1>5, <1>7 DEF FilesOK, TaskFiles, DocFiles
<1>. QED  BY <1>1, <1>2, <1>3, <1>4, <1>5, <1>6, <1>8, FilesMove

\* The blob container before a decision.
LEMMA FilesRemoteCallFails ==
    ASSUME IInv, FilesOK, IInv', NEW r \in Requests, RemoteCallFails(r)
    PROVE  FilesOK'
<1>. DEFINE q == req'[r]
<1>1. TypeOK /\ q \in Request /\ req[r].pc = "loaded" /\ req[r] \in Request
      /\ req[r].cmd \in Command
  BY ParametersAssumption DEF IInv, TypeOK, RemoteCallFails, RequestOK, PathOK
<1>2. /\ req' = [req EXCEPT ![r] = q] /\ q.pc = "failed" /\ q.cmd = req[r].cmd
      /\ q.task = req[r].task
  BY <1>1 DEF RemoteCallFails, Goto, TypeOK, Request
<1>3. UNCHANGED <<stream, doc>> /\ blobs' \in {blobs, BlobAfter(r, req[r].cmd)}
  BY DEF RemoteCallFails, stores
<1>. HIDE DEF q
<1>4. /\ ~ Attached(q) /\ ~ Uploaded(q) /\ ~ Attached(req[r])
      /\ Attaches(req[r]) <=> Attaches(q)
      /\ \A f : ~ Detached(q, f) /\ ~ Detaching(q, f) /\ ~ Deleted(req[r], f)
  BY <1>1, <1>2 DEF Attached, Uploaded, Attaches, Detached, Detaching, Detaches, Deleted,
     Deciding, Stored
<1>5. \A f \in blobs \ blobs' : Deleted(q, f)
  BY <1>1, <1>2, <1>3 DEF BlobAfter, Deleted, Detaches, Command
<1>6. \A f \in Requests : Attached(req'[f]) <=> Attached(req[f])
  BY <1>1, <1>2, <1>4 DEF TypeOK
<1>7. Replay(stream').files = Replay(stream).files /\ Replay(stream).files \subseteq Files
  BY <1>1, <1>3, ReplayType DEF TypeOK, TaskState
<1>8. \A f \in q.task.files : f \in Requests
  BY <1>1 DEF Request, TaskState, Files
<1>9. \A f \in q.task.files : Attached(req'[f]) \/ (f = r /\ Attaches(q))
  BY <1>2, <1>4, <1>6, <1>8 DEF FilesOK, TaskFiles
<1>. QED  BY <1>1, <1>2, <1>3, <1>4, <1>5, <1>6, <1>7, <1>9, FilesMove

LEMMA FilesDecide ==
    ASSUME IInv, FilesOK, IInv', NEW r \in Requests, Decide(r)
    PROVE  FilesOK'
<1>. DEFINE q == req'[r]
            c == req[r].cmd
            t == req[r].task
<1>1. TypeOK /\ q \in Request /\ req[r].pc = "loaded" /\ req[r] \in Request
      /\ c \in Command
  BY ParametersAssumption DEF IInv, TypeOK, Decide, RequestOK, PathOK
<1>2. /\ req' = [req EXCEPT ![r] = q] /\ q.cmd = c
      /\ \/ q.pc = "failed" /\ q.task = t
         \/ q.pc \in {"tx", "done"} /\ q.task = t /\ c.op \notin {"attach", "detach"}
         \/ q.pc = SavePath(c) /\ q.task = Apply(t, EventOf(c, r)) /\ ~ Refused(t, c, r)
  <2>1. CASE Refused(t, c, r)
    BY <1>1, <2>1 DEF Decide, TypeOK, Request
  <2>2. CASE ~ Refused(t, c, r) /\ Ineffective(t, c)
    BY <1>1, <2>2 DEF Decide, TypeOK, Request, Ineffective
  <2>3. CASE ~ Refused(t, c, r) /\ ~ Ineffective(t, c)
    BY <1>1, <2>3 DEF Decide, TypeOK, Request
  <2>. QED  BY <2>1, <2>2, <2>3
<1>3. UNCHANGED <<stream, doc>> /\ blobs' = BlobAfter(r, c)
  BY DEF Decide, stores
<1>. HIDE DEF q
<1>4. /\ ~ Attached(q) /\ ~ Attached(req[r])
      /\ Attaches(req[r]) <=> Attaches(q)
      /\ \A f : ~ Detached(q, f) /\ ~ Deleted(req[r], f)
  BY <1>1, <1>2 DEF Attached, Attaches, Detached, Detaches, Deleted, Deciding, Stored, SavePath
<1>5. \A f \in blobs \ blobs' : Deleted(q, f)
  <2>1. ASSUME c.op = "detach" PROVE q.pc \in {"failed", "check"}
    BY <1>2, <2>1 DEF SavePath, Transactional
  <2>. QED  BY <1>1, <1>2, <1>3, <2>1 DEF BlobAfter, Deleted, Detaches, Command, Deciding
<1>6. Uploaded(q) => r \in blobs'
  BY <1>2, <1>3 DEF Uploaded, Attaches, BlobAfter
<1>7. \A f \in Requests : Attached(req'[f]) <=> Attached(req[f])
  BY <1>1, <1>2, <1>4 DEF TypeOK
<1>8. Replay(stream').files = Replay(stream).files /\ Replay(stream).files \subseteq Files
  BY <1>1, <1>3, ReplayType DEF TypeOK, TaskState
<1>9. \A f \in t.files : f \in Requests /\ (Attached(req[f]) \/ (f = r /\ Attaches(q)))
  BY <1>1, <1>4 DEF Request, TaskState, Files, FilesOK, TaskFiles
<1>10. q.task.files \subseteq t.files \cup (IF c.op = "attach" THEN {r} ELSE {})
  <2>. DEFINE e == EventOf(c, r)
  <2>1. e.type = "fileAdded" => c.op = "attach" /\ e.value = r
    BY <1>1, EventFiles
  <2>2. Apply(t, e).files \subseteq t.files \cup (IF c.op = "attach" THEN {r} ELSE {})
    <3>. HIDE DEF e
    <3>. QED  BY <2>1, FilesApply
  <2>. QED  BY <1>2, <2>2
<1>11. \A f \in q.task.files : Attached(req'[f]) \/ (f = r /\ Attaches(q))
  <2>1. c.op = "attach" => Attaches(q)
    BY <1>2 DEF Attaches, SavePath
  <2>. QED  BY <1>7, <1>9, <1>10, <2>1
<1>12. \A f \in Requests : Detaching(q, f) => Attached(req'[f])
  <2>1. ASSUME NEW f \in Requests, Detaching(q, f) PROVE Attached(req[f])
    <3>1. c = [op |-> "detach", arg |-> f]
      BY <1>2, <2>1 DEF Detaching, Detaches
    <3>2. ~ Refused(t, c, r)
      BY <1>2, <2>1, <3>1 DEF Detaching, Deciding, Stored
    <3>3. f \in t.files
      BY <3>1, <3>2 DEF Refused
    <3>. QED  BY <1>4, <1>9, <3>1, <3>3, <1>2 DEF Attaches
  <2>. QED  BY <1>7, <2>1
<1>. QED
  BY <1>1, <1>2, <1>3, <1>4, <1>5, <1>6, <1>7, <1>8, <1>11, <1>12, FilesMove

LEMMA FlushedShape ==
    ASSUME NEW q \in Request
    PROVE  /\ Flushed(q) \in Request /\ Flushed(q).pc = q.pc
           /\ Flushed(q).cmd = q.cmd /\ Flushed(q).task = q.task
<1>1. CASE q.pending = <<>>
  BY <1>1 DEF Flushed
<1>2. CASE q.pending # <<>>
  <2>1. <<>> \in Uncommitted /\ q.version + 1 \in Nat
    BY DEF Uncommitted, Request
  <2>2. Flushed(q) = [q EXCEPT !.pending = <<>>, !.version = q.version + 1]
    BY <1>2, Zenon DEF Flushed
  <2>. QED  BY <2>1, <2>2 DEF Request
<1>. QED  BY <1>1, <1>2

\* The steps of a transaction that do not commit, and the check of the version.
LEMMA FilesWait ==
    ASSUME IInv, FilesOK, IInv', NEW r \in Requests,
           \/ TxOpen(r) \/ TxInsertConflict(r) \/ TxProjectionConflict(r) \/ TxAborted(r)
           \/ CheckVersion(r) \/ LogActivity(r)
    PROVE  FilesOK'
<1>. DEFINE q == req'[r]
<1>1. TypeOK /\ q \in Request /\ req[r] \in Request
  BY DEF IInv, TypeOK
<1>2. /\ req' = [req EXCEPT ![r] = q] /\ q.cmd = req[r].cmd /\ q.task = req[r].task
      /\ <<req[r].pc, q.pc>> \in
           {<<"tx", "failed">>, <<"tx", "open">>, <<"open", "tx">>, <<"check", "insert">>,
            <<"check", "failed">>, <<"log", "project">>}
  <2>1. CASE TxOpen(r)
    <3>1. CASE req[r].pending # <<>> /\ ~ AtExpectedVersion(r)
      BY <1>1, <2>1, <3>1 DEF TxOpen, TypeOK, Request
    <3>2. CASE ~ (req[r].pending # <<>> /\ ~ AtExpectedVersion(r))
      BY <1>1, <2>1, <3>2 DEF TxOpen, TypeOK, Request
    <3>. QED  BY <3>1, <3>2
  <2>2. CASE TxInsertConflict(r)
    BY <1>1, <2>2 DEF TxInsertConflict, Goto, TypeOK, Request
  <2>3. /\ Flushed(req[r]).cmd = req[r].cmd /\ Flushed(req[r]).task = req[r].task
        /\ Flushed(req[r]) \in Request
    BY <1>1, FlushedShape
  <2>4. CASE TxProjectionConflict(r)
    BY <1>1, <2>3, <2>4 DEF TxProjectionConflict, TypeOK, Request
  <2>5. CASE TxAborted(r)
    BY <1>1, <2>3, <2>5 DEF TxAborted, Goto, TypeOK, Request
  <2>6. CASE CheckVersion(r)
    BY <1>1, <2>6 DEF CheckVersion, Goto, TypeOK, Request
  <2>7. CASE LogActivity(r)
    BY <1>1, <2>7 DEF LogActivity, Goto, TypeOK, Request
  <2>. QED  BY <2>1, <2>2, <2>4, <2>5, <2>6, <2>7
<1>3. UNCHANGED <<stream, doc, blobs>>
  BY DEF TxOpen, TxInsertConflict, TxProjectionConflict, TxAborted, CheckVersion, LogActivity,
     stores
<1>. HIDE DEF q
<1>. QED  BY <1>1, <1>2, <1>3, FilesQuiet DEF Deciding, Stored

\* A commit: the commands of a transaction move no files.
LEMMA FilesTxCommit ==
    ASSUME IInv, FilesOK, IInv', NEW r \in Requests, TxCommit(r)
    PROVE  FilesOK'
<1>. DEFINE q == req'[r]
            c == req[r].cmd
<1>1. TypeOK /\ q \in Request /\ req[r] \in Request /\ req[r].pc = "open"
      /\ c \in Command /\ c.op \notin {"attach", "detach"}
  BY ParametersAssumption
     DEF IInv, TypeOK, TxCommit, RequestOK, PathOK, Transactional
<1>2. req' = [req EXCEPT ![r] = q] /\ q.pc = "done" /\ q.cmd = c /\ q.task = req[r].task
  <2>1. /\ Flushed(req[r]).cmd = req[r].cmd /\ Flushed(req[r]).task = req[r].task
        /\ Flushed(req[r]) \in Request
    BY <1>1, FlushedShape
  <2>. QED  BY <1>1, <2>1 DEF TxCommit, TypeOK, Request
<1>. HIDE DEF q
<1>3. /\ ~ Attaches(q) /\ ~ Attached(q) /\ ~ Uploaded(q) /\ ~ Attached(req[r])
      /\ ~ Attaches(req[r])
      /\ \A f : ~ Detached(q, f) /\ ~ Detaching(q, f) /\ ~ Deleted(req[r], f)
  BY <1>1, <1>2 DEF Attached, Uploaded, Attaches, Detached, Detaching, Detaches, Deleted
<1>4. \A f \in Requests : Attached(req'[f]) <=> Attached(req[f])
  BY <1>1, <1>2, <1>3 DEF TypeOK
<1>5. \A f \in req[r].task.files : f \in Requests /\ Attached(req'[f])
  BY <1>1, <1>3, <1>4 DEF Request, TaskState, Files, FilesOK, TaskFiles
<1>6. Replay(stream').files = Replay(stream).files
  <2>1. CASE req[r].pending = <<>>
    BY <2>1 DEF TxCommit, Saved
  <2>2. CASE req[r].pending # <<>>
    <3>. DEFINE e == EventOf(c, r)
    <3>1. AtExpectedVersion(r) /\ stream' = Append(stream, req[r].pending[1])
      BY <2>2 DEF TxCommit, Saved
    <3>2. Replay(stream') = Apply(Replay(stream), e)
      BY <2>2, <3>1, AppendedEvent
    <3>3. e.type \notin {"fileAdded", "fileRemoved"}
      BY <1>1, EventFiles
    <3>. HIDE DEF e
    <3>. QED  BY <3>2, <3>3, FilesApply
  <2>. QED  BY <2>1, <2>2
<1>7. Replay(stream).files \subseteq Files
  BY <1>1, ReplayType DEF TypeOK, TaskState
<1>8. doc' = doc \/ doc' = None \/ \A f \in doc'.files : Attached(req'[f])
  BY <1>5 DEF TxCommit, Saved, Projection
<1>9. blobs' = blobs
  BY DEF TxCommit
<1>. QED  BY <1>1, <1>2, <1>3, <1>5, <1>6, <1>7, <1>8, <1>9, FilesMove

\* The insert of an event outside a transaction: where files enter and leave the task.
LEMMA FilesInsertEvent ==
    ASSUME IInv, FilesOK, IInv', NEW r \in Requests, InsertEvent(r)
    PROVE  FilesOK'
<1>. DEFINE q == req'[r]
            c == req[r].cmd
            e == EventOf(c, r)
<1>1. TypeOK /\ q \in Request /\ req[r] \in Request /\ req[r].pc = "insert"
      /\ c \in Command /\ req[r].pending # <<>>
  BY ParametersAssumption DEF IInv, TypeOK, InsertEvent, RequestOK, PathOK
<1>2. UNCHANGED <<doc, blobs>>
  BY DEF InsertEvent
<1>3. CASE ~ AtExpectedVersion(r)
  <2>1. /\ req' = [req EXCEPT ![r] = q] /\ q.pc = "failed" /\ q.cmd = c
        /\ q.task = req[r].task /\ stream' = stream
    BY <1>1, <1>3 DEF InsertEvent, Goto, TypeOK, Request
  <2>. HIDE DEF q
  <2>. QED  BY <1>1, <1>2, <2>1, FilesQuiet DEF Deciding, Stored
<1>4. CASE AtExpectedVersion(r)
  <2>1. /\ req' = [req EXCEPT ![r] = q] /\ q.pc = "log" /\ q.cmd = c
        /\ q.task = req[r].task
    <3>1. /\ Flushed(req[r]).cmd = req[r].cmd /\ Flushed(req[r]).task = req[r].task
          /\ Flushed(req[r]) \in Request
      BY <1>1, FlushedShape
    <3>. QED  BY <1>1, <1>4, <3>1 DEF InsertEvent, TypeOK, Request
  <2>2. Replay(stream') = Apply(Replay(stream), e)
    BY <1>1, <1>4, AppendedEvent DEF InsertEvent
  <2>3. /\ Replay(stream).files \subseteq Files
        /\ Replay(stream').files =
             IF c.op = "attach" THEN Replay(stream).files \cup {r}
             ELSE IF c.op = "detach" THEN Replay(stream).files \ {c.arg}
             ELSE Replay(stream).files
    <3>1. /\ e.type = "fileAdded" <=> c.op = "attach"
          /\ e.type = "fileRemoved" <=> c.op = "detach"
          /\ c.op = "attach" => e.value = r
          /\ c.op = "detach" => e.value = c.arg
      BY <1>1, EventFiles
    <3>2. Replay(stream).files \subseteq Files
      BY <1>1, ReplayType DEF TypeOK, TaskState
    <3>. HIDE DEF e
    <3>3. Replay(stream').files =
             IF e.type = "fileAdded" THEN Replay(stream).files \cup {e.value}
             ELSE IF e.type = "fileRemoved" THEN Replay(stream).files \ {e.value}
             ELSE Replay(stream).files
      BY <2>2, FilesApply
    <3>. QED  BY <3>1, <3>2, <3>3
  <2>. HIDE DEF q
  <2>4. /\ Attached(q) <=> c.op = "attach"
        /\ ~ Attached(req[r])
        /\ Attaches(q) <=> c.op = "attach"
        /\ Attaches(req[r]) <=> c.op = "attach"
        /\ Uploaded(q) <=> Uploaded(req[r])
        /\ \A f : Detached(q, f) <=> c = [op |-> "detach", arg |-> f]
        /\ \A f : Detaching(q, f) <=> Detaching(req[r], f)
        /\ \A f : Deleted(req[r], f) => Deleted(q, f)
    BY <1>1, <2>1 DEF Attached, Attaches, Uploaded, Detached, Detaching, Deleted, Detaches,
       Deciding, Stored
  <2>5. \A f \in Requests : Attached(req[f]) => Attached(req'[f])
    BY <1>1, <2>1, <2>4 DEF TypeOK
  <2>6. ASSUME NEW f \in Requests, Detached(q, f) PROVE f \notin Replay(stream').files
    <3>1. c = [op |-> "detach", arg |-> f]
      BY <2>4, <2>6
    <3>. HIDE DEF c
    <3>2. c.op = "detach" /\ c.arg = f
      BY <3>1
    <3>. QED  BY <2>3, <3>2
  <2>7. \A f \in Requests : Detaching(q, f) => Attached(req'[f])
    BY <2>4, <2>5 DEF FilesOK, DetachLegal
  <2>8. \A f \in q.task.files : f \in Requests
    BY <1>1 DEF Request, TaskState, Files
  <2>9. \A f \in q.task.files : Attached(req'[f]) \/ (f = r /\ Attaches(q))
    BY <2>1, <2>4, <2>5, <2>8 DEF FilesOK, TaskFiles
  <2>10. /\ Replay(stream').files \subseteq Files
         /\ \A f \in Replay(stream').files :
               f \in Replay(stream).files \/ (f = r /\ Attached(q) /\ ~ Attached(req[r]))
    BY <2>3, <2>4 DEF Files
  <2>. QED
    BY <1>1, <1>2, <2>1, <2>4, <2>6, <2>7, <2>9, <2>10, FilesMove
<1>. QED  BY <1>3, <1>4

LEMMA FilesSyncProjection ==
    ASSUME IInv, FilesOK, IInv', NEW r \in Requests, SyncProjection(r)
    PROVE  FilesOK'
<1>. DEFINE q == req'[r]
            c == req[r].cmd
<1>1. TypeOK /\ q \in Request /\ req[r] \in Request /\ req[r].pc = "project"
  BY DEF IInv, TypeOK, SyncProjection
<1>2. req' = [req EXCEPT ![r] = q] /\ q.pc = "done" /\ q.cmd = c /\ q.task = req[r].task
  BY <1>1 DEF SyncProjection, Goto, TypeOK, Request
<1>3. stream' = stream /\ blobs' = blobs /\ doc' = Projection(req[r].task)
  BY DEF SyncProjection
<1>. HIDE DEF q
<1>4. /\ Attached(q) <=> Attached(req[r])
      /\ Attaches(q) <=> Attached(q)
      /\ Attaches(req[r]) <=> Attached(q)
      /\ Uploaded(q) => Uploaded(req[r])
      /\ \A f : Detached(q, f) => Detached(req[r], f)
      /\ \A f : Detaching(q, f) => Detaching(req[r], f)
      /\ \A f : Deleted(req[r], f) => Deleted(q, f)
  BY <1>1, <1>2 DEF Attached, Attaches, Uploaded, Detached, Detaching, Deleted, Detaches,
     Deciding, Stored
<1>5. \A f \in Requests : Attached(req[f]) <=> Attached(req'[f])
  BY <1>1, <1>2, <1>4 DEF TypeOK
<1>6. \A f \in q.task.files : f \in Requests /\ Attached(req'[f])
  BY <1>1, <1>2, <1>4, <1>5 DEF Request, TaskState, Files, FilesOK, TaskFiles
<1>7. doc' = None \/ \A f \in doc'.files : Attached(req'[f])
  BY <1>2, <1>3, <1>6 DEF Projection
<1>8. \A f \in Requests : Detached(q, f) => f \notin Replay(stream').files
  BY <1>3, <1>4 DEF FilesOK, DetachFinal
<1>9. \A f \in Requests : Detaching(q, f) => Attached(req'[f])
  BY <1>4, <1>5 DEF FilesOK, DetachLegal
<1>10. Replay(stream').files = Replay(stream).files /\ Replay(stream).files \subseteq Files
  BY <1>1, <1>3, ReplayType DEF TypeOK, TaskState
<1>. QED
  BY <1>1, <1>2, <1>3, <1>4, <1>6, <1>7, <1>8, <1>9, <1>10, FilesMove

LEMMA FilesNext == IInv /\ IInv' /\ FilesOK /\ [Next]_vars => FilesOK'
<1>. SUFFICES ASSUME IInv, IInv', FilesOK, [Next]_vars PROVE FilesOK'
  OBVIOUS
<1>1. CASE UNCHANGED vars
  BY <1>1 DEF vars, stores, FilesOK, StreamFiles, DocFiles, TaskFiles, DetachLegal,
     DetachFinal, BlobKept
<1>2. CASE Next
  <2>1. PICK r \in Requests :
          \/ \E c \in Commands : CreateTask(r, c) \/ LoadStream(r, c)
          \/ LoadProjection(r) \/ RemoteCallFails(r) \/ Decide(r)
          \/ Transaction(r) \/ PlainSave(r)
    BY <1>2 DEF Next
  <2>. QED
    BY <2>1, FilesCreateTask, FilesLoadStream, FilesLoadProjection, FilesRemoteCallFails,
       FilesDecide, FilesWait, FilesTxCommit, FilesInsertEvent, FilesSyncProjection
       DEF Transaction, PlainSave
<1>. QED  BY <1>1, <1>2

\* An attachment a task names without a blob is the trace of a detach that
\* deleted the blob and then failed, or has yet to store its event
\* (attach-file and detach-file move the blob before they save).
THEOREM DanglingFiles == Spec => []DanglingFileExplained
<1>1. Init => FilesOK
  BY FilesInit
<1>2. Spec => []FilesOK
  BY <1>1, FilesNext, Invariance, PTL DEF Spec
<1>3. IInv /\ FilesOK => DanglingFileExplained
  BY FilesExplained DEF IInv
<1>. QED  BY <1>2, <1>3, Invariance, PTL
=============================================================================
