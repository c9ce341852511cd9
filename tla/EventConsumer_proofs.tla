-------------------------- MODULE EventConsumer_proofs --------------------------
(***************************************************************************)
(* Proofs about EventConsumer, for every set of pods and events, every     *)
(* partition, and any number of attempts and faults.                       *)
(***************************************************************************)
EXTENDS EventConsumer, FiniteSetTheorems, TLAPS

\* A command before its notification, or after its handler failed.
Early == {"off", "claim", "reclaim", "insert", "release"}

EarlyCmd(c) == c.pc \in Early /\ (c.pc # "off" => c.event \in Events)

\* A pod and its commands.
PodOK(q, c) ==
    /\ q.pc # "poll" => q.pos < Len(Log)
    /\ q.pc = "handle" => c[q.slot].pc # "off" /\ c[q.slot].event = Log[q.pos + 1]
    /\ q.pc # "handle" => \E k \in Slots : c[k].pc = "off"

\* A command that is past the insert works for an event that has its notification.
CmdsOK ==
    \A p \in Pods, k \in Slots :
        /\ cmd[p][k].pc # "off" => cmd[p][k].event \in Events
        /\ cmd[p][k].pc \notin Early => cmd[p][k].event \in notified

\* The command has made the event's notification and is to push it.
Announcing(p, k) == cmd[p][k].pc \in {"announce", "push"}

\* Whoever announces an event is alone, and it has not been pushed yet.
OneAnnounces ==
    /\ \A p \in Pods, k \in Slots : Announcing(p, k) => pushes[cmd[p][k].event] = 0
    /\ \A p, q \in Pods, k, l \in Slots :
          Announcing(p, k) /\ Announcing(q, l) /\ cmd[p][k].event = cmd[q][l].event
              => p = q /\ k = l
    /\ \A e \in Events \ notified : pushes[e] = 0

\* What a step of a pod or of one of its commands can disturb.
Executions ==
    /\ pod \in [Pods -> PodState]
    /\ cmd \in [Pods -> [Slots -> CmdState]]
    /\ \A p \in Pods : PodOK(pod[p], cmd[p])
    /\ CmdsOK
    /\ OneAnnounces

\* What the other variables are by themselves.
Kafka == /\ committed \in 0..Len(Log)
         /\ owner \in Pods \cup {None}
         /\ dlq \subseteq 1..Len(Log)
Stores == /\ claims \in [Events -> {"none", "held", "lapsed", "done"}]
          /\ notified \subseteq Events
          /\ pushes \in [Events -> Nat]
Mishaps == /\ faults \in [Faults -> Nat]
           /\ budget \in 0..MaxFaults

\* The inductive invariant.
IInv ==
    /\ Executions
    /\ Kafka
    /\ Stores
    /\ Mishaps
    /\ ProcessedImpliesNotified
    /\ AtMostOnePush

\* The invariant has the types of the model.
LEMMA InvTypes == IInv => TypeOK
<1> SUFFICES ASSUME IInv PROVE TypeOK
  OBVIOUS
<1>1. \A p \in Pods : pod[p].pc = "handle" =>
           /\ cmd[p][pod[p].slot].pc # "off"
           /\ cmd[p][pod[p].slot].event = Current(p)
  BY DEF IInv, Executions, PodOK, Current
<1> QED BY <1>1 DEF IInv, Executions, Kafka, Stores, Mishaps, TypeOK

\* The event at a position of the partition.
LEMMA LogEvents ==
    /\ Len(Log) \in Nat
    /\ \A i \in Nat : i < Len(Log) => Log[i + 1] \in Events
BY ParametersAssumption

\* The values that the actions build.
LEMMA ValueTypes ==
    /\ Off \in CmdState /\ Off.pc = "off"
    /\ \A e \in Events : Started(e) \in CmdState /\ Started(e).pc = "claim"
                         /\ Started(e).event = e
    /\ \A q \in PodState :
         /\ Refetched(q) \in PodState /\ Refetched(q).pc = "poll"
         /\ q.pos < Len(Log) => Resolved(q) \in PodState /\ Resolved(q).pc = "poll"
<1>1. Off \in CmdState /\ Off.pc = "off"
  BY SMT DEF Off, CmdState, CmdPcs
<1>2. \A e \in Events : Started(e) \in CmdState /\ Started(e).pc = "claim"
                         /\ Started(e).event = e
  BY SMT DEF Started, CmdState, CmdPcs
<1>3. \A q \in PodState :
         /\ Refetched(q) \in PodState /\ Refetched(q).pc = "poll"
         /\ q.pos < Len(Log) => Resolved(q) \in PodState /\ Resolved(q).pc = "poll"
  BY LogEvents, ParametersAssumption, SMT DEF Refetched, Resolved, PodState, Slots
<1> QED BY <1>1, <1>2, <1>3

\* The initial states satisfy the invariant.
LEMMA Initially == Init => IInv
<1> SUFFICES ASSUME Init PROVE IInv
  OBVIOUS
<1> DEFINE q0 == [pc |-> "poll", pos |-> 0, attempt |-> 0, slot |-> 1]
<1>1. q0 \in PodState /\ q0.pc = "poll"
  BY LogEvents, ParametersAssumption, SMT DEF PodState, Slots
<1>2. /\ \A p \in Pods : pod[p] = q0
      /\ \A p \in Pods, k \in Slots : cmd[p][k] = Off
      /\ pod \in [Pods -> PodState]
      /\ cmd \in [Pods -> [Slots -> CmdState]]
  BY <1>1, ValueTypes DEF Init
<1>3. \A p \in Pods : PodOK(pod[p], cmd[p])
  BY <1>1, <1>2, ValueTypes DEF PodOK, Slots
<1>4. CmdsOK /\ OneAnnounces
  BY <1>2, ValueTypes DEF CmdsOK, OneAnnounces, Announcing, Early, Init
<1>5. Kafka /\ Stores /\ Mishaps
  BY LogEvents, ParametersAssumption DEF Init, Kafka, Stores, Mishaps
<1>6. ProcessedImpliesNotified /\ AtMostOnePush
  BY DEF Init, ProcessedImpliesNotified, AtMostOnePush
<1> QED BY <1>2, <1>3, <1>4, <1>5, <1>6 DEF IInv, Executions

-----------------------------------------------------------------------------
(***************************************************************************)
(* Steps of a pod that announce nothing new.                               *)
(***************************************************************************)

\* Pod p and its commands become q and c; what changes of the commands is early.
QuietTo(p, q, c) ==
    /\ q \in PodState
    /\ c \in [Slots -> CmdState]
    /\ PodOK(q, c)
    /\ \A k \in Slots : c[k] = cmd[p][k] \/ EarlyCmd(c[k])
    /\ pod' = [pod EXCEPT ![p] = q]
    /\ cmd' = [cmd EXCEPT ![p] = c]

Quiet(p) == \E q, c : QuietTo(p, q, c)

\* Such a step keeps pods and commands in order, and nobody starts to announce.
LEMMA QuietMoves ==
    ASSUME IInv, NEW p \in Pods, Quiet(p), notified \subseteq notified'
    PROVE  /\ pod' \in [Pods -> PodState]
           /\ cmd' \in [Pods -> [Slots -> CmdState]]
           /\ \A r \in Pods : PodOK(pod'[r], cmd'[r])
           /\ CmdsOK'
           /\ \A r \in Pods, k \in Slots :
                 Announcing(r, k)' => Announcing(r, k) /\ cmd'[r][k] = cmd[r][k]
<1> PICK q, c : QuietTo(p, q, c)
  BY DEF Quiet
<1>1. /\ \A r \in Pods : pod'[r] = IF r = p THEN q ELSE pod[r]
      /\ \A r \in Pods : cmd'[r] = IF r = p THEN c ELSE cmd[r]
      /\ pod' \in [Pods -> PodState]
      /\ cmd' \in [Pods -> [Slots -> CmdState]]
  BY DEF QuietTo, IInv, Executions
<1>2. \A r \in Pods : PodOK(pod'[r], cmd'[r])
  BY <1>1 DEF QuietTo, IInv, Executions
<1>3. \A r \in Pods, k \in Slots : cmd'[r][k] = cmd[r][k] \/ EarlyCmd(cmd'[r][k])
  BY <1>1 DEF QuietTo
<1>4. CmdsOK'
  BY <1>3 DEF IInv, Executions, CmdsOK, EarlyCmd, Early
<1>5. \A r \in Pods, k \in Slots :
         Announcing(r, k)' => Announcing(r, k) /\ cmd'[r][k] = cmd[r][k]
  BY <1>3 DEF Announcing, EarlyCmd, Early
<1> QED BY <1>1, <1>2, <1>4, <1>5

\* Without a push the executions stay in order.
LEMMA QuietKeeps ==
    ASSUME IInv, NEW p \in Pods, Quiet(p),
           pushes' = pushes, notified \subseteq notified'
    PROVE  Executions'
<1>1. OneAnnounces'
  BY QuietMoves DEF IInv, Executions, OneAnnounces
<1> QED BY <1>1, QuietMoves DEF Executions

\* A step that leaves pods and commands alone.
LEMMA NobodyMoves ==
    ASSUME IInv, UNCHANGED <<pod, cmd>>, pushes' = pushes, notified' = notified
    PROVE  Executions'
BY DEF IInv, Executions, CmdsOK, OneAnnounces, Announcing

\* What a pod may count on.
LEMMA PodFacts ==
    ASSUME IInv, NEW p \in Pods
    PROVE  /\ pod[p] \in PodState
           /\ cmd[p] \in [Slots -> CmdState]
           /\ PodOK(pod[p], cmd[p])
           /\ pod[p].pos \in 0..Len(Log)
           /\ pod[p].attempt \in 0..Attempts
           /\ pod[p].slot \in Slots
           /\ pod[p].pos < Len(Log) => Current(p) \in Events
<1>1. /\ pod[p] \in PodState
      /\ cmd[p] \in [Slots -> CmdState]
      /\ PodOK(pod[p], cmd[p])
  BY DEF IInv, Executions
<1>2. /\ pod[p].pos \in 0..Len(Log)
      /\ pod[p].attempt \in 0..Attempts
      /\ pod[p].slot \in Slots
  BY <1>1 DEF PodState
<1> QED BY <1>1, <1>2, LogEvents DEF Current

\* A command alone moves to an early place, and the pod stays.
LEMMA CommandMoves ==
    ASSUME IInv, NEW p \in Pods, NEW k \in Slots, cmd[p][k].pc # "off",
           NEW label \in Early \ {"off"}, Goto(p, k, label)
    PROVE  Quiet(p)
<1> DEFINE x == [cmd[p][k] EXCEPT !.pc = label]
           c == [cmd[p] EXCEPT ![k] = x]
<1>1. cmd[p][k] \in CmdState /\ cmd[p][k].event \in Events
  BY PodFacts DEF IInv, Executions, CmdsOK
<1>2. x \in CmdState /\ x.pc = label /\ x.event = cmd[p][k].event
  BY <1>1 DEF CmdState, CmdPcs, Early
<1>3. EarlyCmd(x)
  BY <1>1, <1>2 DEF EarlyCmd
<1>4. /\ pod' = [pod EXCEPT ![p] = pod[p]]
      /\ cmd' = [cmd EXCEPT ![p] = c]
  BY DEF Goto, IInv, Executions
<1> HIDE DEF x
<1>5. c \in [Slots -> CmdState] /\ \A j \in Slots : c[j] = IF j = k THEN x ELSE cmd[p][j]
  BY <1>2, PodFacts
<1>6. PodOK(pod[p], c)
  BY <1>2, <1>5, PodFacts DEF PodOK, Early
<1> HIDE DEF c
<1>7. QuietTo(p, pod[p], c)
  BY <1>3, <1>4, <1>5, <1>6, PodFacts DEF QuietTo
<1> QED BY <1>7 DEF Quiet

\* A command ends, and the pod that awaits it goes on.
LEMMA CommandReturns ==
    ASSUME IInv, NEW p \in Pods, NEW k \in Slots, Return(p, k)
    PROVE  Quiet(p)
<1> DEFINE c == [cmd[p] EXCEPT ![k] = Off]
           q == IF Awaited(p, k) THEN Resolved(pod[p]) ELSE pod[p]
<1>1. c \in [Slots -> CmdState] /\ \A j \in Slots : c[j] = IF j = k THEN Off ELSE cmd[p][j]
  BY ValueTypes, PodFacts
<1>2. EarlyCmd(Off)
  BY ValueTypes DEF EarlyCmd, Early
<1>3. /\ pod' = [pod EXCEPT ![p] = q]
      /\ cmd' = [cmd EXCEPT ![p] = c]
  BY DEF Return, IInv, Executions
<1>4. q \in PodState /\ PodOK(q, c)
  <2>1. CASE Awaited(p, k)
    <3>1. q = Resolved(pod[p]) /\ pod[p].pos < Len(Log)
      BY <2>1, PodFacts DEF Awaited, PodOK
    <3>2. q \in PodState /\ q.pc = "poll"
      BY <3>1, PodFacts, ValueTypes
    <3> QED BY <3>2, <1>1, ValueTypes DEF PodOK
  <2>2. CASE ~ Awaited(p, k)
    <3>1. q = pod[p]
      BY <2>2
    <3>2. PodOK(pod[p], c)
      BY <2>2, <1>1, PodFacts, ValueTypes DEF PodOK, Awaited
    <3> QED BY <3>1, <3>2, PodFacts
  <2> QED BY <2>1, <2>2
<1> HIDE DEF c, q
<1>5. QuietTo(p, q, c)
  BY <1>1, <1>2, <1>3, <1>4 DEF QuietTo
<1> QED BY <1>5 DEF Quiet

\* The awaited attempt failed, with slot k free for the next.
LEMMA AttemptFails ==
    ASSUME IInv, NEW p \in Pods, NEW k \in Slots, pod[p].pc = "handle",
           NEW s \in [Slots -> CmdState], s[k].pc = "off",
           \A j \in Slots : s[j] = cmd[p][j] \/ s[j] = Off,
           AttemptFailed(p, k, [cmd EXCEPT ![p] = s])
    PROVE  Quiet(p)
<1> DEFINE e == Current(p)
<1>1. pod[p].pos < Len(Log) /\ e \in Events
  BY PodFacts DEF PodOK
<1>2. EarlyCmd(Off) /\ EarlyCmd(Started(e)) /\ Started(e).pc # "off"
  BY <1>1, ValueTypes DEF EarlyCmd, Early
<1>3. p \in DOMAIN pod /\ p \in DOMAIN cmd
  BY DEF IInv, Executions
<1>4. CASE MayRetry(pod[p])
  <2> DEFINE c == [s EXCEPT ![k] = Started(e)]
             q == [pod[p] EXCEPT !.attempt = @ + 1, !.slot = k]
  <2>1. q \in PodState /\ q.pc = "handle" /\ q.slot = k /\ q.pos = pod[p].pos
    <3> DEFINE r == [pod[p] EXCEPT !.attempt = @ + 1]
    <3>1. pod[p].attempt + 1 \in 0..Attempts
      BY <1>4, PodFacts, ParametersAssumption, SMT DEF MayRetry
    <3>2. r \in PodState /\ r.pc = "handle" /\ r.pos = pod[p].pos
      BY <3>1, PodFacts DEF PodState
    <3>3. q = [r EXCEPT !.slot = k]
      OBVIOUS
    <3> HIDE DEF q, r
    <3> QED BY <3>2, <3>3 DEF PodState
  <2>2. c \in [Slots -> CmdState] /\ \A j \in Slots : c[j] = IF j = k THEN Started(e) ELSE s[j]
    BY <1>1, ValueTypes
  <2>3. /\ pod' = [pod EXCEPT ![p] = q]
        /\ cmd' = [cmd EXCEPT ![p] = c]
    <3>1. /\ pod' = [pod EXCEPT ![p].attempt = @ + 1, ![p].slot = k]
          /\ cmd' = [[cmd EXCEPT ![p] = s] EXCEPT ![p][k] = Started(e)]
      BY <1>4 DEF AttemptFailed
    <3> QED BY <1>3, <3>1
  <2>4. PodOK(q, c)
    <3>1. c[k].pc # "off" /\ c[k].event = e
      BY <1>1, <2>2, <1>2, ValueTypes
    <3> HIDE DEF c, q
    <3> QED BY <1>1, <2>1, <3>1 DEF PodOK, Current
  <2>5. \A j \in Slots : c[j] = cmd[p][j] \/ EarlyCmd(c[j])
    BY <2>2, <1>2
  <2> HIDE DEF c, q
  <2>6. QuietTo(p, q, c)
    BY <2>1, <2>2, <2>3, <2>4, <2>5 DEF QuietTo
  <2> QED BY <2>6 DEF Quiet
<1>5. CASE ~ MayRetry(pod[p])
  <2> DEFINE q == [pod[p] EXCEPT !.pc = "park"]
  <2>1. q \in PodState /\ q.pc = "park" /\ q.pos = pod[p].pos
    BY PodFacts, SMT DEF PodState
  <2>2. /\ pod' = [pod EXCEPT ![p] = q]
        /\ cmd' = [cmd EXCEPT ![p] = s]
    BY <1>3, <1>5 DEF AttemptFailed
  <2> HIDE DEF q
  <2>3. PodOK(q, s)
    BY <1>1, <2>1 DEF PodOK
  <2>4. QuietTo(p, q, s)
    BY <2>1, <2>2, <2>3, <1>2 DEF QuietTo
  <2> QED BY <2>4 DEF Quiet
<1> QED BY <1>4, <1>5

\* A command fails.
LEMMA CommandThrows ==
    ASSUME IInv, NEW p \in Pods, NEW k \in Slots, Throw(p, k)
    PROVE  Quiet(p)
<1> DEFINE s == [cmd[p] EXCEPT ![k] = Off]
<1>1. s \in [Slots -> CmdState] /\ \A j \in Slots : s[j] = IF j = k THEN Off ELSE cmd[p][j]
  BY ValueTypes, PodFacts
<1>2. [cmd EXCEPT ![p][k] = Off] = [cmd EXCEPT ![p] = s]
  BY DEF IInv, Executions
<1>3. CASE Awaited(p, k)
  <2>1. AttemptFailed(p, k, [cmd EXCEPT ![p] = s])
    BY <1>2, <1>3 DEF Throw
  <2>2. pod[p].pc = "handle" /\ s[k].pc = "off"
    BY <1>1, <1>3, ValueTypes DEF Awaited
  <2> HIDE DEF s
  <2> QED BY <1>1, <2>1, <2>2, AttemptFails
<1>4. CASE ~ Awaited(p, k)
  <2>1. /\ pod' = [pod EXCEPT ![p] = pod[p]]
        /\ cmd' = [cmd EXCEPT ![p] = s]
    BY <1>2, <1>4 DEF Throw, IInv, Executions
  <2>2. PodOK(pod[p], s)
    BY <1>1, <1>4, PodFacts, ValueTypes DEF PodOK, Awaited
  <2>3. EarlyCmd(Off)
    BY ValueTypes DEF EarlyCmd, Early
  <2> HIDE DEF s
  <2>4. QuietTo(p, pod[p], s)
    BY <1>1, <2>1, <2>2, <2>3, PodFacts DEF QuietTo
  <2> QED BY <2>4 DEF Quiet
<1> QED BY <1>3, <1>4

\* The pod alone moves, to a place where it awaits no command and one is off.
LEMMA PodMoves ==
    ASSUME IInv, NEW p \in Pods, NEW q \in PodState, q.pc # "handle",
           q.pc # "poll" => q.pos < Len(Log),
           pod[p].pc # "handle",
           pod' = [pod EXCEPT ![p] = q], cmd' = cmd
    PROVE  Quiet(p)
<1>1. PodOK(q, cmd[p])
  BY PodFacts DEF PodOK
<1>2. cmd' = [cmd EXCEPT ![p] = cmd[p]]
  BY DEF IInv, Executions
<1>3. QuietTo(p, q, cmd[p])
  BY <1>1, <1>2, PodFacts DEF QuietTo
<1> QED BY <1>3 DEF Quiet

-----------------------------------------------------------------------------
(***************************************************************************)
(* Steps that announce, and the other variables.                           *)
(***************************************************************************)

\* A command goes on once its event has a notification; it announces the event
\* if it did so before or if the notification is new.
LEMMA LateMoves ==
    ASSUME IInv, NEW p \in Pods, NEW k \in Slots, cmd[p][k].pc # "off",
           NEW label \in {"mark", "announce", "push"}, Goto(p, k, label),
           label # "mark" => Announcing(p, k) \/ cmd[p][k].event \notin notified,
           notified' = notified \cup {cmd[p][k].event}, pushes' = pushes
    PROVE  Executions'
<1> DEFINE e == cmd[p][k].event
           x == [cmd[p][k] EXCEPT !.pc = label]
<1>1. cmd[p][k] \in CmdState /\ e \in Events
  BY PodFacts DEF IInv, Executions, CmdsOK
<1>2. x \in CmdState /\ x.pc = label /\ x.event = e
  BY <1>1 DEF CmdState, CmdPcs
<1>3. cmd' = [cmd EXCEPT ![p] = [cmd[p] EXCEPT ![k] = x]]
  BY DEF Goto, IInv, Executions
<1> HIDE DEF x
<1>4. /\ \A r \in Pods, j \in Slots :
            cmd'[r][j] = IF r = p /\ j = k THEN x ELSE cmd[r][j]
      /\ cmd' \in [Pods -> [Slots -> CmdState]]
  BY <1>2, <1>3 DEF IInv, Executions
<1>5. pod' \in [Pods -> PodState] /\ \A r \in Pods : PodOK(pod'[r], cmd'[r])
  <2>1. pod' = pod
    BY DEF Goto
  <2>2. \A r \in Pods, j \in Slots : /\ cmd'[r][j].pc # "off" <=> cmd[r][j].pc # "off"
                                    /\ cmd'[r][j].event = cmd[r][j].event
    BY <1>2, <1>4
  <2>3. \A r \in Pods : pod[r].slot \in Slots
    BY PodFacts
  <2>4. ASSUME NEW r \in Pods PROVE PodOK(pod[r], cmd'[r])
    BY <2>2, <2>3, PodFacts DEF PodOK
  <2> QED BY <2>1, <2>4 DEF IInv, Executions
<1>6. CmdsOK'
  BY <1>1, <1>2, <1>4 DEF IInv, Executions, CmdsOK
<1>7. OneAnnounces'
  <2>1. \A r \in Pods, j \in Slots :
           /\ cmd'[r][j].event = cmd[r][j].event
           /\ Announcing(r, j)' => Announcing(r, j) \/ (r = p /\ j = k /\ e \notin notified)
    BY <1>2, <1>4 DEF Announcing
  <2>2. \A r \in Pods, j \in Slots : Announcing(r, j) =>
           cmd[r][j].event \in notified
    BY DEF IInv, Executions, CmdsOK, Announcing, Early
  <2> HIDE DEF e
  <2>3. e = cmd[p][k].event
    BY DEF e
  <2>4. OneAnnounces /\ notified' = notified \cup {e} /\ pushes' = pushes
    BY <2>3 DEF IInv, Executions
  <2>5. \A r \in Pods, j \in Slots : Announcing(r, j)' => pushes'[cmd'[r][j].event] = 0
    BY <1>1, <2>1, <2>3, <2>4 DEF OneAnnounces
  <2>6. \A r, t \in Pods, j, l \in Slots :
          Announcing(r, j)' /\ Announcing(t, l)' /\ cmd'[r][j].event = cmd'[t][l].event
            => r = t /\ j = l
    BY <2>1, <2>2, <2>3, <2>4 DEF OneAnnounces
  <2>7. \A d \in Events \ notified' : pushes'[d] = 0
    BY <2>4 DEF OneAnnounces
  <2> QED BY <2>5, <2>6, <2>7 DEF OneAnnounces
<1> QED BY <1>4, <1>5, <1>6, <1>7 DEF Executions

\* The push of an announced event is its first and only one.
LEMMA PushOnce ==
    ASSUME IInv, NEW p \in Pods, NEW k \in Slots, cmd[p][k].pc = "push", Push(p, k)
    PROVE  Executions' /\ AtMostOnePush' /\ pushes' \in [Events -> Nat]
<1> DEFINE e == cmd[p][k].event
<1>1. Announcing(p, k) /\ pushes[e] = 0 /\ e \in notified /\ e \in Events
  BY DEF Announcing, IInv, Executions, OneAnnounces, CmdsOK, Early
<1>2. pushes' = [pushes EXCEPT ![e] = 1]
  BY <1>1 DEF Push
<1>3. \A f \in Events : pushes'[f] = IF f = e THEN 1 ELSE pushes[f]
  BY <1>2 DEF IInv, Stores
<1>4. Quiet(p) /\ notified' = notified
  BY CommandReturns DEF Push
<1>5. ~ Announcing(p, k)'
  <2>1. cmd'[p][k] = Off
    BY DEF Push, Return, IInv, Executions
  <2> QED BY <2>1, ValueTypes DEF Announcing
<1>6. \A r \in Pods, j \in Slots :
         Announcing(r, j)' => Announcing(r, j) /\ cmd'[r][j] = cmd[r][j]
  BY <1>4, QuietMoves
<1>7. \A r \in Pods, j \in Slots : Announcing(r, j)' => cmd[r][j].event # e
  BY <1>1, <1>5, <1>6 DEF IInv, Executions, OneAnnounces
<1>8. \A r \in Pods, j \in Slots : Announcing(r, j) => cmd[r][j].event \in Events
  BY DEF IInv, Executions, CmdsOK, Announcing
<1>9. OneAnnounces'
  <2> HIDE DEF e
  <2>1. \A r \in Pods, j \in Slots : Announcing(r, j)' => pushes'[cmd'[r][j].event] = 0
    BY <1>3, <1>6, <1>7, <1>8 DEF IInv, Executions, OneAnnounces
  <2>2. \A q, r \in Pods, j, l \in Slots :
           Announcing(q, j)' /\ Announcing(r, l)' /\ cmd'[q][j].event = cmd'[r][l].event
              => q = r /\ j = l
    BY <1>6 DEF IInv, Executions, OneAnnounces
  <2>3. \A f \in Events \ notified' : pushes'[f] = 0
    BY <1>1, <1>3, <1>4 DEF IInv, Executions, OneAnnounces
  <2> QED BY <2>1, <2>2, <2>3 DEF OneAnnounces
<1>10. AtMostOnePush' /\ pushes' \in [Events -> Nat]
  BY <1>1, <1>2, <1>3 DEF IInv, AtMostOnePush, Stores
<1> QED BY <1>4, <1>9, <1>10, QuietMoves DEF Executions

\* What the commands write to processed_events.
LEMMA ClaimWrites ==
    ASSUME IInv, NEW e \in Events
    PROVE  /\ \A c \in {Claimed(e), Released(e), Marked(e)} :
                 c \in [Events -> {"none", "held", "lapsed", "done"}]
           /\ \A f \in Events : Claimed(e)[f] = "done" => claims[f] = "done"
           /\ \A f \in Events : Released(e)[f] = "done" => claims[f] = "done"
           /\ \A f \in Events : Marked(e)[f] = "done" => claims[f] = "done" \/ f = e
BY DEF IInv, Stores, Claimed, Released, Marked

\* A fault is counted.
LEMMA FaultCounted ==
    ASSUME IInv, NEW f \in Faults, Fault(f)
    PROVE  Mishaps'
BY ParametersAssumption DEF IInv, Mishaps, Fault

\* Stores and claims of a step that writes no more than a claim on event e.
LEMMA ClaimWritten ==
    ASSUME IInv, NEW e \in Events, notified' = notified, pushes' = pushes,
           \/ claims' \in {claims, Claimed(e), Released(e)}
           \/ claims' = Marked(e) /\ e \in notified
    PROVE  Stores' /\ ProcessedImpliesNotified' /\ AtMostOnePush'
<1>1. claims' \in [Events -> {"none", "held", "lapsed", "done"}]
  BY ClaimWrites DEF IInv, Stores
<1>2. \A f \in Events : claims'[f] = "done" => claims[f] = "done" \/ f \in notified
  BY ClaimWrites
<1> QED BY <1>1, <1>2 DEF IInv, Stores, ProcessedImpliesNotified, AtMostOnePush

-----------------------------------------------------------------------------
(***************************************************************************)
(* The invariant is inductive.                                             *)
(***************************************************************************)

\* A step that leaves the stores alone keeps what is said of them.
LEMMA StoresKept ==
    ASSUME IInv, UNCHANGED stores
    PROVE  Stores' /\ ProcessedImpliesNotified' /\ AtMostOnePush'
BY DEF IInv, Stores, ProcessedImpliesNotified, AtMostOnePush, stores

\* The steps of a pod, of the group, and of time.
LEMMA PodStepKeeps ==
    ASSUME IInv, NEW p \in Pods,
           PodStep(p) \/ Assign(p) \/ Timeout(p) \/ ParkFails(p) \/ Crash(p)
    PROVE  IInv'
<1>1. CASE Poll(p)
  <2> DEFINE e == Current(p)
             k == FreeSlot(p)
             q == Received(pod[p], Kind[e], k)
  <2>1. pod[p].pc = "poll" /\ pod[p].pos < Len(Log) /\ e \in Events
    BY <1>1, PodFacts DEF Poll
  <2>2. k \in Slots /\ cmd[p][k].pc = "off"
    BY <2>1, PodFacts DEF PodOK, FreeSlot
  <2>3. Kind[e] \in Kinds
    BY <2>1, ParametersAssumption
  <2>4. CASE Kind[e] = "good"
    <3> DEFINE c == [cmd[p] EXCEPT ![k] = Started(e)]
               r == [[[pod[p] EXCEPT !.pc = "handle"] EXCEPT !.attempt = 1] EXCEPT !.slot = k]
    <3>1. r \in PodState /\ r.pc = "handle" /\ r.slot = k /\ r.pos = pod[p].pos
      <4> DEFINE r1 == [pod[p] EXCEPT !.pc = "handle"]
                 r2 == [r1 EXCEPT !.attempt = 1]
      <4>1. r1 \in PodState /\ r1.pc = "handle" /\ r1.pos = pod[p].pos
        BY PodFacts DEF PodState
      <4>2. r = [r2 EXCEPT !.slot = k]
        OBVIOUS
      <4> HIDE DEF r1, r
      <4>3. r2 \in PodState /\ r2.pc = "handle" /\ r2.pos = pod[p].pos
        BY <4>1, ParametersAssumption DEF PodState
      <4> HIDE DEF r2
      <4> QED BY <2>2, <4>2, <4>3 DEF PodState
    <3>2. q = r
      BY <2>4, SMT DEF Received
    <3>3. c \in [Slots -> CmdState] /\ \A j \in Slots : c[j] = IF j = k THEN Started(e) ELSE cmd[p][j]
      BY <2>1, ValueTypes, PodFacts
    <3>4. EarlyCmd(Started(e)) /\ Started(e).pc # "off" /\ Started(e).event = e
      BY <2>1, ValueTypes DEF EarlyCmd, Early
    <3>5. pod' = [pod EXCEPT ![p] = q]
      BY <1>1 DEF Poll
    <3>6. cmd' = [cmd EXCEPT ![p] = c]
      BY <1>1, <2>4 DEF Poll, IInv, Executions
    <3> HIDE DEF c, q, r
    <3>7. PodOK(r, c)
      BY <2>1, <2>2, <3>1, <3>3, <3>4 DEF PodOK, Current
    <3>8. QuietTo(p, r, c)
      BY <3>1, <3>2, <3>3, <3>4, <3>5, <3>6, <3>7 DEF QuietTo
    <3>9. Executions'
      BY <1>1, <3>8, QuietKeeps DEF Quiet, Poll, stores
    <3> QED BY <1>1, <3>9, StoresKept DEF IInv, Kafka, Mishaps, Poll, kafka, mishaps
  <2>5. CASE Kind[e] # "good"
    <3>1. q \in PodState /\ q.pc # "handle" /\ (q.pc # "poll" => q.pos < Len(Log))
      <4>1. CASE Kind[e] = "garbled"
        <5>1. q = [pod[p] EXCEPT !.pc = "park"]
          BY <4>1, SMT DEF Received
        <5> HIDE DEF q
        <5> QED BY <2>1, <5>1, PodFacts DEF PodState
      <4>2. CASE Kind[e] = "misfit"
        <5>1. q = Resolved(pod[p])
          BY <4>2, SMT DEF Received
        <5> HIDE DEF q
        <5> QED BY <2>1, <5>1, PodFacts, ValueTypes
      <4> QED BY <2>3, <2>5, <4>1, <4>2 DEF Kinds
    <3>2. pod' = [pod EXCEPT ![p] = q] /\ cmd' = cmd
      BY <1>1, <2>5 DEF Poll
    <3> HIDE DEF q
    <3>3. Quiet(p)
      BY <2>1, <3>1, <3>2, PodMoves
    <3>4. Executions'
      BY <1>1, <3>3, QuietKeeps DEF Poll, stores
    <3> QED BY <1>1, <3>4, StoresKept DEF IInv, Kafka, Mishaps, Poll, kafka, mishaps
  <2> QED BY <2>4, <2>5
<1>2. CASE Park(p) \/ ParkFails(p)
  <2>1. pod[p].pc = "park" /\ pod[p].pos < Len(Log) /\ cmd' = cmd
    BY <1>2, PodFacts DEF Park, ParkFails, PodOK
  <2>2. PICK q \in {Resolved(pod[p]), Refetched(pod[p])} : pod' = [pod EXCEPT ![p] = q]
    BY <1>2 DEF Park, ParkFails
  <2>3. q \in PodState /\ q.pc = "poll"
    BY <2>1, PodFacts, ValueTypes
  <2>4. Quiet(p)
    BY <2>1, <2>2, <2>3, PodMoves
  <2>5. Executions'
    BY <1>2, <2>4, QuietKeeps DEF Park, ParkFails, stores
  <2>6. pod[p].pos + 1 \in 1..Len(Log)
    BY <2>1, PodFacts, LogEvents
  <2>7. Kafka'
    BY <1>2, <2>6 DEF Park, ParkFails, IInv, Kafka, kafka
  <2>8. Mishaps'
    BY <1>2, FaultCounted DEF Park, ParkFails, IInv, Mishaps, mishaps, Faults
  <2> QED BY <1>2, <2>5, <2>7, <2>8, StoresKept DEF IInv, Park, ParkFails
<1>3. CASE Commit(p)
  <2>1. Executions'
    BY <1>3, NobodyMoves DEF Commit, stores
  <2>2. Kafka'
    BY <1>3, PodFacts DEF Commit, IInv, Kafka
  <2> QED BY <1>3, <2>1, <2>2, StoresKept DEF IInv, Mishaps, Commit, mishaps
<1>4. CASE Assign(p)
  <2> DEFINE q == [pod[p] EXCEPT !.pos = committed]
  <2>1. q \in PodState /\ q.pc = "poll"
    BY <1>4, PodFacts DEF PodState, Assign, IInv, Kafka
  <2>2. pod' = [pod EXCEPT ![p] = q] /\ cmd' = cmd /\ pod[p].pc = "poll"
    BY <1>4 DEF Assign
  <2> HIDE DEF q
  <2>3. Quiet(p)
    BY <2>1, <2>2, PodMoves
  <2>4. Executions'
    BY <1>4, <2>3, QuietKeeps DEF Assign, stores
  <2> QED BY <1>4, <2>4, StoresKept DEF IInv, Kafka, Mishaps, Assign, mishaps
<1>5. CASE Timeout(p)
  <2> DEFINE k == Other(pod[p].slot)
  <2>1. k \in Slots /\ pod[p].pc = "handle" /\ cmd[p][k].pc = "off"
    BY <1>5, PodFacts DEF Timeout, Other, Slots
  <2>2. cmd = [cmd EXCEPT ![p] = cmd[p]]
    BY DEF IInv, Executions
  <2>3. AttemptFailed(p, k, [cmd EXCEPT ![p] = cmd[p]])
    BY <1>5, <2>2 DEF Timeout
  <2> HIDE DEF k
  <2>4. Quiet(p)
    BY <2>1, <2>3, PodFacts, AttemptFails
  <2>5. Executions'
    BY <1>5, <2>4, QuietKeeps DEF Timeout, stores
  <2>6. Mishaps'
    BY <1>5, FaultCounted DEF Timeout, Faults
  <2> QED BY <1>5, <2>5, <2>6, StoresKept DEF IInv, Kafka, Timeout, kafka
<1>6. CASE Crash(p)
  <2> DEFINE c == [k \in Slots |-> Off]
             q == Refetched(pod[p])
  <2>1. q \in PodState /\ q.pc = "poll"
    BY PodFacts, ValueTypes
  <2>2. /\ c \in [Slots -> CmdState]
        /\ \A k \in Slots : c[k].pc = "off" /\ EarlyCmd(c[k])
    BY ValueTypes DEF EarlyCmd, Early
  <2>3. pod' = [pod EXCEPT ![p] = q] /\ cmd' = [cmd EXCEPT ![p] = c]
    BY <1>6 DEF Crash
  <2> HIDE DEF c, q
  <2>4. PodOK(q, c)
    BY <2>1, <2>2 DEF PodOK, Slots
  <2>5. QuietTo(p, q, c)
    BY <2>1, <2>2, <2>3, <2>4 DEF QuietTo
  <2>6. Executions'
    BY <1>6, <2>5, QuietKeeps DEF Quiet, Crash, stores
  <2>7. Mishaps'
    BY <1>6, FaultCounted DEF Crash, Faults
  <2>8. Kafka'
    BY <1>6 DEF Crash, IInv, Kafka
  <2> QED BY <1>6, <2>6, <2>7, <2>8, StoresKept DEF IInv, Crash
<1> QED BY <1>1, <1>2, <1>3, <1>4, <1>5, <1>6 DEF PodStep

\* The steps of a command, and the calls in them that fail.
LEMMA CmdStepKeeps ==
    ASSUME IInv, NEW p \in Pods, NEW k \in Slots, CmdStep(p, k) \/ CmdFault(p, k)
    PROVE  IInv'
<1> DEFINE e == cmd[p][k].event
<1>1. cmd[p][k].pc # "off" => e \in Events
  BY DEF IInv, Executions, CmdsOK
<1>2. cmd[p][k].pc \in {"mark", "announce", "push"} => e \in notified
  BY DEF IInv, Executions, CmdsOK, Early
<1>3. CASE Claim(p, k) \/ Reclaim(p, k)
  <2>1. cmd[p][k].pc # "off" /\ claims' \in {claims, Claimed(e)}
    BY <1>3 DEF Claim, Reclaim
  <2>2. Quiet(p)
    <3>1. \/ \E label \in {"insert", "reclaim"} : Goto(p, k, label)
          \/ Return(p, k)
      BY <1>3 DEF Claim, Reclaim
    <3> QED BY <2>1, <3>1, CommandMoves, CommandReturns DEF Early
  <2>3. Executions'
    BY <1>3, <2>2, QuietKeeps DEF Claim, Reclaim
  <2>4. Stores' /\ ProcessedImpliesNotified' /\ AtMostOnePush'
    BY <1>1, <1>3, <2>1, ClaimWritten DEF Claim, Reclaim
  <2> QED BY <1>3, <2>3, <2>4 DEF IInv, Kafka, Mishaps, Claim, Reclaim, kafka, mishaps
<1>4. CASE Insert(p, k)
  <2>1. cmd[p][k].pc # "off" /\ e \in Events
    BY <1>1, <1>4 DEF Insert
  <2>2. PICK label \in {"mark", "announce"} :
           Goto(p, k, label) /\ (label # "mark" => e \notin notified)
    BY <1>4 DEF Insert, Fresh
  <2>3. Executions'
    BY <1>4, <2>1, <2>2, LateMoves DEF Insert
  <2>4. Stores' /\ ProcessedImpliesNotified' /\ AtMostOnePush'
    BY <1>4, <2>1 DEF Insert, IInv, Stores, ProcessedImpliesNotified, AtMostOnePush
  <2> QED BY <1>4, <2>3, <2>4 DEF IInv, Kafka, Mishaps, Insert, kafka, mishaps
<1>5. CASE Mark(p, k)
  <2>1. /\ cmd[p][k].pc \in {"mark", "announce"} /\ e \in Events /\ e \in notified
        /\ claims' = Marked(e) /\ notified' = notified /\ pushes' = pushes
    BY <1>1, <1>2, <1>5 DEF Mark
  <2>2. Executions'
    <3>1. CASE cmd[p][k].pc = "announce" /\ Goto(p, k, "push")
      <4>1. Announcing(p, k) /\ notified' = notified \cup {e}
        BY <2>1, <3>1 DEF Announcing
      <4> QED BY <2>1, <3>1, <4>1, LateMoves
    <3>2. CASE Return(p, k)
      BY <2>1, <3>2, CommandReturns, QuietKeeps
    <3> QED BY <1>5, <3>1, <3>2 DEF Mark
  <2>3. Stores' /\ ProcessedImpliesNotified' /\ AtMostOnePush'
    BY <2>1, ClaimWritten
  <2> QED BY <1>5, <2>2, <2>3 DEF IInv, Kafka, Mishaps, Mark, kafka, mishaps
<1>6. CASE Push(p, k)
  <2>1. Executions' /\ AtMostOnePush' /\ pushes' \in [Events -> Nat]
    BY <1>6, PushOnce DEF Push
  <2>2. Stores' /\ ProcessedImpliesNotified'
    BY <1>6, <2>1 DEF Push, IInv, Stores, ProcessedImpliesNotified
  <2> QED BY <1>6, <2>1, <2>2 DEF IInv, Kafka, Mishaps, Push, kafka, mishaps
<1>7. CASE Release(p, k) \/ ReleaseFails(p, k)
  <2>1. /\ e \in Events /\ claims' \in {claims, Released(e)} /\ Throw(p, k)
        /\ notified' = notified /\ pushes' = pushes
    BY <1>1, <1>7 DEF Release, ReleaseFails, stores
  <2>2. Executions'
    BY <2>1, CommandThrows, QuietKeeps
  <2>3. Stores' /\ ProcessedImpliesNotified' /\ AtMostOnePush'
    BY <2>1, ClaimWritten
  <2>4. Mishaps'
    BY <1>7, FaultCounted DEF Release, ReleaseFails, IInv, Mishaps, mishaps, Faults
  <2> QED BY <1>7, <2>2, <2>3, <2>4 DEF IInv, Kafka, Release, ReleaseFails, kafka
<1>8. CASE ClaimFails(p, k)
  <2>1. /\ e \in Events /\ claims' \in {claims, Claimed(e)} /\ Throw(p, k)
        /\ notified' = notified /\ pushes' = pushes
    BY <1>1, <1>8 DEF ClaimFails
  <2>2. Executions'
    BY <2>1, CommandThrows, QuietKeeps
  <2>3. Stores' /\ ProcessedImpliesNotified' /\ AtMostOnePush'
    BY <2>1, ClaimWritten
  <2>4. Mishaps'
    BY <1>8, FaultCounted DEF ClaimFails, Faults
  <2> QED BY <1>8, <2>2, <2>3, <2>4 DEF IInv, Kafka, ClaimFails, kafka
<1>9. CASE StoreFails(p, k)
  <2>1. /\ cmd[p][k].pc # "off" /\ e \in Events /\ Goto(p, k, "release")
        /\ pushes' = pushes
    BY <1>1, <1>9 DEF StoreFails
  <2>2. /\ notified' \in {notified, notified \cup {e}}
        /\ \/ claims' = claims
           \/ claims' = Marked(e) /\ e \in notified /\ notified' = notified
    BY <1>2, <1>9 DEF StoreFails
  <2>3. Executions'
    <3>1. Quiet(p)
      BY <2>1, CommandMoves DEF Early
    <3> QED BY <2>1, <2>2, <3>1, QuietKeeps
  <2>4. Stores' /\ ProcessedImpliesNotified' /\ AtMostOnePush'
    <3>1. CASE claims' = claims
      BY <2>1, <2>2, <3>1 DEF IInv, Stores, ProcessedImpliesNotified, AtMostOnePush
    <3>2. CASE claims' = Marked(e) /\ e \in notified /\ notified' = notified
      BY <2>1, <3>2, ClaimWritten
    <3> QED BY <2>2, <3>1, <3>2
  <2>5. Mishaps'
    BY <1>9, FaultCounted DEF StoreFails, Faults
  <2> QED BY <1>9, <2>3, <2>4, <2>5 DEF IInv, Kafka, StoreFails, kafka
<1> QED BY <1>3, <1>4, <1>5, <1>6, <1>7, <1>8, <1>9 DEF CmdStep, CmdFault

\* Every step keeps the invariant.
LEMMA Inductive == IInv /\ [Next]_vars => IInv'
<1> SUFFICES ASSUME IInv, [Next]_vars PROVE IInv'
  OBVIOUS
<1>1. ASSUME NEW p \in Pods,
             PodStep(p) \/ Assign(p) \/ Timeout(p) \/ ParkFails(p) \/ Crash(p)
      PROVE  IInv'
  BY <1>1, PodStepKeeps
<1>2. ASSUME NEW p \in Pods, NEW k \in Slots, CmdStep(p, k) \/ CmdFault(p, k)
      PROVE  IInv'
  BY <1>2, CmdStepKeeps
<1>3. CASE Rebalance
  <2>1. Executions'
    BY <1>3, NobodyMoves DEF Rebalance, stores
  <2>2. Mishaps'
    BY <1>3, FaultCounted DEF Rebalance, Faults
  <2> QED BY <1>3, <2>1, <2>2, StoresKept DEF IInv, Kafka, Rebalance
<1>4. ASSUME NEW e \in Events, Lapse(e) PROVE IInv'
  <2>1. Executions'
    BY <1>4, NobodyMoves DEF Lapse
  <2>2. Stores' /\ ProcessedImpliesNotified' /\ AtMostOnePush'
    BY <1>4 DEF Lapse, IInv, Stores, ProcessedImpliesNotified, AtMostOnePush
  <2> QED BY <1>4, <2>1, <2>2 DEF IInv, Kafka, Mishaps, Lapse, kafka, mishaps
<1>5. CASE UNCHANGED vars
  <2>1. Executions'
    BY <1>5, NobodyMoves DEF vars, stores
  <2> QED BY <1>5, <2>1, StoresKept DEF IInv, Kafka, Mishaps, vars, kafka, mishaps
<1> QED BY <1>1, <1>2, <1>3, <1>4, <1>5 DEF Next

\* The inductive invariant holds in every reachable state: pods and the commands
\* they await fit, and of all executions of an event, abandoned ones included,
\* at most one is about to push it.
THEOREM Invariance == Spec => []IInv
<1>1. Init => IInv
  BY Initially
<1>2. IInv /\ [Next]_vars => IInv'
  BY Inductive
<1> QED BY <1>1, <1>2, PTL DEF Spec

\* Types, and a handling pod awaits a running command for the event it is at.
THEOREM TypeCorrect == Spec => []TypeOK
<1> QED BY Invariance, InvTypes, PTL

\* An event whose claim is done for good has its notification, however many
\* executions claimed, lost and marked it, and no event is pushed twice, whatever
\* is redelivered, retried, abandoned or lost.
THEOREM EventsNotifiedOnce == Spec => []NotifiedOnce
<1>1. IInv => NotifiedOnce
  BY DEF IInv, NotifiedOnce
<1> QED BY <1>1, Invariance, PTL

-----------------------------------------------------------------------------
(***************************************************************************)
(* Failed attempts are paid for.  A pod owes as many failures as attempts  *)
(* of its message have failed, and one for the awaited command that is     *)
(* about to release its claim; parking a message settles all of them.      *)
(***************************************************************************)

\* What a pod in state q with commands c owes.
Owes(q, c) ==
    IF q.pc = "handle"
    THEN q.attempt - 1 + (IF c[q.slot].pc = "release" THEN 1 ELSE 0)
    ELSE IF q.pc = "park" /\ Kind[Log[q.pos + 1]] = "good" THEN Attempts ELSE 0

Owed == [p \in Pods |-> Owes(pod[p], cmd[p])]

\* Only good events are handled, in attempts numbered from 1.
Handling(q) == q.pc = "handle" => q.attempt >= 1 /\ Kind[Log[q.pos + 1]] = "good"

\* A debt of n counts as n pairs.
Debts(f) == {d \in Pods \X (1..Attempts) : d[2] <= f[d[1]]}

Failures == faults["claim"] + faults["store"] + faults["timeout"]

Settled(parked) == Attempts * Cardinality(parked \cap GoodOffsets)

Paid == Settled(dlq) + Cardinality(Debts(Owed)) <= Failures

LEMMA DebtsFinite ==
    ASSUME NEW f
    PROVE  IsFiniteSet(Debts(f)) /\ Cardinality(Debts(f)) \in Nat
<1>1. IsFiniteSet(1..Attempts)
  BY ParametersAssumption, FS_Interval
<1>2. IsFiniteSet(Pods \X (1..Attempts))
  BY <1>1, ParametersAssumption, FS_Product
<1>3. IsFiniteSet(Debts(f))
  BY <1>2, FS_Subset DEF Debts
<1> QED BY <1>3, FS_CardinalityType

\* One pod's debt changes.
LEMMA DebtChanges ==
    ASSUME NEW f \in [Pods -> 0..Attempts], NEW g \in [Pods -> 0..Attempts], NEW p \in Pods,
           \A s \in Pods \ {p} : g[s] = f[s]
    PROVE  /\ g[p] <= f[p] => Cardinality(Debts(g)) <= Cardinality(Debts(f))
           /\ g[p] <= f[p] + 1 => Cardinality(Debts(g)) <= Cardinality(Debts(f)) + 1
           /\ f[p] = Attempts /\ g[p] = 0
                => Cardinality(Debts(g)) + Attempts = Cardinality(Debts(f))
<1>0. /\ Attempts \in Nat \ {0} /\ f[p] \in 0..Attempts /\ g[p] \in 0..Attempts
      /\ \A s \in Pods : f[s] \in 0..Attempts /\ g[s] \in 0..Attempts
  BY ParametersAssumption
<1>1. ASSUME g[p] <= f[p] PROVE Cardinality(Debts(g)) <= Cardinality(Debts(f))
  <2>1. Debts(g) \subseteq Debts(f)
    <3> SUFFICES ASSUME NEW d \in Pods \X (1..Attempts), d[2] <= g[d[1]] PROVE d[2] <= f[d[1]]
      BY DEF Debts
    <3>1. d[1] \in Pods /\ d[2] \in Nat
      BY <1>0
    <3> QED BY <1>0, <1>1, <3>1
  <2> QED BY <2>1, DebtsFinite, FS_Subset
<1>2. ASSUME g[p] <= f[p] + 1 PROVE Cardinality(Debts(g)) <= Cardinality(Debts(f)) + 1
  <2> DEFINE x == <<p, f[p] + 1>>
  <2>1. Debts(g) \subseteq Debts(f) \cup {x}
    <3> SUFFICES ASSUME NEW d \in Pods \X (1..Attempts), d[2] <= g[d[1]],
                        ~ (d[2] <= f[d[1]])
                 PROVE  d = x
      BY DEF Debts
    <3>1. d[1] \in Pods /\ d[2] \in Nat /\ d = <<d[1], d[2]>>
      BY <1>0
    <3>2. d[1] = p
      BY <1>0, <3>1
    <3>3. d[2] = f[p] + 1
      BY <1>0, <1>2, <3>1, <3>2
    <3> QED BY <3>1, <3>2, <3>3
  <2> HIDE DEF x
  <2>2. IsFiniteSet(Debts(f) \cup {x}) /\ Cardinality(Debts(f) \cup {x}) <= Cardinality(Debts(f)) + 1
    <3>1. IsFiniteSet(Debts(f)) /\ Cardinality(Debts(f)) \in Nat
      BY DebtsFinite
    <3>2. /\ IsFiniteSet(Debts(f) \cup {x})
          /\ Cardinality(Debts(f) \cup {x}) =
               IF x \in Debts(f) THEN Cardinality(Debts(f)) ELSE Cardinality(Debts(f)) + 1
      BY <3>1, FS_AddElement
    <3> QED BY <3>1, <3>2
  <2>3. Cardinality(Debts(g)) <= Cardinality(Debts(f) \cup {x})
        /\ Cardinality(Debts(f) \cup {x}) \in Nat
    BY <2>1, <2>2, FS_Subset, FS_CardinalityType
  <2> QED BY <2>2, <2>3, DebtsFinite
<1>3. ASSUME f[p] = Attempts, g[p] = 0
      PROVE  Cardinality(Debts(g)) + Attempts = Cardinality(Debts(f))
  <2> DEFINE all == {p} \X (1..Attempts)
  <2>1. /\ IsFiniteSet({p}) /\ Cardinality({p}) = 1
        /\ IsFiniteSet(1..Attempts) /\ Cardinality(1..Attempts) = Attempts
    <3>1. IsFiniteSet({p}) /\ Cardinality({p}) = 1
      BY FS_Singleton
    <3>2. /\ IsFiniteSet(1..Attempts)
          /\ Cardinality(1..Attempts) = IF 1 > Attempts THEN 0 ELSE Attempts - 1 + 1
      BY <1>0, FS_Interval
    <3> QED BY <3>1, <3>2, <1>0
  <2>2. IsFiniteSet(all) /\ Cardinality(all) = Attempts
    <3>1. IsFiniteSet(all) /\ Cardinality(all) = Cardinality({p}) * Cardinality(1..Attempts)
      BY <2>1, FS_Product
    <3>2. 1 * Attempts = Attempts
      BY <1>0
    <3> QED BY <2>1, <3>1, <3>2
  <2>3. Debts(f) = Debts(g) \cup all
    <3> SUFFICES ASSUME NEW d \in Pods \X (1..Attempts)
                 PROVE  d[2] <= f[d[1]] <=> d[2] <= g[d[1]] \/ d[1] = p
      BY DEF Debts
    <3>1. d[1] \in Pods /\ d[2] \in 1..Attempts
      OBVIOUS
    <3>2. CASE d[1] = p
      BY <1>0, <1>3, <3>1, <3>2
    <3>3. CASE d[1] # p
      BY <3>1, <3>3
    <3> QED BY <3>2, <3>3
  <2>4. Debts(g) \cap all = {}
    <3> SUFFICES ASSUME NEW d \in all, d[2] <= g[d[1]] PROVE FALSE
      BY DEF Debts
    <3>1. d[1] = p /\ d[2] \in 1..Attempts
      OBVIOUS
    <3> QED BY <1>0, <1>3, <3>1
  <2> HIDE DEF all
  <2>5. Cardinality(Debts(f)) = Cardinality(Debts(g)) + Cardinality(all) - Cardinality({})
    BY <2>2, <2>3, <2>4, DebtsFinite, FS_Union
  <2> QED BY <2>2, <2>5, FS_EmptySet, DebtsFinite, <1>0
<1> QED BY <1>1, <1>2, <1>3

PaidInv ==
    /\ \A p \in Pods : Handling(pod[p])
    /\ Paid

LEMMA OwedType ==
    ASSUME NEW q \in PodState, Handling(q), NEW c
    PROVE  Owes(q, c) \in 0..Attempts
BY ParametersAssumption DEF Owes, Handling, PodState

\* What parking settles.
LEMMA SettledType ==
    ASSUME NEW parked \in SUBSET (1..Len(Log))
    PROVE  /\ IsFiniteSet(parked \cap GoodOffsets)
           /\ Cardinality(parked \cap GoodOffsets) \in Nat /\ Settled(parked) \in Nat
<1>1. IsFiniteSet(1..Len(Log))
  BY LogEvents, FS_Interval
<1>2. IsFiniteSet(parked \cap GoodOffsets)
  BY <1>1, FS_Subset
<1>3. Cardinality(parked \cap GoodOffsets) \in Nat
  BY <1>2, FS_CardinalityType
<1>4. \A a, n \in Nat : a * n \in Nat
  OBVIOUS
<1> QED BY <1>2, <1>3, <1>4, ParametersAssumption DEF Settled

LEMMA OneMoreSettled ==
    ASSUME NEW parked \in SUBSET (1..Len(Log)), NEW i \in 1..Len(Log)
    PROVE  Settled(parked \cup {i}) <=
             Settled(parked) + (IF i \in GoodOffsets THEN Attempts ELSE 0)
<1> DEFINE D == parked \cap GoodOffsets
           n == Cardinality(D)
<1>1. IsFiniteSet(D) /\ n \in Nat
  BY SettledType
<1>2. CASE i \notin GoodOffsets
  <2>1. (parked \cup {i}) \cap GoodOffsets = D
    BY <1>2
  <2>2. Settled(parked \cup {i}) = Settled(parked)
    BY <2>1 DEF Settled
  <2>3. \A k \in Nat : k <= k + 0
    OBVIOUS
  <2> QED BY <2>2, <2>3, <1>2, SettledType
<1>3. CASE i \in GoodOffsets
  <2>1. (parked \cup {i}) \cap GoodOffsets = D \cup {i}
    BY <1>3
  <2> HIDE DEF D
  <2>2. Cardinality(D \cup {i}) = IF i \in D THEN n ELSE n + 1
    BY <1>1, FS_AddElement
  <2> HIDE DEF n
  <2>3. \A a, m \in Nat : a * (m + 1) = a * m + a /\ a * m \in Nat /\ a * m <= a * m + a
    OBVIOUS
  <2>4. Settled(parked) = Attempts * n
    BY DEF Settled, n, D
  <2>5. Settled(parked \cup {i}) = Attempts * n \/ Settled(parked \cup {i}) = Attempts * (n + 1)
    BY <2>1, <2>2 DEF Settled
  <2>6. Attempts \in Nat
    BY ParametersAssumption
  <2>7. /\ Attempts * (n + 1) = Attempts * n + Attempts
        /\ Attempts * n \in Nat /\ Attempts * n <= Attempts * n + Attempts
    BY <1>1, <2>3, <2>6
  <2> QED BY <2>4, <2>5, <2>6, <2>7, <1>3
<1> QED BY <1>2, <1>3

\* One pod and its commands go on; the failure, if any, pays.
LEMMA PaidOn ==
    ASSUME IInv, PaidInv, NEW p \in Pods, NEW q \in PodState, NEW c,
           pod' = [pod EXCEPT ![p] = q], cmd' = [cmd EXCEPT ![p] = c], Handling(q),
           \/ dlq' = dlq /\ Owes(q, c) <= Owes(pod[p], cmd[p]) /\ faults' = faults
           \/ dlq' = dlq /\ Owes(q, c) <= Owes(pod[p], cmd[p]) + 1
              /\ faults' \in [Faults -> Nat] /\ Failures' = Failures + 1
           \/ dlq' = dlq /\ Owes(q, c) <= Owes(pod[p], cmd[p])
              /\ faults' \in [Faults -> Nat] /\ Failures' = Failures
           \/ /\ pod[p].pc = "park" /\ pod[p].pos < Len(Log) /\ Owes(q, c) = 0
              /\ dlq' \in {dlq, dlq \cup {pod[p].pos + 1}}
              /\ faults' \in [Faults -> Nat] /\ Failures' = Failures
    PROVE  PaidInv'
<1>0. /\ pod \in [Pods -> PodState] /\ cmd \in [Pods -> [Slots -> CmdState]]
      /\ \A s \in Pods : Handling(pod[s])
      /\ faults \in [Faults -> Nat] /\ dlq \in SUBSET (1..Len(Log)) /\ Attempts \in Nat
      /\ Paid
  BY ParametersAssumption DEF IInv, Executions, Kafka, Mishaps, PaidInv
<1>1. /\ \A s \in Pods : pod'[s] = IF s = p THEN q ELSE pod[s]
      /\ \A s \in Pods : cmd'[s] = IF s = p THEN c ELSE cmd[s]
      /\ pod' \in [Pods -> PodState]
  BY <1>0
<1>2. \A s \in Pods : Handling(pod'[s])
  BY <1>0, <1>1
<1> DEFINE f == Owed
           g == [s \in Pods |-> Owes(pod'[s], cmd'[s])]
<1>3. Owed' = g
  BY DEF Owed
<1>4. f \in [Pods -> 0..Attempts] /\ g \in [Pods -> 0..Attempts]
  BY <1>0, <1>1, <1>2, OwedType DEF Owed
<1>5. /\ f[p] = Owes(pod[p], cmd[p]) /\ g[p] = Owes(q, c)
      /\ \A s \in Pods \ {p} : g[s] = f[s]
  BY <1>1 DEF Owed
<1>6. /\ Cardinality(Debts(f)) \in Nat /\ Cardinality(Debts(g)) \in Nat
      /\ Settled(dlq) \in Nat /\ Failures \in Nat
      /\ Settled(dlq) + Cardinality(Debts(f)) <= Failures
  <2>1. faults["claim"] \in Nat /\ faults["store"] \in Nat /\ faults["timeout"] \in Nat
    BY <1>0 DEF Faults
  <2>2. Failures \in Nat
    BY <2>1 DEF Failures
  <2>3. Settled(dlq) + Cardinality(Debts(f)) <= Failures
    BY <1>0 DEF Paid
  <2> HIDE DEF f, g
  <2> QED BY <1>0, <2>2, <2>3, DebtsFinite, SettledType
<1> HIDE DEF f, g
<1>7. /\ g[p] <= f[p] => Cardinality(Debts(g)) <= Cardinality(Debts(f))
      /\ g[p] <= f[p] + 1 => Cardinality(Debts(g)) <= Cardinality(Debts(f)) + 1
      /\ f[p] = Attempts /\ g[p] = 0
           => Cardinality(Debts(g)) + Attempts = Cardinality(Debts(f))
  BY <1>4, <1>5, DebtChanges
<1>8. Settled(dlq') + Cardinality(Debts(g)) <= Failures'
  <2>1. CASE dlq' = dlq /\ Owes(q, c) <= Owes(pod[p], cmd[p]) /\ Failures' = Failures
    BY <1>5, <1>6, <1>7, <2>1
  <2>2. CASE dlq' = dlq /\ Owes(q, c) <= Owes(pod[p], cmd[p]) + 1 /\ Failures' = Failures + 1
    BY <1>5, <1>6, <1>7, <2>2
  <2>3. CASE /\ pod[p].pc = "park" /\ pod[p].pos < Len(Log) /\ Owes(q, c) = 0
             /\ dlq' \in {dlq, dlq \cup {pod[p].pos + 1}} /\ Failures' = Failures
    <3> DEFINE i == pod[p].pos + 1
    <3>1. i \in 1..Len(Log) /\ pod[p].pos \in Nat
      BY <2>3, <1>0, LogEvents DEF PodState
    <3>2. f[p] = IF i \in GoodOffsets THEN Attempts ELSE 0
      BY <2>3, <1>5, <3>1 DEF Owes, GoodOffsets
    <3> HIDE DEF i
    <3>3. Settled(dlq') \in Nat /\ Settled(dlq') <= Settled(dlq) + f[p]
      <4>1. Settled(dlq \cup {i}) <= Settled(dlq) + f[p] /\ Settled(dlq \cup {i}) \in Nat
        BY <1>0, <3>1, <3>2, OneMoreSettled, SettledType
      <4>2. Settled(dlq) <= Settled(dlq) + f[p]
        BY <1>0, <1>6, <3>2
      <4> QED BY <2>3, <4>1, <4>2, <1>6 DEF i
    <3>4. g[p] = 0
      BY <2>3, <1>5
    <3> QED BY <1>0, <1>6, <1>7, <2>3, <3>2, <3>3, <3>4
  <2>4. faults' = faults => Failures' = Failures
    BY DEF Failures
  <2> QED BY <2>1, <2>2, <2>3, <2>4
<1> QED BY <1>2, <1>3, <1>8 DEF PaidInv, Paid

\* A fault counts if it fails an attempt.
LEMMA FaultPays ==
    ASSUME IInv, NEW f \in Faults, Fault(f)
    PROVE  /\ faults' \in [Faults -> Nat]
           /\ Failures' = Failures + (IF f \in {"claim", "store", "timeout"} THEN 1 ELSE 0)
<1>1. faults \in [Faults -> Nat] /\ faults' = [faults EXCEPT ![f] = @ + 1]
  BY DEF IInv, Mishaps, Fault
<1>2. \A g \in Faults : faults'[g] = (IF g = f THEN faults[g] + 1 ELSE faults[g])
                        /\ faults[g] \in Nat
  BY <1>1
<1> QED BY <1>1, <1>2 DEF Failures, Faults

\* The awaited attempt fails: it owes as many failures as it has made attempts.
LEMMA AttemptOwes ==
    ASSUME IInv, PaidInv, NEW p \in Pods, NEW k \in Slots, pod[p].pc = "handle",
           NEW s \in [Slots -> CmdState], AttemptFailed(p, k, [cmd EXCEPT ![p] = s])
    PROVE  \E q \in PodState, c \in [Slots -> CmdState] :
             /\ pod' = [pod EXCEPT ![p] = q] /\ cmd' = [cmd EXCEPT ![p] = c]
             /\ Handling(q) /\ Owes(q, c) <= pod[p].attempt
<1> DEFINE e == Current(p)
<1>1. pod[p].pos < Len(Log) /\ e \in Events /\ p \in DOMAIN pod /\ p \in DOMAIN cmd
      /\ pod[p].attempt >= 1 /\ pod[p].attempt \in 0..Attempts
      /\ Kind[Log[pod[p].pos + 1]] = "good" /\ pod[p] \in PodState
  BY PodFacts DEF PodOK, IInv, Executions, PaidInv, Handling
<1>2. CASE MayRetry(pod[p])
  <2> DEFINE c == [s EXCEPT ![k] = Started(e)]
             r == [pod[p] EXCEPT !.attempt = @ + 1]
             q == [r EXCEPT !.slot = k]
  <2>1. r \in PodState /\ r.pc = "handle" /\ r.pos = pod[p].pos /\ r.attempt = pod[p].attempt + 1
    <3>1. pod[p].attempt + 1 \in 0..Attempts
      BY <1>1, <1>2, ParametersAssumption, SMT DEF MayRetry
    <3> QED BY <3>1, <1>1 DEF PodState
  <2> HIDE DEF r
  <2>2. q \in PodState /\ q.pc = "handle" /\ q.slot = k /\ q.pos = pod[p].pos
        /\ q.attempt = pod[p].attempt + 1
    BY <2>1 DEF PodState
  <2>3. c \in [Slots -> CmdState] /\ c[k] = Started(e)
    BY <1>1, ValueTypes
  <2>4. /\ pod' = [pod EXCEPT ![p] = q]
        /\ cmd' = [cmd EXCEPT ![p] = c]
    <3>1. /\ pod' = [pod EXCEPT ![p].attempt = @ + 1, ![p].slot = k]
          /\ cmd' = [[cmd EXCEPT ![p] = s] EXCEPT ![p][k] = Started(e)]
      BY <1>2 DEF AttemptFailed
    <3> QED BY <1>1, <3>1 DEF r
  <2> HIDE DEF q, c
  <2>5. c[k].pc = "claim"
    BY <2>3, <1>1, ValueTypes
  <2>6. Handling(q) /\ Owes(q, c) <= pod[p].attempt
    BY <1>1, <2>2, <2>5 DEF Handling, Owes
  <2> QED BY <2>2, <2>3, <2>4, <2>6
<1>3. CASE ~ MayRetry(pod[p])
  <2> DEFINE q == [pod[p] EXCEPT !.pc = "park"]
  <2>1. q \in PodState /\ q.pc = "park" /\ q.pos = pod[p].pos
    BY <1>1 DEF PodState
  <2>2. /\ pod' = [pod EXCEPT ![p] = q]
        /\ cmd' = [cmd EXCEPT ![p] = s]
    BY <1>1, <1>3 DEF AttemptFailed
  <2> HIDE DEF q
  <2>3. Handling(q) /\ Owes(q, s) <= pod[p].attempt
    BY <1>1, <1>3, <2>1, ParametersAssumption DEF Handling, Owes, MayRetry
  <2> QED BY <2>1, <2>2, <2>3
<1> QED BY <1>2, <1>3

\* A command throws; only the awaited one has failed an attempt.
LEMMA ThrowOwes ==
    ASSUME IInv, PaidInv, NEW p \in Pods, NEW k \in Slots, Throw(p, k)
    PROVE  \E q \in PodState, c \in [Slots -> CmdState] :
             /\ pod' = [pod EXCEPT ![p] = q] /\ cmd' = [cmd EXCEPT ![p] = c] /\ Handling(q)
             /\ Owes(q, c) <= Owes(pod[p], cmd[p]) + 1
             /\ cmd[p][k].pc = "release" => Owes(q, c) <= Owes(pod[p], cmd[p])
<1> DEFINE s == [cmd[p] EXCEPT ![k] = Off]
<1>1. s \in [Slots -> CmdState] /\ \A j \in Slots : s[j] = IF j = k THEN Off ELSE cmd[p][j]
  BY ValueTypes, PodFacts
<1>2. [cmd EXCEPT ![p][k] = Off] = [cmd EXCEPT ![p] = s]
  BY DEF IInv, Executions
<1>3. /\ pod[p] \in PodState /\ Handling(pod[p]) /\ pod[p].attempt \in 0..Attempts
      /\ Owes(pod[p], cmd[p]) \in 0..Attempts /\ Attempts \in Nat
  BY PodFacts, OwedType, ParametersAssumption DEF PaidInv
<1> HIDE DEF s
<1>4. CASE Awaited(p, k)
  <2>1. AttemptFailed(p, k, [cmd EXCEPT ![p] = s]) /\ pod[p].pc = "handle"
    BY <1>2, <1>4 DEF Throw, Awaited
  <2>2. PICK q \in PodState, c \in [Slots -> CmdState] :
             /\ pod' = [pod EXCEPT ![p] = q] /\ cmd' = [cmd EXCEPT ![p] = c]
             /\ Handling(q) /\ Owes(q, c) <= pod[p].attempt
    BY <1>1, <2>1, AttemptOwes
  <2>3. /\ pod[p].attempt <= Owes(pod[p], cmd[p]) + 1
        /\ cmd[p][k].pc = "release" => pod[p].attempt <= Owes(pod[p], cmd[p])
    BY <1>3, <1>4, <2>1 DEF Owes, Awaited
  <2>4. Owes(q, c) \in 0..Attempts
    BY <2>2, OwedType
  <2>5. \A x, y, z \in Int : x <= y /\ y <= z => x <= z
    OBVIOUS
  <2>6. /\ Owes(q, c) <= Owes(pod[p], cmd[p]) + 1
        /\ cmd[p][k].pc = "release" => Owes(q, c) <= Owes(pod[p], cmd[p])
    <3> DEFINE x == Owes(q, c)
               y == pod[p].attempt
               z == Owes(pod[p], cmd[p])
    <3>1. x \in Int /\ y \in Int /\ z \in Int /\ z + 1 \in Int
      BY <1>3, <2>4
    <3>2. x <= y /\ y <= z + 1 /\ (cmd[p][k].pc = "release" => y <= z)
      BY <2>2, <2>3
    <3> HIDE DEF x, y, z
    <3>3. x <= z + 1 /\ (cmd[p][k].pc = "release" => x <= z)
      BY <2>5, <3>1, <3>2
    <3> QED BY <3>3 DEF x, z
  <2> QED BY <2>2, <2>6
<1>5. CASE ~ Awaited(p, k)
  <2>1. /\ pod' = [pod EXCEPT ![p] = pod[p]]
        /\ cmd' = [cmd EXCEPT ![p] = s]
    BY <1>2, <1>5 DEF Throw, IInv, Executions
  <2>2. Owes(pod[p], s) = Owes(pod[p], cmd[p])
    BY <1>1, <1>3, <1>5, PodFacts DEF Owes, Awaited
  <2>3. \A n \in 0..Attempts : n <= n /\ n <= n + 1
    BY <1>3
  <2> QED BY <1>1, <1>3, <2>1, <2>2, <2>3
<1> QED BY <1>4, <1>5

\* A command goes on to another label.
LEMMA GotoOwes ==
    ASSUME IInv, PaidInv, NEW p \in Pods, NEW k \in Slots, NEW label \in CmdPcs,
           Goto(p, k, label)
    PROVE  \E c \in [Slots -> CmdState] :
             /\ pod' = [pod EXCEPT ![p] = pod[p]] /\ cmd' = [cmd EXCEPT ![p] = c]
             /\ Owes(pod[p], c) <= Owes(pod[p], cmd[p]) + 1
             /\ label # "release" => Owes(pod[p], c) <= Owes(pod[p], cmd[p])
<1> DEFINE x == [cmd[p][k] EXCEPT !.pc = label]
           c == [cmd[p] EXCEPT ![k] = x]
<1>1. cmd[p][k] \in CmdState /\ pod[p] \in PodState /\ Handling(pod[p])
      /\ pod[p].slot \in Slots /\ Attempts \in Nat
  BY PodFacts, ParametersAssumption DEF PaidInv
<1>2. x \in CmdState /\ x.pc = label
  BY <1>1 DEF CmdState
<1>3. /\ pod' = [pod EXCEPT ![p] = pod[p]]
      /\ cmd' = [cmd EXCEPT ![p] = c]
  BY DEF Goto, IInv, Executions
<1> HIDE DEF x
<1>4. c \in [Slots -> CmdState] /\ \A j \in Slots : c[j] = IF j = k THEN x ELSE cmd[p][j]
  BY <1>2, PodFacts
<1> HIDE DEF c
<1>5. /\ Owes(pod[p], c) \in 0..Attempts /\ Owes(pod[p], cmd[p]) \in 0..Attempts
  BY <1>1, OwedType
<1>6. /\ Owes(pod[p], c) <= Owes(pod[p], cmd[p]) + 1
      /\ label # "release" => Owes(pod[p], c) <= Owes(pod[p], cmd[p])
  <2>1. CASE pod[p].pc = "handle"
    BY <1>1, <1>2, <1>4, <2>1 DEF Owes, PodState
  <2>2. CASE pod[p].pc # "handle"
    <3>1. Owes(pod[p], c) = Owes(pod[p], cmd[p])
      BY <2>2 DEF Owes
    <3> QED BY <3>1, <1>5
  <2> QED BY <2>1, <2>2
<1> QED BY <1>3, <1>4, <1>6

\* A command returns; nothing is owed for the message of the pod that awaits it.
LEMMA ReturnOwes ==
    ASSUME IInv, PaidInv, NEW p \in Pods, NEW k \in Slots, Return(p, k)
    PROVE  \E q \in PodState, c \in [Slots -> CmdState] :
             /\ pod' = [pod EXCEPT ![p] = q] /\ cmd' = [cmd EXCEPT ![p] = c] /\ Handling(q)
             /\ Owes(q, c) <= Owes(pod[p], cmd[p])
<1> DEFINE c == [cmd[p] EXCEPT ![k] = Off]
           q == IF Awaited(p, k) THEN Resolved(pod[p]) ELSE pod[p]
<1>1. c \in [Slots -> CmdState] /\ \A j \in Slots : c[j] = IF j = k THEN Off ELSE cmd[p][j]
  BY ValueTypes, PodFacts
<1>2. /\ pod' = [pod EXCEPT ![p] = q]
      /\ cmd' = [cmd EXCEPT ![p] = c]
  BY DEF Return, IInv, Executions
<1>3. pod[p] \in PodState /\ Handling(pod[p]) /\ Owes(pod[p], cmd[p]) \in 0..Attempts
      /\ pod[p].slot \in Slots /\ Attempts \in Nat
  BY PodFacts, OwedType, ParametersAssumption DEF PaidInv
<1>4. CASE Awaited(p, k)
  <2>1. q = Resolved(pod[p]) /\ pod[p].pos < Len(Log)
    BY <1>4, PodFacts DEF Awaited, PodOK
  <2>2. q \in PodState /\ q.pc = "poll"
    BY <2>1, PodFacts, ValueTypes
  <2> HIDE DEF q, c
  <2>3. Handling(q) /\ Owes(q, c) = 0
    BY <2>2 DEF Handling, Owes
  <2>4. \A n \in 0..Attempts : 0 <= n
    BY <1>3
  <2>5. Owes(q, c) <= Owes(pod[p], cmd[p])
    BY <1>3, <2>3, <2>4
  <2> QED BY <1>1, <1>2, <2>2, <2>3, <2>5
<1>5. CASE ~ Awaited(p, k)
  <2>1. q = pod[p]
    BY <1>5
  <2> HIDE DEF q, c
  <2>2. Owes(pod[p], c) = Owes(pod[p], cmd[p])
    BY <1>1, <1>3, <1>5 DEF Owes, Awaited
  <2>3. \A n \in 0..Attempts : n <= n
    BY <1>3
  <2> QED BY <1>1, <1>2, <1>3, <2>1, <2>2, <2>3
<1> QED BY <1>4, <1>5

-----------------------------------------------------------------------------
\* What an execution owes at least: nothing.
LEMMA OwesNat ==
    ASSUME IInv, PaidInv, NEW p \in Pods
    PROVE  /\ Owes(pod[p], cmd[p]) \in 0..Attempts
           /\ 0 <= Owes(pod[p], cmd[p])
           /\ Owes(pod[p], cmd[p]) <= Owes(pod[p], cmd[p])
<1>1. Owes(pod[p], cmd[p]) \in 0..Attempts
  BY PodFacts, OwedType DEF PaidInv
<1>2. \A n \in 0..Attempts : 0 <= n /\ n <= n
  BY ParametersAssumption
<1> QED BY <1>1, <1>2

\* Nothing that is owed or settled changes.
LEMMA PaidStays ==
    ASSUME IInv, PaidInv, UNCHANGED <<pod, cmd, dlq>>,
           faults' = faults \/ (faults' \in [Faults -> Nat] /\ Failures' = Failures)
    PROVE  PaidInv'
<1>1. Failures' = Failures
  BY DEF Failures
<1>2. Owed' = Owed
  BY DEF Owed
<1> QED BY <1>1, <1>2 DEF PaidInv, Paid

\* The steps of a pod.
LEMMA PodPays ==
    ASSUME IInv, PaidInv, NEW p \in Pods,
           PodStep(p) \/ Assign(p) \/ Timeout(p) \/ ParkFails(p) \/ Crash(p)
    PROVE  PaidInv'
<1>0. /\ pod[p] \in PodState /\ Handling(pod[p]) /\ pod[p].pos \in 0..Len(Log)
      /\ cmd[p] \in [Slots -> CmdState] /\ PodOK(pod[p], cmd[p])
      /\ Owes(pod[p], cmd[p]) \in 0..Attempts /\ 0 <= Owes(pod[p], cmd[p])
  BY PodFacts, OwesNat DEF PaidInv
<1>c. cmd = [cmd EXCEPT ![p] = cmd[p]]
  BY DEF IInv, Executions
<1>1. CASE Poll(p)
  <2> DEFINE e == Current(p)
             k == FreeSlot(p)
             q == Received(pod[p], Kind[e], k)
  <2>1. /\ pod[p].pc = "poll" /\ pod[p].pos < Len(Log) /\ e \in Events
        /\ pod' = [pod EXCEPT ![p] = q] /\ dlq' = dlq /\ faults' = faults
    BY <1>1, PodFacts DEF Poll, mishaps
  <2>2. k \in Slots /\ cmd[p][k].pc = "off"
    BY <1>0, <2>1 DEF PodOK, FreeSlot
  <2>3. Owes(pod[p], cmd[p]) = 0
    BY <2>1 DEF Owes
  <2>4. CASE Kind[e] = "good"
    <3> DEFINE c == [cmd[p] EXCEPT ![k] = Started(e)]
               r == [pc |-> "handle", pos |-> pod[p].pos, attempt |-> 1, slot |-> k]
    <3>1. q = r
      BY <1>0, <2>4 DEF Received, PodState
    <3>2. r \in PodState
      BY <1>0, <2>2, ParametersAssumption DEF PodState
    <3>3. c \in [Slots -> CmdState] /\ c[k].pc = "claim"
      BY <2>1, <2>2, ValueTypes, PodFacts
    <3>4. cmd' = [cmd EXCEPT ![p] = c]
      BY <1>1, <2>4 DEF Poll, IInv, Executions
    <3> HIDE DEF c, q
    <3>5. Handling(r) /\ Owes(r, c) = 0
      BY <2>4, <3>3 DEF Handling, Owes, Current
    <3> HIDE DEF r
    <3>6. Owes(r, c) <= Owes(pod[p], cmd[p])
      BY <2>3, <3>5
    <3> QED BY <2>1, <3>1, <3>2, <3>4, <3>5, <3>6, PaidOn
  <2>5. CASE Kind[e] # "good"
    <3>1. q \in PodState /\ q.pc # "handle" /\ (q.pc = "park" => q.pos = pod[p].pos)
      <4>1. CASE Kind[e] = "garbled"
        <5>1. q = [pod[p] EXCEPT !.pc = "park"]
          BY <4>1, SMT DEF Received
        <5> HIDE DEF q
        <5> QED BY <2>1, <5>1, PodFacts DEF PodState
      <4>2. CASE Kind[e] = "misfit"
        <5>1. q = Resolved(pod[p])
          BY <4>2, SMT DEF Received
        <5> HIDE DEF q
        <5> QED BY <2>1, <5>1, PodFacts, ValueTypes
      <4> QED BY <2>1, <2>5, <4>1, <4>2, ParametersAssumption DEF Kinds
    <3>2. cmd' = [cmd EXCEPT ![p] = cmd[p]]
      BY <1>1, <1>c, <2>5 DEF Poll
    <3> HIDE DEF q
    <3>3. Handling(q) /\ Owes(q, cmd[p]) = 0
      BY <2>5, <3>1 DEF Handling, Owes, Current
    <3>4. Owes(q, cmd[p]) <= Owes(pod[p], cmd[p])
      BY <2>3, <3>3
    <3> QED BY <2>1, <3>1, <3>2, <3>3, <3>4, PaidOn
  <2> QED BY <2>4, <2>5
<1>2. CASE Park(p) \/ ParkFails(p)
  <2>1. pod[p].pc = "park" /\ pod[p].pos < Len(Log) /\ cmd' = [cmd EXCEPT ![p] = cmd[p]]
        /\ dlq' \in {dlq, dlq \cup {pod[p].pos + 1}}
    BY <1>0, <1>2, <1>c DEF Park, ParkFails, PodOK
  <2>2. PICK q \in {Resolved(pod[p]), Refetched(pod[p])} : pod' = [pod EXCEPT ![p] = q]
    BY <1>2 DEF Park, ParkFails
  <2>3. q \in PodState /\ q.pc = "poll"
    BY <2>1, PodFacts, ValueTypes
  <2>4. Handling(q) /\ Owes(q, cmd[p]) = 0
    BY <2>3 DEF Handling, Owes
  <2>5. faults' \in [Faults -> Nat] /\ Failures' = Failures
    <3>1. CASE Park(p)
      BY <3>1 DEF Park, mishaps, Failures, IInv, Mishaps
    <3>2. CASE ParkFails(p)
      <4>1. Fault("park") /\ "park" \in Faults
        BY <3>2 DEF ParkFails, Faults
      <4>2. Failures' = Failures + 0 /\ faults' \in [Faults -> Nat]
        BY <4>1, FaultPays
      <4>3. Failures \in Nat
        BY DEF IInv, Mishaps, Failures, Faults
      <4>4. \A n \in Nat : n + 0 = n
        OBVIOUS
      <4> QED BY <4>2, <4>3, <4>4
    <3> QED BY <1>2, <3>1, <3>2
  <2> QED BY <2>1, <2>2, <2>3, <2>4, <2>5, PaidOn
<1>3. CASE Commit(p)
  BY <1>3, PaidStays DEF Commit, mishaps
<1>4. CASE Assign(p)
  <2> DEFINE q == [pod[p] EXCEPT !.pos = committed]
  <2>1. q \in PodState /\ q.pc = "poll"
    BY <1>4, PodFacts DEF PodState, Assign, IInv, Kafka
  <2>2. pod' = [pod EXCEPT ![p] = q] /\ cmd' = [cmd EXCEPT ![p] = cmd[p]]
        /\ dlq' = dlq /\ faults' = faults
    BY <1>4, <1>c DEF Assign, mishaps
  <2> HIDE DEF q
  <2>3. Handling(q) /\ Owes(q, cmd[p]) = 0
    BY <2>1 DEF Handling, Owes
  <2>4. Owes(q, cmd[p]) <= Owes(pod[p], cmd[p])
    BY <1>0, <2>3
  <2> QED BY <2>1, <2>2, <2>3, <2>4, PaidOn
<1>5. CASE Timeout(p)
  <2> DEFINE k == Other(pod[p].slot)
  <2>1. k \in Slots /\ pod[p].pc = "handle" /\ dlq' = dlq
    BY <1>5, PodFacts DEF Timeout, Other, Slots
  <2>2. AttemptFailed(p, k, [cmd EXCEPT ![p] = cmd[p]])
    BY <1>5, <1>c DEF Timeout
  <2> HIDE DEF k
  <2>3. PICK q \in PodState, c \in [Slots -> CmdState] :
             /\ pod' = [pod EXCEPT ![p] = q] /\ cmd' = [cmd EXCEPT ![p] = c]
             /\ Handling(q) /\ Owes(q, c) <= pod[p].attempt
    BY <1>0, <2>1, <2>2, AttemptOwes
  <2>4. pod[p].attempt <= Owes(pod[p], cmd[p]) + 1
    BY <1>0, <2>1, ParametersAssumption DEF Owes, PodState
  <2>5. Owes(q, c) \in 0..Attempts
    BY <2>3, OwedType
  <2>6. Owes(q, c) <= Owes(pod[p], cmd[p]) + 1
    <3> DEFINE x == Owes(q, c)
               y == pod[p].attempt
               z == Owes(pod[p], cmd[p])
    <3>1. x \in Int /\ y \in Int /\ z \in Int
      BY <1>0, <2>5, ParametersAssumption DEF PodState
    <3>2. x <= y /\ y <= z + 1
      BY <2>3, <2>4
    <3> HIDE DEF x, y, z
    <3>3. x <= z + 1
      BY <3>1, <3>2
    <3> QED BY <3>3 DEF x, z
  <2>7. faults' \in [Faults -> Nat] /\ Failures' = Failures + 1
    <3>1. Fault("timeout") /\ "timeout" \in Faults
      BY <1>5 DEF Timeout, Faults
    <3> QED BY <3>1, FaultPays
  <2> QED BY <2>1, <2>3, <2>6, <2>7, PaidOn
<1>6. CASE Crash(p)
  <2> DEFINE c == [k \in Slots |-> Off]
             q == Refetched(pod[p])
  <2>1. q \in PodState /\ q.pc = "poll"
    BY PodFacts, ValueTypes
  <2>2. pod' = [pod EXCEPT ![p] = q] /\ cmd' = [cmd EXCEPT ![p] = c] /\ dlq' = dlq
    BY <1>6 DEF Crash
  <2> HIDE DEF c, q
  <2>3. Handling(q) /\ Owes(q, c) = 0
    BY <2>1 DEF Handling, Owes
  <2>4. Owes(q, c) <= Owes(pod[p], cmd[p])
    BY <1>0, <2>3
  <2>5. faults' \in [Faults -> Nat] /\ Failures' = Failures
    <3>1. Fault("crash") /\ "crash" \in Faults
      BY <1>6 DEF Crash, Faults
    <3>2. Failures' = Failures + 0 /\ faults' \in [Faults -> Nat]
      BY <3>1, FaultPays
    <3>3. Failures \in Nat
      BY DEF IInv, Mishaps, Failures, Faults
    <3>4. \A n \in Nat : n + 0 = n
      OBVIOUS
    <3> QED BY <3>2, <3>3, <3>4
  <2> QED BY <2>1, <2>2, <2>3, <2>4, <2>5, PaidOn
<1> QED BY <1>1, <1>2, <1>3, <1>4, <1>5, <1>6 DEF PodStep

\* The steps of a command, and the calls in them that fail.
LEMMA CmdPays ==
    ASSUME IInv, PaidInv, NEW p \in Pods, NEW k \in Slots, CmdStep(p, k) \/ CmdFault(p, k)
    PROVE  PaidInv'
<1>0. pod[p] \in PodState /\ Handling(pod[p])
  BY PodFacts DEF PaidInv
<1>1. ASSUME NEW label \in CmdPcs \ {"release"}, Goto(p, k, label), UNCHANGED <<dlq, faults>>
      PROVE  PaidInv'
  <2>1. PICK c \in [Slots -> CmdState] :
             /\ pod' = [pod EXCEPT ![p] = pod[p]] /\ cmd' = [cmd EXCEPT ![p] = c]
             /\ Owes(pod[p], c) <= Owes(pod[p], cmd[p])
    BY <1>1, GotoOwes
  <2> QED BY <1>0, <1>1, <2>1, PaidOn
<1>2. ASSUME Return(p, k), UNCHANGED <<dlq, faults>> PROVE PaidInv'
  <2>1. PICK q \in PodState, c \in [Slots -> CmdState] :
             /\ pod' = [pod EXCEPT ![p] = q] /\ cmd' = [cmd EXCEPT ![p] = c] /\ Handling(q)
             /\ Owes(q, c) <= Owes(pod[p], cmd[p])
    BY <1>2, ReturnOwes
  <2> QED BY <1>2, <2>1, PaidOn
<1>3. CASE Claim(p, k)
  <2>1. \E label \in {"insert", "reclaim"} : Goto(p, k, label)
    BY <1>3 DEF Claim
  <2>2. UNCHANGED <<dlq, faults>>
    BY <1>3 DEF Claim, mishaps
  <2> QED BY <1>1, <2>1, <2>2 DEF CmdPcs
<1>4. CASE Reclaim(p, k)
  <2>1. Goto(p, k, "insert") \/ Return(p, k)
    BY <1>4 DEF Reclaim
  <2>2. UNCHANGED <<dlq, faults>>
    BY <1>4 DEF Reclaim, mishaps
  <2> QED BY <1>1, <1>2, <2>1, <2>2 DEF CmdPcs
<1>5. CASE Insert(p, k)
  <2>1. \E label \in {"announce", "mark"} : Goto(p, k, label)
    BY <1>5 DEF Insert
  <2>2. UNCHANGED <<dlq, faults>>
    BY <1>5 DEF Insert, mishaps
  <2> QED BY <1>1, <2>1, <2>2 DEF CmdPcs
<1>6. CASE Mark(p, k)
  <2>1. Goto(p, k, "push") \/ Return(p, k)
    BY <1>6 DEF Mark
  <2>2. UNCHANGED <<dlq, faults>>
    BY <1>6 DEF Mark, mishaps
  <2> QED BY <1>1, <1>2, <2>1, <2>2 DEF CmdPcs
<1>7. CASE Push(p, k)
  BY <1>2, <1>7 DEF Push, mishaps
<1>8. CASE StoreFails(p, k)
  <2>1. Goto(p, k, "release") /\ dlq' = dlq /\ Fault("store") /\ "store" \in Faults
    BY <1>8 DEF StoreFails, Faults
  <2>2. PICK c \in [Slots -> CmdState] :
             /\ pod' = [pod EXCEPT ![p] = pod[p]] /\ cmd' = [cmd EXCEPT ![p] = c]
             /\ Owes(pod[p], c) <= Owes(pod[p], cmd[p]) + 1
    BY <2>1, GotoOwes DEF CmdPcs
  <2>3. faults' \in [Faults -> Nat] /\ Failures' = Failures + 1
    BY <2>1, FaultPays
  <2> QED BY <1>0, <2>1, <2>2, <2>3, PaidOn
<1>9. CASE ClaimFails(p, k)
  <2>1. Throw(p, k) /\ dlq' = dlq /\ Fault("claim") /\ "claim" \in Faults
    BY <1>9 DEF ClaimFails, Faults
  <2>2. PICK q \in PodState, c \in [Slots -> CmdState] :
             /\ pod' = [pod EXCEPT ![p] = q] /\ cmd' = [cmd EXCEPT ![p] = c] /\ Handling(q)
             /\ Owes(q, c) <= Owes(pod[p], cmd[p]) + 1
    BY <2>1, ThrowOwes
  <2>3. faults' \in [Faults -> Nat] /\ Failures' = Failures + 1
    BY <2>1, FaultPays
  <2> QED BY <2>1, <2>2, <2>3, PaidOn
<1>10. CASE Release(p, k) \/ ReleaseFails(p, k)
  <2>1. Throw(p, k) /\ dlq' = dlq /\ cmd[p][k].pc = "release"
    BY <1>10 DEF Release, ReleaseFails
  <2>2. PICK q \in PodState, c \in [Slots -> CmdState] :
             /\ pod' = [pod EXCEPT ![p] = q] /\ cmd' = [cmd EXCEPT ![p] = c] /\ Handling(q)
             /\ Owes(q, c) <= Owes(pod[p], cmd[p])
    BY <2>1, ThrowOwes
  <2>3. faults' = faults \/ (faults' \in [Faults -> Nat] /\ Failures' = Failures)
    <3>1. CASE Release(p, k)
      BY <3>1 DEF Release, mishaps
    <3>2. CASE ReleaseFails(p, k)
      <4>1. Fault("release") /\ "release" \in Faults
        BY <3>2 DEF ReleaseFails, Faults
      <4>2. Failures' = Failures + 0 /\ faults' \in [Faults -> Nat]
        BY <4>1, FaultPays
      <4>3. Failures \in Nat
        BY DEF IInv, Mishaps, Failures, Faults
      <4>4. \A n \in Nat : n + 0 = n
        OBVIOUS
      <4> QED BY <4>2, <4>3, <4>4
    <3> QED BY <1>10, <3>1, <3>2
  <2> QED BY <2>1, <2>2, <2>3, PaidOn
<1> QED BY <1>3, <1>4, <1>5, <1>6, <1>7, <1>8, <1>9, <1>10 DEF CmdStep, CmdFault

\* Every step keeps the balance of failures and debts.
LEMMA PaidInductive == IInv /\ PaidInv /\ [Next]_vars => PaidInv'
<1> SUFFICES ASSUME IInv, PaidInv, [Next]_vars PROVE PaidInv'
  OBVIOUS
<1>1. ASSUME NEW p \in Pods,
             PodStep(p) \/ Assign(p) \/ Timeout(p) \/ ParkFails(p) \/ Crash(p)
      PROVE  PaidInv'
  BY <1>1, PodPays
<1>2. ASSUME NEW p \in Pods, NEW k \in Slots, CmdStep(p, k) \/ CmdFault(p, k)
      PROVE  PaidInv'
  BY <1>2, CmdPays
<1>3. CASE Rebalance
  <2>1. Fault("rebalance") /\ "rebalance" \in Faults
    BY <1>3 DEF Rebalance, Faults
  <2>2. Failures' = Failures + 0 /\ faults' \in [Faults -> Nat]
    BY <2>1, FaultPays
  <2>3. Failures \in Nat
    BY DEF IInv, Mishaps, Failures, Faults
  <2>4. \A n \in Nat : n + 0 = n
    OBVIOUS
  <2>5. Failures' = Failures
    BY <2>2, <2>3, <2>4
  <2> QED BY <1>3, <2>2, <2>5, PaidStays DEF Rebalance
<1>4. ASSUME NEW e \in Events, Lapse(e) PROVE PaidInv'
  BY <1>4, PaidStays DEF Lapse, mishaps
<1>5. CASE UNCHANGED vars
  BY <1>5, PaidStays DEF vars, mishaps
<1> QED BY <1>1, <1>2, <1>3, <1>4, <1>5 DEF Next

\* At the start nothing is owed and nothing parked.
LEMMA PaidInitially == Init => PaidInv
<1> SUFFICES ASSUME Init PROVE PaidInv
  OBVIOUS
<1>1. \A p \in Pods : pod[p].pc = "poll"
  BY DEF Init
<1>2. \A p \in Pods : Handling(pod[p]) /\ Owes(pod[p], cmd[p]) = 0
  BY <1>1 DEF Handling, Owes
<1>3. Owed = [p \in Pods |-> 0]
  BY <1>2 DEF Owed
<1>4. Debts(Owed) = {}
  BY <1>3 DEF Debts
<1>5. Failures = 0
  BY DEF Init, Failures, Faults
<1>6. dlq \cap GoodOffsets = {}
  BY DEF Init
<1>7. Attempts * 0 = 0
  BY ParametersAssumption
<1>8. Settled(dlq) = 0 /\ Cardinality(Debts(Owed)) = 0
  BY <1>4, <1>6, <1>7, FS_EmptySet DEF Settled
<1>9. Paid
  BY <1>5, <1>8 DEF Paid
<1> QED BY <1>2, <1>9 DEF PaidInv

LEMMA PaidParked == IInv /\ PaidInv => ParkedAfterAllAttempts
<1> SUFFICES ASSUME IInv, PaidInv PROVE Settled(dlq) <= Failures
  BY DEF ParkedAfterAllAttempts, Settled, Failures
<1>1. dlq \in SUBSET (1..Len(Log))
  BY DEF IInv, Kafka
<1>2. Settled(dlq) \in Nat /\ Cardinality(Debts(Owed)) \in Nat
  BY <1>1, SettledType, DebtsFinite
<1>3. Failures \in Nat
  BY DEF IInv, Mishaps, Failures, Faults
<1>4. Settled(dlq) + Cardinality(Debts(Owed)) <= Failures
  BY DEF PaidInv, Paid
<1> QED BY <1>2, <1>3, <1>4

-----------------------------------------------------------------------------
(***************************************************************************)
(* Nothing is lost to failing writes.  With no other fault one pod keeps   *)
(* the partition, it awaits every command that runs, and what is behind it *)
(* is handled; a claim without its notification belongs to that command.   *)
(***************************************************************************)

Working == {"insert", "release"}

AllAwaited ==
    /\ \A p \in Pods : p # owner => pod[p].pc = "poll"
    /\ \A p \in Pods, k \in Slots : cmd[p][k].pc # "off" => Awaited(p, k)

BehindHandled ==
    /\ owner = None => committed = 0
    /\ \A p \in Pods : p = owner =>
          /\ committed <= pod[p].pos
          /\ \A i \in GoodOffsets : i <= pod[p].pos => Handled(i)

ClaimsHeld ==
    /\ \A e \in Events : claims[e] # "none" /\ e \notin notified =>
          \E p \in Pods, k \in Slots : cmd[p][k].event = e /\ cmd[p][k].pc \in Working
    /\ \A p \in Pods, k \in Slots : cmd[p][k].pc = "reclaim" => cmd[p][k].event \in notified

Safe == AllAwaited /\ BehindHandled /\ ClaimsHeld

\* The owner and its commands go on; what the pod leaves behind is handled.
LEMMA OwnerGoesOn ==
    ASSUME IInv, Safe, NEW p \in Pods, p = owner, NEW q \in PodState,
           NEW c \in [Slots -> CmdState],
           pod' = [pod EXCEPT ![p] = q], cmd' = [cmd EXCEPT ![p] = c],
           UNCHANGED kafka, notified \subseteq notified', dlq \subseteq dlq',
           \A k \in Slots : c[k].pc # "off" => q.pc = "handle" /\ q.slot = k,
           \/ q.pos = pod[p].pos
           \/ /\ q.pos = pod[p].pos + 1
              /\ \/ pod[p].pos + 1 \notin GoodOffsets
                 \/ Log[pod[p].pos + 1] \in notified' \/ pod[p].pos + 1 \in dlq',
           \A e \in Events : claims'[e] # "none" /\ e \notin notified' =>
              \E k \in Slots : c[k].event = e /\ c[k].pc \in Working,
           \A k \in Slots : c[k].pc = "reclaim" => c[k].event \in notified'
    PROVE  Safe'
<1>1. /\ \A s \in Pods : pod'[s] = IF s = p THEN q ELSE pod[s]
      /\ \A s \in Pods : cmd'[s] = IF s = p THEN c ELSE cmd[s]
      /\ owner' = owner /\ committed' = committed
  BY DEF IInv, Executions, kafka
<1>2. AllAwaited'
  BY <1>1 DEF AllAwaited, Awaited, Safe
<1>3. BehindHandled'
  <2>1. owner' # None
    BY <1>1, ParametersAssumption
  <2>2. pod[p].pos \in Nat /\ q.pos \in Nat /\ committed \in Nat
    BY PodFacts DEF PodState, IInv, Kafka
  <2>3. committed <= pod[p].pos
    BY DEF Safe, BehindHandled
  <2>4. committed <= q.pos
    BY <2>2, <2>3
  <2>5. ASSUME NEW i \in GoodOffsets, i <= q.pos PROVE Handled(i)'
    <3>1. i \in Nat
      BY LogEvents DEF GoodOffsets
    <3>2. i <= pod[p].pos \/ (i = pod[p].pos + 1 /\ q.pos = pod[p].pos + 1)
      BY <2>2, <2>5, <3>1
    <3>3. Handled(i) => Handled(i)'
      BY DEF Handled
    <3>4. CASE i <= pod[p].pos
      BY <3>3, <3>4 DEF Safe, BehindHandled
    <3>5. CASE i = pod[p].pos + 1 /\ q.pos = pod[p].pos + 1
      <4>1. q.pos # pod[p].pos
        BY <2>2, <3>5
      <4>2. pod[p].pos + 1 \in GoodOffsets
        BY <2>5, <3>5
      <4>3. Log[pod[p].pos + 1] \in notified' \/ pod[p].pos + 1 \in dlq'
        BY <4>1, <4>2
      <4> QED BY <3>5, <4>3 DEF Handled
    <3> QED BY <3>2, <3>4, <3>5
  <2> QED BY <1>1, <2>1, <2>4, <2>5 DEF BehindHandled, GoodOffsets
<1>4. ClaimsHeld'
  <2>1. ASSUME NEW e \in Events, claims'[e] # "none", e \notin notified'
        PROVE  \E s \in Pods, k \in Slots : cmd'[s][k].event = e /\ cmd'[s][k].pc \in Working
    BY <1>1, <2>1
  <2>2. ASSUME NEW s \in Pods, NEW k \in Slots, cmd'[s][k].pc = "reclaim"
        PROVE  cmd'[s][k].event \in notified'
    BY <1>1, <2>2 DEF Safe, ClaimsHeld
  <2> QED BY <2>1, <2>2 DEF ClaimsHeld
<1> QED BY <1>2, <1>3, <1>4 DEF Safe

\* The command that runs is the owner's, and alone.
LEMMA OnlyCommand ==
    ASSUME IInv, Safe, NEW p \in Pods, NEW k \in Slots, cmd[p][k].pc # "off"
    PROVE  /\ p = owner /\ pod[p].pc = "handle" /\ pod[p].slot = k
           /\ pod[p].pos < Len(Log)
           /\ cmd[p][k].event = Current(p) /\ Current(p) \in Events
           /\ \A j \in Slots : j # k => cmd[p][j].pc = "off"
           /\ \A e \in Events : claims[e] # "none" /\ e \notin notified =>
                 e = cmd[p][k].event /\ cmd[p][k].pc \in Working
<1>1. Awaited(p, k) /\ \A s \in Pods, j \in Slots : cmd[s][j].pc # "off" => Awaited(s, j)
  BY DEF Safe, AllAwaited
<1>2. /\ p = owner /\ pod[p].pc = "handle" /\ pod[p].slot = k
      /\ \A s \in Pods, j \in Slots : cmd[s][j].pc # "off" => s = p /\ j = k
  BY <1>1 DEF Awaited, Safe, AllAwaited
<1>3. /\ pod[p].pos < Len(Log)
      /\ cmd[p][k].event = Current(p) /\ Current(p) \in Events
  BY <1>2, PodFacts DEF PodOK, Current
<1>4. ASSUME NEW e \in Events, claims[e] # "none", e \notin notified
      PROVE  e = cmd[p][k].event /\ cmd[p][k].pc \in Working
  <2>1. PICK s \in Pods, j \in Slots : cmd[s][j].event = e /\ cmd[s][j].pc \in Working
    BY <1>4 DEF Safe, ClaimsHeld
  <2>2. s = p /\ j = k
    BY <1>2, <2>1 DEF Working
  <2> QED BY <2>1, <2>2
<1> QED BY <1>2, <1>3, <1>4

\* The command goes on to another label.
LEMMA CommandGoesOn ==
    ASSUME IInv, Safe, NEW p \in Pods, NEW k \in Slots, cmd[p][k].pc # "off",
           NEW label \in CmdPcs, Goto(p, k, label),
           UNCHANGED <<kafka, dlq>>, notified \subseteq notified',
           \A e \in Events : e # cmd[p][k].event => claims'[e] = claims[e],
           claims'[cmd[p][k].event] # "none" /\ cmd[p][k].event \notin notified'
              => label \in Working,
           label = "reclaim" => cmd[p][k].event \in notified'
    PROVE  Safe'
<1> DEFINE x == [cmd[p][k] EXCEPT !.pc = label]
           c == [cmd[p] EXCEPT ![k] = x]
<1>1. cmd[p][k] \in CmdState
  BY PodFacts
<1>2. x \in CmdState /\ x.pc = label /\ x.event = cmd[p][k].event
  BY <1>1 DEF CmdState
<1>3. /\ pod' = [pod EXCEPT ![p] = pod[p]]
      /\ cmd' = [cmd EXCEPT ![p] = c]
  BY DEF Goto, IInv, Executions
<1> HIDE DEF x
<1>4. c \in [Slots -> CmdState] /\ \A j \in Slots : c[j] = IF j = k THEN x ELSE cmd[p][j]
  BY <1>2, PodFacts
<1> HIDE DEF c
<1>5. \A j \in Slots : c[j].pc # "off" => pod[p].pc = "handle" /\ pod[p].slot = j
  BY <1>4, OnlyCommand
<1>6. \A e \in Events : claims'[e] # "none" /\ e \notin notified' =>
              \E j \in Slots : c[j].event = e /\ c[j].pc \in Working
  BY <1>2, <1>4, OnlyCommand
<1>7. \A j \in Slots : c[j].pc = "reclaim" => c[j].event \in notified'
  BY <1>2, <1>4, OnlyCommand
<1>8. p = owner /\ pod[p] \in PodState
  BY OnlyCommand, PodFacts
<1> QED BY <1>3, <1>4, <1>5, <1>6, <1>7, <1>8, OwnerGoesOn

\* The command ends with its event notified, and the pod goes on to the next.
LEMMA CommandEnds ==
    ASSUME IInv, Safe, NEW p \in Pods, NEW k \in Slots, cmd[p][k].pc # "off", Return(p, k),
           UNCHANGED <<kafka, dlq>>, notified' = notified, cmd[p][k].event \in notified,
           \A e \in Events : e # cmd[p][k].event => claims'[e] = claims[e]
    PROVE  Safe'
<1> DEFINE c == [cmd[p] EXCEPT ![k] = Off]
           q == Resolved(pod[p])
<1>1. c \in [Slots -> CmdState] /\ \A j \in Slots : c[j] = IF j = k THEN Off ELSE cmd[p][j]
  BY ValueTypes, PodFacts
<1>2. Awaited(p, k)
  BY OnlyCommand DEF Awaited
<1>3. /\ pod' = [pod EXCEPT ![p] = q]
      /\ cmd' = [cmd EXCEPT ![p] = c]
  BY <1>2 DEF Return, IInv, Executions
<1>4. q \in PodState /\ q.pos = pod[p].pos + 1
  <2>1. q \in PodState
    BY OnlyCommand, PodFacts, ValueTypes
  <2>2. q.pos = pod[p].pos + 1
    BY DEF Resolved
  <2> QED BY <2>1, <2>2
<1> HIDE DEF c, q
<1>5. \A j \in Slots : c[j].pc = "off"
  BY <1>1, OnlyCommand, ValueTypes
<1>6. Log[pod[p].pos + 1] \in notified'
  BY OnlyCommand DEF Current
<1>7. \A e \in Events : claims'[e] # "none" => e \in notified'
  BY OnlyCommand
<1>8. /\ \A j \in Slots : c[j].pc # "off" => q.pc = "handle" /\ q.slot = j
      /\ \A j \in Slots : c[j].pc = "reclaim" => c[j].event \in notified'
  BY <1>5
<1>9. p = owner
  BY OnlyCommand
<1> QED BY <1>1, <1>3, <1>4, <1>6, <1>7, <1>8, <1>9, OwnerGoesOn

\* The command fails and has released its claim: another attempt, or the pod parks.
LEMMA CommandFails ==
    ASSUME IInv, Safe, NEW p \in Pods, NEW k \in Slots, cmd[p][k].pc # "off", Throw(p, k),
           UNCHANGED <<kafka, dlq>>, notified' = notified,
           claims' = Released(cmd[p][k].event)
    PROVE  Safe'
<1> DEFINE e == Current(p)
           s == [cmd[p] EXCEPT ![k] = Off]
<1>1. s \in [Slots -> CmdState] /\ \A j \in Slots : s[j] = IF j = k THEN Off ELSE cmd[p][j]
  BY ValueTypes, PodFacts
<1>2. \A j \in Slots : s[j].pc = "off"
  BY <1>1, OnlyCommand, ValueTypes
<1>3. Awaited(p, k) /\ pod[p].pc = "handle"
  BY OnlyCommand DEF Awaited
<1>4. [cmd EXCEPT ![p][k] = Off] = [cmd EXCEPT ![p] = s]
  BY DEF IInv, Executions
<1>5. AttemptFailed(p, k, [cmd EXCEPT ![p] = s])
  BY <1>3, <1>4 DEF Throw
<1>6. \A f \in Events : claims'[f] # "none" => f \in notified'
  <2>1. ASSUME NEW f \in Events, f # e, claims'[f] # "none" PROVE f \in notified'
    <3>1. claims'[f] = claims[f]
      BY <2>1, OnlyCommand DEF Released, IInv, Stores
    <3> QED BY <2>1, <3>1, OnlyCommand
  <2>2. claims'[e] # "none" => e \in notified'
    <3>1. claims'[e] # "none" => claims[e] = "done"
      BY OnlyCommand DEF Released, IInv, Stores
    <3> QED BY <3>1, OnlyCommand DEF IInv, ProcessedImpliesNotified
  <2> QED BY <2>1, <2>2
<1>7. /\ p \in DOMAIN pod /\ p \in DOMAIN cmd
      /\ pod[p] \in PodState /\ pod[p].attempt \in 0..Attempts
  BY PodFacts DEF IInv, Executions
<1> HIDE DEF s
<1>8. CASE MayRetry(pod[p])
  <2> DEFINE c == [s EXCEPT ![k] = Started(e)]
             r == [pod[p] EXCEPT !.attempt = @ + 1]
             q == [r EXCEPT !.slot = k]
  <2>1. r \in PodState /\ r.pc = "handle" /\ r.pos = pod[p].pos
    <3>1. pod[p].attempt + 1 \in 0..Attempts
      BY <1>7, <1>8, ParametersAssumption, SMT DEF MayRetry
    <3> QED BY <3>1, <1>3, <1>7 DEF PodState
  <2>2. /\ pod' = [pod EXCEPT ![p] = q]
        /\ cmd' = [cmd EXCEPT ![p] = c]
    <3>1. /\ pod' = [pod EXCEPT ![p].attempt = @ + 1, ![p].slot = k]
          /\ cmd' = [[cmd EXCEPT ![p] = s] EXCEPT ![p][k] = Started(e)]
      BY <1>5, <1>8 DEF AttemptFailed
    <3> QED BY <1>7, <3>1
  <2> HIDE DEF r
  <2>3. q \in PodState /\ q.pc = "handle" /\ q.slot = k /\ q.pos = pod[p].pos
    BY <2>1 DEF PodState
  <2>4. c \in [Slots -> CmdState] /\ \A j \in Slots : c[j] = IF j = k THEN Started(e) ELSE s[j]
    BY <1>1, OnlyCommand, ValueTypes
  <2> HIDE DEF q, c
  <2>5. \A j \in Slots : /\ c[j].pc # "off" => j = k
                         /\ c[j].pc # "reclaim"
    BY <1>2, <2>4, OnlyCommand, ValueTypes
  <2>6. /\ \A j \in Slots : c[j].pc # "off" => q.pc = "handle" /\ q.slot = j
        /\ \A j \in Slots : c[j].pc = "reclaim" => c[j].event \in notified'
    BY <2>3, <2>5
  <2>7. p = owner
    BY OnlyCommand
  <2> QED BY <1>6, <2>2, <2>3, <2>4, <2>6, <2>7, OwnerGoesOn
<1>9. CASE ~ MayRetry(pod[p])
  <2> DEFINE q == [pod[p] EXCEPT !.pc = "park"]
  <2>1. q \in PodState /\ q.pos = pod[p].pos
    BY <1>7 DEF PodState
  <2>2. /\ pod' = [pod EXCEPT ![p] = q]
        /\ cmd' = [cmd EXCEPT ![p] = s]
    BY <1>5, <1>7, <1>9 DEF AttemptFailed
  <2> HIDE DEF q
  <2>3. /\ \A j \in Slots : s[j].pc # "off" => q.pc = "handle" /\ q.slot = j
        /\ \A j \in Slots : s[j].pc = "reclaim" => s[j].event \in notified'
    BY <1>2
  <2>4. p = owner
    BY OnlyCommand
  <2> QED BY <1>1, <1>6, <2>1, <2>2, <2>3, <2>4, OwnerGoesOn
<1> QED BY <1>8, <1>9

\* Any other fault ends the assumption.
LEMMA HarmfulFault ==
    ASSUME IInv, NEW f \in Faults \ {"store", "park"}, Fault(f)
    PROVE  ~ Harmless'
<1>1. faults[f] \in Nat /\ faults' = [faults EXCEPT ![f] = @ + 1]
  BY DEF IInv, Mishaps, Fault
<1>2. faults'[f] = faults[f] + 1
  BY <1>1 DEF IInv, Mishaps
<1>3. \A n \in Nat : n + 1 # 0
  OBVIOUS
<1> QED BY <1>1, <1>2, <1>3 DEF Harmless

\* Faults are not forgotten.
LEMMA HarmlessBefore ==
    ASSUME IInv, faults' = faults \/ \E f \in Faults : Fault(f), Harmless'
    PROVE  Harmless
<1>1. CASE faults' = faults
  BY <1>1 DEF Harmless
<1>2. ASSUME NEW f \in Faults, Fault(f) PROVE Harmless
  <2>1. f \in {"store", "park"}
    BY <1>2, HarmfulFault
  <2>2. \A g \in Faults \ {"store", "park"} : faults'[g] = faults[g]
    BY <1>2, <2>1 DEF Fault, IInv, Mishaps
  <2> QED BY <2>2 DEF Harmless
<1> QED BY <1>1, <1>2

\* The steps of a pod.
LEMMA PodSafe ==
    ASSUME IInv, Safe, Harmless', NEW p \in Pods,
           PodStep(p) \/ Assign(p) \/ Timeout(p) \/ ParkFails(p) \/ Crash(p)
    PROVE  Safe'
<1>0. pod[p] \in PodState /\ PodOK(pod[p], cmd[p]) /\ cmd[p] \in [Slots -> CmdState]
  BY PodFacts
<1>c. cmd = [cmd EXCEPT ![p] = cmd[p]]
  BY DEF IInv, Executions
<1>i. pod[p].pc # "handle" =>
        /\ \A k \in Slots : cmd[p][k].pc = "off"
        /\ p = owner => \A e \in Events : claims[e] # "none" => e \in notified
  <2> SUFFICES ASSUME pod[p].pc # "handle"
               PROVE  /\ \A k \in Slots : cmd[p][k].pc = "off"
                      /\ p = owner => \A e \in Events : claims[e] # "none" => e \in notified
    OBVIOUS
  <2>1. \A k \in Slots : cmd[p][k].pc = "off"
    BY DEF Safe, AllAwaited, Awaited
  <2>2. ASSUME p = owner, NEW e \in Events, claims[e] # "none", e \notin notified PROVE FALSE
    <3>1. PICK s \in Pods, k \in Slots : cmd[s][k].event = e /\ cmd[s][k].pc \in Working
      BY <2>2 DEF Safe, ClaimsHeld
    <3>2. cmd[s][k].pc # "off"
      BY <3>1 DEF Working
    <3>3. s = owner
      BY <3>2, OnlyCommand
    <3> QED BY <2>1, <2>2, <3>2, <3>3
  <2> QED BY <2>1, <2>2
<1>1. CASE Poll(p)
  <2> DEFINE e == Current(p)
             k == FreeSlot(p)
             q == Received(pod[p], Kind[e], k)
  <2>1. /\ pod[p].pc = "poll" /\ pod[p].pos < Len(Log) /\ e \in Events /\ p = owner
        /\ pod' = [pod EXCEPT ![p] = q]
        /\ UNCHANGED <<kafka, claims, notified, dlq>>
    BY <1>1, PodFacts DEF Poll, stores
  <2>2. k \in Slots /\ cmd[p][k].pc = "off"
    BY <1>0, <2>1 DEF PodOK, FreeSlot
  <2>3. \A f \in Events : claims'[f] # "none" => f \in notified'
    BY <1>i, <2>1
  <2>4. CASE Kind[e] = "good"
    <3> DEFINE c == [cmd[p] EXCEPT ![k] = Started(e)]
               r == [pc |-> "handle", pos |-> pod[p].pos, attempt |-> 1, slot |-> k]
    <3>1. q = r
      BY <1>0, <2>4 DEF Received, PodState
    <3>2. r \in PodState /\ r.pos = pod[p].pos /\ r.pc = "handle" /\ r.slot = k
      BY <1>0, <2>2, ParametersAssumption DEF PodState
    <3>3. /\ c \in [Slots -> CmdState]
          /\ \A j \in Slots : c[j] = IF j = k THEN Started(e) ELSE cmd[p][j]
      BY <2>1, <2>2, ValueTypes, PodFacts
    <3>4. cmd' = [cmd EXCEPT ![p] = c]
      BY <1>1, <2>4 DEF Poll, IInv, Executions
    <3> HIDE DEF c, q, r
    <3>5. \A j \in Slots : /\ c[j].pc # "off" => j = k
                           /\ c[j].pc # "reclaim"
      BY <1>i, <2>1, <3>3, ValueTypes
    <3>6. /\ \A j \in Slots : c[j].pc # "off" => r.pc = "handle" /\ r.slot = j
          /\ \A j \in Slots : c[j].pc = "reclaim" => c[j].event \in notified'
      BY <3>2, <3>5
    <3>7. pod' = [pod EXCEPT ![p] = r] /\ notified \subseteq notified' /\ dlq \subseteq dlq'
      BY <2>1, <3>1
    <3> QED BY <2>1, <2>3, <3>2, <3>3, <3>4, <3>6, <3>7, OwnerGoesOn
  <2>5. CASE Kind[e] # "good"
    <3>1. /\ q \in PodState
          /\ q.pos = pod[p].pos \/ (q.pos = pod[p].pos + 1 /\ pod[p].pos + 1 \notin GoodOffsets)
      <4>1. CASE Kind[e] = "garbled"
        <5>1. q = [pod[p] EXCEPT !.pc = "park"]
          BY <4>1, SMT DEF Received
        <5> HIDE DEF q
        <5> QED BY <2>1, <5>1, PodFacts DEF PodState
      <4>2. CASE Kind[e] = "misfit"
        <5>1. q = Resolved(pod[p])
          BY <4>2, SMT DEF Received
        <5> HIDE DEF q
        <5>2. q \in PodState
          BY <2>1, <5>1, PodFacts, ValueTypes
        <5>3. q.pos = pod[p].pos + 1
          BY <5>1 DEF Resolved
        <5>4. pod[p].pos + 1 \notin GoodOffsets
          BY <2>5 DEF GoodOffsets, Current
        <5> QED BY <5>2, <5>3, <5>4
      <4> QED BY <2>1, <2>5, <4>1, <4>2, ParametersAssumption DEF Kinds
    <3>2. cmd' = [cmd EXCEPT ![p] = cmd[p]]
      BY <1>1, <1>c, <2>5 DEF Poll
    <3> HIDE DEF q
    <3>3. /\ \A j \in Slots : cmd[p][j].pc # "off" => q.pc = "handle" /\ q.slot = j
          /\ \A j \in Slots : cmd[p][j].pc = "reclaim" => cmd[p][j].event \in notified'
      BY <1>i, <2>1
    <3> QED BY <1>0, <2>1, <2>3, <3>1, <3>2, <3>3, OwnerGoesOn
  <2> QED BY <2>4, <2>5
<1>2. CASE Park(p) \/ ParkFails(p)
  <2>1. /\ pod[p].pc = "park" /\ pod[p].pos < Len(Log) /\ cmd' = [cmd EXCEPT ![p] = cmd[p]]
        /\ UNCHANGED <<kafka, claims, notified>> /\ dlq \subseteq dlq'
    BY <1>0, <1>2, <1>c DEF Park, ParkFails, PodOK, stores
  <2>2. p = owner
    BY <2>1 DEF Safe, AllAwaited
  <2>3. PICK q \in PodState :
             /\ pod' = [pod EXCEPT ![p] = q]
             /\ \/ q.pos = pod[p].pos
                \/ q.pos = pod[p].pos + 1 /\ pod[p].pos + 1 \in dlq'
    <3>1. CASE Park(p)
      <4> DEFINE q == Resolved(pod[p])
      <4>1. q \in PodState
        BY <2>1, PodFacts, ValueTypes
      <4>2. q.pos = pod[p].pos + 1
        BY DEF Resolved
      <4>3. pod' = [pod EXCEPT ![p] = q] /\ pod[p].pos + 1 \in dlq'
        BY <3>1 DEF Park
      <4> HIDE DEF q
      <4> QED BY <4>1, <4>2, <4>3
    <3>2. CASE ParkFails(p)
      <4> DEFINE q == Refetched(pod[p])
      <4>1. q \in PodState
        BY <2>1, PodFacts, ValueTypes
      <4>2. q.pos = pod[p].pos
        BY DEF Refetched
      <4>3. pod' = [pod EXCEPT ![p] = q]
        BY <3>2 DEF ParkFails
      <4> HIDE DEF q
      <4> QED BY <4>1, <4>2, <4>3
    <3> QED BY <1>2, <3>1, <3>2
  <2>5. \A f \in Events : claims'[f] # "none" => f \in notified'
    BY <1>i, <2>1, <2>2
  <2>6. /\ \A j \in Slots : cmd[p][j].pc # "off" => q.pc = "handle" /\ q.slot = j
        /\ \A j \in Slots : cmd[p][j].pc = "reclaim" => cmd[p][j].event \in notified'
    BY <1>i, <2>1
  <2> QED BY <1>0, <2>1, <2>2, <2>3, <2>5, <2>6, OwnerGoesOn
<1>3. CASE Commit(p)
  <2>1. /\ p = owner /\ owner' = owner /\ committed' = pod[p].pos
        /\ UNCHANGED <<pod, cmd, claims, notified, dlq>>
    BY <1>3 DEF Commit, stores
  <2>2. AllAwaited' /\ ClaimsHeld'
    BY <2>1 DEF Safe, AllAwaited, Awaited, ClaimsHeld
  <2>3. pod[p].pos \in Nat /\ \A n \in Nat : n <= n
    BY PodFacts, LogEvents
  <2>4. BehindHandled'
    BY <2>1, <2>3, ParametersAssumption DEF Safe, BehindHandled, Handled
  <2> QED BY <2>2, <2>4 DEF Safe
<1>4. CASE Assign(p)
  <2>1. /\ owner = None /\ owner' = p /\ committed' = committed /\ committed = 0
        /\ pod' = [pod EXCEPT ![p].pos = committed] /\ pod[p].pc = "poll"
        /\ UNCHANGED <<cmd, claims, notified, dlq>>
    BY <1>4 DEF Assign, stores, Safe, BehindHandled
  <2>2. /\ \A s \in Pods : pod'[s].pc = pod[s].pc /\ pod'[s].slot = pod[s].slot
        /\ pod'[p].pos = 0
    BY <1>0, <2>1 DEF IInv, Executions, PodState
  <2>3. AllAwaited'
    <3>1. \A s \in Pods : s # owner => pod[s].pc = "poll"
      BY DEF Safe, AllAwaited
    <3>2. \A s \in Pods : pod'[s].pc = "poll"
      BY <2>1, <2>2, <3>1, ParametersAssumption
    <3>3. \A s \in Pods, k \in Slots : cmd[s][k].pc = "off"
      BY <2>1, <3>1, ParametersAssumption DEF Safe, AllAwaited, Awaited
    <3> QED BY <2>1, <3>2, <3>3 DEF AllAwaited
  <2>4. ClaimsHeld'
    BY <2>1 DEF Safe, ClaimsHeld
  <2>5. BehindHandled'
    <3>1. \A i \in GoodOffsets : ~ (i <= 0)
      BY LogEvents DEF GoodOffsets
    <3>2. 0 <= 0
      OBVIOUS
    <3> QED BY <2>1, <2>2, <3>1, <3>2, ParametersAssumption DEF BehindHandled, GoodOffsets
  <2> QED BY <2>3, <2>4, <2>5 DEF Safe
<1>5. CASE Timeout(p) \/ Crash(p)
  <2>1. \E f \in Faults \ {"store", "park"} : Fault(f)
    BY <1>5 DEF Timeout, Crash, Faults
  <2> QED BY <2>1, HarmfulFault
<1> QED BY <1>1, <1>2, <1>3, <1>4, <1>5 DEF PodStep

\* The steps of a command, and the calls in them that fail.
LEMMA CmdSafe ==
    ASSUME IInv, Safe, Harmless', NEW p \in Pods, NEW k \in Slots,
           CmdStep(p, k) \/ CmdFault(p, k)
    PROVE  Safe'
<1> DEFINE e == cmd[p][k].event
<1>0. cmd[p][k].pc # "off"
  BY DEF CmdStep, CmdFault, Claim, Reclaim, Insert, Mark, Push, Release,
         ClaimFails, StoreFails, ReleaseFails
<1>1. /\ e \in Events /\ claims \in [Events -> {"none", "held", "lapsed", "done"}]
      /\ claims[e] # "none" /\ e \notin notified => cmd[p][k].pc \in Working
  BY <1>0, OnlyCommand DEF IInv, Stores
<1>2. cmd[p][k].pc \notin Early => e \in notified
  BY DEF IInv, Executions, CmdsOK
<1>3. /\ \A f \in Events : f # e => Claimed(e)[f] = claims[f] /\ Marked(e)[f] = claims[f]
  BY <1>1 DEF Claimed, Marked
<1> HIDE DEF e
<1>4. CASE Claim(p, k)
  <2>1. cmd[p][k].pc = "claim" /\ UNCHANGED <<kafka, dlq>> /\ notified' = notified
    BY <1>4 DEF Claim
  <2>2. CASE claims[e] = "none"
    <3>1. claims' = Claimed(e) /\ Goto(p, k, "insert")
      BY <1>4, <2>2 DEF Claim, e
    <3>2. "insert" \in CmdPcs /\ "insert" \in Working
      BY DEF CmdPcs, Working
    <3>3. \A f \in Events : f # e => claims'[f] = claims[f]
      BY <1>3, <3>1
    <3> QED BY <1>0, <2>1, <3>1, <3>2, <3>3, CommandGoesOn DEF e
  <2>3. CASE claims[e] # "none"
    <3>1. claims' = claims /\ Goto(p, k, "reclaim")
      BY <1>4, <2>3 DEF Claim, e
    <3>2. e \in notified /\ "reclaim" \in CmdPcs
      BY <1>1, <2>1, <2>3 DEF Working, CmdPcs
    <3> QED BY <1>0, <2>1, <3>1, <3>2, CommandGoesOn DEF e
  <2> QED BY <2>2, <2>3
<1>5. CASE Reclaim(p, k)
  <2>1. cmd[p][k].pc = "reclaim" /\ UNCHANGED <<kafka, dlq>> /\ notified' = notified
        /\ e \in notified
    BY <1>5 DEF Reclaim, Safe, ClaimsHeld, e
  <2>2. CASE claims[e] = "lapsed"
    <3>1. claims' = Claimed(e) /\ Goto(p, k, "insert")
      BY <1>5, <2>2 DEF Reclaim, e
    <3>2. "insert" \in CmdPcs /\ "insert" \in Working
      BY DEF CmdPcs, Working
    <3>3. \A f \in Events : f # e => claims'[f] = claims[f]
      BY <1>3, <3>1
    <3> QED BY <1>0, <2>1, <3>1, <3>2, <3>3, CommandGoesOn DEF e
  <2>3. CASE claims[e] # "lapsed"
    <3>1. claims' = claims /\ Return(p, k)
      BY <1>5, <2>3 DEF Reclaim, e
    <3> QED BY <1>0, <2>1, <3>1, CommandEnds DEF e
  <2> QED BY <2>2, <2>3
<1>6. CASE Insert(p, k)
  <2>1. UNCHANGED <<kafka, dlq>> /\ claims' = claims /\ notified' = notified \cup {e}
    BY <1>6 DEF Insert, e
  <2>2. PICK label \in {"announce", "mark"} : Goto(p, k, label)
    BY <1>6 DEF Insert
  <2>3. label \in CmdPcs /\ label # "reclaim"
    BY DEF CmdPcs
  <2> QED BY <1>0, <2>1, <2>2, <2>3, CommandGoesOn DEF e
<1>7. CASE Mark(p, k)
  <2>1. /\ cmd[p][k].pc \in {"announce", "mark"} /\ UNCHANGED <<kafka, dlq>>
        /\ notified' = notified /\ claims' = Marked(e)
    BY <1>7 DEF Mark, e
  <2>2. e \in notified
    BY <1>2, <2>1 DEF Early
  <2>3. \A f \in Events : f # e => claims'[f] = claims[f]
    BY <1>3, <2>1
  <2>4. CASE Goto(p, k, "push")
    <3>1. "push" \in CmdPcs
      BY DEF CmdPcs
    <3> QED BY <1>0, <2>1, <2>2, <2>3, <2>4, <3>1, CommandGoesOn DEF e
  <2>5. CASE Return(p, k)
    BY <1>0, <2>1, <2>2, <2>3, <2>5, CommandEnds DEF e
  <2> QED BY <1>7, <2>4, <2>5 DEF Mark
<1>8. CASE Push(p, k)
  <2>1. cmd[p][k].pc = "push" /\ UNCHANGED <<kafka, dlq, claims, notified>> /\ Return(p, k)
    BY <1>8 DEF Push
  <2>2. e \in notified
    BY <1>2, <2>1 DEF Early
  <2> QED BY <1>0, <2>1, <2>2, CommandEnds DEF e
<1>9. CASE StoreFails(p, k)
  <2>1. /\ UNCHANGED <<kafka, dlq>> /\ notified \subseteq notified' /\ Goto(p, k, "release")
        /\ claims' \in {claims, Marked(e)}
    BY <1>9 DEF StoreFails, e
  <2>2. \A f \in Events : f # e => claims'[f] = claims[f]
    BY <1>3, <2>1
  <2>3. "release" \in CmdPcs /\ "release" \in Working
    BY DEF CmdPcs, Working
  <2> QED BY <1>0, <2>1, <2>2, <2>3, CommandGoesOn DEF e
<1>10. CASE Release(p, k)
  BY <1>0, <1>10, CommandFails DEF Release
<1>11. CASE ClaimFails(p, k) \/ ReleaseFails(p, k)
  <2>1. \E f \in Faults \ {"store", "park"} : Fault(f)
    BY <1>11 DEF ClaimFails, ReleaseFails, Faults
  <2> QED BY <2>1, HarmfulFault
<1> QED BY <1>4, <1>5, <1>6, <1>7, <1>8, <1>9, <1>10, <1>11 DEF CmdStep, CmdFault

\* As long as no other fault has happened, every step keeps this.
LEMMA SafeInductive == IInv /\ (Harmless => Safe) /\ [Next]_vars => (Harmless' => Safe')
<1> SUFFICES ASSUME IInv, Harmless => Safe, [Next]_vars, Harmless' PROVE Safe'
  OBVIOUS
<1>0. faults' = faults \/ \E f \in Faults : Fault(f)
  <2>1. ASSUME NEW p \in Pods, PodStep(p) \/ Assign(p) PROVE faults' = faults
    BY <2>1 DEF PodStep, mishaps, Poll, Park, Commit, Assign
  <2>2. ASSUME NEW p \in Pods, Timeout(p) \/ ParkFails(p) \/ Crash(p)
        PROVE  \E f \in Faults : Fault(f)
    BY <2>2 DEF Faults, Timeout, ParkFails, Crash
  <2>3. ASSUME NEW p \in Pods, NEW k \in Slots, CmdStep(p, k) PROVE faults' = faults
    BY <2>3 DEF CmdStep, mishaps, Claim, Reclaim, Insert, Mark, Push, Release
  <2>4. ASSUME NEW p \in Pods, NEW k \in Slots, CmdFault(p, k) PROVE \E f \in Faults : Fault(f)
    BY <2>4 DEF CmdFault, Faults, ClaimFails, StoreFails, ReleaseFails
  <2>5. CASE Rebalance
    BY <2>5 DEF Rebalance, Faults
  <2>6. CASE (\E e \in Events : Lapse(e)) \/ UNCHANGED vars
    BY <2>6 DEF Lapse, vars, mishaps
  <2> QED BY <2>1, <2>2, <2>3, <2>4, <2>5, <2>6 DEF Next
<1>s. Safe
  BY <1>0, HarmlessBefore
<1>1. ASSUME NEW p \in Pods,
             PodStep(p) \/ Assign(p) \/ Timeout(p) \/ ParkFails(p) \/ Crash(p)
      PROVE  Safe'
  BY <1>s, <1>1, PodSafe
<1>2. ASSUME NEW p \in Pods, NEW k \in Slots, CmdStep(p, k) \/ CmdFault(p, k)
      PROVE  Safe'
  BY <1>s, <1>2, CmdSafe
<1>3. CASE Rebalance
  <2>1. \E f \in Faults \ {"store", "park"} : Fault(f)
    BY <1>3 DEF Rebalance, Faults
  <2> QED BY <2>1, HarmfulFault
<1>4. ASSUME NEW e \in Events, Lapse(e) PROVE Safe'
  <2>1. /\ UNCHANGED <<kafka, pod, cmd, notified, dlq>>
        /\ \A f \in Events : claims'[f] # "none" => claims[f] # "none"
    BY <1>4 DEF Lapse, IInv, Stores
  <2>2. ClaimsHeld'
    BY <1>s, <2>1 DEF Safe, ClaimsHeld
  <2>3. BehindHandled'
    BY <1>s, <2>1 DEF Safe, BehindHandled, Handled, kafka
  <2>4. AllAwaited'
    BY <1>s, <2>1 DEF Safe, AllAwaited, Awaited, kafka
  <2> QED BY <2>2, <2>3, <2>4 DEF Safe
<1>5. CASE UNCHANGED vars
  BY <1>s, <1>5 DEF vars, kafka, stores, Safe, AllAwaited, Awaited, ClaimsHeld,
                    BehindHandled, Handled
<1> QED BY <1>1, <1>2, <1>3, <1>4, <1>5 DEF Next

LEMMA SafeInitially == Init => Safe
<1> SUFFICES ASSUME Init PROVE Safe
  OBVIOUS
<1>1. \A p \in Pods, k \in Slots : pod[p].pc = "poll" /\ cmd[p][k] = Off
  BY DEF Init
<1>2. AllAwaited
  <2>1. Off.pc = "off"
    BY DEF Off
  <2>2. \A p \in Pods, k \in Slots : cmd[p][k].pc = "off"
    BY <1>1, <2>1
  <2>3. \A p \in Pods : pod[p].pc = "poll"
    BY DEF Init
  <2> QED BY <2>2, <2>3 DEF AllAwaited
<1>3. BehindHandled
  BY ParametersAssumption DEF Init, BehindHandled
<1>4. ClaimsHeld
  BY <1>1, ValueTypes DEF ClaimsHeld, Init
<1> QED BY <1>2, <1>3, <1>4 DEF Safe

LEMMA SafeLosesNothing == IInv /\ (Harmless => Safe) => TransientFaultsLoseNothing
<1> SUFFICES ASSUME IInv, Safe, NEW i \in GoodOffsets, i <= committed PROVE Handled(i)
  BY DEF TransientFaultsLoseNothing
<1>1. i \in Nat \ {0} /\ committed \in Nat
  BY LogEvents DEF GoodOffsets, IInv, Kafka
<1>2. owner \in Pods
  BY <1>1 DEF IInv, Kafka, Safe, BehindHandled
<1>3. committed <= pod[owner].pos /\ pod[owner].pos \in Nat
  BY <1>2, PodFacts DEF Safe, BehindHandled
<1>4. i <= pod[owner].pos
  BY <1>1, <1>3
<1> QED BY <1>2, <1>4 DEF Safe, BehindHandled

\* What becomes of an event whose handling fails: it is attempted again, parked
\* after as many failures as it has attempts, and neither parked early nor, when
\* only writes and publishes fail, lost behind the committed offset.
THEOREM FailuresRetried == Spec => []FailuresAreRetried
<1>1. Init => IInv /\ PaidInv /\ (Harmless => Safe)
  BY Initially, PaidInitially, SafeInitially
<1>2. IInv /\ PaidInv /\ (Harmless => Safe) /\ [Next]_vars
        => (IInv /\ PaidInv /\ (Harmless => Safe))'
  BY Inductive, PaidInductive, SafeInductive
<1>3. IInv /\ PaidInv /\ (Harmless => Safe) => FailuresAreRetried
  BY PaidParked, SafeLosesNothing DEF FailuresAreRetried
<1> QED BY <1>1, <1>2, <1>3, PTL DEF Spec
=============================================================================
