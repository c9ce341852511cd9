------------------------ MODULE WorkspaceMembers_proofs ------------------------
(***************************************************************************)
(* Proofs about WorkspaceMembers, and about Notices and Profiles, which    *)
(* run beside it, for any users, invitations, requests and bounds.  Each   *)
(* has its own variables, so each section stands by itself; the last one   *)
(* says what their composition keeps.                                      *)
(***************************************************************************)
EXTENDS MCWorkspaceMembers, FiniteSetTheorems, SequenceTheorems, TLAPS

Statuses == {"absent", "pending", "accepted", "rejected", "gone"}

\* What a request knows at the labels where it is about to write: its data, and
\* that it does not write to the owner's row of a living workspace.
RequestOK(q) ==
    /\ q.pc \in {"subject", "update"} => q.role \in GivenRoles
    /\ q.pc \in {"update", "delete"} /\ ws = "alive" /\ Owner \notin Admins => q.on # Owner
    /\ q.pc = "upsert" => q.on \in Admins
    /\ q.pc \in {"load", "save"} => q.invite \in Invites

\* Before the workspace is created there is nothing.
Nothing ==
    ws = "none" => /\ \A r \in Requests : req[r].pc = "idle"
                   /\ \A i \in Invites : invite[i] = "absent"
                   /\ \A u \in Users : role[u] = "none"

\* The invitation that brought somebody in has been answered for good.
Joined ==
    \A k \in DOMAIN outbox : outbox[k].type = "joined" =>
        /\ outbox[k].invite \in Invites
        /\ invite[outbox[k].invite] \in {"accepted", "rejected", "gone"}

IInv ==
    /\ TypeOK
    /\ Nothing
    /\ OwnerKept
    /\ \A r \in Requests : RequestOK(req[r])
    /\ Joined
    /\ OneJoinPerInvite

-----------------------------------------------------------------------------
(***************************************************************************)
(* The pieces steps are made of.                                           *)
(***************************************************************************)

LEMMA IdleOK == Idle \in Request /\ Idle.pc = "idle" /\ RequestOK(Idle)
<1>1. Owner \in Users
  BY ParametersAssumption
<1>2. Idle \in Request /\ Idle.pc = "idle"
  BY <1>1, SMT DEF Idle, Request, Labels, Roles
<1> QED BY <1>2, SMT DEF RequestOK

LEMMA IdleOKNext == RequestOK(Idle)'
<1>1. Idle.pc = "idle"
  BY IdleOK
<1> QED BY <1>1, SMT DEF RequestOK, Idle

\* A request at another label: nothing else about it changes.
LEMMA AtLabel ==
    ASSUME NEW q \in Request, NEW pc \in Labels
    PROVE  /\ [q EXCEPT !.pc = pc] \in Request
           /\ [q EXCEPT !.pc = pc].pc = pc
           /\ [q EXCEPT !.pc = pc].on = q.on
           /\ [q EXCEPT !.pc = pc].role = q.role
           /\ [q EXCEPT !.pc = pc].invite = q.invite
BY SMT DEF Request

\* One request changes, in a workspace that stays or is deleted.
LEMMA RequestMoves ==
    ASSUME IInv, NEW r \in Requests, NEW q \in Request,
           req' = [req EXCEPT ![r] = q], RequestOK(q)', ws' = ws \/ ws' = "deleted"
    PROVE  req' \in [Requests -> Request] /\ (\A s \in Requests : RequestOK(req[s]))'
<1>1. req \in [Requests -> Request] /\ \A s \in Requests : RequestOK(req[s])
  BY DEF IInv, TypeOK
<1>2. \A s \in Requests : req'[s] = IF s = r THEN q ELSE req[s]
  BY <1>1
<1>3. \A s \in Requests : RequestOK(req[s])'
  <2> SUFFICES ASSUME NEW s \in Requests PROVE RequestOK(req[s])'
    OBVIOUS
  <2>1. CASE s = r
    <3>1. req'[s] = q
      BY <2>1, <1>2
    <3> QED BY <3>1 DEF RequestOK
  <2>2. CASE s # r
    <3>1. req'[s] = req[s] /\ RequestOK(req[s])
      BY <2>2, <1>1, <1>2
    <3> QED BY <3>1, SMT DEF RequestOK
  <2> QED BY <2>1, <2>2
<1> QED BY <1>1, <1>2, <1>3

LEMMA Finished ==
    ASSUME IInv, NEW r \in Requests, Finish(r), ws' = ws \/ ws' = "deleted"
    PROVE  req' \in [Requests -> Request] /\ (\A s \in Requests : RequestOK(req[s]))'
BY IdleOK, IdleOKNext, RequestMoves DEF Finish

LEMMA Went ==
    ASSUME IInv, NEW r \in Requests, NEW pc \in Labels, Goto(r, pc), ws' = ws,
           RequestOK([req[r] EXCEPT !.pc = pc])
    PROVE  req' \in [Requests -> Request] /\ (\A s \in Requests : RequestOK(req[s]))'
<1>1. [req[r] EXCEPT !.pc = pc] \in Request
  BY AtLabel DEF IInv, TypeOK
<1>2. PICK q \in Request : q = [req[r] EXCEPT !.pc = pc]
  BY <1>1
<1>3. req' = [req EXCEPT ![r] = q]
  BY <1>2 DEF Goto
<1>4. RequestOK(q)
  BY <1>2
<1>5. RequestOK(q)'
  BY <1>4, SMT DEF RequestOK
<1> QED BY <1>3, <1>5, RequestMoves

\* Steps that change nothing but a request keep the invariant.
LEMMA RowsKept ==
    ASSUME IInv, rows' = rows, silent' = silent \/ silent' \in [Users -> Int],
           calls' \in 0..MaxCalls, stops' \in 0..MaxStops,
           req' \in [Requests -> Request], (\A s \in Requests : RequestOK(req[s]))',
           ws # "none"
    PROVE  IInv'
<1>1. /\ ws' = ws /\ role' = role /\ invite' = invite /\ expired' = expired
      /\ outbox' = outbox
  BY DEF rows
<1>2. TypeOK'
  BY <1>1 DEF IInv, TypeOK, UniqueKey
<1>3. Nothing' /\ OwnerKept' /\ Joined' /\ OneJoinPerInvite'
  BY <1>1 DEF IInv, Nothing, OwnerKept, OnlyOwner, Joined, OneJoinPerInvite
<1> QED BY <1>2, <1>3 DEF IInv

LEMMA Entered ==
    ASSUME IInv, NEW r \in Requests, NEW pc \in Labels, NEW by \in Users, NEW on \in Users,
           NEW i \in Invites \cup {None}, NEW held \in Roles \cup {"none"},
           Enter(r, pc, by, on, i, held), UNCHANGED <<rows, silent, stops>>,
           pc \in {"load", "save"} => i \in Invites,
           pc \in {"subject"} => held \in GivenRoles,
           pc = "upsert" => on \in Admins,
           pc \notin {"update", "delete"}
    PROVE  IInv'
<1> DEFINE q == [pc |-> pc, by |-> by, on |-> on, invite |-> i, role |-> held]
<1>1. q \in Request
  BY SMT DEF Request
<1>2. RequestOK(q)'
  BY SMT DEF RequestOK
<1>3. req' = [req EXCEPT ![r] = q] /\ ws # "none" /\ calls' = calls + 1 /\ calls < MaxCalls
  BY DEF Enter
<1> HIDE DEF q
<1>4. ws' = ws
  BY DEF rows
<1>5. req' \in [Requests -> Request] /\ (\A s \in Requests : RequestOK(req[s]))'
  BY <1>1, <1>2, <1>3, <1>4, RequestMoves
<1>6. calls' \in 0..MaxCalls /\ stops' \in 0..MaxStops
  BY <1>3, ParametersAssumption, SMT DEF IInv, TypeOK
<1> QED BY <1>3, <1>5, <1>6, RowsKept

LEMMA Checked ==
    ASSUME IInv, NEW r \in Requests, NEW next \in Labels, req[r].pc # "idle",
           \/ Goto(r, next) /\ RequestOK([req[r] EXCEPT !.pc = next])
           \/ Finish(r),
           UNCHANGED <<rows, silent, bounds>>
    PROVE  IInv'
<1>1. rows' = rows /\ silent' = silent /\ bounds' = bounds
  OBVIOUS
<1>2. ws # "none"
  BY DEF IInv, Nothing
<1>3. calls' \in 0..MaxCalls /\ stops' \in 0..MaxStops /\ ws' = ws
  BY <1>1 DEF bounds, IInv, TypeOK, rows
<1>4. req' \in [Requests -> Request] /\ (\A s \in Requests : RequestOK(req[s]))'
  BY <1>3, Went, Finished
<1> QED BY <1>1, <1>2, <1>3, <1>4, RowsKept

\* The events of the outbox.
LEMMA EventTypes ==
    /\ \A type \in {"created", "joined", "left"}, u \in Users, i \in Invites \cup {None} :
          /\ About(type, u, i) \in Event
          /\ About(type, u, i).type = type
          /\ About(type, u, i).invite = i
    /\ \A i \in Invites : /\ [type |-> "invited", invite |-> i] \in Event
                          /\ [type |-> "invited", invite |-> i].type # "joined"
    /\ [type |-> "deleted"] \in Event /\ [type |-> "deleted"].type # "joined"
<1>1. \A type \in {"created", "joined", "left"}, u \in Users, i \in Invites \cup {None} :
         /\ About(type, u, i) \in Event
         /\ About(type, u, i).type = type
         /\ About(type, u, i).invite = i
  BY SMT DEF About, Event
<1>2. \A i \in Invites : /\ [type |-> "invited", invite |-> i] \in Event
                         /\ [type |-> "invited", invite |-> i].type # "joined"
  BY SMT DEF Event
<1>3. [type |-> "deleted"] \in Event /\ [type |-> "deleted"].type # "joined"
  BY SMT DEF Event
<1> QED BY <1>1, <1>2, <1>3

LEMMA Appended ==
    ASSUME IInv, NEW e \in Event, outbox' = Append(outbox, e)
    PROVE  /\ outbox' \in Seq(Event)
           /\ DOMAIN outbox' = 1..(Len(outbox) + 1)
           /\ DOMAIN outbox = 1..Len(outbox) /\ Len(outbox) \in Nat
           /\ \A k \in DOMAIN outbox : outbox'[k] = outbox[k]
           /\ outbox'[Len(outbox) + 1] = e
<1>1. outbox \in Seq(Event)
  BY DEF IInv, TypeOK
<1> QED BY <1>1, AppendProperties, LenProperties, SMT

\* An answered invitation.
Settled(status) == status \in {"accepted", "rejected", "gone"}

\* What is said about joined rows survives every step that announces no other
\* joining and un-answers no invitation.
LEMMA JoinedKept ==
    ASSUME IInv,
           \/ outbox' = outbox
           \/ \E e \in Event : e.type # "joined" /\ outbox' = Append(outbox, e),
           \A i \in Invites : Settled(invite[i]) => Settled(invite'[i])
    PROVE  outbox' \in Seq(Event) /\ Joined' /\ OneJoinPerInvite'
<1>1. outbox' \in Seq(Event)
  BY Appended DEF IInv, TypeOK
<1>2. \A k \in DOMAIN outbox' : outbox'[k].type = "joined"
                                 => k \in DOMAIN outbox /\ outbox'[k] = outbox[k]
  <2>1. CASE outbox' = outbox
    BY <2>1
  <2>2. CASE \E e \in Event : e.type # "joined" /\ outbox' = Append(outbox, e)
    <3>1. PICK e \in Event : e.type # "joined" /\ outbox' = Append(outbox, e)
      BY <2>2
    <3>2. /\ DOMAIN outbox' = 1..(Len(outbox) + 1) /\ DOMAIN outbox = 1..Len(outbox)
          /\ Len(outbox) \in Nat
          /\ \A k \in DOMAIN outbox : outbox'[k] = outbox[k]
          /\ outbox'[Len(outbox) + 1] = e
      BY <3>1, Appended
    <3>3. \A k \in DOMAIN outbox' : k \in DOMAIN outbox \/ k = Len(outbox) + 1
      BY <3>2, SMT
    <3> QED BY <3>1, <3>2, <3>3
  <2> QED BY <2>1, <2>2
<1>3. Joined'
  BY <1>2 DEF IInv, Joined, Settled
<1>4. OneJoinPerInvite'
  BY <1>2 DEF IInv, OneJoinPerInvite
<1> QED BY <1>1, <1>3, <1>4

\* One invitation changes to a status none other of its address has.
LEMMA InviteMoves ==
    ASSUME IInv, NEW i \in Invites, NEW status \in Statuses,
           invite' = [invite EXCEPT ![i] = status],
           status \in {"pending", "accepted", "rejected"} => ~ OtherWith(i, status)
    PROVE  /\ invite' \in [Invites -> Statuses] /\ UniqueKey'
           /\ \A j \in Invites : invite'[j] = IF j = i THEN status ELSE invite[j]
<1>1. invite \in [Invites -> Statuses] /\ UniqueKey
  BY DEF IInv, TypeOK, Statuses
<1>2. \A j \in Invites : invite'[j] = IF j = i THEN status ELSE invite[j]
  BY <1>1
<1>3. Invitee \in [Invites -> Users \ Admins]
  BY ParametersAssumption
<1>4. \A j \in Invites \ {i} : Invitee[j] = Invitee[i] /\ status \in {"pending", "accepted", "rejected"}
                               => invite[j] # status
  BY DEF OtherWith, InvitesOf
<1>5. UniqueKey'
  BY <1>1, <1>2, <1>4 DEF UniqueKey
<1> QED BY <1>1, <1>2, <1>5

\* A member row is written that is not the owner's; nobody becomes an owner.
LEMMA RoleMoves ==
    ASSUME IInv, NEW u \in Users, NEW held \in {"none", "member", "manager"},
           role' = [role EXCEPT ![u] = held], ws' = ws,
           ws = "alive" /\ Owner \notin Admins => u # Owner,
           ws # "none"
    PROVE  role' \in [Users -> Roles \cup {"none"}] /\ OwnerKept'
<1>1. role \in [Users -> Roles \cup {"none"}] /\ OwnerKept /\ ws \in {"none", "alive", "deleted"}
  BY DEF IInv, TypeOK
<1>2. \A v \in Users : role'[v] = IF v = u THEN held ELSE role[v]
  BY <1>1
<1>3. OwnerKept'
  BY <1>1, <1>2 DEF OwnerKept, OnlyOwner
<1> QED BY <1>1, <1>3 DEF Roles

-----------------------------------------------------------------------------
(***************************************************************************)
(* The invariant.                                                          *)
(***************************************************************************)

LEMMA Initially == Init => IInv
<1> SUFFICES ASSUME Init PROVE IInv
  OBVIOUS
<1> USE DEF Init
<1>1. TypeOK
  <2>1. outbox \in Seq(Event)
    OBVIOUS
  <2>2. UniqueKey
    BY DEF UniqueKey
  <2>3. calls \in 0..MaxCalls /\ stops \in 0..MaxStops
    BY ParametersAssumption, SMT
  <2>4. req \in [Requests -> Request]
    BY IdleOK
  <2> QED BY <2>1, <2>2, <2>3, <2>4 DEF TypeOK
<1>2. \A r \in Requests : RequestOK(req[r])
  BY IdleOK
<1>3. Nothing
  BY IdleOK DEF Nothing
<1>4. OwnerKept /\ Joined /\ OneJoinPerInvite
  BY DEF OwnerKept, Joined, OneJoinPerInvite
<1> QED BY <1>1, <1>2, <1>3, <1>4 DEF IInv

\* A request begins.
LEMMA CallKeeps ==
    ASSUME IInv, NEW r \in Requests, Call(r)
    PROVE  IInv'
<1>1. PICK by \in Users :
         \/ \E u \in Users : \/ Invite(r, by, u) \/ Remove(r, by, u)
                             \/ \E new \in GivenRoles : UpdateRole(r, by, u, new)
         \/ DeleteByOwner(r, by) \/ ForceDelete(r, by) \/ ForceJoin(r, by)
  BY DEF Call
<1>2. role[by] \in Roles \cup {"none"} /\ None \in Invites \cup {None}
  BY DEF IInv, TypeOK
<1>3. ASSUME NEW u \in Users, Invite(r, by, u) PROVE IInv'
  BY <1>2, <1>3, Entered DEF Invite, Labels
<1>4. ASSUME NEW u \in Users, Remove(r, by, u) PROVE IInv'
  BY <1>2, <1>4, Entered DEF Remove, Labels
<1>5. ASSUME NEW u \in Users, NEW new \in GivenRoles, UpdateRole(r, by, u, new) PROVE IInv'
  BY <1>2, <1>5, Entered DEF UpdateRole, Labels, GivenRoles, Roles
<1>6. ASSUME DeleteByOwner(r, by) PROVE IInv'
  BY <1>2, <1>6, Entered DEF DeleteByOwner, Labels, Roles
<1>7. ASSUME ForceDelete(r, by) PROVE IInv'
  BY <1>2, <1>7, Entered DEF ForceDelete, Labels, Roles
<1>8. ASSUME ForceJoin(r, by) PROVE IInv'
  BY <1>2, <1>8, Entered DEF ForceJoin, Labels, Roles
<1> QED BY <1>1, <1>3, <1>4, <1>5, <1>6, <1>7, <1>8

\* A request reads a row and goes on or ends.
LEMMA ReadKeeps ==
    ASSUME IInv, NEW r \in Requests,
           \/ CheckPending(r) \/ CheckNotMember(r) \/ LoadRejected(r)
           \/ CheckTarget(r) \/ CheckSubject(r) \/ FindWorkspace(r)
    PROVE  IInv'
<1>1. req[r] \in Request /\ RequestOK(req[r]) /\ OwnerKept
  BY DEF IInv, TypeOK
<1> DEFINE At(pc) == [req[r] EXCEPT !.pc = pc]
<1>2. \A pc \in Labels : /\ At(pc).pc = pc /\ At(pc).on = req[r].on
                         /\ At(pc).role = req[r].role /\ At(pc).invite = req[r].invite
  BY <1>1, AtLabel
<1> HIDE DEF At
<1>3. \A pc \in {"account", "create", "commit"} : RequestOK(At(pc))
  BY <1>2, SMT DEF RequestOK, Labels
<1>4. req[r].pc = "load" => RequestOK(At("save"))
  BY <1>1, <1>2, SMT DEF RequestOK, Labels
<1>5. OwnerKept /\ ws = "alive" /\ Owner \notin Admins => role[Owner] = "owner"
  BY ParametersAssumption DEF OwnerKept, OnlyOwner
<1>6. role[req[r].on] # "owner" => RequestOK(At("delete"))
  BY <1>1, <1>2, <1>5, SMT DEF RequestOK, Labels
<1>7. req[r].pc = "subject" /\ role[req[r].on] # "owner" => RequestOK(At("update"))
  BY <1>1, <1>2, <1>5, SMT DEF RequestOK, Labels
<1> USE DEF At, Check, Labels
<1>8. CASE CheckPending(r)
  BY <1>3, <1>8, Checked DEF CheckPending
<1>9. CASE CheckNotMember(r)
  BY <1>3, <1>9, Checked DEF CheckNotMember
<1>10. CASE LoadRejected(r)
  BY <1>4, <1>10, Checked DEF LoadRejected
<1>11. CASE CheckTarget(r)
  BY <1>6, <1>11, Checked DEF CheckTarget, MayRemove
<1>12. CASE CheckSubject(r)
  BY <1>7, <1>12, Checked DEF CheckSubject
<1>13. CASE FindWorkspace(r)
  BY <1>3, <1>13, Checked DEF FindWorkspace
<1> QED BY <1>8, <1>9, <1>10, <1>11, <1>12, <1>13

\* What the steps that write keep: the rest of the types, and no state before
\* the creation.
LEMMA Assemble ==
    ASSUME IInv, ws # "none",
           ws' = ws \/ ws' = "deleted",
           role' \in [Users -> Roles \cup {"none"}], OwnerKept',
           invite' \in [Invites -> Statuses], UniqueKey', expired' \subseteq Invites,
           outbox' \in Seq(Event), Joined', OneJoinPerInvite',
           req' \in [Requests -> Request], (\A s \in Requests : RequestOK(req[s]))',
           silent' \in [Users -> Int], calls' \in 0..MaxCalls, stops' \in 0..MaxStops
    PROVE  IInv'
<1>1. ws' \in {"none", "alive", "deleted"} /\ ws' # "none"
  BY DEF IInv, TypeOK
<1>2. TypeOK'
  BY <1>1 DEF TypeOK, Statuses
<1>3. Nothing'
  BY <1>1 DEF Nothing
<1> QED BY <1>2, <1>3 DEF IInv

\* The parts of the invariant a step does not touch.
LEMMA Parts ==
    ASSUME IInv
    PROVE  /\ role \in [Users -> Roles \cup {"none"}]
           /\ invite \in [Invites -> Statuses] /\ UniqueKey
           /\ expired \subseteq Invites
           /\ outbox \in Seq(Event)
           /\ req \in [Requests -> Request]
           /\ silent \in [Users -> Int]
           /\ calls \in 0..MaxCalls /\ stops \in 0..MaxStops
           /\ \A r \in Requests : req[r] \in Request /\ req[r].on \in Users
                                  /\ RequestOK(req[r])
BY DEF IInv, TypeOK, Statuses, Request

\* Where nothing of what OwnerKept or the invitations' properties speak of moves.
LEMMA SameRoles ==
    ASSUME IInv, ws' = ws, role' = role
    PROVE  role' \in [Users -> Roles \cup {"none"}] /\ OwnerKept'
BY Parts DEF IInv, OwnerKept, OnlyOwner

LEMMA SameInvites ==
    ASSUME IInv, invite' = invite
    PROVE  invite' \in [Invites -> Statuses] /\ UniqueKey'
           /\ \A i \in Invites : Settled(invite[i]) => Settled(invite'[i])
BY Parts DEF UniqueKey

LEMMA CreateKeeps == ASSUME IInv, CreateWithOwner PROVE IInv'
<1> USE DEF CreateWithOwner
<1>1. /\ \A r \in Requests : req[r].pc = "idle"
      /\ \A u \in Users : role[u] = "none"
  BY DEF IInv, Nothing
<1>2. Owner \in Users
  BY ParametersAssumption
<1>3. \A u \in Users : role'[u] = IF u = Owner THEN "owner" ELSE "none"
  BY <1>1, <1>2, Parts
<1>4. role' \in [Users -> Roles \cup {"none"}] /\ OwnerKept'
  BY <1>2, <1>3, Parts DEF OwnerKept, OnlyOwner, Roles
<1>5. \E e \in Event : e.type # "joined" /\ outbox' = Append(outbox, e)
  <2>1. /\ About("created", Owner, None) \in Event
        /\ About("created", Owner, None).type # "joined"
    BY <1>2, EventTypes
  <2> QED BY <2>1
<1>6. outbox' \in Seq(Event) /\ Joined' /\ OneJoinPerInvite'
  BY <1>5, SameInvites, JoinedKept
<1>7. (\A r \in Requests : RequestOK(req[r]))'
  BY <1>1, SMT DEF RequestOK
<1>8. TypeOK'
  <2>1. /\ invite' \in [Invites -> Statuses] /\ UniqueKey'
    BY SameInvites
  <2>2. /\ expired' \subseteq Invites /\ req' \in [Requests -> Request]
        /\ silent' \in [Users -> Int] /\ calls' \in 0..MaxCalls /\ stops' \in 0..MaxStops
    BY Parts DEF bounds
  <2> QED BY <2>1, <2>2, <1>4, <1>6 DEF TypeOK, Statuses
<1>9. Nothing'
  BY DEF Nothing
<1> QED BY <1>4, <1>6, <1>7, <1>8, <1>9 DEF IInv

LEMMA CreateInviteKeeps ==
    ASSUME IInv, NEW r \in Requests, NEW i \in Invites, CreateInvite(r, i) PROVE IInv'
<1> USE DEF CreateInvite
<1>1. ws # "none" /\ ws' = ws
  BY DEF IInv, Nothing
<1>2. req' \in [Requests -> Request] /\ (\A s \in Requests : RequestOK(req[s]))'
  BY <1>1, Finished
<1>3. role' \in [Users -> Roles \cup {"none"}] /\ OwnerKept'
  BY <1>1, SameRoles
<1>4. /\ invite' \in [Invites -> Statuses] /\ UniqueKey'
      /\ \A j \in Invites : Settled(invite[j]) => Settled(invite'[j])
  <2>1. CASE PendingFor(req[r].on)
    BY <2>1, SameInvites
  <2>2. CASE ~ PendingFor(req[r].on)
    <3>1. ~ OtherWith(i, "pending")
      BY <2>2 DEF PendingFor, OtherWith
    <3>2. invite' = [invite EXCEPT ![i] = "pending"] /\ ~ Settled(invite[i])
      BY <2>2 DEF Settled
    <3> QED BY <3>1, <3>2, InviteMoves DEF Statuses
  <2> QED BY <2>1, <2>2
<1>5. \/ outbox' = outbox
      \/ \E e \in Event : e.type # "joined" /\ outbox' = Append(outbox, e)
  BY EventTypes
<1>6. outbox' \in Seq(Event) /\ Joined' /\ OneJoinPerInvite'
  BY <1>4, <1>5, JoinedKept
<1>7. /\ expired' \subseteq Invites /\ silent' \in [Users -> Int]
      /\ calls' \in 0..MaxCalls /\ stops' \in 0..MaxStops
  BY Parts DEF bounds
<1> QED BY <1>1, <1>2, <1>3, <1>4, <1>6, <1>7, Assemble

LEMMA AcceptKeeps == ASSUME IInv, NEW i \in Invites, Accept(i) PROVE IInv'
<1> USE DEF Accept
<1>1. ws # "none" /\ ws' = ws /\ Invitee[i] \in Users /\ invite[i] = "pending"
  BY ParametersAssumption DEF IInv, Nothing, Acceptable
<1>2. req' \in [Requests -> Request] /\ (\A s \in Requests : RequestOK(req[s]))'
  BY <1>1, Parts, SMT DEF RequestOK
<1>3. role' \in [Users -> Roles \cup {"none"}] /\ OwnerKept'
  <2>1. CASE Joins(Invitee[i])
    <3>1. role' = [role EXCEPT ![Invitee[i]] = "member"] /\ role[Invitee[i]] = "none"
      BY <2>1, <1>1, Parts DEF Joins
    <3>2. ws = "alive" /\ Owner \notin Admins => Invitee[i] # Owner
      BY <3>1, ParametersAssumption DEF IInv, OwnerKept, OnlyOwner
    <3> QED BY <1>1, <3>1, <3>2, RoleMoves
  <2>2. CASE ~ Joins(Invitee[i])
    BY <2>2, <1>1, SameRoles
  <2> QED BY <2>1, <2>2
<1>4. /\ invite' \in [Invites -> Statuses] /\ UniqueKey'
      /\ \A j \in Invites : invite'[j] = IF j = i THEN Answered(i) ELSE invite[j]
  <2>1. CASE OtherWith(i, "accepted")
    <3>1. Answered(i) = "gone"
      BY <2>1 DEF Answered
    <3>2. invite' = [invite EXCEPT ![i] = "gone"]
      BY <3>1
    <3> QED BY <3>1, <3>2, InviteMoves DEF Statuses
  <2>2. CASE ~ OtherWith(i, "accepted")
    <3>1. Answered(i) = "accepted"
      BY <2>2 DEF Answered
    <3>2. invite' = [invite EXCEPT ![i] = "accepted"]
      BY <3>1
    <3> QED BY <2>2, <3>1, <3>2, InviteMoves DEF Statuses
  <2> QED BY <2>1, <2>2
<1>5. \A j \in Invites : Settled(invite[j]) => Settled(invite'[j])
  BY <1>4 DEF Answered, Settled
<1>6. outbox' \in Seq(Event) /\ Joined' /\ OneJoinPerInvite'
  <2>1. CASE Joins(Invitee[i])
    <3>1. PICK e \in Event : e = About("joined", Invitee[i], i)
      BY <1>1, EventTypes
    <3>2. outbox' = Append(outbox, e) /\ e.invite = i
      BY <2>1, <3>1, <1>1, EventTypes
    <3>3. /\ outbox' \in Seq(Event)
          /\ DOMAIN outbox' = 1..(Len(outbox) + 1) /\ DOMAIN outbox = 1..Len(outbox)
          /\ Len(outbox) \in Nat
          /\ \A k \in DOMAIN outbox : outbox'[k] = outbox[k]
          /\ outbox'[Len(outbox) + 1] = e
      BY <3>2, Appended
    <3>4. \A k \in DOMAIN outbox' : k \in DOMAIN outbox \/ k = Len(outbox) + 1
      BY <3>3, SMT
    <3>5. \A k \in DOMAIN outbox : outbox[k].type = "joined"
              => outbox[k].invite \in Invites /\ Settled(invite[outbox[k].invite])
                 /\ outbox[k].invite # i
      BY <1>1 DEF IInv, Joined, Settled
    <3>6. Joined'
      <4> SUFFICES ASSUME NEW k \in DOMAIN outbox', outbox'[k].type = "joined"
                   PROVE  outbox'[k].invite \in Invites /\ Settled(invite'[outbox'[k].invite])
        BY DEF Joined, Settled
      <4>1. CASE k \in DOMAIN outbox
        BY <4>1, <3>3, <3>5, <1>5
      <4>2. CASE k = Len(outbox) + 1
        BY <4>2, <3>2, <3>3, <1>4 DEF Answered, Settled
      <4> QED BY <4>1, <4>2, <3>4
    <3>7. OneJoinPerInvite'
      <4> SUFFICES ASSUME NEW k \in DOMAIN outbox', NEW l \in DOMAIN outbox',
                          outbox'[k].type = "joined", outbox'[l].type = "joined",
                          outbox'[k].invite = outbox'[l].invite
                   PROVE  k = l
        BY DEF OneJoinPerInvite
      <4>1. CASE k \in DOMAIN outbox /\ l \in DOMAIN outbox
        BY <4>1, <3>3 DEF IInv, OneJoinPerInvite
      <4>2. CASE k \in DOMAIN outbox /\ l = Len(outbox) + 1
        BY <4>2, <3>2, <3>3, <3>5
      <4>3. CASE k = Len(outbox) + 1 /\ l \in DOMAIN outbox
        BY <4>3, <3>2, <3>3, <3>5
      <4> QED BY <4>1, <4>2, <4>3, <3>4
    <3> QED BY <3>3, <3>6, <3>7
  <2>2. CASE ~ Joins(Invitee[i])
    BY <2>2, <1>5, JoinedKept
  <2> QED BY <2>1, <2>2
<1>7. /\ expired' \subseteq Invites /\ silent' \in [Users -> Int]
      /\ calls' \in 0..MaxCalls /\ stops' \in 0..MaxStops
  BY Parts DEF bounds
<1> QED BY <1>1, <1>2, <1>3, <1>4, <1>6, <1>7, Assemble

\* A request that only writes a member's row.
LEMMA RoleWritten ==
    ASSUME IInv, NEW u \in Users, NEW held \in {"none", "member", "manager"},
           ws # "none", ws' = ws, role' = [role EXCEPT ![u] = held],
           ws = "alive" /\ Owner \notin Admins => u # Owner,
           UNCHANGED <<invite, expired, outbox, bounds>>,
           req' \in [Requests -> Request], (\A s \in Requests : RequestOK(req[s]))',
           silent' \in [Users -> Int]
    PROVE  IInv'
<1>1. role' \in [Users -> Roles \cup {"none"}] /\ OwnerKept'
  BY RoleMoves
<1>2. /\ invite' \in [Invites -> Statuses] /\ UniqueKey'
      /\ outbox' \in Seq(Event) /\ Joined' /\ OneJoinPerInvite'
  BY SameInvites, JoinedKept
<1>3. expired' \subseteq Invites /\ calls' \in 0..MaxCalls /\ stops' \in 0..MaxStops
  BY Parts DEF bounds
<1> QED BY <1>1, <1>2, <1>3, Assemble

LEMMA DeleteKeeps == ASSUME IInv, NEW r \in Requests, Delete(r) PROVE IInv'
<1> USE DEF Delete
<1>1. /\ ws # "none" /\ ws' = ws /\ silent' = silent
      /\ req[r].on \in Users /\ RequestOK(req[r])
  BY Parts DEF IInv, Nothing
<1>2. ws = "alive" /\ Owner \notin Admins => req[r].on # Owner
  BY <1>1 DEF RequestOK
<1>3. RequestOK([req[r] EXCEPT !.pc = "announce"])
  <2>1. [req[r] EXCEPT !.pc = "announce"].pc = "announce"
    BY Parts, AtLabel DEF Labels
  <2> QED BY <2>1, SMT DEF RequestOK
<1>4. req' \in [Requests -> Request] /\ (\A s \in Requests : RequestOK(req[s]))'
  BY <1>1, <1>3, Went, Finished DEF Labels
<1> QED BY <1>1, <1>2, <1>4, Parts, RoleWritten

LEMMA SetRoleKeeps == ASSUME IInv, NEW r \in Requests, SetRole(r) PROVE IInv'
<1> USE DEF SetRole
<1>1. /\ ws # "none" /\ ws' = ws /\ silent' = silent
      /\ req[r].on \in Users /\ RequestOK(req[r])
  BY Parts DEF IInv, Nothing
<1>2. /\ ws = "alive" /\ Owner \notin Admins => req[r].on # Owner
      /\ req[r].role \in {"manager", "member"}
  BY <1>1 DEF RequestOK, GivenRoles
<1>3. req' \in [Requests -> Request] /\ (\A s \in Requests : RequestOK(req[s]))'
  BY <1>1, Finished
<1>4. CASE role[req[r].on] = "none"
  <2>1. role' = [role EXCEPT ![req[r].on] = "none"]
    BY <1>1, <1>4, Parts
  <2>2. UNCHANGED <<invite, expired, outbox, bounds>> /\ silent' \in [Users -> Int]
    BY <1>1, Parts
  <2> HIDE DEF SetRole
  <2>3. req[r].on \in Users /\ ws # "none" /\ ws' = ws /\ "none" \in {"none", "member", "manager"}
    BY <1>1
  <2> QED BY <2>1, <2>2, <2>3, <1>2, <1>3, RoleWritten
<1>5. CASE role[req[r].on] # "none"
  <2>1. role' = [role EXCEPT ![req[r].on] = req[r].role]
    BY <1>1, <1>5, Parts
  <2> QED BY <2>1, <1>1, <1>2, <1>3, Parts, RoleWritten
<1> QED BY <1>4, <1>5

LEMMA UpsertKeeps == ASSUME IInv, NEW r \in Requests, Upsert(r) PROVE IInv'
<1> USE DEF Upsert
<1>1. /\ ws # "none" /\ ws' = ws /\ req[r].on \in Users
      /\ req[r].on \in Admins
  BY Parts DEF IInv, Nothing, RequestOK
<1>2. req' \in [Requests -> Request] /\ (\A s \in Requests : RequestOK(req[s]))'
  BY <1>1, Finished
<1>3. silent' \in [Users -> Int]
  BY <1>1, Parts
<1> QED BY <1>1, <1>2, <1>3, RoleWritten

LEMMA SoftDeleteKeeps == ASSUME IInv, NEW r \in Requests, SoftDelete(r) PROVE IInv'
<1> USE DEF SoftDelete
<1>1. ws # "none" /\ ws' = "deleted"
  BY DEF IInv, Nothing
<1>2. req' \in [Requests -> Request] /\ (\A s \in Requests : RequestOK(req[s]))'
  BY <1>1, Finished
<1>3. role' \in [Users -> Roles \cup {"none"}] /\ OwnerKept'
  BY <1>1 DEF OwnerKept
<1>4. /\ invite' \in [Invites -> Statuses] /\ UniqueKey'
      /\ outbox' \in Seq(Event) /\ Joined' /\ OneJoinPerInvite'
  BY SameInvites, EventTypes, JoinedKept
<1>5. /\ expired' \subseteq Invites /\ silent' \in [Users -> Int]
      /\ calls' \in 0..MaxCalls /\ stops' \in 0..MaxStops
  BY Parts DEF bounds
<1> QED BY <1>1, <1>2, <1>3, <1>4, <1>5, Assemble

LEMMA AnnounceKeeps == ASSUME IInv, NEW r \in Requests, Announce(r) PROVE IInv'
<1> USE DEF Announce
<1>1. ws # "none" /\ ws' = ws /\ req[r].on \in Users
  BY Parts DEF IInv, Nothing
<1>2. req' \in [Requests -> Request] /\ (\A s \in Requests : RequestOK(req[s]))'
  BY <1>1, Finished
<1>3. role' \in [Users -> Roles \cup {"none"}] /\ OwnerKept'
  BY <1>1, SameRoles
<1>4. \E e \in Event : e.type # "joined" /\ outbox' = Append(outbox, e)
  <2>1. /\ About("left", req[r].on, None) \in Event
        /\ About("left", req[r].on, None).type # "joined"
    BY <1>1, EventTypes
  <2> QED BY <2>1
<1>5. /\ invite' \in [Invites -> Statuses] /\ UniqueKey'
      /\ outbox' \in Seq(Event) /\ Joined' /\ OneJoinPerInvite'
  BY <1>4, SameInvites, JoinedKept
<1>6. /\ expired' \subseteq Invites /\ silent' \in [Users -> Int]
      /\ calls' \in 0..MaxCalls /\ stops' \in 0..MaxStops
  BY Parts DEF bounds
<1> QED BY <1>1, <1>2, <1>3, <1>5, <1>6, Assemble

LEMMA SaveRejectedKeeps == ASSUME IInv, NEW r \in Requests, SaveRejected(r) PROVE IInv'
<1> USE DEF SaveRejected
<1>1. ws # "none" /\ ws' = ws /\ req[r].invite \in Invites
  BY Parts DEF IInv, Nothing, RequestOK
<1>2. req' \in [Requests -> Request] /\ (\A s \in Requests : RequestOK(req[s]))'
  BY <1>1, Finished
<1>3. role' \in [Users -> Roles \cup {"none"}] /\ OwnerKept'
  BY <1>1, SameRoles
<1>4. /\ invite' \in [Invites -> Statuses] /\ UniqueKey'
      /\ \A j \in Invites : Settled(invite[j]) => Settled(invite'[j])
  <2>1. CASE OtherWith(req[r].invite, "rejected")
    BY <2>1, SameInvites
  <2>2. CASE ~ OtherWith(req[r].invite, "rejected")
    <3>1. invite' = [invite EXCEPT ![req[r].invite] = "rejected"]
      BY <2>2
    <3> QED BY <2>2, <3>1, <1>1, InviteMoves DEF Statuses, Settled
  <2> QED BY <2>1, <2>2
<1>5. outbox' \in Seq(Event) /\ Joined' /\ OneJoinPerInvite'
  BY <1>4, JoinedKept
<1>6. /\ expired' \subseteq Invites /\ silent' \in [Users -> Int]
      /\ calls' \in 0..MaxCalls /\ stops' \in 0..MaxStops
  BY Parts DEF bounds
<1> QED BY <1>1, <1>2, <1>3, <1>4, <1>5, <1>6, Assemble

LEMMA ExpireKeeps == ASSUME IInv, NEW i \in Invites, Expire(i) PROVE IInv'
<1> USE DEF Expire
<1>1. ws # "none" /\ ws' = ws
  BY DEF IInv, Nothing
<1>2. req' \in [Requests -> Request] /\ (\A s \in Requests : RequestOK(req[s]))'
  BY <1>1, Parts, SMT DEF RequestOK
<1>3. role' \in [Users -> Roles \cup {"none"}] /\ OwnerKept'
  BY <1>1, SameRoles
<1>4. /\ invite' \in [Invites -> Statuses] /\ UniqueKey'
      /\ outbox' \in Seq(Event) /\ Joined' /\ OneJoinPerInvite'
  BY SameInvites, JoinedKept
<1>5. /\ expired' \subseteq Invites /\ silent' \in [Users -> Int]
      /\ calls' \in 0..MaxCalls /\ stops' \in 0..MaxStops
  BY Parts DEF bounds
<1> QED BY <1>1, <1>2, <1>3, <1>4, <1>5, Assemble

LEMMA RejectKeeps == ASSUME IInv, NEW r \in Requests, NEW i \in Invites, Reject(r, i) PROVE IInv'
<1>1. Invitee[i] \in Users
  BY ParametersAssumption
<1> QED BY <1>1, Entered DEF Reject, Labels

LEMMA StopKeeps == ASSUME IInv, NEW r \in Requests, Stop(r) PROVE IInv'
<1> USE DEF Stop
<1>1. ws # "none" /\ rows' = rows /\ ws' = ws /\ calls' = calls /\ req[r].on \in Users
  BY Parts DEF IInv, Nothing, rows
<1>2. req' \in [Requests -> Request] /\ (\A s \in Requests : RequestOK(req[s]))'
  BY <1>1, Finished
<1>3. silent' \in [Users -> Int]
  BY <1>1, Parts
<1>4. calls' \in 0..MaxCalls /\ stops' \in 0..MaxStops
  BY <1>1, Parts, ParametersAssumption, SMT
<1> QED BY <1>1, <1>2, <1>3, <1>4, RowsKept

LEMMA Preserved == IInv /\ [Next]_vars => IInv'
<1> SUFFICES ASSUME IInv, [Next]_vars PROVE IInv'
  OBVIOUS
<1>1. CASE CreateWithOwner
  BY <1>1, CreateKeeps
<1>2. ASSUME NEW r \in Requests, Call(r) PROVE IInv'
  BY <1>2, CallKeeps
<1>3. ASSUME NEW r \in Requests, Step(r) PROVE IInv'
  BY <1>3, ReadKeeps, SaveRejectedKeeps, DeleteKeeps, AnnounceKeeps, SetRoleKeeps,
     SoftDeleteKeeps, UpsertKeeps DEF Step
<1>4. ASSUME NEW r \in Requests, Stop(r) PROVE IInv'
  BY <1>4, StopKeeps
<1>5. ASSUME NEW r \in Requests, NEW i \in Invites, Reject(r, i) \/ CreateInvite(r, i)
      PROVE  IInv'
  BY <1>5, RejectKeeps, CreateInviteKeeps
<1>6. ASSUME NEW i \in Invites, Accept(i) \/ Expire(i) PROVE IInv'
  BY <1>6, AcceptKeeps, ExpireKeeps
<1>7. CASE UNCHANGED vars
  <2>1. /\ UNCHANGED <<ws, role, invite, expired, outbox, req, silent, calls, stops>>
    BY <1>7 DEF vars, rows, bounds
  <2> QED BY <2>1 DEF IInv, TypeOK, UniqueKey, Nothing, OwnerKept, OnlyOwner, RequestOK,
                      Joined, OneJoinPerInvite
<1> QED BY <1>1, <1>2, <1>3, <1>4, <1>5, <1>6, <1>7 DEF Next

\* The inductive invariant, of the code's interleavings of every use case.
THEOREM Invariance == Spec => []IInv
BY Initially, Preserved, PTL DEF Spec

\* Types, and the unique key of the invitations: accepting one never runs into it.
THEOREM TypeCorrect == Spec => []TypeOK
<1>1. IInv => TypeOK
  BY DEF IInv
<1> QED BY <1>1, Invariance, PTL

\* One owner while the workspace lives and none afterwards.
THEOREM OneOwner == Spec => []OwnerKept
<1>1. IInv => OwnerKept
  BY DEF IInv
<1> QED BY <1>1, Invariance, PTL

\* No invitation brings its user in twice.
THEOREM JoinsAreInvited == Spec => []OneJoinPerInvite
<1>1. IInv => OneJoinPerInvite
  BY DEF IInv
<1> QED BY <1>1, Invariance, PTL

\* The two together, whatever the number of users, invitations and requests.
THEOREM MembershipStays == Spec => []MembershipKept
<1>1. IInv => MembershipKept
  BY DEF IInv, MembershipKept
<1> QED BY <1>1, Invariance, PTL

-----------------------------------------------------------------------------
(***************************************************************************)
(* The balance of arrivals and departures.  Each step moves both sides by  *)
(* the same amount: what an appended row and a moved request add to the    *)
(* counts is all there is to it.                                           *)
(***************************************************************************)

Row(u) == IF role[u] = "none" THEN 0 ELSE 1

Balanced(u) ==
    Count({"created", "joined"}, u) + silent[u] = Count({"left"}, u) + Departing(u) + Row(u)

Counted(types, u, box) == {k \in DOMAIN box : box[k].type \in types /\ box[k].user = u}

LEMMA CountsFinite ==
    ASSUME NEW box \in Seq(Event), NEW types, NEW u
    PROVE  IsFiniteSet(Counted(types, u, box)) /\ Cardinality(Counted(types, u, box)) \in Nat
<1>1. DOMAIN box = 1..Len(box) /\ Len(box) \in Nat
  BY LenProperties
<1>2. IsFiniteSet(DOMAIN box)
  BY <1>1, FS_Interval
<1>3. IsFiniteSet(Counted(types, u, box))
  BY <1>2, FS_Subset DEF Counted
<1> QED BY <1>3, FS_CardinalityType

LEMMA CountIs ==
    ASSUME NEW types, NEW u
    PROVE  /\ Count(types, u) = Cardinality(Counted(types, u, outbox))
           /\ Count(types, u)' = Cardinality(Counted(types, u, outbox'))
BY DEF Count, Counted

\* An appended row counts one where its type and its user are asked for.
LEMMA CountAppended ==
    ASSUME IInv, NEW e \in Event, outbox' = Append(outbox, e), NEW types, NEW u
    PROVE  Count(types, u)' = Count(types, u) + (IF e.type \in types /\ e.user = u THEN 1 ELSE 0)
<1>1. outbox \in Seq(Event) /\ outbox' \in Seq(Event)
  BY Appended DEF IInv, TypeOK
<1>2. /\ DOMAIN outbox' = 1..(Len(outbox) + 1)
      /\ DOMAIN outbox = 1..Len(outbox) /\ Len(outbox) \in Nat
      /\ \A k \in DOMAIN outbox : outbox'[k] = outbox[k]
      /\ outbox'[Len(outbox) + 1] = e
  BY Appended
<1> DEFINE old == Counted(types, u, outbox)
           new == Counted(types, u, outbox')
           n == Len(outbox) + 1
<1>3. n \notin DOMAIN outbox /\ \A k : k \in DOMAIN outbox' <=> k \in DOMAIN outbox \/ k = n
  BY <1>2
<1>4. n \notin old
  BY <1>3 DEF Counted
<1>5. CASE e.type \in types /\ e.user = u
  <2>1. new = old \cup {n}
    BY <1>2, <1>3, <1>5 DEF Counted
  <2>2. IsFiniteSet(old)
    BY <1>1, CountsFinite
  <2> HIDE DEF old, new
  <2>3. Cardinality(new) = Cardinality(old) + 1
    BY <2>1, <2>2, <1>4, FS_AddElement
  <2> QED BY <2>3, <1>5, CountIs DEF old, new
<1>6. CASE ~ (e.type \in types /\ e.user = u)
  <2>1. new = old
    BY <1>2, <1>3, <1>6 DEF Counted
  <2>2. Cardinality(old) \in Nat
    BY <1>1, CountsFinite
  <2>3. Count(types, u) = Cardinality(old) /\ Count(types, u)' = Cardinality(new)
    BY CountIs
  <2> HIDE DEF old, new
  <2> QED BY <2>1, <2>2, <2>3, <1>6
<1> QED BY <1>5, <1>6

\* Who departs before and after one request goes on to q.
Leaves(q, u) == IF q.pc = "announce" /\ q.on = u THEN 1 ELSE 0

LEMMA DepartingMoves ==
    ASSUME IInv, NEW r \in Requests, NEW q \in Request, req' = [req EXCEPT ![r] = q], NEW u
    PROVE  Departing(u)' + Leaves(req[r], u) = Departing(u) + Leaves(q, u)
<1> DEFINE S == {s \in Requests : req[s].pc = "announce" /\ req[s].on = u}
           T == {s \in Requests : req'[s].pc = "announce" /\ req'[s].on = u}
           Others == S \ {r}
<1>1. \A s \in Requests : req'[s] = IF s = r THEN q ELSE req[s]
  BY Parts
<1>2. T \ {r} = Others
  BY <1>1
<1>3. IsFiniteSet(S) /\ IsFiniteSet(T) /\ Cardinality(S) \in Nat /\ Cardinality(T) \in Nat
  BY ParametersAssumption, FS_Subset, FS_CardinalityType
<1>4. /\ Cardinality(Others) = Cardinality(S) - Leaves(req[r], u)
      /\ Cardinality(Others) = Cardinality(T) - Leaves(q, u)
  <2>1. (r \in S <=> Leaves(req[r], u) = 1) /\ (r \notin S <=> Leaves(req[r], u) = 0)
    BY DEF Leaves
  <2>2. (r \in T <=> Leaves(q, u) = 1) /\ (r \notin T <=> Leaves(q, u) = 0)
    BY <1>1 DEF Leaves
  <2>3. Cardinality(Others) = IF r \in S THEN Cardinality(S) - 1 ELSE Cardinality(S)
    BY <1>3, FS_RemoveElement
  <2>4. Cardinality(T \ {r}) = IF r \in T THEN Cardinality(T) - 1 ELSE Cardinality(T)
    BY <1>3, FS_RemoveElement
  <2> HIDE DEF S, T, Others
  <2>5. Cardinality(Others) = Cardinality(S) - Leaves(req[r], u)
    BY <2>1, <2>3, <1>3 DEF Leaves
  <2>6. Cardinality(T \ {r}) = Cardinality(T) - Leaves(q, u)
    BY <2>2, <2>4, <1>3 DEF Leaves
  <2> QED BY <2>5, <2>6, <1>2
<1>5. Departing(u) = Cardinality(S) /\ Departing(u)' = Cardinality(T)
  BY DEF Departing
<1>6. Leaves(req[r], u) \in Int /\ Leaves(q, u) \in Int
  BY DEF Leaves
<1> HIDE DEF S, T, Others
<1> QED BY <1>3, <1>4, <1>5, <1>6

LEMMA SidesAreNumbers ==
    ASSUME IInv, NEW u \in Users
    PROVE  /\ Count({"created", "joined"}, u) \in Int /\ Count({"left"}, u) \in Int
           /\ Departing(u) \in Int /\ silent[u] \in Int /\ Row(u) \in Int
<1>1. Count({"created", "joined"}, u) \in Int /\ Count({"left"}, u) \in Int
  <2>1. outbox \in Seq(Event)
    BY Parts
  <2>2. \A types : Cardinality(Counted(types, u, outbox)) \in Nat
    BY <2>1, CountsFinite
  <2> QED BY <2>2, CountIs
<1>2. Departing(u) \in Int
  BY ParametersAssumption, FS_Subset, FS_CardinalityType DEF Departing
<1> QED BY <1>1, <1>2, Parts DEF Row

\* A step whose request goes on to q, appends nothing, and leaves the members.
LEMMA NothingCounted ==
    ASSUME IInv, NEW u \in Users, Balanced(u), outbox' = outbox, role' = role, silent' = silent,
           \/ req' = req
           \/ \E r \in Requests, q \in Request :
                req' = [req EXCEPT ![r] = q] /\ req[r].pc # "announce" /\ q.pc # "announce"
    PROVE  Balanced(u)'
<1>1. Departing(u)' = Departing(u)
  <2>1. CASE req' = req
    BY <2>1 DEF Departing
  <2>2. ASSUME NEW r \in Requests, NEW q \in Request,
               req' = [req EXCEPT ![r] = q], req[r].pc # "announce", q.pc # "announce"
        PROVE  Departing(u)' = Departing(u)
    <3>1. Leaves(req[r], u) = 0 /\ Leaves(q, u) = 0
      BY <2>2 DEF Leaves
    <3>2. Departing(u)' \in Int
      BY ParametersAssumption, FS_Subset, FS_CardinalityType DEF Departing
    <3>3. Departing(u)' + Leaves(req[r], u) = Departing(u) + Leaves(q, u)
      BY <2>2, DepartingMoves
    <3>4. Departing(u) \in Int
      BY SidesAreNumbers
    <3> QED BY <3>1, <3>2, <3>3, <3>4
  <2> QED BY <2>1, <2>2
<1> QED BY <1>1 DEF Balanced, Count, Row

LEMMA CountsKept ==
    ASSUME IInv, outbox' = outbox, NEW u \in Users
    PROVE  /\ Count({"created", "joined"}, u)' = Count({"created", "joined"}, u) + 0
           /\ Count({"left"}, u)' = Count({"left"}, u) + 0
<1>1. \A types : Count(types, u)' = Count(types, u)
  BY DEF Count
<1>2. Count({"created", "joined"}, u) \in Int /\ Count({"left"}, u) \in Int
  BY SidesAreNumbers
<1>3. \A n \in Int : n = n + 0
  OBVIOUS
<1> QED BY <1>1, <1>2, <1>3

LEMMA DepartingKept ==
    ASSUME IInv, req' = req, NEW u \in Users
    PROVE  Departing(u)' = Departing(u) + 0
<1>1. Departing(u)' = Departing(u)
  BY DEF Departing
<1>2. Departing(u) \in Int
  BY SidesAreNumbers
<1>3. \A n \in Int : n = n + 0
  OBVIOUS
<1> QED BY <1>1, <1>2, <1>3

\* A step that appends a row and moves a request.
LEMMA Balances ==
    ASSUME IInv, NEW u \in Users, Balanced(u),
           NEW came \in Int, NEW left \in Int, NEW leaving \in Int,
           Count({"created", "joined"}, u)' = Count({"created", "joined"}, u) + came,
           Count({"left"}, u)' = Count({"left"}, u) + left,
           Departing(u)' = Departing(u) + leaving,
           came + (silent'[u] - silent[u]) = left + leaving + (Row(u)' - Row(u)),
           silent'[u] \in Int, Row(u)' \in Int
    PROVE  Balanced(u)'
<1>1. /\ Count({"created", "joined"}, u) \in Int /\ Count({"left"}, u) \in Int
      /\ Departing(u) \in Int /\ silent[u] \in Int /\ Row(u) \in Int
  BY SidesAreNumbers
<1>2. Count({"created", "joined"}, u)' + silent'[u]
        = Count({"left"}, u)' + Departing(u)' + Row(u)'
  BY <1>1 DEF Balanced
<1> QED BY <1>2 DEF Balanced

\* A request that is not about to announce a departure ends.
LEMMA EndsUncounted ==
    ASSUME IInv, NEW r \in Requests, Finish(r), req[r].pc # "announce", NEW u \in Users
    PROVE  Departing(u)' = Departing(u) + 0
<1>1. Leaves(req[r], u) = 0 /\ Leaves(Idle, u) = 0
  BY IdleOK DEF Leaves
<1>2. Departing(u)' + Leaves(req[r], u) = Departing(u) + Leaves(Idle, u)
  BY IdleOK, DepartingMoves DEF Finish
<1>3. Departing(u) \in Int /\ Departing(u)' \in Int
  BY ParametersAssumption, FS_Subset, FS_CardinalityType DEF Departing
<1> QED BY <1>1, <1>2, <1>3

LEMMA AboutFields ==
    ASSUME NEW type \in {"created", "joined", "left"}, NEW u \in Users,
           NEW i \in Invites \cup {None}
    PROVE  /\ About(type, u, i) \in Event /\ About(type, u, i).type = type
           /\ About(type, u, i).user = u
BY EventTypes DEF About

LEMMA CreateBalances ==
    ASSUME IInv, CreateWithOwner, NEW u \in Users, Balanced(u)
    PROVE  Balanced(u)'
<1> DEFINE e == About("created", Owner, None)
           n == IF Owner = u THEN 1 ELSE 0
<1>1. Owner \in Users /\ role[u] = "none" /\ role \in [Users -> Roles \cup {"none"}]
  BY ParametersAssumption, Parts DEF IInv, Nothing, CreateWithOwner
<1>2. e \in Event /\ e.type = "created" /\ e.user = Owner
  BY <1>1, AboutFields
<1>3. /\ outbox' = Append(outbox, e) /\ req' = req /\ silent' = silent
      /\ role' = [role EXCEPT ![Owner] = "owner"]
  BY DEF CreateWithOwner
<1> HIDE DEF e
<1>4. /\ Count({"created", "joined"}, u)' = Count({"created", "joined"}, u) + n
      /\ Count({"left"}, u)' = Count({"left"}, u) + 0
  BY <1>2, <1>3, CountAppended
<1>5. Departing(u)' = Departing(u) + 0
  BY <1>3, DepartingKept
<1>6. Row(u) = 0 /\ Row(u)' = n
  BY <1>1, <1>3 DEF Row
<1>7. n \in Int /\ silent'[u] = silent[u] /\ silent[u] \in Int
  BY <1>3, Parts
<1> HIDE DEF n
<1> QED BY <1>4, <1>5, <1>6, <1>7, Balances

LEMMA AcceptBalances ==
    ASSUME IInv, NEW i \in Invites, Accept(i), NEW u \in Users, Balanced(u)
    PROVE  Balanced(u)'
<1> DEFINE v == Invitee[i]
           e == About("joined", v, i)
           n == IF v = u THEN 1 ELSE 0
<1>1. v \in Users /\ role \in [Users -> Roles \cup {"none"}]
  BY ParametersAssumption, Parts
<1>2. e \in Event /\ e.type = "joined" /\ e.user = v
  BY <1>1, AboutFields
<1>3. req' = req /\ silent' = silent
  BY DEF Accept
<1>4. CASE ~ Joins(v)
  <2>1. outbox' = outbox /\ role' = role
    BY <1>4 DEF Accept
  <2> QED BY <1>3, <2>1, NothingCounted
<1>5. CASE Joins(v)
  <2>1. /\ outbox' = Append(outbox, e) /\ role[v] = "none"
        /\ role' = [role EXCEPT ![v] = "member"]
    BY <1>5, <1>1 DEF Accept, Joins
  <2> HIDE DEF e, v
  <2>2. /\ Count({"created", "joined"}, u)' = Count({"created", "joined"}, u) + n
        /\ Count({"left"}, u)' = Count({"left"}, u) + 0
    BY <1>2, <2>1, CountAppended
  <2>3. Departing(u)' = Departing(u) + 0
    BY <1>3, DepartingKept
  <2>4. /\ Row(u)' - Row(u) = n /\ Row(u)' \in Int /\ n \in Int
    BY <1>1, <2>1 DEF Row
  <2>5. silent'[u] = silent[u] /\ silent[u] \in Int
    BY <1>3, Parts
  <2> HIDE DEF n
  <2> QED BY <2>2, <2>3, <2>4, <2>5, Balances
<1> QED BY <1>4, <1>5

LEMMA CreateInviteBalances ==
    ASSUME IInv, NEW r \in Requests, NEW i \in Invites, CreateInvite(r, i),
           NEW u \in Users, Balanced(u)
    PROVE  Balanced(u)'
<1> DEFINE e == [type |-> "invited", invite |-> i]
<1>1. req[r].pc = "create" /\ Finish(r) /\ role' = role /\ silent' = silent
  BY DEF CreateInvite
<1>2. CASE outbox' = outbox
  BY <1>1, <1>2, IdleOK, NothingCounted DEF Finish
<1>3. CASE outbox' = Append(outbox, e)
  <2>1. e \in Event /\ e.type = "invited"
    BY EventTypes
  <2> HIDE DEF e
  <2>2. /\ Count({"created", "joined"}, u)' = Count({"created", "joined"}, u) + 0
        /\ Count({"left"}, u)' = Count({"left"}, u) + 0
    BY <1>3, <2>1, CountAppended
  <2>3. Departing(u)' = Departing(u) + 0
    BY <1>1, EndsUncounted
  <2>4. silent'[u] = silent[u] /\ Row(u)' = Row(u) /\ silent[u] \in Int /\ Row(u) \in Int
    BY <1>1, SidesAreNumbers DEF Row
  <2> QED BY <2>2, <2>3, <2>4, Balances
<1> QED BY <1>2, <1>3 DEF CreateInvite

LEMMA DeleteBalances ==
    ASSUME IInv, NEW r \in Requests, Delete(r), NEW u \in Users, Balanced(u)
    PROVE  Balanced(u)'
<1> DEFINE v == req[r].on
           q == [req[r] EXCEPT !.pc = "announce"]
           n == IF v = u THEN 1 ELSE 0
<1>1. v \in Users /\ role \in [Users -> Roles \cup {"none"}] /\ req[r] \in Request
  BY Parts DEF Request
<1>2. /\ req[r].pc = "delete" /\ silent' = silent /\ outbox' = outbox
      /\ role' = [role EXCEPT ![v] = "none"]
  BY DEF Delete
<1>3. CASE role[v] = "none"
  <2>1. role' = role /\ Finish(r)
    BY <1>1, <1>2, <1>3 DEF Delete
  <2> QED BY <1>2, <2>1, IdleOK, NothingCounted DEF Finish
<1>4. CASE role[v] # "none"
  <2>1. req' = [req EXCEPT ![r] = q]
    BY <1>4 DEF Delete, Goto
  <2>2. q \in Request /\ q.pc = "announce" /\ q.on = v
    BY <1>1, AtLabel DEF Labels
  <2> HIDE DEF q, v
  <2>3. Departing(u)' + Leaves(req[r], u) = Departing(u) + Leaves(q, u)
    BY <2>1, <2>2, DepartingMoves
  <2>4. Leaves(req[r], u) = 0 /\ Leaves(q, u) = n
    BY <1>2, <2>2 DEF Leaves
  <2>5. Departing(u)' = Departing(u) + n
    <3>1. Departing(u) \in Int /\ Departing(u)' \in Int /\ n \in Int
      BY ParametersAssumption, FS_Subset, FS_CardinalityType DEF Departing
    <3> HIDE DEF n
    <3> QED BY <2>3, <2>4, <3>1
  <2>6. /\ Count({"created", "joined"}, u)' = Count({"created", "joined"}, u) + 0
        /\ Count({"left"}, u)' = Count({"left"}, u) + 0
    BY <1>2, CountsKept
  <2>7. /\ Row(u)' - Row(u) = 0 - n /\ Row(u)' \in Int /\ n \in Int
    BY <1>1, <1>2, <1>4 DEF Row
  <2>8. silent'[u] = silent[u] /\ silent[u] \in Int
    BY <1>2, Parts
  <2>9. 0 + (silent'[u] - silent[u]) = 0 + n + (Row(u)' - Row(u))
    <3> HIDE DEF n
    <3> QED BY <2>7, <2>8
  <2> HIDE DEF n
  <2> QED BY <2>5, <2>6, <2>7, <2>8, <2>9, Balances
<1> QED BY <1>3, <1>4

LEMMA AnnounceBalances ==
    ASSUME IInv, NEW r \in Requests, Announce(r), NEW u \in Users, Balanced(u)
    PROVE  Balanced(u)'
<1> DEFINE v == req[r].on
           e == About("left", v, None)
           n == IF v = u THEN 1 ELSE 0
<1>1. v \in Users /\ req[r] \in Request
  BY Parts DEF Request
<1>2. /\ req[r].pc = "announce" /\ silent' = silent /\ role' = role
      /\ outbox' = Append(outbox, e) /\ req' = [req EXCEPT ![r] = Idle]
  BY DEF Announce, Finish
<1>3. e \in Event /\ e.type = "left" /\ e.user = v
  BY <1>1, AboutFields
<1> HIDE DEF e, v
<1>4. Departing(u)' + Leaves(req[r], u) = Departing(u) + Leaves(Idle, u)
  BY <1>2, IdleOK, DepartingMoves
<1>5. Leaves(req[r], u) = n /\ Leaves(Idle, u) = 0
  BY <1>2, IdleOK DEF Leaves, v
<1>6. Departing(u)' = Departing(u) + (0 - n)
  <2>1. Departing(u) \in Int /\ Departing(u)' \in Int /\ n \in Int
    BY ParametersAssumption, FS_Subset, FS_CardinalityType DEF Departing
  <2> HIDE DEF n
  <2> QED BY <1>4, <1>5, <2>1
<1>7. /\ Count({"created", "joined"}, u)' = Count({"created", "joined"}, u) + 0
      /\ Count({"left"}, u)' = Count({"left"}, u) + n
  BY <1>2, <1>3, CountAppended
<1>8. /\ silent'[u] = silent[u] /\ Row(u)' = Row(u) /\ silent[u] \in Int /\ Row(u) \in Int
      /\ n \in Int
  BY <1>2, SidesAreNumbers DEF Row
<1> HIDE DEF n
<1>9. /\ Count({"created", "joined"}, u) \in Int /\ Count({"left"}, u) \in Int
      /\ Departing(u) \in Int
  BY SidesAreNumbers
<1>10. Count({"created", "joined"}, u)' + silent'[u]
         = Count({"left"}, u)' + Departing(u)' + Row(u)'
  BY <1>6, <1>7, <1>8, <1>9 DEF Balanced
<1> QED BY <1>10 DEF Balanced

LEMMA SetRoleBalances ==
    ASSUME IInv, NEW r \in Requests, SetRole(r), NEW u \in Users, Balanced(u)
    PROVE  Balanced(u)'
<1>1. /\ req[r].pc = "update" /\ Finish(r) /\ silent' = silent /\ outbox' = outbox
      /\ role \in [Users -> Roles \cup {"none"}] /\ req[r].on \in Users
      /\ req[r].role \in GivenRoles
      /\ role' = [role EXCEPT ![req[r].on] = IF @ = "none" THEN @ ELSE req[r].role]
  BY Parts DEF SetRole, IInv, RequestOK
<1>2. Row(u)' = Row(u)
  BY <1>1 DEF Row, GivenRoles
<1>3. Departing(u)' = Departing(u)
  BY <1>1, EndsUncounted, SidesAreNumbers
<1> QED BY <1>1, <1>2, <1>3 DEF Balanced, Count

LEMMA UpsertBalances ==
    ASSUME IInv, NEW r \in Requests, Upsert(r), NEW u \in Users, Balanced(u)
    PROVE  Balanced(u)'
<1> DEFINE v == req[r].on
<1>1. /\ req[r].pc = "upsert" /\ Finish(r) /\ outbox' = outbox
      /\ role \in [Users -> Roles \cup {"none"}] /\ v \in Users /\ silent \in [Users -> Int]
      /\ role' = [role EXCEPT ![v] = "member"]
      /\ silent' = [silent EXCEPT ![v] = IF role[v] = "none" THEN @ + 1 ELSE @]
  BY Parts DEF Upsert
<1> HIDE DEF v
<1>2. Row(u)' \in Int /\ Row(u) \in Int /\ silent'[u] \in Int
      /\ 0 + (silent'[u] - silent[u]) = 0 + 0 + (Row(u)' - Row(u))
  BY <1>1 DEF Row
<1>3. Departing(u)' = Departing(u) + 0
  BY <1>1, EndsUncounted
<1>4. /\ Count({"created", "joined"}, u)' = Count({"created", "joined"}, u) + 0
      /\ Count({"left"}, u)' = Count({"left"}, u) + 0
  BY <1>1, CountsKept
<1> QED BY <1>2, <1>3, <1>4, Balances

LEMMA StopBalances ==
    ASSUME IInv, NEW r \in Requests, Stop(r), NEW u \in Users, Balanced(u)
    PROVE  Balanced(u)'
<1> DEFINE n == Leaves(req[r], u)
<1>1. /\ req' = [req EXCEPT ![r] = Idle] /\ outbox' = outbox /\ role' = role
      /\ silent \in [Users -> Int] /\ req[r].on \in Users
      /\ silent' = [silent EXCEPT ![req[r].on] =
                       IF req[r].pc = "announce" THEN @ - 1 ELSE @]
  BY Parts DEF Stop, Finish, rows
<1>2. silent'[u] = silent[u] - n /\ silent[u] \in Int /\ n \in Int
  BY <1>1 DEF Leaves
<1>3. Departing(u)' + n = Departing(u) + 0
  <2>1. Leaves(Idle, u) = 0
    BY IdleOK DEF Leaves
  <2>2. Departing(u)' + n = Departing(u) + Leaves(Idle, u)
    BY <1>1, IdleOK, DepartingMoves
  <2> QED BY <2>1, <2>2
<1>4. Departing(u) \in Int /\ Departing(u)' \in Int
  BY ParametersAssumption, FS_Subset, FS_CardinalityType DEF Departing
<1>5. /\ Count({"created", "joined"}, u)' = Count({"created", "joined"}, u) + 0
      /\ Count({"left"}, u)' = Count({"left"}, u) + 0
  BY <1>1, CountsKept
<1>6. Row(u)' = Row(u) /\ Row(u) \in Int
  BY <1>1 DEF Row
<1> HIDE DEF n
<1>7. Departing(u)' = Departing(u) + (0 - n)
  BY <1>2, <1>3, <1>4
<1>8. 0 + (silent'[u] - silent[u]) = 0 + (0 - n) + (Row(u)' - Row(u)) /\ silent'[u] \in Int
      /\ (0 - n) \in Int
  BY <1>2, <1>6
<1> QED BY <1>5, <1>6, <1>7, <1>8, Balances

\* Requests enter at, and go on to, labels other than the announcement.
LEMMA CallBalances ==
    ASSUME IInv, NEW r \in Requests, Call(r) \/ \E i \in Invites : Reject(r, i),
           NEW u \in Users, Balanced(u)
    PROVE  Balanced(u)'
<1>1. PICK pc \in Labels, by \in Users, on \in Users, i \in Invites \cup {None},
           held \in Roles \cup {"none"} :
        Enter(r, pc, by, on, i, held) /\ pc # "announce" /\ UNCHANGED <<rows, silent>>
  <2> SUFFICES \E pc \in Labels, by \in Users, on \in Users, i \in Invites \cup {None},
                  held \in Roles \cup {"none"} :
                 Enter(r, pc, by, on, i, held) /\ pc # "announce" /\ UNCHANGED <<rows, silent>>
    OBVIOUS
  <2>0. role \in [Users -> Roles \cup {"none"}] /\ Invitee \in [Invites -> Users \ Admins]
    BY Parts, ParametersAssumption
  <2>1. ASSUME NEW i \in Invites, Reject(r, i)
        PROVE  Enter(r, "load", Invitee[i], Invitee[i], i, "none") /\ UNCHANGED <<rows, silent>>
    BY <2>1 DEF Reject
  <2>2. ASSUME NEW by \in Users, NEW v \in Users, Invite(r, by, v)
        PROVE  Enter(r, "pending", by, v, None, role[by]) /\ UNCHANGED <<rows, silent>>
    BY <2>2 DEF Invite
  <2>3. ASSUME NEW by \in Users, NEW v \in Users, Remove(r, by, v)
        PROVE  Enter(r, "target", by, v, None, role[by]) /\ UNCHANGED <<rows, silent>>
    BY <2>3 DEF Remove
  <2>4. ASSUME NEW by \in Users, NEW v \in Users, NEW new \in GivenRoles,
               UpdateRole(r, by, v, new)
        PROVE  Enter(r, "subject", by, v, None, new) /\ UNCHANGED <<rows, silent>>
    BY <2>4 DEF UpdateRole
  <2>5. ASSUME NEW by \in Users, DeleteByOwner(r, by)
        PROVE  Enter(r, "find", by, by, None, "owner") /\ UNCHANGED <<rows, silent>>
    BY <2>5 DEF DeleteByOwner
  <2>6. ASSUME NEW by \in Users, ForceDelete(r, by)
        PROVE  Enter(r, "find", by, by, None, "none") /\ UNCHANGED <<rows, silent>>
    BY <2>6 DEF ForceDelete
  <2>7. ASSUME NEW by \in Users, ForceJoin(r, by)
        PROVE  Enter(r, "upsert", by, by, None, "member") /\ UNCHANGED <<rows, silent>>
    BY <2>7 DEF ForceJoin
  <2>8. /\ {"load", "pending", "target", "subject", "find", "upsert"} \subseteq Labels \ {"announce"}
        /\ {"owner", "none", "member"} \subseteq Roles \cup {"none"}
        /\ GivenRoles \subseteq Roles \cup {"none"}
    BY DEF Labels, Roles, GivenRoles
  <2>9. CASE \E i \in Invites : Reject(r, i)
    <3>1. PICK i \in Invites : Reject(r, i)
      BY <2>9
    <3>2. Invitee[i] \in Users
      BY <2>0
    <3> QED BY <2>1, <2>8, <3>1, <3>2
  <2>10. CASE \E by \in Users, v \in Users :
                Invite(r, by, v) \/ Remove(r, by, v) \/ \E new \in GivenRoles : UpdateRole(r, by, v, new)
    <3>1. PICK by \in Users, v \in Users :
            Invite(r, by, v) \/ Remove(r, by, v) \/ \E new \in GivenRoles : UpdateRole(r, by, v, new)
      BY <2>10
    <3>2. role[by] \in Roles \cup {"none"} /\ None \in Invites \cup {None}
      BY <2>0
    <3>3. CASE Invite(r, by, v)
      BY <2>2, <2>8, <3>2, <3>3
    <3>4. CASE Remove(r, by, v)
      BY <2>3, <2>8, <3>2, <3>4
    <3>5. CASE \E new \in GivenRoles : UpdateRole(r, by, v, new)
      BY <2>4, <2>8, <3>2, <3>5
    <3> QED BY <3>1, <3>3, <3>4, <3>5
  <2>11. CASE \E by \in Users : DeleteByOwner(r, by) \/ ForceDelete(r, by) \/ ForceJoin(r, by)
    BY <2>5, <2>6, <2>7, <2>8, <2>11
  <2> QED BY <2>9, <2>10, <2>11 DEF Call
<1> DEFINE q == [pc |-> pc, by |-> by, on |-> on, invite |-> i, role |-> held]
<1>2. q \in Request /\ q.pc # "announce"
  BY <1>1 DEF Request
<1>3. req' = [req EXCEPT ![r] = q] /\ req[r].pc # "announce" /\ outbox' = outbox /\ role' = role
      /\ silent' = silent
  BY <1>1 DEF Enter, rows
<1> HIDE DEF q
<1> QED BY <1>2, <1>3, NothingCounted

LEMMA ReadBalances ==
    ASSUME IInv, NEW r \in Requests,
           \/ CheckPending(r) \/ CheckNotMember(r) \/ LoadRejected(r) \/ SaveRejected(r)
           \/ CheckTarget(r) \/ CheckSubject(r) \/ FindWorkspace(r),
           NEW u \in Users, Balanced(u)
    PROVE  Balanced(u)'
<1>1. CASE SaveRejected(r)
  BY <1>1, IdleOK, NothingCounted DEF SaveRejected, Finish
<1>2. ASSUME NEW pc \in Labels, NEW ok, NEW next \in Labels, Check(r, pc, ok, next),
             pc # "announce", next # "announce"
      PROVE  Balanced(u)'
  <2> DEFINE q == [req[r] EXCEPT !.pc = next]
  <2>1. q \in Request /\ q.pc # "announce"
    BY <1>2, Parts, AtLabel
  <2>2. req' = [req EXCEPT ![r] = q] \/ req' = [req EXCEPT ![r] = Idle]
    BY <1>2 DEF Check, Goto, Finish
  <2>3. outbox' = outbox /\ role' = role /\ silent' = silent /\ req[r].pc # "announce"
    BY <1>2 DEF Check, rows
  <2> HIDE DEF q
  <2> QED BY <2>1, <2>2, <2>3, IdleOK, NothingCounted
<1>3. {"pending", "account", "create", "load", "save", "target", "delete", "subject",
       "update", "find", "commit"} \subseteq Labels
  BY DEF Labels
<1> QED
  BY <1>1, <1>2, <1>3 DEF CheckPending, CheckNotMember, LoadRejected, CheckTarget,
     CheckSubject, FindWorkspace

\* Once it says deleted the outbox does not say otherwise.
LEMMA DeletedStays == ASSUME IInv, [Next]_vars, Deleted PROVE Deleted'
<1>1. outbox' = outbox \/ \E e \in Event : outbox' = Append(outbox, e)
  <2>1. CASE CreateWithOwner
    BY <2>1, ParametersAssumption, AboutFields DEF CreateWithOwner
  <2>2. ASSUME NEW r \in Requests, Call(r) PROVE outbox' = outbox
    BY <2>2 DEF Call, Invite, Remove, UpdateRole, DeleteByOwner, ForceDelete, ForceJoin, rows
  <2>3. ASSUME NEW r \in Requests, Step(r)
        PROVE  outbox' = outbox \/ \E e \in Event : outbox' = Append(outbox, e)
    <3>1. CASE Announce(r)
      BY <3>1, Parts, AboutFields DEF Announce, Request
    <3>2. CASE SoftDelete(r)
      BY <3>2, EventTypes DEF SoftDelete
    <3> QED
      BY <2>3, <3>1, <3>2 DEF Step, Check, CheckPending, CheckNotMember, LoadRejected,
         SaveRejected, CheckTarget, Delete, CheckSubject, SetRole, FindWorkspace, Upsert, rows
  <2>4. ASSUME NEW r \in Requests, Stop(r) PROVE outbox' = outbox
    BY <2>4 DEF Stop, rows
  <2>5. ASSUME NEW r \in Requests, NEW i \in Invites, Reject(r, i) PROVE outbox' = outbox
    BY <2>5 DEF Reject, rows
  <2>6. ASSUME NEW r \in Requests, NEW i \in Invites, CreateInvite(r, i)
        PROVE  outbox' = outbox \/ \E e \in Event : outbox' = Append(outbox, e)
    BY <2>6, EventTypes DEF CreateInvite
  <2>7. ASSUME NEW i \in Invites, Accept(i) \/ Expire(i)
        PROVE  outbox' = outbox \/ \E e \in Event : outbox' = Append(outbox, e)
    <3>1. Invitee[i] \in Users
      BY ParametersAssumption
    <3> QED BY <2>7, <3>1, AboutFields DEF Accept, Expire
  <2>8. CASE UNCHANGED vars
    BY <2>8 DEF vars, rows
  <2> QED BY <2>1, <2>2, <2>3, <2>4, <2>5, <2>6, <2>7, <2>8 DEF Next
<1>2. CASE outbox' = outbox
  BY <1>2 DEF Deleted
<1>3. ASSUME NEW e \in Event, outbox' = Append(outbox, e) PROVE Deleted'
  BY <1>3, Appended DEF Deleted
<1> QED BY <1>1, <1>2, <1>3

LEMMA BalanceKept ==
    ASSUME IInv, [Next]_vars, ~ Deleted', NEW u \in Users, Balanced(u)
    PROVE  Balanced(u)'
<1>1. CASE CreateWithOwner
  BY <1>1, CreateBalances
<1>2. ASSUME NEW r \in Requests, Call(r) \/ \E i \in Invites : Reject(r, i) PROVE Balanced(u)'
  BY <1>2, CallBalances
<1>3. ASSUME NEW r \in Requests, Step(r) PROVE Balanced(u)'
  <2>1. CASE SoftDelete(r)
    <3>1. outbox' = Append(outbox, [type |-> "deleted"]) /\ [type |-> "deleted"] \in Event
      BY <2>1, EventTypes DEF SoftDelete
    <3>2. Deleted'
      BY <3>1, Appended DEF Deleted
    <3> QED BY <3>2
  <2> QED BY <1>3, <2>1, ReadBalances, DeleteBalances, AnnounceBalances, SetRoleBalances,
             UpsertBalances DEF Step
<1>4. ASSUME NEW r \in Requests, Stop(r) PROVE Balanced(u)'
  BY <1>4, StopBalances
<1>5. ASSUME NEW r \in Requests, NEW i \in Invites, CreateInvite(r, i) PROVE Balanced(u)'
  BY <1>5, CreateInviteBalances
<1>6. ASSUME NEW i \in Invites, Accept(i) PROVE Balanced(u)'
  BY <1>6, AcceptBalances
<1>7. ASSUME NEW i \in Invites, Expire(i) PROVE Balanced(u)'
  BY <1>7, NothingCounted DEF Expire
<1>8. CASE UNCHANGED vars
  BY <1>8, NothingCounted DEF vars, rows
<1> QED BY <1>1, <1>2, <1>3, <1>4, <1>5, <1>6, <1>7, <1>8 DEF Next

\* Until the workspace is deleted the outbox accounts for every member row, for any
\* users, invitations and overlapping requests.
THEOREM MembersAreAccounted == Spec => []ArrivalsAndDepartures
<1>1. Init => ArrivalsAndDepartures
  <2> SUFFICES ASSUME Init, NEW u \in Users PROVE Balanced(u)
    BY DEF ArrivalsAndDepartures, Balanced, Row
  <2>1. \A types : Counted(types, u, outbox) = {}
    BY DEF Init, Counted
  <2>2. \A types : Count(types, u) = 0
    BY <2>1, CountIs, FS_EmptySet
  <2>3. {r \in Requests : req[r].pc = "announce" /\ req[r].on = u} = {}
    BY IdleOK DEF Init
  <2>4. Departing(u) = 0
    BY <2>3, FS_EmptySet DEF Departing
  <2> QED BY <2>2, <2>4 DEF Balanced, Init, Row
<1>2. IInv /\ ArrivalsAndDepartures /\ [Next]_vars => ArrivalsAndDepartures'
  <2> SUFFICES ASSUME IInv, ArrivalsAndDepartures, [Next]_vars, ~ Deleted'
               PROVE  \A u \in Users : Balanced(u)'
    BY DEF ArrivalsAndDepartures, Balanced, Row
  <2>1. \A u \in Users : Balanced(u)
    BY DeletedStays DEF ArrivalsAndDepartures, Balanced, Row
  <2> QED BY <2>1, BalanceKept
<1> QED BY <1>1, <1>2, Invariance, PTL DEF Spec

-----------------------------------------------------------------------------
(***************************************************************************)
(* Notices.  A command knows the person concerned, and one about to mark   *)
(* has stored; a message the group is past was stored, refused or passed   *)
(* over; and a replica is there once a registration was consumed.          *)
(***************************************************************************)
NewsRecord == [who : People, kind : {"registered", "updated"}]
AskedRecord == [pc : {"none", "create", "sent"}, who : People \cup {Nobody},
                to : People \cup {Nobody}]
CommandRecord == [pc : {"off", "claim", "store", "mark", "release"}, to : People \cup {Nobody}]
PassedRecord == [refused : BOOLEAN, unknownAt : Nat, overwritten : BOOLEAN]

NoticesTyped ==
  /\ standing \in [People -> {"none", "live", "gone"}]
  /\ news \in Seq(NewsRecord)
  /\ asked \in [NoticeIds -> AskedRecord]
  /\ announced \in Seq(NoticeIds)
  /\ group \in [Groups -> GroupState]
  /\ command \in [NoticeIds -> [CommandSlots -> CommandRecord]]
  /\ claims \in [NoticeIds -> {"none", "held", "lapsed", "done"}]
  /\ notices \in [NoticeIds -> People \cup {Nobody}]
  /\ replicas \in [People -> {"none", "placeholder", "known"}] /\ looking \in SUBSET People
  /\ deadLetters \in [Groups -> SUBSET (Nat \ {0})]
  /\ mishaps \in 0..MaxMishaps
  /\ passedOver \in [NoticeIds -> PassedRecord]

GroupOK(q, len) ==
  /\ q.from <= q.at /\ q.at <= len
  /\ q.pc # "poll" => q.at < len /\ q.state = "running"
GroupsOK == GroupOK(group["users"], Len(news)) /\ GroupOK(group["workspaces"], Len(announced))

\* What a group has been through, and not put aside.
Past(g, n) == group[g].from < n /\ n <= group[g].at /\ n \notin deadLetters[g]

\* Whoever's registration was consumed has a replica.
ReplicasOK ==
  \A m \in DOMAIN news :
    Past("users", m) /\ news[m].kind = "registered" => replicas[news[m].who] # "none"

NoticeOK(i) ==
  /\ asked[i].to \in {asked[i].who, Nobody} /\ notices[i] \in {asked[i].who, Nobody}
  /\ IF asked[i].pc = "sent"
       THEN asked[i].who \in People
       ELSE /\ notices[i] = Nobody /\ claims[i] # "done" /\ passedOver[i].unknownAt = 0
            /\ \A k \in CommandSlots : command[i][k] = NoCommand
  /\ asked[i].pc = "create" => asked[i].who \in People
  /\ claims[i] = "done" => notices[i] = asked[i].who
  /\ \A k \in CommandSlots : command[i][k].pc # "off" =>
       /\ command[i][k].to = asked[i].who
       /\ command[i][k].pc = "mark" => notices[i] = asked[i].who

\* A message passed over: no registration consumed before named the person.
PassedOK(i) ==
  passedOver[i].unknownAt > 0 =>
    /\ asked[i].to = Nobody /\ passedOver[i].unknownAt <= Len(news) + 1
    /\ \/ passedOver[i].overwritten
       \/ \A m \in DOMAIN news :
            /\ group["users"].from < m /\ m < passedOver[i].unknownAt
            /\ m \notin deadLetters["users"] /\ news[m].kind = "registered"
            => news[m].who # asked[i].who

Accounted(i) ==
  notices[i] = asked[i].who \/ passedOver[i].refused \/ passedOver[i].unknownAt > 0

AnnouncedOK ==
  \A n \in DOMAIN announced :
    /\ asked[announced[n]].pc = "sent"
    /\ Past("workspaces", n) => Accounted(announced[n])

NoticesInv ==
  /\ NoticesTyped /\ GroupsOK /\ ReplicasOK /\ AnnouncedOK
  /\ \A i \in NoticeIds : NoticeOK(i) /\ PassedOK(i)

LEMMA NoticeTypes == NoticesTyped /\ GroupsOK => NoticesTypeOK
<1> SUFFICES ASSUME NoticesTyped, GroupsOK PROVE NoticesTypeOK
  OBVIOUS
<1>1. \A g \in Groups : group[g].from <= group[g].at /\ group[g].at <= Len(Topic(g))
  BY DEF GroupsOK, GroupOK, Groups, Topic
<1>. QED  BY <1>1, Zenon DEF NoticesTyped, NoticesTypeOK, NewsRecord, AskedRecord, CommandRecord, PassedRecord

LEMMA NoticesImplied == NoticesInv => NoticesTypeOK /\ NoticesExplained
<1> SUFFICES ASSUME NoticesInv PROVE NoticesExplained
  BY NoticeTypes DEF NoticesInv
<1>1. ASSUME NEW n \in Handled("workspaces")
      PROVE  LET i == announced[n] IN
               \/ notices[i] = asked[i].who
               \/ passedOver[i].refused
               \/ /\ passedOver[i].unknownAt > 0
                  /\ asked[i].to = Nobody
                  /\ \/ passedOver[i].overwritten
                     \/ ~ \E m \in Handled("users") :
                            m < passedOver[i].unknownAt
                            /\ news[m] = [who |-> asked[i].who, kind |-> "registered"]
  <2>1. n \in DOMAIN announced /\ Past("workspaces", n)
    BY <1>1 DEF Handled, Topic, Past
  <2>2. announced[n] \in NoticeIds /\ Accounted(announced[n])
    BY <2>1 DEF NoticesInv, NoticesTyped, AnnouncedOK
  <2>3. ASSUME NEW m \in Handled("users")
        PROVE  /\ m \in DOMAIN news /\ group["users"].from < m /\ m \notin deadLetters["users"]
    BY <2>3 DEF Handled, Topic
  <2>. QED  BY <2>2, <2>3 DEF Accounted, NoticesInv, PassedOK
<1>. QED  BY <1>1 DEF NoticesExplained, NoticesInv, NoticeOK

LEMMA NoticesInitially == NoticesInit => NoticesInv
<1> SUFFICES ASSUME NoticesInit PROVE NoticesInv
  OBVIOUS
<1>1. StoppedGroup \in GroupState /\ NoCommand \in CommandRecord
  BY NoticesAssumption DEF StoppedGroup, GroupState, NoCommand, CommandRecord
<1>2. /\ [pc |-> "none", who |-> Nobody, to |-> Nobody] \in AskedRecord
      /\ [refused |-> FALSE, unknownAt |-> 0, overwritten |-> FALSE] \in PassedRecord
  BY DEF AskedRecord, PassedRecord
<1>3. NoticesTyped
  BY <1>1, <1>2, NoticesAssumption DEF NoticesInit, NoticesTyped
<1>4. GroupsOK
  BY DEF NoticesInit, GroupsOK, GroupOK, Groups, StoppedGroup
<1>5. ReplicasOK /\ AnnouncedOK
  BY DEF NoticesInit, ReplicasOK, AnnouncedOK
<1>6. ASSUME NEW i \in NoticeIds PROVE NoticeOK(i) /\ PassedOK(i)
  BY DEF NoticesInit, NoticeOK, PassedOK, NoCommand
<1>. QED  BY <1>3, <1>4, <1>5, <1>6 DEF NoticesInv

LEMMA DoneFields ==
  ASSUME NoticesTyped, NEW g \in Groups
  PROVE  /\ Done(g) \in GroupState /\ Done(g).from = group[g].from
         /\ Done(g).at = group[g].at + 1 /\ Done(g).pc = "poll"
<1> DEFINE q == group[g]
<1>1. q \in GroupState /\ q.at \in Nat /\ q.at + 1 \in Nat /\ 0 \in 0..NoticeAttempts
  BY NoticesAssumption DEF NoticesTyped, GroupState
<1>2. Done(g) = [[[[q EXCEPT !.pc = "poll"] EXCEPT !.at = q.at + 1] EXCEPT !.attempt = 0]
                   EXCEPT !.slot = 0]
  BY <1>1 DEF Done, GroupState
<1> HIDE DEF q
<1>3. /\ Done(g) \in GroupState /\ Done(g).from = q.from
      /\ Done(g).at = q.at + 1 /\ Done(g).pc = "poll"
  BY <1>1, <1>2 DEF GroupState
<1>. QED  BY <1>3 DEF q

LEMMA RetriedFields ==
  ASSUME NoticesTyped, NEW g \in Groups
  PROVE  /\ Retried(g) \in GroupState /\ Retried(g).from = group[g].from
         /\ Retried(g).at = group[g].at /\ Retried(g).state = group[g].state
<1>1. /\ group[g] \in GroupState /\ group[g].attempt \in 0..NoticeAttempts
      /\ NoticeAttempts \in Nat
  BY NoticesAssumption DEF NoticesTyped, GroupState
<1>2. CASE group[g].attempt < NoticeAttempts
  <2>1. group[g].attempt + 1 \in 0..NoticeAttempts
    BY <1>1, <1>2
  <2>. QED  BY <1>1, <1>2, <2>1 DEF Retried, GroupState
<1>3. CASE ~ group[g].attempt < NoticeAttempts
  BY <1>1, <1>3 DEF Retried, GroupState
<1>. QED  BY <1>2, <1>3

\* A step that consumes nothing and tells nobody; commands may all be gone.
LEMMA GroupsMove ==
  ASSUME NoticesInv,
         UNCHANGED <<news, asked, announced, claims, notices, replicas, deadLetters, passedOver>>,
         standing' \in [People -> {"none", "live", "gone"}], looking' \in SUBSET People,
         mishaps' \in 0..MaxMishaps, group' \in [Groups -> GroupState],
         \/ command' = command
         \/ command' = [i \in NoticeIds |-> [k \in CommandSlots |-> NoCommand]],
         \A g \in Groups : group[g].from <= group'[g].from,
         \A g \in Groups, n \in Nat :
           group'[g].from < n /\ n <= group'[g].at => n <= group[g].at,
         GroupOK(group'["users"], Len(news)), GroupOK(group'["workspaces"], Len(announced))
  PROVE  NoticesInv'
<1>1. NoticesTyped'
  <2>1. command' \in [NoticeIds -> [CommandSlots -> CommandRecord]]
    BY DEF NoticesInv, NoticesTyped, NoCommand, CommandRecord
  <2>. QED  BY <2>1 DEF NoticesInv, NoticesTyped
<1>2. GroupsOK'
  BY DEF GroupsOK
<1>3. ASSUME NEW g \in Groups PROVE group[g].from \in Nat /\ group'[g].from \in Nat
  BY DEF NoticesInv, NoticesTyped, GroupState
<1>4. ASSUME NEW g \in Groups, NEW n \in Nat, Past(g, n)' PROVE Past(g, n)
  BY <1>3, <1>4 DEF Past
<1>5. "users" \in Groups /\ "workspaces" \in Groups
  BY DEF Groups
<1>6. ReplicasOK'
  <2>1. ASSUME NEW m \in DOMAIN news PROVE m \in Nat
    BY DEF NoticesInv, NoticesTyped
  <2>. QED  BY <1>4, <1>5, <2>1 DEF NoticesInv, ReplicasOK
<1>7. AnnouncedOK'
  <2>1. ASSUME NEW n \in DOMAIN announced PROVE n \in Nat
    BY DEF NoticesInv, NoticesTyped
  <2>. QED  BY <1>4, <1>5, <2>1 DEF NoticesInv, AnnouncedOK, Accounted
<1>8. ASSUME NEW i \in NoticeIds PROVE NoticeOK(i)'
  <2>1. NoticeOK(i)
    BY DEF NoticesInv
  <2>2. CASE command' = command
    BY <2>1, <2>2 DEF NoticeOK
  <2>3. CASE command' = [j \in NoticeIds |-> [k \in CommandSlots |-> NoCommand]]
    <3>1. \A k \in CommandSlots : command'[i][k] = NoCommand /\ command'[i][k].pc = "off"
      BY <2>3 DEF NoCommand
    <3>. QED  BY <2>1, <3>1 DEF NoticeOK
  <2>. QED  BY <2>2, <2>3
<1>9. ASSUME NEW i \in NoticeIds PROVE PassedOK(i)'
  <2>1. PassedOK(i)
    BY DEF NoticesInv
  <2>2. ASSUME NEW m \in DOMAIN news, group'["users"].from < m PROVE group["users"].from < m
    BY <1>3, <1>5, <2>2 DEF NoticesInv, NoticesTyped
  <2>. QED  BY <2>1, <2>2 DEF PassedOK
<1>. QED  BY <1>1, <1>2, <1>6, <1>7, <1>8, <1>9 DEF NoticesInv

LEMMA MishapsBounded ==
  ASSUME NoticesTyped, Mishap \/ UNCHANGED mishaps
  PROVE  mishaps' \in 0..MaxMishaps
<1>1. mishaps \in 0..MaxMishaps /\ MaxMishaps \in Nat
  BY NoticesAssumption DEF NoticesTyped
<1>2. (mishaps < MaxMishaps /\ mishaps' = mishaps + 1) \/ mishaps' = mishaps
  BY DEF Mishap
<1>. QED  BY <1>1, <1>2

LEMMA AccountsKept ==
  ASSUME NoticesInv, NEW p \in People,
         OpenAccount(p) \/ RollBack(p) \/ AskForActor(p)
  PROVE  NoticesInv'
<1>1. /\ UNCHANGED <<news, asked, announced, claims, notices, replicas, deadLetters, passedOver>>
      /\ UNCHANGED <<group, command>>
      /\ Mishap \/ UNCHANGED mishaps
  BY DEF OpenAccount, RollBack, AskForActor
<1>2. standing' \in [People -> {"none", "live", "gone"}] /\ looking' \in SUBSET People
  BY DEF NoticesInv, NoticesTyped, OpenAccount, RollBack, AskForActor
<1>3. \A g \in Groups : group[g].from \in Nat /\ group[g].at \in Nat
  BY DEF NoticesInv, NoticesTyped, GroupState
<1>4. mishaps' \in 0..MaxMishaps
  BY <1>1, MishapsBounded DEF NoticesInv
<1>. QED  BY <1>1, <1>2, <1>3, <1>4, GroupsMove DEF NoticesInv, NoticesTyped, GroupsOK

\* A group changes that stays where it is.
LEMMA GroupChanges ==
  ASSUME NoticesInv, NEW g \in Groups, NEW q \in GroupState,
         group' = [group EXCEPT ![g] = q],
         UNCHANGED <<standing, news, asked, announced, command, claims, notices, replicas,
                     looking, deadLetters, passedOver>>,
         Mishap \/ UNCHANGED mishaps,
         \/ q.from = group[g].from /\ q.at = group[g].at
         \/ q.from = Len(Topic(g)) /\ q.at = q.from,
         q.pc # "poll" => q.at < Len(Topic(g)) /\ q.state = "running"
  PROVE  NoticesInv'
<1>1. mishaps' \in 0..MaxMishaps
  BY MishapsBounded DEF NoticesInv
<1>2. /\ group' \in [Groups -> GroupState] /\ group'[g] = q
      /\ \A h \in Groups \ {g} : group'[h] = group[h]
  BY DEF NoticesInv, NoticesTyped
<1>3. ASSUME NEW h \in Groups
      PROVE  /\ group[h].from \in Nat /\ group[h].at \in Nat
             /\ Len(Topic(h)) \in Nat /\ GroupOK(group[h], Len(Topic(h)))
  BY DEF NoticesInv, NoticesTyped, GroupState, GroupsOK, Groups, Topic
<1>4. ASSUME NEW h \in Groups
      PROVE  /\ group[h].from <= group'[h].from
             /\ \A n \in Nat : group'[h].from < n /\ n <= group'[h].at => n <= group[h].at
             /\ GroupOK(group'[h], Len(Topic(h)))
  BY <1>2, <1>3 DEF GroupOK
<1>5. GroupOK(group'["users"], Len(news)) /\ GroupOK(group'["workspaces"], Len(announced))
  BY <1>4 DEF Groups, Topic
<1>. QED  BY <1>1, <1>2, <1>4, <1>5, GroupsMove DEF NoticesInv, NoticesTyped

LEMMA GroupsKept ==
  ASSUME NoticesInv, NEW g \in Groups,
         \/ StartGroup(g) \/ GiveUpStarting(g) \/ TakeMessage(g) \/ HandlerFails(g)
         \/ ParkFails(g)
  PROVE  NoticesInv'
<1>1. /\ group[g] \in GroupState /\ Len(Topic(g)) \in Nat
      /\ GroupOK(group[g], Len(Topic(g)))
  BY DEF NoticesInv, NoticesTyped, Groups, Topic, GroupsOK
<1>2. CASE StartGroup(g)
  <2> DEFINE from == IF group[g].fresh THEN Len(Topic(g)) ELSE group[g].from
             at == IF group[g].fresh THEN from ELSE group[g].at
             q == [[[[group[g] EXCEPT !.state = "running"] EXCEPT !.fresh = FALSE]
                     EXCEPT !.from = from] EXCEPT !.at = at]
  <2>1. from \in Nat /\ at \in Nat
    BY <1>1 DEF GroupState
  <2>2. group' = [group EXCEPT ![g] = q]
    BY <1>1, <1>2 DEF StartGroup, GroupState
  <2>3. q \in GroupState /\ q.from = from /\ q.at = at /\ q.pc = group[g].pc
    <3>. HIDE DEF from, at
    <3>. QED  BY <1>1, <2>1 DEF GroupState
  <2>4. q.pc = "poll"
    BY <1>1, <1>2, <2>3 DEF StartGroup, GroupOK
  <2>. HIDE DEF q
  <2>5. \/ q.from = group[g].from /\ q.at = group[g].at
        \/ q.from = Len(Topic(g)) /\ q.at = q.from
    BY <2>3
  <2>6. /\ UNCHANGED <<standing, news, asked, announced, command, claims, notices, replicas,
                       looking, deadLetters, passedOver>>
        /\ UNCHANGED mishaps
    BY <1>2 DEF StartGroup
  <2>. QED  BY <2>2, <2>3, <2>4, <2>5, <2>6, GroupChanges
<1>3. CASE GiveUpStarting(g)
  <2> DEFINE q == [group[g] EXCEPT !.state = "given_up"]
  <2>1. /\ group' = [group EXCEPT ![g] = q]
        /\ UNCHANGED <<standing, news, asked, announced, command, claims, notices, replicas,
                       looking, deadLetters, passedOver>>
        /\ Mishap /\ group[g].pc = "poll"
    BY <1>1, <1>3 DEF GiveUpStarting, GroupOK
  <2>2. q \in GroupState /\ q.from = group[g].from /\ q.at = group[g].at /\ q.pc = "poll"
    BY <1>1, <2>1 DEF GroupState
  <2>. HIDE DEF q
  <2>. QED  BY <2>1, <2>2, GroupChanges
<1>4. CASE TakeMessage(g)
  <2> DEFINE q == [[group[g] EXCEPT !.pc = "handle"] EXCEPT !.attempt = 1]
  <2>1. /\ group' = [group EXCEPT ![g] = q]
        /\ UNCHANGED <<standing, news, asked, announced, command, claims, notices, replicas,
                       looking, deadLetters, passedOver>>
        /\ UNCHANGED mishaps /\ group[g].at < Len(Topic(g)) /\ group[g].state = "running"
    BY <1>1, <1>4 DEF TakeMessage, Doing, GroupState
  <2>2. 1 \in 0..NoticeAttempts
    BY NoticesAssumption
  <2>3. q \in GroupState /\ q.from = group[g].from /\ q.at = group[g].at /\ q.state = group[g].state
    BY <1>1, <2>2 DEF GroupState
  <2>. HIDE DEF q
  <2>. QED  BY <2>1, <2>3, GroupChanges
<1>5. CASE HandlerFails(g)
  <2>1. /\ group' = [group EXCEPT ![g] = Retried(g)]
        /\ UNCHANGED <<standing, news, asked, announced, command, claims, notices, replicas,
                       looking, deadLetters, passedOver>>
        /\ Mishap /\ group[g].at < Len(Topic(g)) /\ group[g].state = "running"
    BY <1>1, <1>5 DEF HandlerFails, Doing, GroupOK
  <2>. QED  BY <2>1, RetriedFields, GroupChanges DEF NoticesInv
<1>6. CASE ParkFails(g)
  <2> DEFINE q == [group[g] EXCEPT !.pc = "poll"]
  <2>1. /\ group' = [group EXCEPT ![g] = q]
        /\ UNCHANGED <<standing, news, asked, announced, command, claims, notices, replicas,
                       looking, deadLetters, passedOver>>
        /\ Mishap
    BY <1>1, <1>6 DEF ParkFails
  <2>2. q \in GroupState /\ q.from = group[g].from /\ q.at = group[g].at /\ q.pc = "poll"
    BY <1>1 DEF GroupState
  <2>. HIDE DEF q
  <2>. QED  BY <2>1, <2>2, GroupChanges
<1>. QED  BY <1>2, <1>3, <1>4, <1>5, <1>6

LEMMA TimeOutKept ==
  ASSUME NoticesInv, CommandTimesOut
  PROVE  NoticesInv'
<1>1. /\ group' = [group EXCEPT !["workspaces"] = Retried("workspaces")]
      /\ UNCHANGED <<standing, news, asked, announced, command, claims, notices, replicas,
                     looking, deadLetters, passedOver>>
      /\ Mishap /\ Doing("workspaces", "await")
  BY DEF CommandTimesOut
<1>2. "workspaces" \in Groups
  BY DEF Groups
<1>3. group["workspaces"].at < Len(Topic("workspaces")) /\ group["workspaces"].state = "running"
  BY <1>1 DEF NoticesInv, GroupsOK, GroupOK, Doing, Topic
<1>. QED  BY <1>1, <1>2, <1>3, RetriedFields, GroupChanges DEF NoticesInv

LEMMA RestartKept ==
  ASSUME NoticesInv, RestartPod
  PROVE  NoticesInv'
<1>1. PICK at \in [Groups -> Nat] :
        /\ \A g \in Groups : at[g] \in Repeatable(g)
        /\ group' = [g \in Groups |->
             [group[g] EXCEPT !.state = "starting", !.pc = "poll", !.attempt = 0, !.slot = 0,
                              !.at = at[g]]]
  <2>1. PICK users \in Repeatable("users"), workspaces \in Repeatable("workspaces") :
          group' = [g \in Groups |->
            [group[g] EXCEPT !.state = "starting", !.pc = "poll", !.attempt = 0, !.slot = 0,
                             !.at = IF g = "users" THEN users ELSE workspaces]]
    BY DEF RestartPod
  <2> DEFINE at == [g \in Groups |-> IF g = "users" THEN users ELSE workspaces]
  <2>2. ASSUME NEW g \in Groups PROVE Repeatable(g) \subseteq Nat
    <3>1. group[g].from \in Nat /\ group[g].at \in Nat
      BY DEF NoticesInv, NoticesTyped, GroupState
    <3>. QED  BY <3>1 DEF Repeatable
  <2>3. at \in [Groups -> Nat] /\ \A g \in Groups : at[g] \in Repeatable(g)
    BY <2>2 DEF Groups
  <2>4. group' = [g \in Groups |->
             [group[g] EXCEPT !.state = "starting", !.pc = "poll", !.attempt = 0, !.slot = 0,
                              !.at = at[g]]]
    BY <2>1
  <2>. HIDE DEF at
  <2>. QED  BY <2>3, <2>4
<1>2. /\ UNCHANGED <<standing, news, asked, announced, claims, notices, replicas, deadLetters,
                     passedOver>>
      /\ command' = [i \in NoticeIds |-> [k \in CommandSlots |-> NoCommand]]
      /\ looking' = {} /\ Mishap
  BY DEF RestartPod
<1>3. mishaps' \in 0..MaxMishaps
  BY <1>2, MishapsBounded DEF NoticesInv
<1>4. ASSUME NEW g \in Groups
      PROVE  /\ group[g] \in GroupState /\ GroupOK(group[g], Len(Topic(g)))
             /\ group[g].from \in Nat /\ group[g].at \in Nat /\ Len(Topic(g)) \in Nat
  BY DEF NoticesInv, NoticesTyped, GroupState, GroupsOK, Groups, Topic
<1>5. ASSUME NEW g \in Groups
      PROVE  /\ group'[g] \in GroupState /\ group'[g].from = group[g].from
             /\ group'[g].at = at[g] /\ group'[g].pc = "poll"
  <2>1. 0 \in 0..NoticeAttempts
    BY NoticesAssumption
  <2>2. group'[g] = [[[[[group[g] EXCEPT !.state = "starting"] EXCEPT !.pc = "poll"]
                         EXCEPT !.attempt = 0] EXCEPT !.slot = 0] EXCEPT !.at = at[g]]
    BY <1>1, <1>4 DEF GroupState
  <2> DEFINE q == group[g]
             v == at[g]
  <2>3. q \in GroupState /\ v \in Nat
        /\ group'[g] = [[[[[q EXCEPT !.state = "starting"] EXCEPT !.pc = "poll"]
                         EXCEPT !.attempt = 0] EXCEPT !.slot = 0] EXCEPT !.at = v]
    BY <1>4, <2>2
  <2>. HIDE DEF q, v
  <2>4. /\ group'[g] \in GroupState /\ group'[g].from = q.from
        /\ group'[g].at = v /\ group'[g].pc = "poll"
    BY <2>1, <2>3 DEF GroupState
  <2>. QED  BY <2>4 DEF q, v
<1>6. group' \in [Groups -> GroupState]
  <2>1. group' = [g \in Groups |-> group'[g]]
    BY <1>1
  <2>. QED  BY <1>5, <2>1
<1>7. ASSUME NEW g \in Groups
      PROVE  group[g].from <= at[g] /\ at[g] <= group[g].at
  <2>1. at[g] \in {group[g].at} \cup ({group[g].at - 1} \cap group[g].from..group[g].at)
    BY <1>1 DEF Repeatable
  <2>2. group[g].from <= group[g].at
    BY <1>4 DEF GroupOK
  <2>. QED  BY <1>4, <2>1, <2>2
<1>8. ASSUME NEW g \in Groups
      PROVE  /\ group[g].from <= group'[g].from
             /\ \A n \in Nat : group'[g].from < n /\ n <= group'[g].at => n <= group[g].at
             /\ GroupOK(group'[g], Len(Topic(g)))
  <2>1. at[g] \in Nat /\ group[g].at <= Len(Topic(g))
    BY <1>4 DEF GroupOK
  <2>2. ASSUME NEW n \in Nat, n <= group'[g].at PROVE n <= group[g].at
    BY <1>4, <1>5, <1>7, <2>1, <2>2
  <2>3. at[g] <= Len(Topic(g))
    BY <1>4, <1>7, <2>1
  <2>4. group[g].from <= group'[g].from
    BY <1>4, <1>5
  <2>. QED  BY <1>5, <1>7, <2>2, <2>3, <2>4 DEF GroupOK
<1>9. GroupOK(group'["users"], Len(news)) /\ GroupOK(group'["workspaces"], Len(announced))
  BY <1>8 DEF Groups, Topic
<1>. QED  BY <1>2, <1>3, <1>6, <1>8, <1>9, GroupsMove DEF NoticesInv, NoticesTyped

LEMMA NewsKept ==
  ASSUME NoticesInv, NEW p \in People, NEW kind \in {"registered", "updated"}, Publish(p, kind)
  PROVE  NoticesInv'
<1>1. /\ news' = Append(news, [who |-> p, kind |-> kind])
      /\ UNCHANGED <<standing, asked, announced, group, command, claims, notices, replicas,
                     looking, deadLetters, mishaps, passedOver>>
  BY DEF Publish
<1>2. /\ news \in Seq(NewsRecord) /\ [who |-> p, kind |-> kind] \in NewsRecord
      /\ group["users"] \in GroupState
  BY DEF NewsRecord, NoticesInv, NoticesTyped, Groups
<1>3. /\ news' \in Seq(NewsRecord) /\ Len(news') = Len(news) + 1 /\ Len(news) \in Nat
      /\ \A m \in DOMAIN news : m \in DOMAIN news' /\ news'[m] = news[m]
      /\ \A m \in DOMAIN news' : m \in Nat /\ (m \in DOMAIN news \/ m = Len(news) + 1)
  BY <1>1, <1>2
<1>4. NoticesTyped'
  BY <1>1, <1>3 DEF NoticesInv, NoticesTyped
<1>5. GroupsOK'
  BY <1>1, <1>2, <1>3 DEF NoticesInv, GroupsOK, GroupOK, GroupState
<1>6. ASSUME NEW m \in DOMAIN news', Past("users", m)' PROVE m \in DOMAIN news /\ Past("users", m)
  BY <1>1, <1>2, <1>3, <1>6 DEF Past, NoticesInv, GroupsOK, GroupOK, GroupState
<1>7. ReplicasOK'
  BY <1>1, <1>3, <1>6 DEF NoticesInv, ReplicasOK
<1>8. AnnouncedOK'
  BY <1>1 DEF NoticesInv, AnnouncedOK, Accounted, Past
<1>9. ASSUME NEW i \in NoticeIds PROVE NoticeOK(i)'
  BY <1>1 DEF NoticesInv, NoticeOK
<1>10. ASSUME NEW i \in NoticeIds PROVE PassedOK(i)'
  <2>1. PassedOK(i) /\ passedOver[i].unknownAt \in Nat
    BY DEF NoticesInv, NoticesTyped, PassedRecord
  <2>2. ASSUME passedOver[i].unknownAt > 0, NEW m \in DOMAIN news', m < passedOver[i].unknownAt
        PROVE  m \in DOMAIN news
    BY <1>3, <2>1, <2>2 DEF PassedOK
  <2>3. passedOver[i].unknownAt > 0 => passedOver[i].unknownAt <= Len(news')  + 1
    BY <1>3, <2>1 DEF PassedOK
  <2>. QED  BY <1>1, <1>3, <2>1, <2>2, <2>3 DEF PassedOK
<1>. QED  BY <1>4, <1>5, <1>7, <1>8, <1>9, <1>10 DEF NoticesInv

\* A notice that was not sent has left no trace; its message is announced once.
LEMMA AskKept ==
  ASSUME NoticesInv, NEW i \in NoticeIds, NEW q \in AskedRecord,
         asked' = [asked EXCEPT ![i] = q], asked[i].pc # "sent",
         q.pc # "none", q.who \in People, q.to \in {q.who, Nobody},
         announced' = IF q.pc = "sent" THEN Append(announced, i) ELSE announced,
         UNCHANGED <<standing, news, group, command, claims, notices, replicas, looking,
                     deadLetters, passedOver>>,
         Mishap \/ UNCHANGED mishaps
  PROVE  NoticesInv'
<1>1. /\ asked'[i] = q /\ asked' \in [NoticeIds -> AskedRecord]
      /\ \A j \in NoticeIds \ {i} : asked'[j] = asked[j]
  BY DEF NoticesInv, NoticesTyped
<1>2. /\ announced' \in Seq(NoticeIds) /\ Len(announced) \in Nat /\ Len(announced') >= Len(announced)
      /\ Len(announced') \in Nat
      /\ \A n \in DOMAIN announced : announced[n] \in NoticeIds
      /\ \A n \in DOMAIN announced' :
           /\ n \in Nat /\ announced'[n] \in NoticeIds
           /\ \/ n \in DOMAIN announced /\ announced'[n] = announced[n]
              \/ n = Len(announced) + 1 /\ announced'[n] = i /\ q.pc = "sent"
  <2>1. announced \in Seq(NoticeIds)
    BY DEF NoticesInv, NoticesTyped
  <2>2. CASE q.pc = "sent"
    BY <2>1, <2>2
  <2>3. CASE q.pc # "sent"
    BY <2>1, <2>3
  <2>. QED  BY <2>2, <2>3
<1>3. /\ group["users"] \in GroupState /\ group["workspaces"] \in GroupState
      /\ mishaps' \in 0..MaxMishaps
  BY MishapsBounded DEF NoticesInv, NoticesTyped, Groups
<1>4. NoticesTyped'
  BY <1>1, <1>2, <1>3 DEF NoticesInv, NoticesTyped
<1>5. GroupsOK'
  BY <1>2, <1>3 DEF NoticesInv, GroupsOK, GroupOK, GroupState
<1>6. ReplicasOK'
  BY DEF NoticesInv, ReplicasOK, Past
<1>7. AnnouncedOK'
  <2>1. ASSUME NEW n \in DOMAIN announced' PROVE asked'[announced'[n]].pc = "sent"
    <3>1. CASE n \in DOMAIN announced /\ announced'[n] = announced[n]
      BY <1>1, <1>2, <3>1 DEF NoticesInv, AnnouncedOK
    <3>2. CASE announced'[n] = i /\ q.pc = "sent"
      BY <1>1, <3>2
    <3>. QED  BY <1>2, <3>1, <3>2
  <2>2. ASSUME NEW n \in DOMAIN announced', Past("workspaces", n)'
        PROVE  Accounted(announced[n])' 
    <3>1. n \in DOMAIN announced /\ announced'[n] = announced[n] /\ Past("workspaces", n)
      BY <1>2, <1>3, <2>2 DEF Past, NoticesInv, GroupsOK, GroupOK, GroupState
    <3>2. Accounted(announced[n]) /\ announced[n] # i /\ announced[n] \in NoticeIds
      BY <1>2, <3>1 DEF NoticesInv, AnnouncedOK
    <3>. QED  BY <1>1, <3>1, <3>2 DEF Accounted
  <2>. QED  BY <2>1, <2>2 DEF AnnouncedOK
<1>8. ASSUME NEW j \in NoticeIds PROVE NoticeOK(j)' /\ PassedOK(j)'
  <2>1. NoticeOK(j) /\ PassedOK(j)
    BY DEF NoticesInv
  <2>2. CASE j # i
    BY <1>1, <2>1, <2>2 DEF NoticeOK, PassedOK
  <2>3. CASE j = i
    <3>1. /\ notices[i] = Nobody /\ claims[i] # "done" /\ passedOver[i].unknownAt = 0
          /\ \A k \in CommandSlots : command[i][k].pc = "off" /\ command[i][k] = NoCommand
      BY <2>1, <2>3 DEF NoticeOK, NoCommand
    <3>. QED  BY <1>1, <2>3, <3>1 DEF NoticeOK, PassedOK
  <2>. QED  BY <2>2, <2>3
<1>. QED  BY <1>4, <1>5, <1>6, <1>7, <1>8 DEF NoticesInv

LEMMA WorkspaceKept ==
  ASSUME NoticesInv, NEW i \in NoticeIds,
         \/ CreateAndPublishInvited(i)
         \/ \E p \in People, answered \in BOOLEAN : LookUpAccount(i, p, answered)
         \/ \E p \in People : PublishDeleted(i, p)
  PROVE  NoticesInv'
<1>1. asked[i] \in AskedRecord /\ NoticeOK(i)
  BY DEF NoticesInv, NoticesTyped
<1>2. CASE CreateAndPublishInvited(i)
  <2> DEFINE q == [asked[i] EXCEPT !.pc = "sent"]
  <2>1. /\ asked' = [asked EXCEPT ![i] = q] /\ announced' = Append(announced, i)
        /\ asked[i].pc = "create"
        /\ UNCHANGED <<standing, news, group, command, claims, notices, replicas, looking,
                       deadLetters, passedOver>>
        /\ UNCHANGED mishaps
    BY <1>1, <1>2 DEF CreateAndPublishInvited
  <2>2. q \in AskedRecord /\ q.pc = "sent" /\ q.who = asked[i].who /\ q.to = asked[i].to
    BY <1>1 DEF AskedRecord
  <2>3. q.who \in People /\ q.to \in {q.who, Nobody}
    BY <1>1, <2>1, <2>2 DEF NoticeOK
  <2>. HIDE DEF q
  <2>. QED  BY <2>1, <2>2, <2>3, AskKept
<1>3. ASSUME NEW p \in People, NEW answered \in BOOLEAN, LookUpAccount(i, p, answered)
      PROVE  NoticesInv'
  <2> DEFINE q == [pc |-> "create", who |-> p,
                   to |-> IF answered /\ FoundAccount(p) THEN p ELSE Nobody]
  <2>1. /\ asked' = [asked EXCEPT ![i] = q] /\ announced' = announced
        /\ asked[i].pc = "none"
        /\ UNCHANGED <<standing, news, group, command, claims, notices, replicas, looking,
                       deadLetters, passedOver>>
        /\ Mishap \/ UNCHANGED mishaps
    BY <1>3 DEF LookUpAccount
  <2>2. q \in AskedRecord /\ q.pc = "create" /\ q.who = p /\ q.to \in {p, Nobody}
    BY DEF AskedRecord
  <2>. HIDE DEF q
  <2>. QED  BY <2>1, <2>2, AskKept
<1>4. ASSUME NEW p \in People, PublishDeleted(i, p) PROVE NoticesInv'
  <2> DEFINE q == [pc |-> "sent", who |-> p, to |-> p]
  <2>1. /\ asked' = [asked EXCEPT ![i] = q] /\ announced' = Append(announced, i)
        /\ asked[i].pc = "none"
        /\ UNCHANGED <<standing, news, group, command, claims, notices, replicas, looking,
                       deadLetters, passedOver>>
        /\ UNCHANGED mishaps
    BY <1>4 DEF PublishDeleted
  <2>2. q \in AskedRecord /\ q.pc = "sent" /\ q.who = p /\ q.to = p
    BY DEF AskedRecord
  <2>. HIDE DEF q
  <2>. QED  BY <2>1, <2>2, AskKept
<1>. QED  BY <1>2, <1>3, <1>4

\* The users' group is past one more message: it is put aside, or its person is known.
LEMMA UsersPass ==
  ASSUME NoticesInv, group["users"].at < Len(news),
         group' = [group EXCEPT !["users"] = Done("users")],
         replicas' \in [People -> {"none", "placeholder", "known"}],
         deadLetters' \in [Groups -> SUBSET (Nat \ {0})],
         UNCHANGED <<standing, news, asked, announced, command, claims, notices, looking,
                     mishaps, passedOver>>,
         \A p \in People : replicas[p] # "none" => replicas'[p] # "none",
         \A g \in Groups : deadLetters[g] \subseteq deadLetters'[g],
         \/ group["users"].at + 1 \in deadLetters'["users"]
         \/ news[group["users"].at + 1].kind # "registered"
         \/ replicas'[news[group["users"].at + 1].who] # "none"
  PROVE  NoticesInv'
<1>1. /\ "users" \in Groups /\ "workspaces" \in Groups
      /\ group["users"] \in GroupState /\ group["users"].at \in Nat
      /\ group["users"].from \in Nat /\ Len(news) \in Nat
      /\ \A m \in DOMAIN news : m \in Nat /\ news[m].who \in People
  <2>1. news \in Seq(NewsRecord)
    BY DEF NoticesInv, NoticesTyped
  <2>2. ASSUME NEW m \in DOMAIN news PROVE m \in Nat /\ news[m].who \in People
    <3>1. m \in Nat /\ news[m] \in NewsRecord
      BY <2>1
    <3>. QED  BY <3>1 DEF NewsRecord
  <2>. QED  BY <2>1, <2>2 DEF NoticesInv, NoticesTyped, Groups, GroupState
<1>2. /\ Done("users") \in GroupState /\ Done("users").from = group["users"].from
      /\ Done("users").at = group["users"].at + 1 /\ Done("users").pc = "poll"
  BY <1>1, DoneFields DEF NoticesInv
<1>3. /\ group'["users"] = Done("users") /\ group'["workspaces"] = group["workspaces"]
      /\ group' \in [Groups -> GroupState]
  BY <1>1, <1>2 DEF NoticesInv, NoticesTyped
<1>4. NoticesTyped'
  BY <1>3 DEF NoticesInv, NoticesTyped
<1>5. GroupsOK'
  BY <1>1, <1>2, <1>3 DEF NoticesInv, GroupsOK, GroupOK
<1>6. ASSUME NEW m \in DOMAIN news, Past("users", m)'
      PROVE  m = group["users"].at + 1 \/ Past("users", m)
  BY <1>1, <1>2, <1>3, <1>6 DEF Past
<1>7. ReplicasOK'
  <2>1. ASSUME NEW m \in DOMAIN news, Past("users", m)', news[m].kind = "registered"
        PROVE  replicas'[news[m].who] # "none"
    <3>1. CASE Past("users", m)
      BY <1>1, <2>1, <3>1 DEF NoticesInv, ReplicasOK
    <3>2. CASE m = group["users"].at + 1
      BY <2>1, <3>2 DEF Past
    <3>. QED  BY <1>6, <2>1, <3>1, <3>2
  <2>. QED  BY <2>1 DEF ReplicasOK
<1>8. AnnouncedOK'
  <2>1. ASSUME NEW n \in DOMAIN announced, Past("workspaces", n)' PROVE Past("workspaces", n)
    BY <1>1, <1>3, <2>1 DEF Past
  <2>. QED  BY <2>1 DEF NoticesInv, AnnouncedOK, Accounted
<1>9. ASSUME NEW i \in NoticeIds PROVE NoticeOK(i)' /\ PassedOK(i)'
  <2>1. NoticeOK(i) /\ PassedOK(i)
    BY DEF NoticesInv
  <2>. QED  BY <1>1, <1>2, <1>3, <2>1 DEF NoticeOK, PassedOK
<1>. QED  BY <1>4, <1>5, <1>7, <1>8, <1>9 DEF NoticesInv

\* What the workspaces' group, and the commands it started, do: command k of i
\* becomes d, the notice x, the claim c, the history w and the group q.
Advances(i, k, d, x, c, w, q) ==
  /\ d \in CommandRecord /\ x \in {notices[i], asked[i].who}
  /\ c \in {"none", "held", "lapsed", "done"} /\ w \in PassedRecord /\ q \in GroupState
  /\ command' = [command EXCEPT ![i] = [command[i] EXCEPT ![k] = d]]
  /\ notices' = [notices EXCEPT ![i] = x] /\ claims' = [claims EXCEPT ![i] = c]
  /\ passedOver' = [passedOver EXCEPT ![i] = w]
  /\ group' = [group EXCEPT !["workspaces"] = q]
  /\ UNCHANGED <<standing, news, asked, announced, replicas, looking, deadLetters>>
  /\ Mishap \/ UNCHANGED mishaps
  /\ notices[i] # Nobody => x = notices[i]
  /\ c = "done" => x = asked[i].who
  /\ d.pc # "off" => d.to = asked[i].who /\ (d.pc = "mark" => x = asked[i].who)
  /\ w.unknownAt = passedOver[i].unknownAt /\ w.overwritten = passedOver[i].overwritten
  /\ passedOver[i].refused => w.refused
  /\ q.from = group["workspaces"].from
  /\ q.pc # "poll" => q.at < Len(announced) /\ q.state = "running"
  /\ \/ q.at = group["workspaces"].at
     \/ /\ q.at = group["workspaces"].at + 1 /\ q.at <= Len(announced)
        /\ announced[q.at] = i /\ (x = asked[i].who \/ w.refused)

LEMMA CommandStep ==
  ASSUME NoticesInv, NEW i \in NoticeIds, asked[i].pc = "sent", NEW k \in CommandSlots,
         NEW d, NEW x, NEW c, NEW w, NEW q, Advances(i, k, d, x, c, w, q)
  PROVE  NoticesInv'
<1>. USE DEF Advances
<1>1. /\ "users" \in Groups /\ "workspaces" \in Groups
      /\ NoticeOK(i) /\ asked[i].who \in People /\ x \in People \cup {Nobody}
      /\ group["workspaces"].at \in Nat /\ group["workspaces"].from \in Nat
      /\ Len(announced) \in Nat /\ GroupOK(group["workspaces"], Len(announced))
      /\ \A n \in DOMAIN announced : n \in Nat /\ announced[n] \in NoticeIds
  BY DEF NoticesInv, NoticesTyped, Groups, GroupState, NoticeOK, GroupsOK
<1>2. /\ group'["workspaces"] = q /\ group'["users"] = group["users"]
      /\ group' \in [Groups -> GroupState]
      /\ command' \in [NoticeIds -> [CommandSlots -> CommandRecord]]
      /\ command'[i][k] = d /\ \A l \in CommandSlots \ {k} : command'[i][l] = command[i][l]
      /\ notices'[i] = x /\ claims'[i] = c /\ passedOver'[i] = w
      /\ \A j \in NoticeIds \ {i} :
           /\ command'[j] = command[j] /\ notices'[j] = notices[j]
           /\ claims'[j] = claims[j] /\ passedOver'[j] = passedOver[j]
  BY <1>1 DEF NoticesInv, NoticesTyped
<1>3. NoticesTyped'
  <2>1. /\ notices' \in [NoticeIds -> People \cup {Nobody}]
        /\ claims' \in [NoticeIds -> {"none", "held", "lapsed", "done"}]
        /\ passedOver' \in [NoticeIds -> PassedRecord]
    BY <1>1 DEF NoticesInv, NoticesTyped
  <2>2. mishaps' \in 0..MaxMishaps
    BY MishapsBounded DEF NoticesInv
  <2>. QED  BY <1>2, <2>1, <2>2 DEF NoticesInv, NoticesTyped
<1>4. GroupsOK'
  BY <1>1, <1>2 DEF NoticesInv, GroupsOK, GroupOK
<1>5. ReplicasOK'
  BY <1>1, <1>2 DEF NoticesInv, ReplicasOK, Past
<1>6. ASSUME NEW j \in NoticeIds, Accounted(j) PROVE Accounted(j)'
  <2>1. NoticeOK(j)
    BY DEF NoticesInv
  <2>2. CASE j # i
    BY <1>2, <1>6, <2>2 DEF Accounted
  <2>3. CASE j = i
    BY <1>1, <1>2, <1>6, <2>3 DEF Accounted
  <2>. QED  BY <2>2, <2>3
<1>7. AnnouncedOK'
  <2>1. ASSUME NEW n \in DOMAIN announced, Past("workspaces", n)' PROVE Accounted(announced[n])'
    <3>1. CASE Past("workspaces", n)
      BY <1>1, <1>6, <3>1 DEF NoticesInv, AnnouncedOK
    <3>2. CASE ~ Past("workspaces", n)
      <4>1. n = q.at /\ announced[n] = i /\ (x = asked[i].who \/ w.refused)
        BY <1>1, <1>2, <2>1, <3>2 DEF Past
      <4>. QED  BY <1>2, <4>1 DEF Accounted
    <3>. QED  BY <3>1, <3>2
  <2>. QED  BY <2>1 DEF NoticesInv, AnnouncedOK
<1>8. ASSUME NEW j \in NoticeIds PROVE NoticeOK(j)'
  <2>1. NoticeOK(j)
    BY DEF NoticesInv
  <2>2. CASE j # i
    BY <1>2, <2>1, <2>2 DEF NoticeOK
  <2>3. CASE j = i
    <3>1. ASSUME NEW l \in CommandSlots, command'[i][l].pc # "off"
          PROVE  /\ command'[i][l].to = asked[i].who
                 /\ command'[i][l].pc = "mark" => notices'[i] = asked[i].who
      <4>1. CASE l = k
        BY <1>2, <3>1, <4>1
      <4>2. CASE l # k
        BY <1>1, <1>2, <3>1, <4>2, NoticesAssumption DEF NoticeOK
      <4>. QED  BY <4>1, <4>2
    <3>. QED  BY <1>1, <1>2, <2>1, <2>3, <3>1 DEF NoticeOK
  <2>. QED  BY <2>2, <2>3
<1>9. ASSUME NEW j \in NoticeIds PROVE PassedOK(j)'
  <2>1. PassedOK(j)
    BY DEF NoticesInv
  <2>2. /\ passedOver'[j].unknownAt = passedOver[j].unknownAt
        /\ passedOver'[j].overwritten = passedOver[j].overwritten
    BY <1>2
  <2>. QED  BY <1>2, <2>1, <2>2 DEF PassedOK
<1>. QED  BY <1>3, <1>4, <1>5, <1>7, <1>8, <1>9 DEF NoticesInv

LEMMA UsersKept ==
  ASSUME NoticesInv, HandleUserRegistered \/ HandleUserProfileUpdated
  PROVE  NoticesInv'
<1>1. /\ Doing("users", "handle") /\ group' = [group EXCEPT !["users"] = Done("users")]
      /\ UNCHANGED <<standing, news, asked, announced, command, claims, notices, looking,
                     deadLetters, mishaps, passedOver>>
      /\ \/ /\ Current("users").kind = "registered"
            /\ replicas' = [replicas EXCEPT ![Current("users").who] = "known"]
         \/ Current("users").kind = "updated" /\ replicas' = replicas
  BY DEF HandleUserRegistered, HandleUserProfileUpdated
<1>2. /\ group["users"].at < Len(news) /\ Current("users") = news[group["users"].at + 1]
      /\ replicas \in [People -> {"none", "placeholder", "known"}]
      /\ deadLetters \in [Groups -> SUBSET (Nat \ {0})]
  BY <1>1 DEF NoticesInv, NoticesTyped, GroupsOK, GroupOK, Doing, Current, Topic
<1>3. Current("users").who \in People
  <2>1. /\ news \in Seq(NewsRecord) /\ group["users"].at + 1 \in DOMAIN news
    BY <1>2 DEF NoticesInv, NoticesTyped, Groups, GroupState
  <2>2. news[group["users"].at + 1] \in NewsRecord
    BY <2>1
  <2>. QED  BY <1>2, <2>2 DEF NewsRecord
<1>4. /\ replicas' \in [People -> {"none", "placeholder", "known"}]
      /\ \A p \in People : replicas[p] # "none" => replicas'[p] # "none"
      /\ \/ Current("users").kind # "registered"
         \/ replicas'[Current("users").who] # "none"
  BY <1>1, <1>2, <1>3
<1>. QED  BY <1>1, <1>2, <1>4, UsersPass

LEMMA ActorKept ==
  ASSUME NoticesInv, NEW p \in People, StoreActor(p)
  PROVE  NoticesInv'
<1>1. /\ looking' \in SUBSET People
      /\ replicas' \in [People -> {"none", "placeholder", "known"}]
      /\ \A u \in People : replicas[u] # "none" => replicas'[u] # "none"
      /\ UNCHANGED <<standing, news, asked, announced, group, command, claims, notices,
                     deadLetters, mishaps, passedOver>>
  BY DEF StoreActor, NoticesInv, NoticesTyped
<1>2. NoticesTyped'
  BY <1>1 DEF NoticesInv, NoticesTyped
<1>3. ReplicasOK'
  <2>1. ASSUME NEW m \in DOMAIN news PROVE news[m].who \in People
    <3>1. news[m] \in NewsRecord
      BY DEF NoticesInv, NoticesTyped
    <3>. QED  BY <3>1 DEF NewsRecord
  <2>. QED  BY <1>1, <2>1 DEF NoticesInv, ReplicasOK, Past
<1>4. GroupsOK' /\ AnnouncedOK'
  BY <1>1 DEF NoticesInv, GroupsOK, AnnouncedOK, Accounted, Past
<1>5. ASSUME NEW i \in NoticeIds PROVE NoticeOK(i)' /\ PassedOK(i)'
  BY <1>1 DEF NoticesInv, NoticeOK, PassedOK
<1>. QED  BY <1>2, <1>3, <1>4, <1>5 DEF NoticesInv

LEMMA ParkKept ==
  ASSUME NoticesInv, NEW g \in Groups, Park(g)
  PROVE  NoticesInv'
<1>1. /\ Doing(g, "park")
      /\ deadLetters' = [deadLetters EXCEPT ![g] = deadLetters[g] \cup {group[g].at + 1}]
      /\ group' = [group EXCEPT ![g] = Done(g)]
      /\ UNCHANGED <<standing, news, asked, announced, command, claims, notices, looking,
                     replicas, mishaps, passedOver>>
  BY DEF Park
<1>2. /\ deadLetters' \in [Groups -> SUBSET (Nat \ {0})]
      /\ group[g].at + 1 \in deadLetters'[g]
      /\ \A h \in Groups : deadLetters[h] \subseteq deadLetters'[h]
      /\ \A h \in Groups \ {g} : deadLetters'[h] = deadLetters[h]
  <2>1. group[g].at + 1 \in Nat \ {0}
    BY DEF NoticesInv, NoticesTyped, GroupState
  <2>. QED  BY <1>1, <2>1 DEF NoticesInv, NoticesTyped
<1>3. CASE g = "users"
  <2>1. group["users"].at < Len(news)
    BY <1>1, <1>3 DEF NoticesInv, GroupsOK, GroupOK, Doing
  <2>. QED  BY <1>1, <1>2, <1>3, <2>1, UsersPass DEF NoticesInv, NoticesTyped
<1>4. CASE g = "workspaces"
  <2>1. /\ group["workspaces"].at < Len(announced) /\ group["workspaces"].at \in Nat
        /\ group["workspaces"].from \in Nat /\ Len(announced) \in Nat
        /\ \A n \in DOMAIN announced : n \in Nat
        /\ "users" \in Groups
    BY <1>1, <1>4 DEF NoticesInv, NoticesTyped, GroupsOK, GroupOK, Doing, GroupState, Groups
  <2>2. /\ Done(g) \in GroupState /\ Done(g).from = group[g].from
        /\ Done(g).at = group[g].at + 1 /\ Done(g).pc = "poll"
    BY DoneFields DEF NoticesInv
  <2>3. /\ group'["workspaces"] = Done("workspaces") /\ group'["users"] = group["users"]
        /\ group' \in [Groups -> GroupState]
    BY <1>1, <1>4, <2>1, <2>2 DEF NoticesInv, NoticesTyped
  <2>4. NoticesTyped'
    BY <1>1, <1>2, <2>3 DEF NoticesInv, NoticesTyped
  <2>5. GroupsOK'
    BY <1>1, <1>4, <2>1, <2>2, <2>3 DEF NoticesInv, GroupsOK, GroupOK
  <2>6. ReplicasOK'
    BY <1>1, <1>2, <1>4, <2>1, <2>3 DEF NoticesInv, ReplicasOK, Past
  <2>7. AnnouncedOK'
    <3>1. ASSUME NEW n \in DOMAIN announced, Past("workspaces", n)' PROVE Past("workspaces", n)
      BY <1>2, <1>4, <2>1, <2>2, <2>3, <3>1 DEF Past
    <3>. QED  BY <1>1, <3>1 DEF NoticesInv, AnnouncedOK, Accounted
  <2>8. ASSUME NEW i \in NoticeIds PROVE NoticeOK(i)' /\ PassedOK(i)'
    BY <1>1, <1>2, <1>4, <2>1, <2>3 DEF NoticesInv, NoticeOK, PassedOK
  <2>. QED  BY <2>4, <2>5, <2>6, <2>7, <2>8 DEF NoticesInv
<1>. QED  BY <1>3, <1>4 DEF Groups

LEMMA LapseKept ==
  ASSUME NoticesInv, NEW i \in NoticeIds, ClaimLapses(i)
  PROVE  NoticesInv'
<1>1. /\ claims' = [claims EXCEPT ![i] = "lapsed"]
      /\ claims' \in [NoticeIds -> {"none", "held", "lapsed", "done"}]
      /\ UNCHANGED <<standing, news, asked, announced, group, command, notices, replicas,
                     looking, deadLetters, mishaps, passedOver>>
  BY DEF ClaimLapses, NoticesInv, NoticesTyped
<1>2. NoticesTyped' /\ GroupsOK' /\ ReplicasOK' /\ AnnouncedOK'
  BY <1>1 DEF NoticesInv, NoticesTyped, GroupsOK, ReplicasOK, AnnouncedOK, Accounted, Past
<1>3. ASSUME NEW j \in NoticeIds PROVE NoticeOK(j)' /\ PassedOK(j)'
  <2>1. NoticeOK(j) /\ PassedOK(j) /\ (claims'[j] = "done" => claims[j] = "done")
    BY <1>1 DEF NoticesInv, NoticesTyped
  <2>. QED  BY <1>1, <2>1 DEF NoticeOK, PassedOK
<1>. QED  BY <1>2, <1>3 DEF NoticesInv

LEMMA AsTheyAre ==
  ASSUME NoticesInv, NEW i \in NoticeIds, NEW k \in CommandSlots
  PROVE  /\ notices = [notices EXCEPT ![i] = notices[i]]
         /\ claims = [claims EXCEPT ![i] = claims[i]]
         /\ passedOver = [passedOver EXCEPT ![i] = passedOver[i]]
         /\ group = [group EXCEPT !["workspaces"] = group["workspaces"]]
         /\ command[i][k] \in CommandRecord /\ passedOver[i] \in PassedRecord
         /\ claims[i] \in {"none", "held", "lapsed", "done"}
         /\ group["workspaces"] \in GroupState
         /\ group["workspaces"].pc # "poll" =>
              /\ group["workspaces"].at < Len(announced)
              /\ group["workspaces"].state = "running"
         /\ group["workspaces"].at \in Nat
         /\ NoticeOK(i)
         /\ command[i][k].pc # "off" => asked[i].pc = "sent"
BY DEF NoticesInv, NoticesTyped, Groups, GroupState, GroupsOK, GroupOK, NoticeOK, NoCommand

LEMMA CommandOnward ==
  ASSUME NoticesInv, NEW i \in NoticeIds, NEW k \in CommandSlots, command[i][k].pc # "off",
         NEW pc \in {"store", "mark", "release"}, CommandTo(i, k, pc),
         NEW x \in {notices[i], asked[i].who}, NEW c \in {"none", "held", "lapsed", "done"},
         notices' = [notices EXCEPT ![i] = x], claims' = [claims EXCEPT ![i] = c],
         UNCHANGED <<standing, news, asked, announced, replicas, looking, deadLetters, passedOver>>,
         Mishap \/ UNCHANGED mishaps,
         notices[i] # Nobody => x = notices[i],
         c = "done" => x = asked[i].who, pc = "mark" => x = asked[i].who
  PROVE  NoticesInv'
<1> DEFINE d == [command[i][k] EXCEPT !.pc = pc]
<1>1. /\ d \in CommandRecord /\ d.pc = pc /\ d.to = command[i][k].to
  BY AsTheyAre DEF CommandRecord
<1>2. command' = [command EXCEPT ![i] = [command[i] EXCEPT ![k] = d]] /\ group' = group
  BY DEF CommandTo, NoticesInv, NoticesTyped
<1>. HIDE DEF d
<1>3. d.to = asked[i].who
  BY <1>1, AsTheyAre DEF NoticeOK
<1> DEFINE wg == group["workspaces"]
           w == passedOver[i]
<1>4. /\ group' = [group EXCEPT !["workspaces"] = wg] /\ wg \in GroupState
      /\ passedOver' = [passedOver EXCEPT ![i] = w] /\ w \in PassedRecord
      /\ wg.pc # "poll" => wg.at < Len(announced) /\ wg.state = "running"
      /\ w.unknownAt = passedOver[i].unknownAt /\ w.overwritten = passedOver[i].overwritten
      /\ (passedOver[i].refused => w.refused) /\ asked[i].pc = "sent"
      /\ wg.from = group["workspaces"].from /\ wg.at = group["workspaces"].at
  BY <1>2, AsTheyAre
<1>. HIDE DEF wg, w
<1>5. d.pc # "off" => d.to = asked[i].who /\ (d.pc = "mark" => x = asked[i].who)
  BY <1>1, <1>3
<1>6. Advances(i, k, d, x, c, w, wg)
  BY <1>1, <1>2, <1>4, <1>5 DEF Advances
<1>. QED  BY <1>4, <1>6, CommandStep

LEMMA CommandOver ==
  ASSUME NoticesInv, NEW i \in NoticeIds, NEW k \in CommandSlots, command[i][k].pc # "off",
         NEW well \in BOOLEAN, CommandEnds(i, k, well),
         NEW c \in {"none", "held", "lapsed", "done"}, claims' = [claims EXCEPT ![i] = c],
         NEW w \in PassedRecord, passedOver' = [passedOver EXCEPT ![i] = w],
         UNCHANGED <<standing, news, asked, announced, notices, replicas, looking, deadLetters>>,
         Mishap \/ UNCHANGED mishaps,
         w.unknownAt = passedOver[i].unknownAt, w.overwritten = passedOver[i].overwritten,
         passedOver[i].refused => w.refused,
         c = "done" => notices[i] = asked[i].who,
         well => notices[i] = asked[i].who \/ w.refused
  PROVE  NoticesInv'
<1> DEFINE wg == group["workspaces"]
           q == IF ~ Awaits(i, k) THEN wg
                  ELSE IF well THEN Done("workspaces") ELSE Retried("workspaces")
<1>1. /\ command' = [command EXCEPT ![i] = [command[i] EXCEPT ![k] = NoCommand]]
      /\ NoCommand \in CommandRecord /\ NoCommand.pc = "off"
  BY DEF CommandEnds, NoticesInv, NoticesTyped, NoCommand, CommandRecord
<1>2. group' = [group EXCEPT !["workspaces"] = q]
  BY AsTheyAre DEF CommandEnds
<1>3. /\ Done("workspaces") \in GroupState /\ Done("workspaces").from = wg.from
      /\ Done("workspaces").at = wg.at + 1 /\ Done("workspaces").pc = "poll"
      /\ Retried("workspaces") \in GroupState /\ Retried("workspaces").from = wg.from
      /\ Retried("workspaces").at = wg.at /\ Retried("workspaces").state = wg.state
  BY DoneFields, RetriedFields DEF NoticesInv, Groups
<1>4. /\ Len(announced) \in Nat /\ wg.at \in Nat /\ wg \in GroupState
      /\ wg.pc # "poll" => wg.at < Len(announced) /\ wg.state = "running"
      /\ Awaits(i, k) => wg.pc = "await" /\ announced[wg.at + 1] = i
  BY AsTheyAre DEF NoticesInv, NoticesTyped, Awaits, Doing, Current, Topic
<1>5. /\ q \in GroupState /\ q.from = wg.from
      /\ q.pc # "poll" => q.at < Len(announced) /\ q.state = "running"
      /\ \/ q.at = wg.at
         \/ /\ q.at = wg.at + 1 /\ q.at <= Len(announced)
            /\ announced[q.at] = i /\ well
  BY <1>3, <1>4
<1>6. notices' = [notices EXCEPT ![i] = notices[i]] /\ asked[i].pc = "sent"
  BY AsTheyAre
<1>. HIDE DEF q
<1>7. Advances(i, k, NoCommand, notices[i], c, w, q)
  BY <1>1, <1>2, <1>5, <1>6 DEF Advances
<1>. QED  BY <1>6, <1>7, CommandStep

LEMMA CommandsKept ==
  ASSUME NoticesInv, NEW i \in NoticeIds, NEW k \in CommandSlots,
         \/ TryClaim(i, k) \/ StoreNotice(i, k) \/ MarkNotice(i, k)
         \/ CommandFails(i, k) \/ ReleaseNotice(i, k)
  PROVE  NoticesInv'
<1> DEFINE c == command[i][k]
           w == passedOver[i]
<1>1. /\ c \in CommandRecord /\ w \in PassedRecord /\ NoticeOK(i)
      /\ claims[i] \in {"none", "held", "lapsed", "done"}
      /\ notices = [notices EXCEPT ![i] = notices[i]]
      /\ claims = [claims EXCEPT ![i] = claims[i]]
      /\ passedOver = [passedOver EXCEPT ![i] = w]
      /\ claims[i] = "done" => notices[i] = asked[i].who
  BY AsTheyAre DEF NoticeOK
<1>2. CASE TryClaim(i, k) /\ claims[i] \in {"none", "lapsed"}
  <2>1. /\ c.pc = "claim" /\ claims' = [claims EXCEPT ![i] = "held"]
        /\ CommandTo(i, k, "store")
        /\ UNCHANGED <<standing, news, asked, announced, replicas, looking, deadLetters, passedOver>>
        /\ UNCHANGED mishaps /\ notices' = [notices EXCEPT ![i] = notices[i]]
    BY <1>1, <1>2 DEF TryClaim
  <2>. QED  BY <2>1, CommandOnward
<1>3. CASE TryClaim(i, k) /\ claims[i] \notin {"none", "lapsed"}
  <2> DEFINE v == [w EXCEPT !.refused = w.refused \/ claims[i] = "held"]
  <2>1. /\ c.pc = "claim" /\ claims' = [claims EXCEPT ![i] = claims[i]]
        /\ CommandEnds(i, k, TRUE) /\ passedOver' = [passedOver EXCEPT ![i] = v]
        /\ UNCHANGED <<standing, news, asked, announced, notices, replicas, looking, deadLetters>>
        /\ UNCHANGED mishaps
    BY <1>1, <1>3 DEF TryClaim, PassedRecord
  <2>2. /\ v \in PassedRecord /\ v.unknownAt = w.unknownAt /\ v.overwritten = w.overwritten
        /\ v.refused = (w.refused \/ claims[i] = "held")
    BY <1>1 DEF PassedRecord
  <2>3. (w.refused => v.refused) /\ (notices[i] = asked[i].who \/ v.refused)
    BY <1>1, <1>3, <2>2
  <2>. HIDE DEF v
  <2>. QED  BY <1>1, <2>1, <2>2, <2>3, CommandOver
<1>4. CASE StoreNotice(i, k)
  <2> DEFINE x == IF notices[i] = Nobody THEN c.to ELSE notices[i]
  <2>1. /\ c.pc = "store" /\ notices' = [notices EXCEPT ![i] = x]
        /\ CommandTo(i, k, "mark")
        /\ UNCHANGED <<standing, news, asked, announced, replicas, looking, deadLetters, passedOver>>
        /\ UNCHANGED mishaps /\ claims' = [claims EXCEPT ![i] = claims[i]]
    BY <1>1, <1>4 DEF StoreNotice, NoticesInv, NoticesTyped
  <2>2. /\ x \in {notices[i], asked[i].who} /\ x = asked[i].who
        /\ notices[i] # Nobody => x = notices[i]
    BY <1>1, <2>1 DEF NoticeOK
  <2>. HIDE DEF x
  <2>. QED  BY <1>1, <2>1, <2>2, CommandOnward
<1>5. CASE MarkNotice(i, k)
  <2> DEFINE v == IF claims[i] = "none" THEN "none" ELSE "done"
  <2>1. /\ c.pc = "mark" /\ claims' = [claims EXCEPT ![i] = v]
        /\ CommandEnds(i, k, TRUE) /\ passedOver' = [passedOver EXCEPT ![i] = w]
        /\ UNCHANGED <<standing, news, asked, announced, notices, replicas, looking, deadLetters>>
        /\ UNCHANGED mishaps
    BY <1>1, <1>5 DEF MarkNotice, NoticesInv, NoticesTyped
  <2>2. notices[i] = asked[i].who /\ v \in {"none", "held", "lapsed", "done"}
    BY <1>1, <2>1 DEF NoticeOK
  <2>. HIDE DEF v
  <2>. QED  BY <1>1, <2>1, <2>2, CommandOver
<1>6. CASE CommandFails(i, k) /\ c.pc = "claim"
  <2>1. /\ claims' = [claims EXCEPT ![i] = claims[i]]
        /\ CommandEnds(i, k, FALSE) /\ passedOver' = [passedOver EXCEPT ![i] = w]
        /\ UNCHANGED <<standing, news, asked, announced, notices, replicas, looking, deadLetters>>
        /\ Mishap
    BY <1>1, <1>6 DEF CommandFails
  <2>. QED  BY <1>1, <1>6, <2>1, CommandOver
<1>7. CASE CommandFails(i, k) /\ c.pc # "claim"
  <2>1. /\ c.pc \in {"store", "mark"} /\ claims' = [claims EXCEPT ![i] = claims[i]]
        /\ CommandTo(i, k, "release") /\ notices' = [notices EXCEPT ![i] = notices[i]]
        /\ UNCHANGED <<standing, news, asked, announced, replicas, looking, deadLetters, passedOver>>
        /\ Mishap
    BY <1>1, <1>7 DEF CommandFails
  <2>. QED  BY <1>1, <2>1, CommandOnward
<1>8. CASE ReleaseNotice(i, k)
  <2> DEFINE v == IF claims[i] = "done" THEN "done" ELSE "none"
  <2>1. /\ c.pc = "release" /\ claims' = [claims EXCEPT ![i] = v]
        /\ CommandEnds(i, k, FALSE) /\ passedOver' = [passedOver EXCEPT ![i] = w]
        /\ UNCHANGED <<standing, news, asked, announced, notices, replicas, looking, deadLetters>>
        /\ UNCHANGED mishaps
    BY <1>1, <1>8 DEF ReleaseNotice, NoticesInv, NoticesTyped
  <2>2. v \in {"none", "held", "lapsed", "done"} /\ (v = "done" => notices[i] = asked[i].who)
    BY <1>1
  <2>. HIDE DEF v
  <2>. QED  BY <1>1, <2>1, <2>2, CommandOver
<1>. QED  BY <1>2, <1>3, <1>4, <1>5, <1>6, <1>7, <1>8

LEMMA HandleNoticeKept ==
  ASSUME NoticesInv, NEW k \in CommandSlots, HandleNotice(k)
  PROVE  NoticesInv'
<1> DEFINE wg == group["workspaces"]
           i == Current("workspaces")
<1>1. /\ wg \in GroupState /\ wg.at < Len(announced) /\ wg.state = "running"
      /\ wg.at \in Nat /\ wg.from \in Nat /\ Len(announced) \in Nat
      /\ i = announced[wg.at + 1] /\ wg.at + 1 \in DOMAIN announced
      /\ \A n \in DOMAIN announced : n \in Nat /\ announced[n] \in NoticeIds
  BY DEF HandleNotice, NoticesInv, NoticesTyped, GroupsOK, GroupOK, Doing, Current, Topic,
         Groups, GroupState
<1>2. /\ i \in NoticeIds /\ asked[i].pc = "sent" /\ NoticeOK(i) /\ asked[i].who \in People
      /\ asked[i].to \in {asked[i].who, Nobody} /\ passedOver[i] \in PassedRecord
  <2>1. i \in NoticeIds
    BY <1>1
  <2>2. asked[i].pc = "sent"
    BY <1>1 DEF NoticesInv, AnnouncedOK
  <2>. QED  BY <2>1, <2>2 DEF NoticesInv, NoticesTyped, NoticeOK
<1>3. UNCHANGED <<standing, news, asked, announced, claims, notices, replicas, looking,
                  deadLetters, mishaps>>
  BY DEF HandleNotice
<1>4. CASE Recipient(i) # Nobody
  <2> DEFINE d == [pc |-> "claim", to |-> Recipient(i)]
             q == [[wg EXCEPT !.pc = "await"] EXCEPT !.slot = k]
  <2>1. Recipient(i) = asked[i].who
    BY <1>2, <1>4 DEF Recipient
  <2>2. d \in CommandRecord /\ d.pc = "claim" /\ d.to = asked[i].who
    BY <1>2, <2>1 DEF CommandRecord
  <2>3. /\ q \in GroupState /\ q.from = wg.from /\ q.at = wg.at /\ q.state = wg.state
    BY <1>1 DEF GroupState
  <2>4. /\ command' = [command EXCEPT ![i] = [command[i] EXCEPT ![k] = d]]
        /\ group' = [group EXCEPT !["workspaces"] = q] /\ passedOver' = passedOver
    BY <1>2, <1>4 DEF HandleNotice, NoticesInv, NoticesTyped
  <2> DEFINE w == passedOver[i]
             c == claims[i]
             x == notices[i]
  <2>5. /\ w \in PassedRecord /\ passedOver' = [passedOver EXCEPT ![i] = w]
        /\ claims' = [claims EXCEPT ![i] = c] /\ notices' = [notices EXCEPT ![i] = x]
        /\ c \in {"none", "held", "lapsed", "done"} /\ (c = "done" => x = asked[i].who)
        /\ x \in {notices[i], asked[i].who} /\ (notices[i] # Nobody => x = notices[i])
        /\ w.unknownAt = passedOver[i].unknownAt /\ w.overwritten = passedOver[i].overwritten
        /\ (passedOver[i].refused => w.refused)
    BY <1>2, <1>3, <2>4, AsTheyAre DEF NoticeOK
  <2>. HIDE DEF d, q, w, c, x, i
  <2>6. Advances(i, k, d, x, c, w, q)
    BY <1>1, <1>2, <1>3, <2>2, <2>3, <2>4, <2>5 DEF Advances
  <2>. QED  BY <1>2, <2>6, CommandStep
<1>5. CASE Recipient(i) = Nobody
  <2> DEFINE u == group["users"].at + 1
             w == [[passedOver[i] EXCEPT !.unknownAt = u]
                      EXCEPT !.overwritten = replicas[asked[i].who] = "placeholder"]
  <2>1. /\ group' = [group EXCEPT !["workspaces"] = Done("workspaces")]
        /\ passedOver' = [passedOver EXCEPT ![i] = w] /\ command' = command
    BY <1>2, <1>5 DEF HandleNotice, NoticesInv, NoticesTyped, PassedRecord
  <2>2. /\ u \in Nat \ {0} /\ u <= Len(news) + 1 /\ Len(news) \in Nat
        /\ group["users"].from \in Nat /\ group["users"].at \in Nat /\ "users" \in Groups
        /\ "workspaces" \in Groups
    BY DEF NoticesInv, NoticesTyped, GroupsOK, GroupOK, GroupState, Groups
  <2>3. /\ w \in PassedRecord /\ w.refused = passedOver[i].refused /\ w.unknownAt = u
        /\ w.overwritten = (replicas[asked[i].who] = "placeholder")
    BY <1>2, <2>2 DEF PassedRecord
  <2>4. /\ asked[i].to = Nobody /\ replicas[asked[i].who] # "known"
        /\ replicas[asked[i].who] \in {"none", "placeholder", "known"}
    BY <1>2, <1>5, NoticesAssumption DEF Recipient, NoticesInv, NoticesTyped
  <2>. HIDE DEF w
  <2>5. /\ Done("workspaces") \in GroupState /\ Done("workspaces").from = wg.from
        /\ Done("workspaces").at = wg.at + 1 /\ Done("workspaces").pc = "poll"
    BY <2>2, DoneFields DEF NoticesInv
  <2>6. /\ group'["workspaces"] = Done("workspaces") /\ group'["users"] = group["users"]
        /\ group' \in [Groups -> GroupState] /\ passedOver'[i] = w
        /\ passedOver' \in [NoticeIds -> PassedRecord]
        /\ \A j \in NoticeIds \ {i} : passedOver'[j] = passedOver[j]
    BY <1>2, <2>1, <2>2, <2>3, <2>5 DEF NoticesInv, NoticesTyped
  <2>. HIDE DEF i
  <2>7. NoticesTyped'
    BY <1>3, <2>1, <2>6 DEF NoticesInv, NoticesTyped
  <2>8. GroupsOK' /\ ReplicasOK'
    BY <1>1, <1>3, <2>2, <2>5, <2>6 DEF NoticesInv, GroupsOK, GroupOK, ReplicasOK, Past
  <2>9. ASSUME NEW j \in NoticeIds, Accounted(j) PROVE Accounted(j)'
    BY <1>2, <1>3, <2>2, <2>3, <2>6, <2>9 DEF Accounted
  <2>10. AnnouncedOK'
    <3>1. ASSUME NEW n \in DOMAIN announced, Past("workspaces", n)' PROVE Accounted(announced[n])'
      <4>1. n \in Nat /\ announced'[n] = announced[n]
        BY <1>1, <1>3
      <4>2. CASE Past("workspaces", n)
        <5>1. Accounted(announced[n]) /\ announced[n] \in NoticeIds
          BY <1>1, <4>2 DEF NoticesInv, AnnouncedOK
        <5>2. \A j \in NoticeIds : Accounted(j) => Accounted(j)'
          BY <2>9
        <5>. QED  BY <4>1, <5>1, <5>2 DEF Accounted
      <4>3. CASE ~ Past("workspaces", n)
        <5>1. n = wg.at + 1
          BY <1>1, <1>3, <2>5, <2>6, <3>1, <4>1, <4>3 DEF Past
        <5>2. passedOver'[i].unknownAt > 0 /\ announced'[n] = i
          BY <1>1, <2>2, <2>3, <2>6, <4>1, <5>1
        <5>. QED  BY <5>2 DEF Accounted
      <4>. QED  BY <4>2, <4>3
    <3>. QED  BY <1>3, <3>1 DEF NoticesInv, AnnouncedOK
  <2>11. ASSUME NEW j \in NoticeIds PROVE NoticeOK(j)'
    <3>1. NoticeOK(j) /\ (asked[j].pc # "sent" => j # i)
      BY <1>2 DEF NoticesInv
    <3>. QED  BY <1>3, <2>1, <2>6, <3>1 DEF NoticeOK
  <2>12. ASSUME NEW j \in NoticeIds PROVE PassedOK(j)'
    <3>1. CASE j # i
      <4>1. PassedOK(j) /\ passedOver'[j] = passedOver[j]
        BY <2>6, <3>1 DEF NoticesInv
      <4>. QED  BY <1>3, <2>6, <4>1 DEF PassedOK
    <3>2. CASE j = i
      <4>1. SUFFICES ASSUME ~ w.overwritten, NEW m \in DOMAIN news,
                            group["users"].from < m, m < u, m \notin deadLetters["users"],
                            news[m].kind = "registered"
                     PROVE  news[m].who # asked[i].who
        BY <1>3, <2>2, <2>3, <2>4, <2>6, <3>2 DEF PassedOK
      <4>2. m \in Nat
        BY DEF NoticesInv, NoticesTyped
      <4>3. Past("users", m)
        BY <2>2, <4>1, <4>2 DEF Past
      <4>4. replicas[news[m].who] # "none"
        BY <4>1, <4>3 DEF NoticesInv, ReplicasOK
      <4>. QED  BY <2>3, <2>4, <4>1, <4>4
    <3>. QED  BY <3>1, <3>2
  <2>. QED  BY <2>7, <2>8, <2>10, <2>11, <2>12 DEF NoticesInv
<1>. QED  BY <1>4, <1>5

THEOREM NoticesInvariance == NoticesSpec => []NoticesInv
<1>1. NoticesInit => NoticesInv
  BY NoticesInitially
<1>2. NoticesInv /\ [NoticesNext]_noticeVars => NoticesInv'
  <2> SUFFICES ASSUME NoticesInv, [NoticesNext]_noticeVars PROVE NoticesInv'
    OBVIOUS
  <2>1. CASE NoticesNext
    BY <2>1, AccountsKept, ActorKept, NewsKept, WorkspaceKept, GroupsKept, ParkKept, RestartKept,
       UsersKept, TimeOutKept, HandleNoticeKept, LapseKept, CommandsKept DEF NoticesNext
  <2>2. CASE UNCHANGED noticeVars
    BY <2>2 DEF noticeVars, NoticesInv, NoticesTyped, GroupsOK, ReplicasOK, AnnouncedOK, Accounted,
         Past, NoticeOK, PassedOK
  <2>. QED  BY <2>1, <2>2
<1>. QED  BY <1>1, <1>2, PTL DEF NoticesSpec

\* Whatever overlaps, fails or is repeated, nobody else is told, and a message that
\* told nobody was refused or passed over for one of the causes named.
THEOREM NoticesAreExplained == NoticesSpec => [](NoticesTypeOK /\ NoticesExplained)
BY NoticesInvariance, NoticesImplied, PTL

-----------------------------------------------------------------------------
(***************************************************************************)
(* Profiles.  Open transactions that change one row exclude each other,    *)
(* and so do those about to take one username: what save read and what the *)
(* constraints saw is still so as they commit.                             *)
(***************************************************************************)
ExecutionRecord == [
  pc : {"none", "resolve", "select", "write", "commit", "refused"},
  kind : {"create", "edit", "erase"}, who : Persons \cup {NoPerson}, entity : ProfileRow,
  new : BOOLEAN, seen : ProfileRow, tried : 0..Suffixes, met : SUBSET Usernames]

ProfilesTyped ==
  /\ profiles \in [Persons -> ProfileRow]
  /\ execution \in [ProfileRequests -> ExecutionRecord]
  /\ announcement \in [Persons -> ProfileRow]
  /\ acrossCommit \in [Persons -> BOOLEAN]
  /\ profileCalls \in 0..MaxProfileCalls

OwnNames(u) ==
  {NoUsername} \cup {Numbered(k) : k \in 1..Suffixes} \cup {FromId(u), DeletedName(u)}

RowsOK ==
  \A u \in Persons :
    /\ profiles[u].name \in OwnNames(u)
    /\ ~ profiles[u].there => profiles[u] = NoProfile
    /\ \A v \in Persons \ {u} :
         profiles[u].name = profiles[v].name => profiles[u].name = NoUsername

\* What an execution will write, and what its commit will make of the username.
Dirty(e) == e.entity # e.seen
Became(e) == IF e.entity.name # e.seen.name THEN e.entity.name ELSE profiles[e.who].name
Renames(e) == Became(e) # profiles[e.who].name

EntityOK(e) ==
  e.pc # "none" =>
    /\ e.who \in Persons /\ e.entity.there /\ e.entity.name \in OwnNames(e.who)
    /\ IF e.kind = "erase"
         THEN e.entity.name = DeletedName(e.who) /\ e.entity.full = Wiped /\ e.entity.gone
         ELSE ~ e.entity.gone
    /\ IF e.new THEN e.pc \in {"write", "commit"} => e.seen = NoProfile
                ELSE profiles[e.who].there
    /\ e.new /\ e.pc = "commit" => ~ profiles[e.who].there
    /\ e.pc = "resolve" => e.kind = "create" /\ e.tried < Suffixes

\* Who has the username of a creation took it after the creation had looked, or is
\* an erased row.
FoundOK(e) ==
  e.pc \in {"select", "write"} /\ e.kind = "create" /\ e.entity.name # NoUsername =>
    \A u \in Persons \ {e.who} :
      profiles[u].name = e.entity.name =>
        e.entity.name \in e.met \/ (profiles[u].gone /\ acrossCommit[u])

FreeOK(e) ==
  e.pc = "commit" /\ Renames(e) /\ Became(e) # NoUsername =>
    \A u \in Persons \ {e.who} : profiles[u].name # Became(e)

PairOK(e, f) ==
  e.pc = "commit" /\ f.pc = "commit" =>
    /\ Dirty(e) /\ Dirty(f) => e.who # f.who
    /\ Renames(e) /\ Renames(f) /\ Became(e) # NoUsername => Became(e) # Became(f)

ExecutionsOK ==
  \A r \in ProfileRequests :
    /\ EntityOK(execution[r]) /\ FoundOK(execution[r]) /\ FreeOK(execution[r])
    /\ \A s \in ProfileRequests \ {r} : PairOK(execution[r], execution[s])

ProfilesInv == ProfilesTyped /\ RowsOK /\ AnnouncedAsStored /\ ExecutionsOK

LEMMA ProfileTypes == ProfilesTyped => ProfilesTypeOK
BY Zenon DEF ProfilesTyped, ProfilesTypeOK, ExecutionRecord

LEMMA UsernamesDiffer ==
  /\ \A k \in Nat : Numbered(k) # NoUsername
  /\ \A u : FromId(u) # NoUsername /\ DeletedName(u) # NoUsername
  /\ \A k \in Nat : \A u : Numbered(k) # DeletedName(u) /\ Numbered(k) # FromId(u)
  /\ \A u, v : FromId(u) # DeletedName(v)
  /\ \A u, v : FromId(u) = FromId(v) => u = v
  /\ \A u, v : DeletedName(u) = DeletedName(v) => u = v
BY DEF Numbered, NoUsername, FromId, DeletedName

LEMMA OwnNamesAreUsernames ==
  ASSUME NEW u \in Persons
  PROVE  OwnNames(u) \subseteq Usernames
BY DEF OwnNames, Usernames

LEMMA NoProfileTyped == NoProfile \in ProfileRow
BY DEF NoProfile, ProfileRow, Usernames

LEMMA NoExecutionTyped == NoExecution \in ExecutionRecord
BY NoProfileTyped, ProfilesAssumption DEF NoExecution, ExecutionRecord

LEMMA SavedFields ==
  ASSUME ProfilesTyped, NEW r \in ProfileRequests, execution[r].who \in Persons
  PROVE  LET e == execution[r]
             row == profiles[e.who]
         IN /\ Saved(r) \in ProfileRow
            /\ Saved(r).name = Became(e)
            /\ Saved(r).there = IF e.entity.there # e.seen.there THEN e.entity.there ELSE row.there
            /\ e.entity = e.seen => Saved(r) = row
            /\ e.seen = row => Saved(r) = e.entity
<1> DEFINE e == execution[r]
           row == profiles[e.who]
<1>1. /\ e \in ExecutionRecord /\ e.entity \in ProfileRow /\ e.seen \in ProfileRow
      /\ row \in ProfileRow
  BY DEF ProfilesTyped, ExecutionRecord
<1>2. DOMAIN e.entity = {"there", "name", "full", "gone"}
  BY <1>1 DEF ProfileRow
<1>3. Saved(r) = [c \in {"there", "name", "full", "gone"} |->
                    IF e.entity[c] # e.seen[c] THEN e.entity[c] ELSE row[c]]
  BY <1>2 DEF Saved
<1> HIDE DEF e, row
<1>4. /\ Saved(r).name = IF e.entity.name # e.seen.name THEN e.entity.name ELSE row.name
      /\ Saved(r).there = IF e.entity.there # e.seen.there THEN e.entity.there ELSE row.there
      /\ Saved(r).full = IF e.entity.full # e.seen.full THEN e.entity.full ELSE row.full
      /\ Saved(r).gone = IF e.entity.gone # e.seen.gone THEN e.entity.gone ELSE row.gone
  BY <1>3
<1>5. Saved(r) = [there |-> Saved(r).there, name |-> Saved(r).name, full |-> Saved(r).full,
                  gone |-> Saved(r).gone]
  BY <1>3
<1>6. \A x \in ProfileRow :
        x = [there |-> x.there, name |-> x.name, full |-> x.full, gone |-> x.gone]
  BY DEF ProfileRow
<1>7. Saved(r) \in ProfileRow
  BY <1>1, <1>4, <1>5 DEF ProfileRow
<1>8. e.entity = e.seen => Saved(r) = row
  BY <1>1, <1>4, <1>5, <1>6
<1>9. e.seen = row => Saved(r) = e.entity
  BY <1>1, <1>4, <1>5, <1>6
<1>10. Saved(r).name = Became(e)
  BY <1>4 DEF Became, row
<1>. QED  BY <1>4, <1>7, <1>8, <1>9, <1>10 DEF e, row

LEMMA ProfilesImplied == ProfilesInv => ProfilesKept
<1> SUFFICES ASSUME ProfilesInv PROVE RefusedOnlyByRace
  BY DEF ProfilesInv, ProfilesKept
<1>1. ASSUME NEW r \in ProfileRequests, execution[r].pc = "write",
             execution[r].kind = "create", Violates(r),
             ~ (execution[r].new /\ profiles[execution[r].who].there)
      PROVE  \/ execution[r].entity.name \in execution[r].met
             \/ \E u \in Persons : /\ profiles[u].gone /\ acrossCommit[u]
                                  /\ profiles[u].name = execution[r].entity.name
  <2>1. execution[r].who \in Persons
    BY <1>1 DEF ProfilesInv, ExecutionsOK, EntityOK
  <2>2. Saved(r).name = Became(execution[r])
    BY <2>1, SavedFields DEF ProfilesInv
  <2>3. PICK u \in Persons \ {execution[r].who} :
          /\ Saved(r).name # profiles[execution[r].who].name
          /\ Saved(r).name # NoUsername /\ profiles[u].name = Saved(r).name
    BY <1>1 DEF Violates, WritesName
  <2>4. Saved(r).name = execution[r].entity.name
    BY <2>2, <2>3 DEF Became
  <2>. QED  BY <1>1, <2>3, <2>4 DEF ProfilesInv, ExecutionsOK, FoundOK
<1>. QED  BY <1>1 DEF RefusedOnlyByRace, ProfilesInv, RowsOK

LEMMA ProfilesInitially == ProfilesInit => ProfilesInv
<1> SUFFICES ASSUME ProfilesInit PROVE ProfilesInv
  OBVIOUS
<1>1. ProfilesTyped
  BY NoProfileTyped, NoExecutionTyped, ProfilesAssumption DEF ProfilesInit, ProfilesTyped
<1>2. RowsOK /\ AnnouncedAsStored
  BY DEF ProfilesInit, RowsOK, AnnouncedAsStored, NoProfile, OwnNames
<1>3. ExecutionsOK
  BY DEF ProfilesInit, ExecutionsOK, NoExecution, EntityOK, FoundOK, FreeOK, PairOK
<1>. QED  BY <1>1, <1>2, <1>3 DEF ProfilesInv

\* A step of one execution that touches no row and takes no lock.
LEMMA ExecutionMoves ==
  ASSUME ProfilesInv, NEW r \in ProfileRequests, NEW q \in ExecutionRecord,
         execution' = [execution EXCEPT ![r] = q], profileCalls' \in 0..MaxProfileCalls,
         UNCHANGED <<profiles, announcement, acrossCommit>>,
         EntityOK(q), FoundOK(q), q.pc # "commit"
  PROVE  ProfilesInv'
<1>1. ProfilesTyped'
  BY DEF ProfilesInv, ProfilesTyped
<1>2. RowsOK' /\ AnnouncedAsStored'
  BY DEF ProfilesInv, RowsOK, AnnouncedAsStored
<1>3. /\ execution'[r] = q
      /\ \A s \in ProfileRequests \ {r} : execution'[s] = execution[s]
  BY DEF ProfilesInv, ProfilesTyped
<1>4. ASSUME NEW s \in ProfileRequests
      PROVE  EntityOK(execution'[s]) /\ FoundOK(execution'[s]) /\ FreeOK(execution'[s])
  BY <1>3 DEF ProfilesInv, ExecutionsOK, FreeOK
<1>5. ASSUME NEW s \in ProfileRequests, NEW t \in ProfileRequests \ {s}
      PROVE  PairOK(execution'[s], execution'[t])
  BY <1>3 DEF ProfilesInv, ExecutionsOK, PairOK
<1>6. ASSUME NEW s \in ProfileRequests
      PROVE  EntityOK(execution[s])' /\ FoundOK(execution[s])' /\ FreeOK(execution[s])'
  <2>1. EntityOK(execution[s])'
    BY <1>4 DEF EntityOK
  <2>2. FoundOK(execution[s])'
    BY <1>4 DEF FoundOK
  <2>3. FreeOK(execution[s])'
    BY <1>4 DEF FreeOK, Became, Renames
  <2>. QED  BY <2>1, <2>2, <2>3
<1>7. ASSUME NEW s \in ProfileRequests, NEW t \in ProfileRequests \ {s}
      PROVE  PairOK(execution[s], execution[t])'
  BY <1>5 DEF PairOK, Became, Renames
<1>. QED  BY <1>1, <1>2, <1>6, <1>7 DEF ProfilesInv, ExecutionsOK

LEMMA LoadKept ==
  ASSUME ProfilesInv, NEW r \in ProfileRequests, NEW u \in Persons,
         NEW kind \in {"create", "edit", "erase"}, NEW entity \in ProfileRow,
         NEW new \in BOOLEAN, NEW pc \in {"resolve", "select"}, Load(r, u, kind, entity, new, pc),
         entity.there, entity.name \in OwnNames(u),
         IF kind = "erase"
           THEN entity.name = DeletedName(u) /\ entity.full = Wiped /\ entity.gone
           ELSE ~ entity.gone,
         ~ new => profiles[u].there, pc = "resolve" => kind = "create",
         pc = "select" /\ kind = "create" /\ entity.name # NoUsername =>
           entity.name = profiles[u].name
  PROVE  ProfilesInv'
<1> DEFINE q == [NoExecution EXCEPT !.pc = pc, !.kind = kind, !.who = u, !.entity = entity,
                                    !.new = new]
<1>1. /\ q \in ExecutionRecord
      /\ q.pc = pc /\ q.kind = kind /\ q.who = u /\ q.entity = entity /\ q.new = new
      /\ q.tried = 0
  BY NoExecutionTyped DEF ExecutionRecord, NoExecution
<1>2. /\ execution' = [execution EXCEPT ![r] = q] /\ profileCalls' \in 0..MaxProfileCalls
      /\ UNCHANGED <<profiles, announcement, acrossCommit>>
  <2>1. /\ execution' = [execution EXCEPT ![r] = q] /\ profileCalls < MaxProfileCalls
        /\ profileCalls' = profileCalls + 1
        /\ UNCHANGED <<profiles, announcement, acrossCommit>>
    BY DEF Load
  <2>. QED  BY <2>1, ProfilesAssumption DEF ProfilesInv, ProfilesTyped
<1> HIDE DEF q
<1>3. EntityOK(q)
  BY <1>1, ProfilesAssumption DEF EntityOK
<1>4. FoundOK(q)
  BY <1>1 DEF FoundOK, ProfilesInv, RowsOK
<1>. QED  BY <1>1, <1>2, <1>3, <1>4, ExecutionMoves

LEMMA EntityNames ==
  ASSUME NEW u \in Persons
  PROVE  /\ NoUsername \in OwnNames(u) /\ DeletedName(u) \in OwnNames(u)
         /\ FromId(u) \in OwnNames(u)
         /\ \A k \in 1..Suffixes : Numbered(k) \in OwnNames(u)
BY DEF OwnNames

LEMMA LoadsKept ==
  ASSUME ProfilesInv, NEW r \in ProfileRequests, NEW u \in Persons,
         \/ \E full \in FullNames : LoadToUpsertPending(r, u, full)
         \/ LoadToUpdateProfile(r, u) \/ LoadToAnonymize(r, u)
  PROVE  ProfilesInv'
<1>1. /\ profiles[u] \in ProfileRow /\ profiles[u].name \in OwnNames(u)
      /\ OwnNames(u) \subseteq Usernames
  BY OwnNamesAreUsernames DEF ProfilesInv, ProfilesTyped, RowsOK
<1>2. ASSUME NEW full \in FullNames, LoadToUpsertPending(r, u, full) PROVE ProfilesInv'
  <2>1. CASE Shown(u)
    <3> DEFINE e == [profiles[u] EXCEPT !.full = full]
               pc == IF profiles[u].name = NoUsername THEN "resolve" ELSE "select"
    <3>1. /\ e \in ProfileRow /\ e.there /\ e.name = profiles[u].name /\ ~ e.gone
      BY <1>1, <2>1 DEF ProfileRow, Shown
    <3>2. Load(r, u, "create", e, FALSE, pc)
      BY <1>2, <2>1 DEF LoadToUpsertPending
    <3>3. pc \in {"resolve", "select"} /\ profiles[u].there
      BY <2>1 DEF Shown
    <3> HIDE DEF e, pc
    <3>. QED  BY <1>1, <3>1, <3>2, <3>3, LoadKept
  <2>2. CASE ~ Shown(u)
    <3> DEFINE e == [there |-> TRUE, name |-> NoUsername, full |-> full, gone |-> FALSE]
    <3>1. /\ e \in ProfileRow /\ e.there /\ e.name = NoUsername /\ ~ e.gone
      BY <1>1, EntityNames DEF ProfileRow
    <3>2. Load(r, u, "create", e, TRUE, "resolve")
      BY <1>2, <2>2 DEF LoadToUpsertPending
    <3> HIDE DEF e
    <3>. QED  BY <3>1, <3>2, EntityNames, LoadKept
  <2>. QED  BY <2>1, <2>2
<1>3. ASSUME LoadToUpdateProfile(r, u) PROVE ProfilesInv'
  <2>1. profiles[u].there /\ ~ profiles[u].gone
    BY <1>3 DEF LoadToUpdateProfile, Shown
  <2>2. PICK e : /\ Load(r, u, "edit", e, FALSE, "select")
                 /\ \/ \E full \in FullNames : e = [profiles[u] EXCEPT !.full = full]
                    \/ \E name \in {NoUsername} \cup {Numbered(k) : k \in 1..Suffixes} :
                         e = [profiles[u] EXCEPT !.name = name]
    BY <1>3 DEF LoadToUpdateProfile
  <2>3. e \in ProfileRow /\ e.there /\ e.name \in OwnNames(u) /\ ~ e.gone
    <3>1. {NoUsername} \cup {Numbered(k) : k \in 1..Suffixes} \subseteq OwnNames(u)
      BY DEF OwnNames
    <3>. QED  BY <1>1, <2>1, <2>2, <3>1 DEF ProfileRow
  <2>. QED  BY <2>1, <2>2, <2>3, LoadKept
<1>4. ASSUME LoadToAnonymize(r, u) PROVE ProfilesInv'
  <2> DEFINE e == [there |-> TRUE, name |-> DeletedName(u), full |-> Wiped, gone |-> TRUE]
  <2>1. /\ e \in ProfileRow /\ e.there /\ e.name = DeletedName(u) /\ e.gone /\ e.full = Wiped
    BY <1>1, EntityNames DEF ProfileRow
  <2>2. Load(r, u, "erase", e, FALSE, "select") /\ profiles[u].there
    BY <1>4 DEF LoadToAnonymize, Shown
  <2> HIDE DEF e
  <2>. QED  BY <2>1, <2>2, EntityNames, LoadKept
<1>. QED  BY <1>2, <1>3, <1>4

LEMMA ResolveKept ==
  ASSUME ProfilesInv, NEW r \in ProfileRequests, ResolveAvailableUsername(r)
  PROVE  ProfilesInv'
<1> DEFINE e == execution[r]
           k == e.tried + 1
<1>1. /\ e \in ExecutionRecord /\ e.pc = "resolve" /\ EntityOK(e) /\ e.who \in Persons
      /\ UNCHANGED <<profiles, announcement, acrossCommit>>
      /\ profileCalls' \in 0..MaxProfileCalls
      /\ k \in 1..Suffixes /\ e.entity \in ProfileRow
  <2>1. execution[r] \in ExecutionRecord
    BY DEF ProfilesInv, ProfilesTyped
  <2>2. execution[r].pc = "resolve" /\ UNCHANGED <<profiles, announcement, acrossCommit, profileCalls>>
    BY DEF ResolveAvailableUsername
  <2>3. EntityOK(e)
    BY DEF ProfilesInv, ExecutionsOK
  <2>4. e.who \in Persons /\ e.tried < Suffixes
    BY <2>2, <2>3 DEF EntityOK
  <2>5. e.tried \in Nat /\ e.entity \in ProfileRow
    BY <2>1 DEF ExecutionRecord
  <2>6. k \in 1..Suffixes
    BY <2>4, <2>5, ProfilesAssumption
  <2>. QED  BY <2>1, <2>2, <2>3, <2>4, <2>5, <2>6 DEF ProfilesInv, ProfilesTyped
<1>2. execution' = [execution EXCEPT ![r] =
        IF ~Taken(r, Numbered(k))
          THEN [e EXCEPT !.pc = "select", !.met = {}, !.entity.name = Numbered(k)]
          ELSE IF k < Suffixes
            THEN [e EXCEPT !.tried = k]
            ELSE [e EXCEPT !.pc = "select", !.entity.name = FromId(e.who)]]
  BY Zenon DEF ResolveAvailableUsername
<1> DEFINE With(name, met) ==
             [[[e EXCEPT !.pc = "select"] EXCEPT !.met = met]
                EXCEPT !.entity = [e.entity EXCEPT !.name = name]]
<1>3. ASSUME NEW name \in OwnNames(e.who), NEW met \in SUBSET Usernames,
             execution' = [execution EXCEPT ![r] = With(name, met)],
             \A u \in Persons \ {e.who} :
               profiles[u].name = name => name \in met \/ (profiles[u].gone /\ acrossCommit[u])
      PROVE  ProfilesInv'
  <2> DEFINE x == [e.entity EXCEPT !.name = name]
             q == With(name, met)
  <2>1. /\ x \in ProfileRow /\ x.name = name /\ x.there = e.entity.there
        /\ x.gone = e.entity.gone /\ x.full = e.entity.full
    BY <1>1, OwnNamesAreUsernames DEF ProfileRow
  <2> HIDE DEF x
  <2>2. q = [[[e EXCEPT !.pc = "select"] EXCEPT !.met = met] EXCEPT !.entity = x]
    BY DEF x
  <2> HIDE DEF q, With
  <2>3. /\ q \in ExecutionRecord /\ q.pc = "select" /\ q.met = met /\ q.entity = x
        /\ q.who = e.who /\ q.kind = e.kind /\ q.new = e.new /\ q.seen = e.seen
    BY <1>1, <2>1, <2>2 DEF ExecutionRecord
  <2>4. EntityOK(q)
    BY <1>1, <1>3, <2>1, <2>3 DEF EntityOK
  <2>5. FoundOK(q)
    BY <1>3, <2>1, <2>3 DEF FoundOK
  <2>6. execution' = [execution EXCEPT ![r] = q]
    BY <1>3 DEF q
  <2>. QED  BY <1>1, <2>3, <2>4, <2>5, <2>6, ExecutionMoves
<1>4. CASE ~ Taken(r, Numbered(k))
  <2>1. [e EXCEPT !.pc = "select", !.met = {}, !.entity.name = Numbered(k)] = With(Numbered(k), {})
    BY <1>1 DEF ExecutionRecord
  <2>2. execution' = [execution EXCEPT ![r] = With(Numbered(k), {})]
    BY <1>2, <1>4, <2>1
  <2>3. ASSUME NEW u \in Persons \ {e.who}, profiles[u].name = Numbered(k)
        PROVE  profiles[u].gone /\ acrossCommit[u]
    <3>1. profiles[u].gone
      BY <1>1, <1>4, <2>3, UsernamesDiffer
      DEF Taken, Shown, ProfilesInv, RowsOK, NoProfile
    <3>2. profiles[u].there
      BY <1>1, <2>3, UsernamesDiffer DEF ProfilesInv, RowsOK, NoProfile
    <3>3. Numbered(k) # DeletedName(u)
      BY <1>1, UsernamesDiffer
    <3>. QED  BY <2>3, <3>1, <3>2, <3>3 DEF ProfilesInv, AnnouncedAsStored
  <2>4. {} \in SUBSET Usernames /\ Numbered(k) \in OwnNames(e.who)
    BY <1>1, EntityNames
  <2>5. \A u \in Persons \ {e.who} :
          profiles[u].name = Numbered(k) =>
            Numbered(k) \in {} \/ (profiles[u].gone /\ acrossCommit[u])
    BY <2>3
  <2>. HIDE DEF With, e, k
  <2>. QED  BY <1>3, <2>2, <2>4, <2>5
<1>5. CASE Taken(r, Numbered(k)) /\ k < Suffixes
  <2> DEFINE q == [e EXCEPT !.tried = k]
  <2>1. execution' = [execution EXCEPT ![r] = q]
    BY <1>2, <1>5
  <2>2. /\ q \in ExecutionRecord /\ q.pc = e.pc /\ q.met = e.met /\ q.entity = e.entity
        /\ q.who = e.who /\ q.kind = e.kind /\ q.new = e.new /\ q.seen = e.seen /\ q.tried = k
    BY <1>1 DEF ExecutionRecord
  <2> HIDE DEF q
  <2>3. EntityOK(q) /\ FoundOK(q)
    BY <1>1, <1>5, <2>2 DEF EntityOK, FoundOK
  <2>. QED  BY <1>1, <2>1, <2>2, <2>3, ExecutionMoves
<1>6. CASE Taken(r, Numbered(k)) /\ ~ k < Suffixes
  <2>1. [e EXCEPT !.pc = "select", !.entity.name = FromId(e.who)] = With(FromId(e.who), e.met)
    BY <1>1 DEF ExecutionRecord
  <2>2. execution' = [execution EXCEPT ![r] = With(FromId(e.who), e.met)]
    BY <1>2, <1>6, <2>1
  <2>3. ASSUME NEW u \in Persons \ {e.who} PROVE profiles[u].name # FromId(e.who)
    BY UsernamesDiffer, ProfilesAssumption DEF ProfilesInv, RowsOK, OwnNames
  <2>4. e.met \in SUBSET Usernames /\ FromId(e.who) \in OwnNames(e.who)
    BY <1>1, EntityNames DEF ExecutionRecord
  <2>5. \A u \in Persons \ {e.who} :
          profiles[u].name = FromId(e.who) =>
            FromId(e.who) \in e.met \/ (profiles[u].gone /\ acrossCommit[u])
    BY <2>3
  <2>. HIDE DEF With, e
  <2>. QED  BY <1>3, <2>2, <2>4, <2>5
<1>. QED  BY <1>4, <1>5, <1>6

LEMMA SelectKept ==
  ASSUME ProfilesInv, NEW r \in ProfileRequests, SelectToSave(r)
  PROVE  ProfilesInv'
<1> DEFINE e == execution[r]
           seen == IF e.new THEN NoProfile ELSE profiles[e.who]
           q == [[e EXCEPT !.pc = "write"] EXCEPT !.seen = seen]
<1>1. e \in ExecutionRecord /\ e.pc = "select" /\ EntityOK(e) /\ FoundOK(e)
  BY DEF ProfilesInv, ProfilesTyped, ExecutionsOK, SelectToSave
<1>2. seen \in ProfileRow
  BY <1>1, NoProfileTyped DEF EntityOK, ProfilesInv, ProfilesTyped
<1>3. /\ execution' = [execution EXCEPT ![r] = q]
      /\ UNCHANGED <<profiles, announcement, acrossCommit>>
      /\ profileCalls' \in 0..MaxProfileCalls
  BY DEF SelectToSave, ProfilesInv, ProfilesTyped
<1>4. e.new => seen = NoProfile
  OBVIOUS
<1> HIDE DEF seen
<1>5. /\ q \in ExecutionRecord /\ q.pc = "write" /\ q.met = e.met /\ q.entity = e.entity
      /\ q.who = e.who /\ q.kind = e.kind /\ q.new = e.new /\ q.seen = seen
  BY <1>1, <1>2 DEF ExecutionRecord
<1> HIDE DEF q
<1>6. EntityOK(q) /\ FoundOK(q)
  BY <1>1, <1>4, <1>5 DEF EntityOK, FoundOK
<1>. QED  BY <1>3, <1>5, <1>6, ExecutionMoves

LEMMA EndKept ==
  ASSUME ProfilesInv, NEW r \in ProfileRequests, AnswerError(r) \/ RequestRollsBack(r)
  PROVE  ProfilesInv'
<1>1. /\ execution' = [execution EXCEPT ![r] = NoExecution]
      /\ UNCHANGED <<profiles, announcement, acrossCommit>>
      /\ profileCalls' \in 0..MaxProfileCalls
  BY DEF AnswerError, RequestRollsBack, ProfilesInv, ProfilesTyped
<1>2. EntityOK(NoExecution) /\ FoundOK(NoExecution) /\ NoExecution.pc # "commit"
  BY DEF NoExecution, EntityOK, FoundOK
<1>. QED  BY <1>1, <1>2, NoExecutionTyped, ExecutionMoves

LEMMA WriteKept ==
  ASSUME ProfilesInv, NEW r \in ProfileRequests, WriteProfile(r)
  PROVE  ProfilesInv'
<1> DEFINE e == execution[r]
           q == [e EXCEPT !.pc = IF Violates(r) THEN "refused" ELSE "commit"]
<1>1. /\ e \in ExecutionRecord /\ e.pc = "write" /\ EntityOK(e)
      /\ UNCHANGED <<profiles, announcement, acrossCommit, profileCalls>>
      /\ execution' = [execution EXCEPT ![r] = q]
      /\ ~ \E holder \in ProfileRequests \ {r} : HeldBy(r, holder)
  BY DEF ProfilesInv, ProfilesTyped, ExecutionsOK, WriteProfile
<1>2. /\ q \in ExecutionRecord /\ q.pc = IF Violates(r) THEN "refused" ELSE "commit"
      /\ q.met = e.met /\ q.entity = e.entity
      /\ q.who = e.who /\ q.kind = e.kind /\ q.new = e.new /\ q.seen = e.seen
  BY <1>1 DEF ExecutionRecord
<1> HIDE DEF q
<1>3. e.who \in Persons /\ Saved(r).name = Became(e)
  <2>1. e.who \in Persons
    BY <1>1 DEF EntityOK
  <2>. QED  BY <2>1, SavedFields DEF ProfilesInv
<1>4. EntityOK(q)
  BY <1>1, <1>2, <1>3 DEF EntityOK, Violates
<1>5. FoundOK(q)
  BY <1>2 DEF FoundOK
<1>6. CASE Violates(r)
  BY <1>1, <1>2, <1>4, <1>5, <1>6, ExecutionMoves DEF ProfilesInv, ProfilesTyped
<1>7. CASE ~ Violates(r)
  <2>1. ProfilesTyped'
    BY <1>1, <1>2 DEF ProfilesInv, ProfilesTyped
  <2>2. RowsOK' /\ AnnouncedAsStored'
    BY <1>1 DEF ProfilesInv, RowsOK, AnnouncedAsStored
  <2>3. /\ execution'[r] = q
        /\ \A s \in ProfileRequests \ {r} : execution'[s] = execution[s]
    BY <1>1 DEF ProfilesInv, ProfilesTyped
  <2>4. /\ Became(q) = Became(e) /\ (Renames(q) <=> Renames(e)) /\ (Dirty(q) <=> Dirty(e))
        /\ (Renames(e) <=> WritesName(r)) /\ (Dirty(e) <=> Writes(r))
    BY <1>2, <1>3 DEF Became, Renames, Dirty, WritesName, Writes
  <2>5. FreeOK(q)
    BY <1>2, <1>3, <1>7, <2>4 DEF FreeOK, Violates
  <2>6. ASSUME NEW s \in ProfileRequests \ {r}, execution[s].pc = "commit"
        PROVE  PairOK(q, execution[s]) /\ PairOK(execution[s], q)
    <3>1. execution[s].who \in Persons
      BY <2>6 DEF ProfilesInv, ExecutionsOK, EntityOK
    <3>2. Saved(s).name = Became(execution[s])
      BY <3>1, SavedFields DEF ProfilesInv
    <3>3. ~ HeldBy(r, s)
      BY <1>1
    <3>4. Writes(s) <=> Dirty(execution[s])
      BY DEF Writes, Dirty
    <3>. QED  BY <1>2, <1>3, <2>4, <2>6, <3>2, <3>3, <3>4 DEF PairOK, HeldBy
  <2>7. ASSUME NEW s \in ProfileRequests
        PROVE  EntityOK(execution'[s]) /\ FoundOK(execution'[s]) /\ FreeOK(execution'[s])
    BY <1>4, <1>5, <2>3, <2>5 DEF ProfilesInv, ExecutionsOK
  <2>8. ASSUME NEW s \in ProfileRequests, NEW t \in ProfileRequests \ {s}
        PROVE  PairOK(execution'[s], execution'[t])
    <3>1. CASE s # r /\ t # r
      BY <2>3, <3>1 DEF ProfilesInv, ExecutionsOK
    <3>2. CASE s = r
      BY <2>3, <2>6, <3>2 DEF PairOK
    <3>3. CASE t = r
      BY <2>3, <2>6, <3>3 DEF PairOK
    <3>. QED  BY <3>1, <3>2, <3>3
  <2>9. ASSUME NEW s \in ProfileRequests
        PROVE  EntityOK(execution[s])' /\ FoundOK(execution[s])' /\ FreeOK(execution[s])'
    <3>1. EntityOK(execution[s])'
      BY <1>1, <2>7 DEF EntityOK
    <3>2. FoundOK(execution[s])'
      BY <1>1, <2>7 DEF FoundOK
    <3>3. FreeOK(execution[s])'
      BY <1>1, <2>7 DEF FreeOK, Became, Renames
    <3>. QED  BY <3>1, <3>2, <3>3
  <2>10. ASSUME NEW s \in ProfileRequests, NEW t \in ProfileRequests \ {s}
         PROVE  PairOK(execution[s], execution[t])'
    BY <1>1, <2>8 DEF PairOK, Became, Renames
  <2>. QED  BY <2>1, <2>2, <2>9, <2>10 DEF ProfilesInv, ExecutionsOK
<1>. QED  BY <1>6, <1>7

LEMMA CommitKept ==
  ASSUME ProfilesInv, NEW r \in ProfileRequests, CommitProfile(r)
  PROVE  ProfilesInv'
<1> DEFINE e == execution[r]
           u == e.who
           row == Saved(r)
<1>1. /\ e \in ExecutionRecord /\ e.pc = "commit" /\ EntityOK(e) /\ FreeOK(e)
      /\ u \in Persons /\ profiles[u] \in ProfileRow
      /\ e.entity \in ProfileRow /\ e.seen \in ProfileRow
  <2>1. e \in ExecutionRecord /\ e.pc = "commit" /\ EntityOK(e) /\ FreeOK(e)
    BY DEF ProfilesInv, ProfilesTyped, ExecutionsOK, CommitProfile
  <2>2. u \in Persons
    BY <2>1 DEF EntityOK
  <2>. QED  BY <2>1, <2>2 DEF ProfilesInv, ProfilesTyped, ExecutionRecord
<1>2. /\ profiles' = [profiles EXCEPT ![u] = row]
      /\ announcement' = [announcement EXCEPT ![u] = IF e.kind = "erase" THEN @ ELSE e.entity]
      /\ acrossCommit' = [acrossCommit EXCEPT ![u] = ~ e.new /\ e.seen # profiles[u]]
      /\ execution' = [s \in ProfileRequests |->
           IF s = r THEN NoExecution
             ELSE [execution[s] EXCEPT !.met =
                     IF execution[s].pc = "none" THEN @ ELSE @ \cup {row.name}]]
      /\ profileCalls' = profileCalls
  BY Zenon DEF CommitProfile
<1>3. /\ row \in ProfileRow /\ row.name = Became(e)
      /\ row.there = IF e.entity.there # e.seen.there THEN e.entity.there ELSE profiles[u].there
      /\ e.entity = e.seen => row = profiles[u]
      /\ e.seen = profiles[u] => row = e.entity
  BY <1>1, SavedFields DEF ProfilesInv
<1> HIDE DEF row
<1>4. row.name \in OwnNames(u) /\ row.there
  <2>1. row.name \in OwnNames(u)
    BY <1>1, <1>3 DEF EntityOK, Became, ProfilesInv, RowsOK
  <2>2. e.entity.there = TRUE /\ e.seen.there \in BOOLEAN /\ profiles[u].there \in BOOLEAN
    BY <1>1 DEF EntityOK, ProfileRow
  <2>3. e.new => e.seen.there = FALSE
    BY <1>1 DEF EntityOK, NoProfile
  <2>4. ~ e.new => profiles[u].there = TRUE
    BY <1>1, <2>2 DEF EntityOK
  <2>5. row.there = IF TRUE # e.seen.there THEN TRUE ELSE profiles[u].there
    BY <1>3, <2>2
  <2>6. row.there
    BY <1>1, <2>2, <2>3, <2>4, <2>5 DEF ExecutionRecord
  <2>. QED  BY <2>1, <2>6
<1>5. ASSUME NEW s \in ProfileRequests \ {r}
      PROVE  /\ execution'[s] \in ExecutionRecord
             /\ execution'[s].pc = execution[s].pc /\ execution'[s].kind = execution[s].kind
             /\ execution'[s].who = execution[s].who /\ execution'[s].entity = execution[s].entity
             /\ execution'[s].new = execution[s].new /\ execution'[s].seen = execution[s].seen
             /\ execution'[s].tried = execution[s].tried
             /\ execution'[s].met =
                  IF execution[s].pc = "none" THEN execution[s].met
                    ELSE execution[s].met \cup {row.name}
  <2>1. execution[s] \in ExecutionRecord /\ row.name \in Usernames
    BY <1>3 DEF ProfilesInv, ProfilesTyped, ProfileRow
  <2>2. execution'[s] = [execution[s] EXCEPT !.met =
          IF execution[s].pc = "none" THEN @ ELSE @ \cup {row.name}]
    BY <1>2
  <2>. QED  BY <2>1, <2>2 DEF ExecutionRecord
<1>6. execution'[r] = NoExecution
  BY <1>2
<1>7. ProfilesTyped'
  <2>1. profiles' \in [Persons -> ProfileRow] /\ announcement' \in [Persons -> ProfileRow]
    BY <1>1, <1>2, <1>3 DEF ProfilesInv, ProfilesTyped
  <2>2. acrossCommit' \in [Persons -> BOOLEAN]
    BY <1>1, <1>2 DEF ProfilesInv, ProfilesTyped
  <2>3. execution' \in [ProfileRequests -> ExecutionRecord]
    <3>1. \A s \in ProfileRequests : execution'[s] \in ExecutionRecord
      BY <1>5, <1>6, NoExecutionTyped
    <3>2. execution' = [s \in ProfileRequests |-> execution'[s]]
      BY <1>2
    <3>. QED  BY <3>1, <3>2
  <2>. QED  BY <1>2, <2>1, <2>2, <2>3 DEF ProfilesInv, ProfilesTyped
<1>8. /\ profiles'[u] = row
      /\ \A v \in Persons \ {u} : profiles'[v] = profiles[v]
      /\ acrossCommit'[u] = (~ e.new /\ e.seen # profiles[u])
      /\ \A v \in Persons \ {u} : acrossCommit'[v] = acrossCommit[v]
      /\ announcement'[u] = IF e.kind = "erase" THEN announcement[u] ELSE e.entity
      /\ \A v \in Persons \ {u} : announcement'[v] = announcement[v]
  BY <1>1, <1>2 DEF ProfilesInv, ProfilesTyped
<1>9. \A v \in Persons \ {u} : row.name = profiles[v].name => row.name = NoUsername
  BY <1>1, <1>3 DEF FreeOK, Renames, ProfilesInv, RowsOK
<1>10. RowsOK'
  <2>1. ASSUME NEW v \in Persons
        PROVE  /\ profiles'[v].name \in OwnNames(v)
               /\ ~ profiles'[v].there => profiles'[v] = NoProfile
    BY <1>4, <1>8 DEF ProfilesInv, RowsOK
  <2>2. ASSUME NEW v \in Persons, NEW w \in Persons \ {v},
               profiles'[v].name = profiles'[w].name
        PROVE  profiles'[v].name = NoUsername
    <3>1. CASE v = u
      BY <1>8, <1>9, <2>2, <3>1
    <3>2. CASE w = u
      BY <1>8, <1>9, <2>2, <3>2
    <3>3. CASE v # u /\ w # u
      BY <1>8, <2>2, <3>3 DEF ProfilesInv, RowsOK
    <3>. QED  BY <3>1, <3>2, <3>3
  <2>. QED  BY <2>1, <2>2 DEF RowsOK
<1>11. e.new => e.seen = profiles[u]
  BY <1>1 DEF EntityOK, ProfilesInv, RowsOK
<1>12. AnnouncedAsStored'
  <2>1. ASSUME ~ acrossCommit'[u]
        PROVE  IF row.gone THEN row.name = DeletedName(u) /\ row.full = Wiped
                           ELSE announcement'[u] = row
    BY <1>1, <1>3, <1>8, <1>11, <2>1 DEF EntityOK
  <2>. QED  BY <1>8, <2>1 DEF AnnouncedAsStored, ProfilesInv
\* Others about to commit see the row as save read it, or change nothing of it.
<1>13. ASSUME NEW s \in ProfileRequests \ {r}, execution[s].pc = "commit"
       PROVE  /\ Dirty(execution[s]) => profiles'[execution[s].who] = profiles[execution[s].who]
              /\ Dirty(execution[s])' <=> Dirty(execution[s])
              /\ Renames(execution[s])' =>
                   Renames(execution[s]) /\ Became(execution[s])' = Became(execution[s])
  <2>1. execution[s].who \in Persons /\ PairOK(execution[r], execution[s])
    BY <1>13 DEF ProfilesInv, ExecutionsOK, EntityOK
  <2>2. Dirty(execution[s]) => profiles'[execution[s].who] = profiles[execution[s].who]
    BY <1>1, <1>3, <1>8, <1>13, <2>1 DEF PairOK, Dirty
  <2>. QED  BY <1>5, <2>2 DEF Dirty, Renames, Became
<1>14. ASSUME NEW s \in ProfileRequests
       PROVE  EntityOK(execution[s])' /\ FoundOK(execution[s])' /\ FreeOK(execution[s])'
  <2>1. CASE s = r
    BY <1>6, <2>1 DEF NoExecution, EntityOK, FoundOK, FreeOK
  <2>2. CASE s # r
    <3>1. EntityOK(execution[s]) /\ FoundOK(execution[s]) /\ FreeOK(execution[s])
      BY DEF ProfilesInv, ExecutionsOK
    <3>2. EntityOK(execution[s])'
      <4>1. SUFFICES ASSUME execution[s].pc # "none" PROVE EntityOK(execution[s])'
        BY <1>5, <2>2 DEF EntityOK
      <4>2. /\ execution[s].who \in Persons
            /\ profiles[execution[s].who].there => profiles'[execution[s].who].there
        BY <1>4, <1>8, <3>1, <4>1 DEF EntityOK
      <4>3. execution[s].new /\ execution[s].pc = "commit" =>
              profiles'[execution[s].who] = profiles[execution[s].who]
        <5>1. ASSUME execution[s].new, execution[s].pc = "commit" PROVE Dirty(execution[s])
          BY <3>1, <5>1 DEF EntityOK, Dirty, NoProfile
        <5>. QED  BY <1>13, <2>2, <5>1
      <4>. QED  BY <1>5, <2>2, <3>1, <4>1, <4>2, <4>3 DEF EntityOK
    <3>3. FoundOK(execution[s])'
      <4>1. SUFFICES ASSUME execution[s].pc \in {"select", "write"},
                            execution[s].kind = "create", execution[s].entity.name # NoUsername,
                            NEW v \in Persons \ {execution[s].who},
                            profiles'[v].name = execution[s].entity.name
                     PROVE  \/ execution[s].entity.name \in execution'[s].met
                            \/ profiles'[v].gone /\ acrossCommit'[v]
        BY <1>5, <2>2 DEF FoundOK
      <4>2. execution'[s].met = execution[s].met \cup {row.name}
        BY <1>5, <2>2, <4>1
      <4>3. CASE v = u
        BY <1>8, <4>1, <4>2, <4>3
      <4>4. CASE v # u
        BY <1>8, <3>1, <4>1, <4>2, <4>4 DEF FoundOK
      <4>. QED  BY <4>3, <4>4
    <3>4. FreeOK(execution[s])'
      <4>1. SUFFICES ASSUME execution[s].pc = "commit", Renames(execution[s])',
                            Became(execution[s])' # NoUsername,
                            NEW v \in Persons \ {execution[s].who}
                     PROVE  profiles'[v].name # Became(execution[s])'
        BY <1>5, <2>2 DEF FreeOK
      <4>2. Renames(execution[s]) /\ Became(execution[s])' = Became(execution[s])
        BY <1>13, <2>2, <4>1
      <4>3. PairOK(execution[r], execution[s])
        BY <2>2 DEF ProfilesInv, ExecutionsOK
      <4>4. Became(execution[r]) # Became(execution[s]) \/ v # u
        BY <1>1, <3>1, <4>1, <4>2, <4>3 DEF FreeOK, PairOK, Renames
      <4>. QED  BY <1>3, <1>8, <3>1, <4>1, <4>2, <4>4 DEF FreeOK
    <3>. QED  BY <3>2, <3>3, <3>4
  <2>. QED  BY <2>1, <2>2
<1>15. ASSUME NEW s \in ProfileRequests, NEW t \in ProfileRequests \ {s}
       PROVE  PairOK(execution[s], execution[t])'
  <2>1. CASE s = r \/ t = r
    BY <1>6, <2>1 DEF NoExecution, PairOK
  <2>2. CASE s # r /\ t # r
    <3>1. PairOK(execution[s], execution[t])
      BY DEF ProfilesInv, ExecutionsOK
    <3>2. SUFFICES ASSUME execution[s].pc = "commit", execution[t].pc = "commit"
                   PROVE  PairOK(execution[s], execution[t])'
      BY <1>5, <2>2 DEF PairOK
    <3>3. /\ execution'[s].who = execution[s].who /\ execution'[t].who = execution[t].who
          /\ s \in ProfileRequests \ {r} /\ t \in ProfileRequests \ {r}
      BY <1>5, <2>2
    <3>. QED  BY <1>13, <3>1, <3>2, <3>3 DEF PairOK
  <2>. QED  BY <2>1, <2>2
<1>. QED  BY <1>7, <1>10, <1>12, <1>14, <1>15 DEF ProfilesInv, ExecutionsOK

THEOREM ProfilesInvariance == ProfilesSpec => []ProfilesInv
<1>1. ProfilesInit => ProfilesInv
  BY ProfilesInitially
<1>2. ProfilesInv /\ [ProfilesNext]_profileVars => ProfilesInv'
  <2> SUFFICES ASSUME ProfilesInv, [ProfilesNext]_profileVars PROVE ProfilesInv'
    OBVIOUS
  <2>1. CASE ProfilesNext
    <3>1. PICK r \in ProfileRequests :
            \/ \E u \in Persons :
                 \/ \E full \in FullNames : LoadToUpsertPending(r, u, full)
                 \/ LoadToUpdateProfile(r, u) \/ LoadToAnonymize(r, u)
            \/ ResolveAvailableUsername(r) \/ SelectToSave(r) \/ WriteProfile(r)
            \/ CommitProfile(r) \/ AnswerError(r) \/ RequestRollsBack(r)
      BY <2>1 DEF ProfilesNext
    <3>. QED  BY <3>1, LoadsKept, ResolveKept, SelectKept, WriteKept, CommitKept, EndKept
  <2>2. CASE UNCHANGED profileVars
    BY <2>2 DEF profileVars, ProfilesInv, ProfilesTyped, RowsOK, AnnouncedAsStored,
         ExecutionsOK, EntityOK, FoundOK, FreeOK, PairOK, Became, Renames
  <2>. QED  BY <2>1, <2>2
<1>. QED  BY <1>1, <1>2, PTL DEF ProfilesSpec

\* However registrations, edits and erasures of any people overlap, what was
\* announced is what is stored but for the writers named, and a profile is refused
\* only to a race.
THEOREM ProfilesAreKept == ProfilesSpec => []ProfilesKept
BY ProfilesInvariance, ProfilesImplied, PTL

-----------------------------------------------------------------------------
(***************************************************************************)
(* The composition.  A step of the whole is a step of the part that runs   *)
(* and leaves the variables of the others alone, so that each part behaves *)
(* in it as its own specification says.                                    *)
(***************************************************************************)
\* Whatever runs beside it, each component keeps to its specification, and so to
\* every theorem above.
THEOREM MembersImplementsParts == MembersSpec => Spec /\ NoticesSpec /\ ProfilesSpec
<1>1. MembersInit => Init /\ NoticesInit /\ ProfilesInit
  BY DEF MembersInit
<1>2. [MembersNext]_<<part, vars, noticeVars, profileVars>>
        => [Next]_vars /\ [NoticesNext]_noticeVars /\ [ProfilesNext]_profileVars
  BY Zenon DEF MembersNext
<1>. QED  BY <1>1, <1>2, PTL DEF MembersSpec, Spec, NoticesSpec, ProfilesSpec

\* The types of all parts hold in the composition, whichever of them runs.
THEOREM MembersTypeCorrect == MembersSpec => []MembersTypeOK
<1>1. TypeOK /\ NoticesTypeOK /\ ProfilesTypeOK => MembersTypeOK
  BY Zenon DEF MembersTypeOK
<1>2. ProfilesInv => ProfilesTypeOK
  BY ProfileTypes DEF ProfilesInv
<1>. QED  BY <1>1, <1>2, MembersImplementsParts, TypeCorrect, NoticesAreExplained,
             ProfilesInvariance, PTL
=============================================================================
