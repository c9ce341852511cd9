--------------------------- MODULE WorkspaceMembers ---------------------------
(***************************************************************************)
(* One workspace in the workspace service: its members and their roles,    *)
(* its invitations, its deletion, and the outbox rows that tell the other  *)
(* services about them.                                                    *)
(*                                                                         *)
(* A request is one execution of a use case: it reads rows, decides, and   *)
(* writes later, each a database call of its own.  Only accepting an       *)
(* invitation does all of it in one transaction with the row locked.       *)
(***************************************************************************)
EXTENDS Integers, Sequences, FiniteSets

CONSTANTS
    Users,
    Owner,       \* who creates the workspace
    Admins,      \* platform admins; they cannot be invited
    Invites,     \* ids of invitation rows
    Invitee,     \* the user whose e-mail address a row is for
    Requests,    \* executions of use cases
    MaxCalls,    \* bound: requests that pass their first check
    MaxStops,    \* bound: requests that stop half-way
    None

Roles == {"owner", "manager", "member"}

\* The roles PATCH .../members/:id may ask for.
GivenRoles == {"manager", "member"}

ASSUME ParametersAssumption ==
    /\ Owner \in Users
    /\ Admins \subseteq Users
    /\ Invitee \in [Invites -> Users \ Admins]
    /\ MaxCalls \in Nat
    /\ MaxStops \in Nat
    /\ IsFiniteSet(Requests)
    /\ None \notin Users \cup Invites

VARIABLES
    ws,          \* the workspaces row: none, alive, or deleted (soft)
    role,        \* workspace_members, "none" for users without a row
    invite,      \* invitations.status, "absent" before and "gone" after the row
    expired,     \* invitations past expires_at
    outbox,      \* the rows enqueued so far, in order
    req,         \* the requests
    silent,      \* auxiliary: member rows inserted minus removed without an event
    calls, stops

rows == <<ws, role, invite, expired, outbox>>
bounds == <<calls, stops>>
vars == <<rows, req, silent, bounds>>

Event == [type : {"created", "joined", "left"}, user : Users, invite : Invites \cup {None}]
         \cup [type : {"invited"}, invite : Invites] \cup [type : {"deleted"}]

About(type, u, i) == [type |-> type, user |-> u, invite |-> i]

Labels == {"idle", "pending", "account", "create", "load", "save", "target", "delete",
           "announce", "subject", "update", "find", "commit", "upsert"}

\* by: the caller.  on: the user concerned.  invite: the invitation answered.
\* role: the role read for the caller, or the one to give.
Request == [pc : Labels, by : Users, on : Users, invite : Invites \cup {None},
            role : Roles \cup {"none"}]

Idle == [pc |-> "idle", by |-> Owner, on |-> Owner, invite |-> None, role |-> "none"]

Init ==
    /\ ws = "none"
    /\ role = [u \in Users |-> "none"]
    /\ invite = [i \in Invites |-> "absent"]
    /\ expired = {}
    /\ outbox = <<>>
    /\ req = [r \in Requests |-> Idle]
    /\ silent = [u \in Users |-> 0]
    /\ calls = 0
    /\ stops = 0

InvitesOf(u) == {i \in Invites : Invitee[i] = u}

\* Another invitation of the same address has this status.
OtherWith(i, status) == \E j \in InvitesOf(Invitee[i]) \ {i} : invite[j] = status

PendingFor(u) == \E i \in InvitesOf(u) : invite[i] = "pending"

\* A request passes its first check and is at a label.
Enter(r, pc, by, on, i, held) ==
    /\ req[r].pc = "idle"
    /\ ws # "none"
    /\ calls < MaxCalls
    /\ calls' = calls + 1
    /\ req' = [req EXCEPT ![r] = [pc |-> pc, by |-> by, on |-> on, invite |-> i,
                                  role |-> held]]

Goto(r, pc) == req' = [req EXCEPT ![r].pc = pc]
Finish(r) == req' = [req EXCEPT ![r] = Idle]

\* The request goes on if the row it just read allows it, and ends otherwise.
Check(r, pc, ok, next) ==
    /\ req[r].pc = pc
    /\ IF ok THEN Goto(r, next) ELSE Finish(r)
    /\ UNCHANGED <<rows, silent, bounds>>

(***************************************************************************)
(* CreateWorkspaceUseCase: the workspace, its owner and the event, at once. *)
(***************************************************************************)
CreateWithOwner ==
    /\ ws = "none"
    /\ ws' = "alive"
    /\ role' = [role EXCEPT ![Owner] = "owner"]
    /\ outbox' = Append(outbox, About("created", Owner, None))
    /\ UNCHANGED <<invite, expired, req, silent, bounds>>

(***************************************************************************)
(* InviteMemberUseCase                                                     *)
(***************************************************************************)
Invite(r, by, u) ==
    /\ role[by] \in {"owner", "manager"}
    /\ u \notin Admins
    /\ Enter(r, "pending", by, u, None, role[by])
    /\ UNCHANGED <<rows, silent, stops>>

CheckPending(r) == Check(r, "pending", ~ PendingFor(req[r].on), "account")

CheckNotMember(r) == Check(r, "account", role[req[r].on] = "none", "create")

\* createAndPublishInvited; a second pending row violates the unique key.
CreateInvite(r, i) ==
    /\ req[r].pc = "create"
    /\ Invitee[i] = req[r].on
    /\ invite[i] = "absent"
    /\ IF PendingFor(req[r].on)
       THEN UNCHANGED <<invite, outbox>>
       ELSE /\ invite' = [invite EXCEPT ![i] = "pending"]
            /\ outbox' = Append(outbox, [type |-> "invited", invite |-> i])
    /\ Finish(r)
    /\ UNCHANGED <<ws, role, expired, silent, bounds>>

Expire(i) ==
    /\ invite[i] = "pending"
    /\ i \notin expired
    /\ expired' = expired \cup {i}
    /\ UNCHANGED <<ws, role, invite, outbox, req, silent, bounds>>

(***************************************************************************)
(* AcceptInvitationUseCase and RejectInvitationUseCase                     *)
(***************************************************************************)

\* Variant with a bug: an invitation accepted earlier may be accepted again.
AcceptableAgain(i) == invite[i] \in {"pending", "accepted"} /\ i \notin expired

\* assertCanAccept; the answer to an accepted invitation changes nothing.
Acceptable(i) == invite[i] = "pending" /\ i \notin expired

\* Variant with a bug: every acceptance is announced.
JoinsAlways(u) == TRUE

\* memberJoined: the insert found no row of the user.
Joins(u) == role[u] = "none"

\* Variant with a bug: an earlier acceptance by the same address is forgotten.
AnsweredAgain(i) == "accepted"

\* The row is deleted when another one of the address says accepted.
Answered(i) == IF OtherWith(i, "accepted") THEN "gone" ELSE "accepted"

\* acceptAndJoinWorkspace.  It does not look at the workspace.
Accept(i) ==
    LET u == Invitee[i] IN
    /\ Acceptable(i)
    /\ invite' = [invite EXCEPT ![i] = Answered(i)]
    /\ IF Joins(u)
       THEN /\ role' = [role EXCEPT ![u] = IF @ = "none" THEN "member" ELSE @]
            /\ outbox' = Append(outbox, About("joined", u, i))
       ELSE UNCHANGED <<role, outbox>>
    /\ UNCHANGED <<ws, expired, req, silent, bounds>>

\* The invitation is read and may be rejected; all of it happened to the caller.
Reject(r, i) ==
    /\ invite[i] = "pending"
    /\ Enter(r, "load", Invitee[i], Invitee[i], i, "none")
    /\ UNCHANGED <<rows, silent, stops>>

\* updateStatus reads the row once more, whatever its status is now,
LoadRejected(r) == Check(r, "load", invite[req[r].invite] # "gone", "save")

\* and saves it: over any status, inserted if it has gone, or refused by the
\* unique key.
SaveRejected(r) ==
    /\ req[r].pc = "save"
    /\ invite' = IF OtherWith(req[r].invite, "rejected") THEN invite
                 ELSE [invite EXCEPT ![req[r].invite] = "rejected"]
    /\ Finish(r)
    /\ UNCHANGED <<ws, role, expired, outbox, silent, bounds>>

(***************************************************************************)
(* RemoveMemberUseCase                                                     *)
(***************************************************************************)
Remove(r, by, u) ==
    /\ role[by] # "none"
    /\ Enter(r, "target", by, u, None, role[by])
    /\ UNCHANGED <<rows, silent, stops>>

\* The decision, from the caller's role read before and the target's read now.
MayRemove(q, target) ==
    /\ target \notin {"none", "owner"}
    /\ \/ q.by = q.on
       \/ q.role = "owner"
       \/ q.role = "manager" /\ target = "member"

CheckTarget(r) == Check(r, "target", MayRemove(req[r], role[req[r].on]), "delete")

\* removeByWorkspaceAndUser; nothing deleted is an error.
Delete(r) ==
    LET u == req[r].on IN
    /\ req[r].pc = "delete"
    /\ role' = [role EXCEPT ![u] = "none"]
    /\ IF role[u] = "none" THEN Finish(r) ELSE Goto(r, "announce")
    /\ UNCHANGED <<ws, invite, expired, outbox, silent, bounds>>

\* enqueueMemberLeft, after the activity entry.
Announce(r) ==
    /\ req[r].pc = "announce"
    /\ outbox' = Append(outbox, About("left", req[r].on, None))
    /\ Finish(r)
    /\ UNCHANGED <<ws, role, invite, expired, silent, bounds>>

(***************************************************************************)
(* UpdateMemberRoleUseCase                                                 *)
(***************************************************************************)
UpdateRole(r, by, u, new) ==
    /\ role[by] = "owner"
    /\ Enter(r, "subject", by, u, None, new)
    /\ UNCHANGED <<rows, silent, stops>>

CheckSubject(r) ==
    Check(r, "subject", role[req[r].on] \notin {"none", "owner", req[r].role}, "update")

\* updateRoleByWorkspaceAndUser; nothing updated is an error.
SetRole(r) ==
    LET u == req[r].on IN
    /\ req[r].pc = "update"
    /\ role' = [role EXCEPT ![u] = IF @ = "none" THEN @ ELSE req[r].role]
    /\ Finish(r)
    /\ UNCHANGED <<ws, invite, expired, outbox, silent, bounds>>

(***************************************************************************)
(* DeleteWorkspaceUseCase and ManageWorkspacesAdminUseCase                 *)
(***************************************************************************)
DeleteByOwner(r, by) ==
    /\ role[by] = "owner"
    /\ Enter(r, "find", by, by, None, "owner")
    /\ UNCHANGED <<rows, silent, stops>>

ForceDelete(r, by) ==
    /\ by \in Admins
    /\ Enter(r, "find", by, by, None, "none")
    /\ UNCHANGED <<rows, silent, stops>>

\* softDeleteWorkspace: the transaction finds the workspace, without a lock,
FindWorkspace(r) == Check(r, "find", ws = "alive", "commit")

\* and deletes it with its members, also when another one just has.
SoftDelete(r) ==
    /\ req[r].pc = "commit"
    /\ ws' = "deleted"
    /\ role' = [u \in Users |-> "none"]
    /\ outbox' = Append(outbox, [type |-> "deleted"])
    /\ Finish(r)
    /\ UNCHANGED <<invite, expired, silent, bounds>>

\* adminForceJoin: the admin joins a workspace that is alive when read,
ForceJoin(r, by) ==
    /\ by \in Admins
    /\ ws = "alive"
    /\ Enter(r, "upsert", by, by, None, "member")
    /\ UNCHANGED <<rows, silent, stops>>

\* as a member, whatever role the admin had, and without an event.
Upsert(r) ==
    LET u == req[r].on IN
    /\ req[r].pc = "upsert"
    /\ role' = [role EXCEPT ![u] = "member"]
    /\ silent' = [silent EXCEPT ![u] = IF role[u] = "none" THEN @ + 1 ELSE @]
    /\ Finish(r)
    /\ UNCHANGED <<ws, invite, expired, outbox, bounds>>

\* A request stops: its pod dies or a call fails.  What it wrote stays.
Stop(r) ==
    /\ req[r].pc # "idle"
    /\ stops < MaxStops
    /\ stops' = stops + 1
    /\ silent' = [silent EXCEPT ![req[r].on] =
                      IF req[r].pc = "announce" THEN @ - 1 ELSE @]
    /\ Finish(r)
    /\ UNCHANGED <<rows, calls>>

-----------------------------------------------------------------------------
Call(r) ==
    \E by \in Users :
        \/ \E u \in Users : \/ Invite(r, by, u) \/ Remove(r, by, u)
                            \/ \E new \in GivenRoles : UpdateRole(r, by, u, new)
        \/ DeleteByOwner(r, by) \/ ForceDelete(r, by) \/ ForceJoin(r, by)

Step(r) ==
    \/ CheckPending(r) \/ CheckNotMember(r) \/ LoadRejected(r) \/ SaveRejected(r)
    \/ CheckTarget(r) \/ Delete(r) \/ Announce(r)
    \/ CheckSubject(r) \/ SetRole(r)
    \/ FindWorkspace(r) \/ SoftDelete(r) \/ Upsert(r)

Next ==
    \/ CreateWithOwner
    \/ \E r \in Requests : \/ Call(r) \/ Step(r) \/ Stop(r)
                           \/ \E i \in Invites : Reject(r, i) \/ CreateInvite(r, i)
    \/ \E i \in Invites : Accept(i) \/ Expire(i)

Spec == Init /\ [][Next]_vars

-----------------------------------------------------------------------------
(***************************************************************************)
(* Properties.                                                             *)
(***************************************************************************)

\* Types, and the unique key on address and status, which only an invitation's
\* creation and a rejection may run into: accepting never does.
UniqueKey ==
    \A i, j \in Invites :
        /\ Invitee[i] = Invitee[j]
        /\ invite[i] = invite[j]
        /\ invite[i] \in {"pending", "accepted", "rejected"}
        => i = j

TypeOK ==
    /\ UniqueKey
    /\ ws \in {"none", "alive", "deleted"}
    /\ role \in [Users -> Roles \cup {"none"}]
    /\ invite \in [Invites -> {"absent", "pending", "accepted", "rejected", "gone"}]
    /\ expired \subseteq Invites
    /\ outbox \in Seq(Event)
    /\ req \in [Requests -> Request]
    /\ silent \in [Users -> Int]
    /\ calls \in 0..MaxCalls
    /\ stops \in 0..MaxStops

OnlyOwner(u) == \A v \in Users : role[v] = "owner" <=> v = u

\* A workspace has its creator as its one owner until it is deleted, and none
\* afterwards, although removals and role changes write to rows they checked
\* earlier: unless the owner is an admin, who may join by force and lose the role.
OwnerKept ==
    Owner \notin Admins =>
        /\ ws = "alive" => OnlyOwner(Owner)
        /\ ws = "deleted" => \A u \in Users : role[u] # "owner"

Deleted == \E k \in DOMAIN outbox : outbox[k].type = "deleted"

Count(types, u) ==
    Cardinality({k \in DOMAIN outbox : outbox[k].type \in types /\ outbox[k].user = u})

Departing(u) == Cardinality({r \in Requests : req[r].pc = "announce" /\ req[r].on = u})

\* Until the workspace is deleted the outbox accounts for every member row: a
\* user's arrivals are the departures, those about to be announced, and the row
\* the user has, but for the rows that come and go without an event.
ArrivalsAndDepartures ==
    ~ Deleted => \A u \in Users :
        Count({"created", "joined"}, u) + silent[u]
            = Count({"left"}, u) + Departing(u) + (IF role[u] = "none" THEN 0 ELSE 1)

\* An invitation brings its user in once at most: not again after leaving, nor
\* because a rejection overwrote or re-inserted the row.
OneJoinPerInvite ==
    \A k, l \in DOMAIN outbox :
        outbox[k].type = "joined" /\ outbox[l].type = "joined"
            /\ outbox[k].invite = outbox[l].invite => k = l

\* However use cases interleave, the owner stays the owner and an invitation is
\* worth one join.
MembershipKept == OwnerKept /\ OneJoinPerInvite

-----------------------------------------------------------------------------
(***************************************************************************)
(* What the documentation says and the code does not do.                   *)
(***************************************************************************)

AllIdle == \A r \in Requests : req[r].pc = "idle"

Last(u) == LET K == {k \in DOMAIN outbox : outbox[k].type \in {"created", "joined", "left"}
                                            /\ outbox[k].user = u}
           IN IF K = {} THEN "left" ELSE outbox[CHOOSE k \in K : \A l \in K : l <= k].type

\* Business data and outbox row are written in one transaction, so the rows come
\* in the order of the changes: with no request running, the last row about a
\* user who never came or went silently says whether the user is a member.
AnnouncedMembership ==
    AllIdle /\ ~ Deleted => \A u \in Users :
        silent[u] = 0 => (Last(u) = "left" <=> role[u] = "none")
=============================================================================
