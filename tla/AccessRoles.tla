---------------------------- MODULE AccessRoles ----------------------------
(***************************************************************************)
(* Roles, the users who have them and one permission they may carry: the   *)
(* tables the admin API of the auth service and a registration write.      *)
(*                                                                         *)
(* Every request reads, decides and writes in separate calls, none in a    *)
(* transaction.  Three constraints of the database decide late: the name   *)
(* of a role is unique, a row that names a role needs it to be there, and  *)
(* the rows that name a deleted role are deleted with it.                  *)
(***************************************************************************)
EXTENDS Naturals, FiniteSets

CONSTANTS
  RoleRequests,   \* executions of the handlers that may overlap
  RoleIds,
  SeededRole,     \* the role "user" that the migration inserts
  RoleNames,
  NoName,         \* of an id that has no row
  Accounts,
  MaxTurns        \* bound on the writes

ASSUME AccessRolesAssumption ==
  /\ SeededRole \in RoleIds
  /\ "user" \in RoleNames
  /\ NoName \notin RoleNames
  /\ Accounts # {}
  /\ MaxTurns \in Nat

VARIABLES
  named,       \* the table roles: name of each id
  granted,     \* roles that carry the permission
  assigned,    \* the table user_roles: pairs <<account, role>>
  roleRequest, \* [pc, role, name, account, read] of each handler execution
  turn,        \* history: writes so far; `read` of a request is the turn it read at
  since,       \* history: the turn each pair was last assigned in
  taken,       \* history: [read, since] of pairs that went with their role
  removed      \* history: [at, back] of each id: turn of its deletion, and what the
               \* request that brought it back had read at; 0 for none

roleVars ==
  <<named, granted, assigned, roleRequest, turn, since, taken, removed>>

ProtectedRoles == {"admin", "user"}
NoRoleRequest == [pc |-> "none", role |-> SeededRole, name |-> NoName,
                  account |-> CHOOSE a \in Accounts : TRUE, read |-> 0]
There(id) == named[id] # NoName
Free(name) == \A id \in RoleIds : named[id] # name

AccessRolesInit ==
  /\ named = [id \in RoleIds |-> IF id = SeededRole THEN "user" ELSE NoName]
  /\ granted = {}
  /\ assigned = {}
  /\ roleRequest = [r \in RoleRequests |-> NoRoleRequest]
  /\ turn = 0
  /\ since = [pair \in Accounts \X RoleIds |-> 0]
  /\ taken = {}
  /\ removed = [id \in RoleIds |-> [at |-> 0, back |-> 0]]

-----------------------------------------------------------------------------
RoleAt(r, pc) == roleRequest[r].pc = pc

\* A request has read what it decides on.
RoleRead(r, request) ==
  /\ RoleAt(r, "none")
  /\ roleRequest' = [roleRequest EXCEPT ![r] = [request EXCEPT !.read = turn]]
  /\ UNCHANGED <<named, granted, assigned, turn, since, taken, removed>>

\* It writes, and ends or goes on.
RoleWrites(r, pc, next) ==
  /\ RoleAt(r, pc)
  /\ turn < MaxTurns
  /\ turn' = turn + 1
  /\ roleRequest' = [roleRequest EXCEPT ![r] = next]

\* createRole: a name that is free, and an id nobody has used.
AssertRoleNameAvailable(r, id, name) ==
  /\ Free(name)
  /\ ~There(id) /\ removed[id].at = 0
  /\ RoleRead(r, [NoRoleRequest EXCEPT !.pc = "save", !.role = id, !.name = name])

\* updateRole: any role, also a protected one, may take another free name.
LoadRoleToUpdate(r, id, name) ==
  /\ There(id)
  /\ name # named[id] => Free(name)
  /\ RoleRead(r, [NoRoleRequest EXCEPT !.pc = "save", !.role = id, !.name = name])

\* save updates the row with that id, or inserts one when there is none (any more);
\* the index on the name may refuse it.
WriteRole(r) ==
  LET id == roleRequest[r].role
      name == roleRequest[r].name
  IN
  /\ RoleWrites(r, "save", NoRoleRequest)
  /\ IF \A other \in RoleIds \ {id} : named[other] # name
       THEN /\ named' = [named EXCEPT ![id] = name]
            /\ removed' = IF There(id) \/ removed[id].at = 0 THEN removed
                          ELSE [removed EXCEPT ![id].back = roleRequest[r].read]
       ELSE UNCHANGED <<named, removed>>
  /\ UNCHANGED <<granted, assigned, since, taken>>

\* Variant with a bug: the users of the role are not counted.
LoadToDeleteUncounted(r, id) ==
  /\ There(id)
  /\ named[id] \notin ProtectedRoles
  /\ RoleRead(r, [NoRoleRequest EXCEPT !.pc = "delete", !.role = id])

\* deleteRole loads the role and counts its users ...
CountAssignedUsers(r, id) ==
  /\ There(id)
  /\ named[id] \notin ProtectedRoles
  /\ \A a \in Accounts : <<a, id>> \notin assigned
  /\ RoleRead(r, [NoRoleRequest EXCEPT !.pc = "delete", !.role = id])

\* ... and deletes it, whatever it is called and whoever has it by now.
DeleteRole(r) ==
  LET id == roleRequest[r].role
      gone == {pair \in assigned : pair[2] = id}
  IN
  /\ RoleWrites(r, "delete", NoRoleRequest)
  /\ named' = [named EXCEPT ![id] = NoName]
  /\ granted' = granted \ {id}
  /\ assigned' = assigned \ gone
  /\ taken' = taken \cup {[read |-> roleRequest[r].read, since |-> since[pair]] : pair \in gone}
  /\ removed' = IF There(id) THEN [removed EXCEPT ![id].at = turn'] ELSE removed
  /\ UNCHANGED since

\* assignRoleToUser loads the account and the role; a registration the role "user".
LoadToAssign(r, a, id) ==
  /\ There(id)
  /\ RoleRead(r, [NoRoleRequest EXCEPT !.pc = "assign", !.role = id, !.account = a])

EnsureRole(r, a, id) == named[id] = "user" /\ LoadToAssign(r, a, id)

\* ... which it inserts when an admin has renamed or deleted it.
EnsureMissingRole(r, a, id) ==
  /\ Free("user")
  /\ ~There(id) /\ removed[id].at = 0
  /\ RoleRead(r, [NoRoleRequest EXCEPT !.pc = "insert", !.role = id, !.account = a])

InsertUserRole(r) ==
  LET id == roleRequest[r].role IN
  /\ RoleWrites(r, "insert", IF Free("user") /\ ~There(id)
                               THEN [roleRequest[r] EXCEPT !.pc = "assign"]
                               ELSE NoRoleRequest)
  /\ named' = IF Free("user") /\ ~There(id) THEN [named EXCEPT ![id] = "user"] ELSE named
  /\ UNCHANGED <<granted, assigned, since, taken, removed>>

\* The row needs its role. (The caller revokes the account's sessions: Sessions.)
UpsertUserRole(r) ==
  LET pair == <<roleRequest[r].account, roleRequest[r].role>> IN
  /\ RoleWrites(r, "assign", NoRoleRequest)
  /\ IF There(pair[2])
       THEN /\ assigned' = assigned \cup {pair}
            /\ since' = [since EXCEPT ![pair] = turn']
       ELSE UNCHANGED <<assigned, since>>
  /\ UNCHANGED <<named, granted, taken, removed>>

\* assignPermissionToRole and removePermissionFromRole.
LoadRoleToGrant(r, id, pc) ==
  /\ There(id)
  /\ RoleRead(r, [NoRoleRequest EXCEPT !.pc = pc, !.role = id])

UpsertRolePermission(r) ==
  LET id == roleRequest[r].role IN
  /\ RoleWrites(r, "grant", NoRoleRequest)
  /\ granted' = IF There(id) THEN granted \cup {id} ELSE granted
  /\ UNCHANGED <<named, assigned, since, taken, removed>>

DeleteRolePermission(r) ==
  /\ RoleWrites(r, "ungrant", NoRoleRequest)
  /\ granted' = granted \ {roleRequest[r].role}
  /\ UNCHANGED <<named, assigned, since, taken, removed>>

RoleRequestStops(r) ==
  /\ ~RoleAt(r, "none")
  /\ roleRequest' = [roleRequest EXCEPT ![r] = NoRoleRequest]
  /\ UNCHANGED <<named, granted, assigned, turn, since, taken, removed>>

-----------------------------------------------------------------------------
(* The handlers.                                                           *)

RegistrationRole(r) ==
  \/ \E a \in Accounts, id \in RoleIds : EnsureRole(r, a, id) \/ EnsureMissingRole(r, a, id)
  \/ InsertUserRole(r)

CreateOrUpdateRole(r) ==
  \/ \E id \in RoleIds, name \in RoleNames :
       AssertRoleNameAvailable(r, id, name) \/ LoadRoleToUpdate(r, id, name)
  \/ WriteRole(r)

GrantOrUngrant(r) ==
  \/ \E id \in RoleIds, pc \in {"grant", "ungrant"} : LoadRoleToGrant(r, id, pc)
  \/ UpsertRolePermission(r) \/ DeleteRolePermission(r)

AccessRolesNext ==
  \E r \in RoleRequests :
    \/ CreateOrUpdateRole(r)
    \/ \E id \in RoleIds : CountAssignedUsers(r, id)
    \/ DeleteRole(r)
    \/ \E a \in Accounts, id \in RoleIds : LoadToAssign(r, a, id)
    \/ RegistrationRole(r) \/ UpsertUserRole(r)
    \/ GrantOrUngrant(r) \/ RoleRequestStops(r)

AccessRolesSpec == AccessRolesInit /\ [][AccessRolesNext]_roleVars

-----------------------------------------------------------------------------
RoleRequest ==
  [pc : {"none", "save", "delete", "assign", "insert", "grant", "ungrant"},
   role : RoleIds, name : RoleNames \cup {NoName}, account : Accounts, read : Nat]

\* Types of the tables and the handlers.
AccessRolesTypeOK ==
  /\ named \in [RoleIds -> RoleNames \cup {NoName}]
  /\ granted \in SUBSET RoleIds
  /\ assigned \in SUBSET (Accounts \X RoleIds)
  /\ roleRequest \in [RoleRequests -> RoleRequest]
  /\ turn \in Nat
  /\ since \in [Accounts \X RoleIds -> Nat]
  /\ taken \in SUBSET [read : Nat, since : Nat]
  /\ removed \in [RoleIds -> [at : Nat, back : Nat]]

\* An account loses a role without being asked only to a deletion that had counted
\* before the role was assigned, and a deleted role is back only through an update
\* that had loaded it before.
RolesExplained ==
  /\ \A loss \in taken : loss.read < loss.since
  /\ \A id \in RoleIds :
       There(id) /\ removed[id].at # 0 => removed[id].back < removed[id].at
=============================================================================
