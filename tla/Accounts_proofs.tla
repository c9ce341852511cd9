------------------------------ MODULE Accounts_proofs ------------------------------
(***************************************************************************)
(* The components of the auth and user services, for any number of         *)
(* concurrent handlers and any identifiers, services and times to live.    *)
(* Each has its own variables, so each section stands by itself; the last  *)
(* one says what their composition keeps.                                  *)
(***************************************************************************)
EXTENDS MCAccounts, SequenceTheorems, WellFoundedInduction, TLAPS

-----------------------------------------------------------------------------
(***************************************************************************)
(* Roles.  What a deletion counted, and what an update loaded, was so in   *)
(* the turn it read; a pair it did not see, or a deletion, came after.     *)
(***************************************************************************)
\* What a request q knows of the tables in turn n.
KnowsPairs(q, pairs, times) ==
  q.pc = "delete" => \A pair \in pairs : pair[2] = q.role => q.read < times[pair]

KnowsRole(q, names, gone) ==
  q.pc = "save" =>
    /\ q.name # NoName
    /\ names[q.role] = NoName /\ gone[q.role].at # 0 => q.read < gone[q.role].at

Knows(q, n, pairs, times, names, gone) ==
  q.read <= n /\ KnowsPairs(q, pairs, times) /\ KnowsRole(q, names, gone)

RequestsKnow ==
  \A r \in RoleRequests : Knows(roleRequest[r], turn, assigned, since, named, removed)

\* A role that is back was loaded before it went, also when it goes again.
DeletionsTimed ==
  \A id \in RoleIds : /\ removed[id].at <= turn /\ removed[id].back <= turn
                      /\ removed[id].at # 0 => removed[id].back < removed[id].at

RolesInv == AccessRolesTypeOK /\ RequestsKnow /\ DeletionsTimed /\ RolesExplained

LEMMA NoRoleRequestType ==
  NoRoleRequest \in RoleRequest /\ NoRoleRequest.pc = "none" /\ NoRoleRequest.read = 0
BY AccessRolesAssumption DEF NoRoleRequest, RoleRequest

\* A request that does neither delete nor save knows enough.
LEMMA KnowsNothing ==
  ASSUME NEW q \in RoleRequest, q.pc \notin {"delete", "save"}, NEW n \in Nat, q.read <= n,
         NEW pairs, NEW times, NEW names, NEW gone
  PROVE  Knows(q, n, pairs, times, names, gone)
BY DEF Knows, KnowsPairs, KnowsRole

\* One request goes on to q, and the tables do not contradict the others.
LEMMA RoleRequestMoves ==
  ASSUME RolesInv, NEW r \in RoleRequests, NEW q \in RoleRequest,
         roleRequest' = [roleRequest EXCEPT ![r] = q],
         Knows(q, turn', assigned', since', named', removed'),
         \A s \in RoleRequests \ {r} :
           Knows(roleRequest[s], turn', assigned', since', named', removed')
  PROVE  roleRequest' \in [RoleRequests -> RoleRequest] /\ RequestsKnow'
<1>1. roleRequest \in [RoleRequests -> RoleRequest]
  BY DEF RolesInv, AccessRolesTypeOK
<1>2. \A s \in RoleRequests : roleRequest'[s] = IF s = r THEN q ELSE roleRequest[s]
  BY <1>1
<1>. QED  BY <1>1, <1>2 DEF RequestsKnow

\* A request that reads changes no table.
LEMMA RoleReads ==
  ASSUME RolesInv, NEW r \in RoleRequests, NEW q \in RoleRequest, q.read = turn,
         roleRequest' = [roleRequest EXCEPT ![r] = q],
         UNCHANGED <<named, granted, assigned, turn, since, taken, removed>>,
         q.pc = "delete" => \A pair \in assigned : pair[2] # q.role,
         q.pc = "save" => q.name # NoName /\ (named[q.role] # NoName \/ removed[q.role].at = 0)
  PROVE  RolesInv'
<1>1. turn \in Nat /\ RequestsKnow
  BY DEF RolesInv, AccessRolesTypeOK
<1>2. Knows(q, turn, assigned, since, named, removed)
  BY <1>1 DEF Knows, KnowsPairs, KnowsRole
<1>3. roleRequest' \in [RoleRequests -> RoleRequest] /\ RequestsKnow'
  BY <1>1, <1>2, RoleRequestMoves DEF RequestsKnow
<1>. QED
  BY <1>3 DEF RolesInv, AccessRolesTypeOK, DeletionsTimed, RolesExplained, There

\* A request goes on after it has written, or ends.
LEMMA RequestGoesOn ==
  ASSUME RolesInv, NEW r \in RoleRequests, NEW q \in RoleRequest,
         roleRequest' = [roleRequest EXCEPT ![r] = q],
         named' \in [RoleIds -> RoleNames \cup {NoName}], granted' \in SUBSET RoleIds,
         assigned' \in SUBSET (Accounts \X RoleIds), turn' \in Nat,
         since' \in [Accounts \X RoleIds -> Nat], taken' \in SUBSET [read : Nat, since : Nat],
         removed' \in [RoleIds -> [at : Nat, back : Nat]],
         Knows(q, turn', assigned', since', named', removed'),
         \A s \in RoleRequests :
           Knows(roleRequest[s], turn', assigned', since', named', removed'),
         DeletionsTimed', RolesExplained'
  PROVE  RolesInv'
BY RoleRequestMoves DEF RolesInv, AccessRolesTypeOK

LEMMA RequestEnds ==
  ASSUME RolesInv, NEW r \in RoleRequests,
         roleRequest' = [roleRequest EXCEPT ![r] = NoRoleRequest],
         named' \in [RoleIds -> RoleNames \cup {NoName}], granted' \in SUBSET RoleIds,
         assigned' \in SUBSET (Accounts \X RoleIds), turn' \in Nat,
         since' \in [Accounts \X RoleIds -> Nat], taken' \in SUBSET [read : Nat, since : Nat],
         removed' \in [RoleIds -> [at : Nat, back : Nat]],
         \A s \in RoleRequests :
           Knows(roleRequest[s], turn', assigned', since', named', removed'),
         DeletionsTimed', RolesExplained'
  PROVE  RolesInv'
<1>1. Knows(NoRoleRequest, turn', assigned', since', named', removed')
  BY NoRoleRequestType, KnowsNothing
<1>. QED  BY <1>1, NoRoleRequestType, RequestGoesOn

\* The invariant the property rests on.
THEOREM RolesInvariance == AccessRolesSpec => []RolesInv
<1>1. AccessRolesInit => RolesInv
  <2> SUFFICES ASSUME AccessRolesInit PROVE RolesInv
    OBVIOUS
  <2>1. roleRequest \in [RoleRequests -> RoleRequest]
    BY NoRoleRequestType DEF AccessRolesInit
  <2>2. /\ named \in [RoleIds -> RoleNames \cup {NoName}]
        /\ since \in [Accounts \X RoleIds -> Nat]
        /\ removed \in [RoleIds -> [at : Nat, back : Nat]]
        /\ turn \in Nat /\ granted = {} /\ assigned = {} /\ taken = {}
    BY AccessRolesAssumption DEF AccessRolesInit
  <2>3. AccessRolesTypeOK
    BY <2>1, <2>2 DEF AccessRolesTypeOK
  <2>4. RequestsKnow
    BY NoRoleRequestType, KnowsNothing, <2>2 DEF AccessRolesInit, RequestsKnow
  <2>5. DeletionsTimed /\ RolesExplained
    BY DEF AccessRolesInit, DeletionsTimed, RolesExplained
  <2>. QED  BY <2>3, <2>4, <2>5 DEF RolesInv
<1>2. RolesInv /\ [AccessRolesNext]_roleVars => RolesInv'
  <2> SUFFICES ASSUME RolesInv, [AccessRolesNext]_roleVars PROVE RolesInv'
    OBVIOUS
  <2>0. /\ named \in [RoleIds -> RoleNames \cup {NoName}]
        /\ granted \in SUBSET RoleIds
        /\ assigned \in SUBSET (Accounts \X RoleIds)
        /\ roleRequest \in [RoleRequests -> RoleRequest]
        /\ turn \in Nat
        /\ since \in [Accounts \X RoleIds -> Nat]
        /\ taken \in SUBSET [read : Nat, since : Nat]
        /\ removed \in [RoleIds -> [at : Nat, back : Nat]]
        /\ \A s \in RoleRequests : Knows(roleRequest[s], turn, assigned, since, named, removed)
        /\ DeletionsTimed /\ RolesExplained
    BY DEF RolesInv, AccessRolesTypeOK, RequestsKnow
  <2>1. ASSUME NEW r \in RoleRequests, NEW id \in RoleIds, NEW name \in RoleNames,
               AssertRoleNameAvailable(r, id, name) \/ LoadRoleToUpdate(r, id, name)
        PROVE  RolesInv'
    <3> DEFINE q == [NoRoleRequest EXCEPT !.pc = "save", !.role = id, !.name = name,
                                          !.read = turn]
    <3>1. q \in RoleRequest /\ q.read = turn /\ q.pc = "save" /\ q.role = id
          /\ q.name # NoName
      BY <2>0, NoRoleRequestType, AccessRolesAssumption DEF RoleRequest
    <3>2. /\ roleRequest' = [roleRequest EXCEPT ![r] = q]
          /\ UNCHANGED <<named, granted, assigned, turn, since, taken, removed>>
          /\ named[id] # NoName \/ removed[id].at = 0
      BY <2>1 DEF AssertRoleNameAvailable, LoadRoleToUpdate, RoleRead, There
    <3> HIDE DEF q
    <3>. QED  BY <3>1, <3>2, RoleReads
  <2>2. ASSUME NEW r \in RoleRequests, NEW id \in RoleIds, CountAssignedUsers(r, id)
        PROVE  RolesInv'
    <3> DEFINE q == [NoRoleRequest EXCEPT !.pc = "delete", !.role = id, !.read = turn]
    <3>1. q \in RoleRequest /\ q.read = turn /\ q.pc = "delete" /\ q.role = id
      BY <2>0, NoRoleRequestType DEF RoleRequest
    <3>2. /\ roleRequest' = [roleRequest EXCEPT ![r] = q]
          /\ UNCHANGED <<named, granted, assigned, turn, since, taken, removed>>
      BY <2>2 DEF CountAssignedUsers, RoleRead
    <3>3. \A pair \in assigned : pair[2] # id
      BY <2>2, <2>0 DEF CountAssignedUsers
    <3> HIDE DEF q
    <3>. QED  BY <3>1, <3>2, <3>3, RoleReads
  <2>3. ASSUME NEW r \in RoleRequests, NEW id \in RoleIds, NEW a \in Accounts,
               NEW pc \in {"assign", "insert", "grant", "ungrant"},
               \/ RoleRead(r, [NoRoleRequest EXCEPT !.pc = pc, !.role = id])
               \/ RoleRead(r, [NoRoleRequest EXCEPT !.pc = pc, !.role = id, !.account = a])
        PROVE  RolesInv'
    <3>1. ASSUME NEW p \in RoleRequest, p.pc = pc, RoleRead(r, p)
          PROVE  RolesInv'
      <4> DEFINE q == [p EXCEPT !.read = turn]
      <4>1. q \in RoleRequest /\ q.read = turn /\ q.pc = pc
        BY <2>0, <3>1 DEF RoleRequest
      <4>2. /\ roleRequest' = [roleRequest EXCEPT ![r] = q]
            /\ UNCHANGED <<named, granted, assigned, turn, since, taken, removed>>
        BY <3>1 DEF RoleRead
      <4> HIDE DEF q
      <4>. QED  BY <4>1, <4>2, RoleReads
    <3>2. LET p == [NoRoleRequest EXCEPT !.pc = pc, !.role = id]
              q == [NoRoleRequest EXCEPT !.pc = pc, !.role = id, !.account = a]
          IN  p \in RoleRequest /\ p.pc = pc /\ q \in RoleRequest /\ q.pc = pc
      BY NoRoleRequestType DEF RoleRequest
    <3>. QED  BY <2>3, <3>1, <3>2
  <2>4. ASSUME NEW r \in RoleRequests, NEW id \in RoleIds, NEW a \in Accounts,
               LoadToAssign(r, a, id) \/ EnsureRole(r, a, id) \/ EnsureMissingRole(r, a, id)
        PROVE  RolesInv'
    BY <2>4, <2>3 DEF LoadToAssign, EnsureRole, EnsureMissingRole
  <2>5. ASSUME NEW r \in RoleRequests, NEW id \in RoleIds, NEW pc \in {"grant", "ungrant"},
               LoadRoleToGrant(r, id, pc)
        PROVE  RolesInv'
    BY <2>5, <2>3, AccessRolesAssumption DEF LoadRoleToGrant
  \* Reading done, the writes: the others' turns are past.
  <2>6. ASSUME NEW s \in RoleRequests, turn' = turn + 1
        PROVE  turn' \in Nat /\ roleRequest[s].read < turn' /\ roleRequest[s].read <= turn'
    BY <2>6, <2>0 DEF Knows, RoleRequest
  <2>7. ASSUME NEW r \in RoleRequests, WriteRole(r) PROVE RolesInv'
    <3>1. /\ roleRequest' = [roleRequest EXCEPT ![r] = NoRoleRequest]
          /\ turn' = turn + 1 /\ roleRequest[r].pc = "save"
          /\ UNCHANGED <<granted, assigned, since, taken>>
      BY <2>7 DEF WriteRole, RoleWrites, RoleAt
    <3> DEFINE id == roleRequest[r].role
               name == roleRequest[r].name
               read == roleRequest[r].read
    <3>2. /\ id \in RoleIds /\ name \in RoleNames \cup {NoName} /\ name # NoName /\ read \in Nat
          /\ named[id] = NoName /\ removed[id].at # 0 => read < removed[id].at
          /\ read <= turn
      BY <2>0, <3>1 DEF RoleRequest, Knows, KnowsRole
    <3>3. \/ UNCHANGED <<named, removed>>
          \/ /\ named' = [named EXCEPT ![id] = name]
             /\ \/ removed' = removed
                \/ /\ named[id] = NoName /\ removed[id].at # 0
                   /\ removed' = [removed EXCEPT ![id].back = read]
      BY <2>7 DEF WriteRole, There
    <3> HIDE DEF id, name, read
    <3>4. /\ named' \in [RoleIds -> RoleNames \cup {NoName}]
          /\ \A k \in RoleIds : named'[k] = named[k] \/ named'[k] # NoName
      BY <2>0, <3>2, <3>3
    <3>5. /\ removed' \in [RoleIds -> [at : Nat, back : Nat]]
          /\ \A k \in RoleIds :
               /\ removed'[k].at = removed[k].at
               /\ \/ removed'[k].back = removed[k].back
                  \/ removed'[k].back = read /\ read < removed[k].at
      <4>1. CASE removed' = removed
        BY <4>1, <2>0
      <4>2. CASE /\ named[id] = NoName /\ removed[id].at # 0
                 /\ removed' = [removed EXCEPT ![id].back = read]
        <5>1. removed' = [removed EXCEPT ![id] = [removed[id] EXCEPT !.back = read]]
          BY <4>2
        <5>2. /\ [removed[id] EXCEPT !.back = read] \in [at : Nat, back : Nat]
              /\ [removed[id] EXCEPT !.back = read].at = removed[id].at
              /\ [removed[id] EXCEPT !.back = read].back = read
          BY <2>0, <3>2
        <5>. QED  BY <5>1, <5>2, <4>2, <3>2, <2>0
      <4>. QED  BY <3>3, <4>1, <4>2
    <3>6. DeletionsTimed'
      BY <2>0, <3>1, <3>2, <3>5 DEF DeletionsTimed
    <3>7. RolesExplained'
      BY <2>0, <3>1, <3>2, <3>5, <3>6 DEF DeletionsTimed, RolesExplained
    <3>8. \A s \in RoleRequests :
            Knows(roleRequest[s], turn', assigned', since', named', removed')
      BY <2>0, <2>6, <3>1, <3>4, <3>5 DEF Knows, KnowsPairs, KnowsRole, RoleRequest
    <3>. QED  BY <3>1, <3>4, <3>5, <3>6, <3>7, <3>8, <2>6, <2>0, RequestEnds
  <2>8. ASSUME NEW r \in RoleRequests, DeleteRole(r) PROVE RolesInv'
    <3> DEFINE id == roleRequest[r].role
               read == roleRequest[r].read
               gone == {pair \in assigned : pair[2] = id}
    <3>1. /\ roleRequest' = [roleRequest EXCEPT ![r] = NoRoleRequest]
          /\ turn' = turn + 1 /\ roleRequest[r].pc = "delete"
          /\ named' = [named EXCEPT ![id] = NoName]
          /\ granted' = granted \ {id} /\ assigned' = assigned \ gone /\ since' = since
          /\ taken' = taken \cup {[read |-> read, since |-> since[pair]] : pair \in gone}
          /\ \/ removed' = [removed EXCEPT ![id].at = turn']
             \/ removed' = removed /\ named[id] = NoName
      BY <2>8 DEF DeleteRole, RoleWrites, RoleAt, There
    <3>2. /\ id \in RoleIds /\ read \in Nat
          /\ \A pair \in gone : read < since[pair] /\ since[pair] \in Nat
      BY <2>0, <3>1 DEF RoleRequest, Knows, KnowsPairs
    <3>3. /\ taken' \in SUBSET [read : Nat, since : Nat]
          /\ \A loss \in taken' : loss.read < loss.since
      BY <2>0, <3>1, <3>2 DEF RolesExplained
    <3> HIDE DEF id, read
    <3>4. named' \in [RoleIds -> RoleNames \cup {NoName}]
          /\ \A k \in RoleIds : k # id => named'[k] = named[k]
          /\ named'[id] = NoName
      BY <2>0, <3>1, <3>2
    <3>5. /\ removed' \in [RoleIds -> [at : Nat, back : Nat]]
          /\ \A k \in RoleIds : /\ removed'[k].back = removed[k].back
                                /\ removed'[k].at \in {removed[k].at, turn'}
                                /\ k # id => removed'[k] = removed[k]
                                /\ named[id] # NoName => removed'[id].at = turn'
      <4>1. CASE removed' = removed /\ named[id] = NoName
        BY <4>1, <2>0
      <4>2. CASE removed' = [removed EXCEPT ![id].at = turn']
        <5>1. removed' = [removed EXCEPT ![id] = [removed[id] EXCEPT !.at = turn']]
          BY <4>2
        <5>2. \A k \in Nat, m \in [at : Nat, back : Nat] :
                /\ [m EXCEPT !.at = k] \in [at : Nat, back : Nat]
                /\ [m EXCEPT !.at = k].at = k /\ [m EXCEPT !.at = k].back = m.back
          OBVIOUS
        <5>3. turn' \in Nat /\ removed[id] \in [at : Nat, back : Nat]
          BY <2>0, <3>1, <3>2
        <5>4. /\ [removed[id] EXCEPT !.at = turn'] \in [at : Nat, back : Nat]
              /\ [removed[id] EXCEPT !.at = turn'].at = turn'
              /\ [removed[id] EXCEPT !.at = turn'].back = removed[id].back
          BY <5>2, <5>3
        <5>. QED  BY <5>1, <5>4, <4>2, <3>2, <2>0
      <4>. QED  BY <3>1, <4>1, <4>2
    <3>6. DeletionsTimed'
      BY <2>0, <3>1, <3>5 DEF DeletionsTimed
    <3>7. RolesExplained'
      BY <3>3, <3>6 DEF DeletionsTimed, RolesExplained
    <3>8. \A s \in RoleRequests :
            Knows(roleRequest[s], turn', assigned', since', named', removed')
      <4> SUFFICES ASSUME NEW s \in RoleRequests
                   PROVE  Knows(roleRequest[s], turn', assigned', since', named', removed')
        OBVIOUS
      <4>1. roleRequest[s].role \in RoleIds /\ roleRequest[s].read \in Nat
        BY <2>0 DEF RoleRequest
      <4>2. KnowsPairs(roleRequest[s], assigned', since')
        BY <2>0, <3>1 DEF Knows, KnowsPairs
      <4>3. KnowsRole(roleRequest[s], named', removed')
        BY <2>0, <2>6, <3>1, <3>2, <3>4, <3>5, <4>1 DEF Knows, KnowsRole
      <4>. QED  BY <2>6, <3>1, <4>2, <4>3 DEF Knows
    <3>9. granted' \in SUBSET RoleIds /\ assigned' \in SUBSET (Accounts \X RoleIds)
      BY <2>0, <3>1
    <3>. QED  BY <3>1, <3>3, <3>4, <3>5, <3>6, <3>7, <3>8, <3>9, <2>6, <2>0, RequestEnds
  <2>9. ASSUME NEW r \in RoleRequests, UpsertUserRole(r) PROVE RolesInv'
    <3> DEFINE pair == <<roleRequest[r].account, roleRequest[r].role>>
    <3>1. /\ roleRequest' = [roleRequest EXCEPT ![r] = NoRoleRequest]
          /\ turn' = turn + 1 /\ UNCHANGED <<named, granted, taken, removed>>
          /\ \/ assigned' = assigned \cup {pair} /\ since' = [since EXCEPT ![pair] = turn']
             \/ UNCHANGED <<assigned, since>>
      BY <2>9 DEF UpsertUserRole, RoleWrites
    <3>2. pair \in Accounts \X RoleIds
      BY <2>0 DEF RoleRequest
    <3> HIDE DEF pair
    <3>3. /\ assigned' \in SUBSET (Accounts \X RoleIds) /\ since' \in [Accounts \X RoleIds -> Nat]
          /\ \A p \in assigned' : (p \in assigned /\ since'[p] = since[p]) \/ since'[p] = turn'
      BY <2>0, <3>1, <3>2
    <3>4. \A s \in RoleRequests :
            Knows(roleRequest[s], turn', assigned', since', named', removed')
      BY <2>0, <2>6, <3>1, <3>3 DEF Knows, KnowsPairs
    <3>5. DeletionsTimed' /\ RolesExplained'
      BY <2>0, <3>1 DEF DeletionsTimed, RolesExplained, There
    <3>. QED  BY <3>1, <3>3, <3>4, <3>5, <2>6, <2>0, RequestEnds
  <2>10. ASSUME NEW r \in RoleRequests, InsertUserRole(r) PROVE RolesInv'
    <3> DEFINE q == [roleRequest[r] EXCEPT !.pc = "assign"]
               id == roleRequest[r].role
    <3>1. /\ turn' = turn + 1 /\ UNCHANGED <<granted, assigned, since, taken, removed>>
          /\ \/ roleRequest' = [roleRequest EXCEPT ![r] = NoRoleRequest]
             \/ roleRequest' = [roleRequest EXCEPT ![r] = q]
          /\ named' = named \/ named' = [named EXCEPT ![id] = "user"]
      BY <2>10 DEF InsertUserRole, RoleWrites
    <3>2. /\ q \in RoleRequest /\ q.pc = "assign" /\ q.read = roleRequest[r].read
          /\ id \in RoleIds
      BY <2>0 DEF RoleRequest
    <3> HIDE DEF q, id
    <3>3. /\ named' \in [RoleIds -> RoleNames \cup {NoName}]
          /\ \A k \in RoleIds : named'[k] = named[k] \/ named'[k] # NoName
      BY <2>0, <3>1, <3>2, AccessRolesAssumption
    <3>4. \A s \in RoleRequests :
            Knows(roleRequest[s], turn', assigned', since', named', removed')
      BY <2>0, <2>6, <3>1, <3>3 DEF Knows, KnowsPairs, KnowsRole, RoleRequest
    <3>5. DeletionsTimed' /\ RolesExplained'
      BY <2>0, <3>1 DEF DeletionsTimed, RolesExplained
    <3>6. Knows(q, turn', assigned', since', named', removed')
      BY <3>1, <3>2, <2>6, KnowsNothing
    <3>. QED
      BY <3>1, <3>2, <3>3, <3>4, <3>5, <3>6, <2>6, <2>0, RequestEnds, RequestGoesOn
  <2>11. ASSUME NEW r \in RoleRequests,
                UpsertRolePermission(r) \/ DeleteRolePermission(r)
         PROVE  RolesInv'
    <3>1. /\ roleRequest' = [roleRequest EXCEPT ![r] = NoRoleRequest]
          /\ turn' = turn + 1 /\ UNCHANGED <<named, assigned, since, taken, removed>>
          /\ granted' \in SUBSET RoleIds
      BY <2>11, <2>0 DEF UpsertRolePermission, DeleteRolePermission, RoleWrites, RoleRequest
    <3>2. \A s \in RoleRequests :
            Knows(roleRequest[s], turn', assigned', since', named', removed')
      BY <2>0, <2>6, <3>1 DEF Knows
    <3>3. DeletionsTimed' /\ RolesExplained'
      BY <2>0, <3>1 DEF DeletionsTimed, RolesExplained, There
    <3>. QED  BY <3>1, <3>2, <3>3, <2>6, <2>0, RequestEnds
  <2>12. ASSUME NEW r \in RoleRequests, RoleRequestStops(r) PROVE RolesInv'
    BY <2>12, <2>0, RequestEnds DEF RoleRequestStops, DeletionsTimed, RolesExplained, There
  <2>13. CASE UNCHANGED roleVars
    BY <2>13, <2>0 DEF roleVars, RolesInv, AccessRolesTypeOK, RequestsKnow, DeletionsTimed,
       RolesExplained, There
  <2>. QED
    BY <2>1, <2>2, <2>4, <2>5, <2>7, <2>8, <2>9, <2>10, <2>11, <2>12, <2>13
       DEF AccessRolesNext, CreateOrUpdateRole, RegistrationRole, GrantOrUngrant
<1>. QED  BY <1>1, <1>2, PTL DEF AccessRolesSpec

\* Nobody loses a role without being asked but to a deletion that had counted before,
\* and a deleted role is back only through an update that had loaded it, for any
\* number of requests, roles and accounts.
THEOREM RolesAreExplained == AccessRolesSpec => []RolesExplained
<1>1. RolesInv => RolesExplained
  BY DEF RolesInv
<1>. QED  BY RolesInvariance, <1>1, PTL

-----------------------------------------------------------------------------
(***************************************************************************)
(* Access tokens.  An entry is no longer than its time to live from now,   *)
(* and, once the account is off, not longer than that and the verifications*)
(* behind it from the moment it went off: what a verification learned was  *)
(* so after it had begun.                                                  *)
(***************************************************************************)
\* What verification g may rely on at time n, the account being on, or off since at.
Relies(g, n, on, at) ==
  /\ g.pc = "none" => g.said = "nothing"
  /\ g.pc # "none" => g.begun <= n /\ n <= g.begun + MaxDelay /\ (g.off \/ on)
  /\ g.pc = "ask" => ~g.full
  /\ g.pc = "answer" => g.said # "nothing"
  /\ g.pc = "keep" => g.said = "yes" /\ g.site \in RedisSites
  /\ g.pc = "write" => g.begun < TokenEnd /\ (on \/ g.begun <= at)
  /\ g.said = "yes" => /\ g.begun < TokenEnd
                       /\ on \/ g.begun <= at + (MaxDelay + LiteTtl - 1)
                       /\ g.full => on \/ g.begun <= at
  /\ g.said = "no" => n >= TokenEnd \/ g.off

LiteInTime(until, n, on, at) ==
  /\ until <= n + LiteTtl /\ until <= TokenEnd
  /\ on \/ until <= at + (MaxDelay + LiteTtl)

SiteInTime(until, ttl, n, on, at) ==
  /\ until <= n + ttl /\ until < TokenEnd + MaxDelay + ttl
  /\ on \/ until <= at + (2 * MaxDelay + LiteTtl - 1 + ttl)

TokensInv ==
  /\ AccessTokensTypeOK
  /\ offSince <= now
  /\ \A v \in Verifications : Relies(guard[v], now, enabled, offSince)
  /\ LiteInTime(liteUntil, now, enabled, offSince)
  /\ \A s \in CachedSites : SiteInTime(siteUntil[s], CacheTtl[s], now, enabled, offSince)

LEMMA NoGuardType ==
  NoGuard \in Guarding /\ NoGuard.pc = "none" /\ NoGuard.said = "nothing"
BY AccessTokensAssumption DEF NoGuard, Guarding

LEMMA NoGuardRelies ==
  ASSUME NEW n \in Nat, NEW on \in BOOLEAN, NEW at \in Nat
  PROVE  Relies(NoGuard, n, on, at)
BY NoGuardType DEF Relies

\* One verification goes on to q, with the clock and the account as they are.
LEMMA GuardMoves ==
  ASSUME TokensInv, NEW v \in Verifications, NEW q \in Guarding,
         guard' = [guard EXCEPT ![v] = q], Relies(q, now, enabled, offSince),
         UNCHANGED clockVars, liteUntil' \in Nat, siteUntil' \in [CachedSites -> Nat],
         LiteInTime(liteUntil', now, enabled, offSince),
         \A s \in CachedSites : SiteInTime(siteUntil'[s], CacheTtl[s], now, enabled, offSince)
  PROVE  TokensInv'
<1>1. guard \in [Verifications -> Guarding]
      /\ \A w \in Verifications : Relies(guard[w], now, enabled, offSince)
  BY DEF TokensInv, AccessTokensTypeOK
<1>2. guard' \in [Verifications -> Guarding]
      /\ \A w \in Verifications : guard'[w] = IF w = v THEN q ELSE guard[w]
  BY <1>1
<1>3. now' = now /\ enabled' = enabled /\ offSince' = offSince
  BY DEF clockVars
<1>. QED  BY <1>1, <1>2, <1>3 DEF TokensInv, AccessTokensTypeOK

\* ... and with the entries as they are.
LEMMA GuardOnlyMoves ==
  ASSUME TokensInv, NEW v \in Verifications, NEW q \in Guarding,
         guard' = [guard EXCEPT ![v] = q], Relies(q, now, enabled, offSince),
         UNCHANGED <<clockVars, cacheVars>>
  PROVE  TokensInv'
<1>1. liteUntil' = liteUntil /\ siteUntil' = siteUntil /\ UNCHANGED clockVars
  BY DEF cacheVars
<1>2. /\ liteUntil \in Nat /\ siteUntil \in [CachedSites -> Nat]
      /\ LiteInTime(liteUntil, now, enabled, offSince)
      /\ \A s \in CachedSites : SiteInTime(siteUntil[s], CacheTtl[s], now, enabled, offSince)
  BY DEF TokensInv, AccessTokensTypeOK
<1>. QED  BY <1>1, <1>2, GuardMoves

\* A verification begins.
LEMMA GuardBegins ==
  ASSUME TokensInv, NEW v \in Verifications, NEW s \in Sites, NEW full \in BOOLEAN,
         NEW pc \in {"ask", "check"}, pc = "ask" => ~full,
         guard' = [guard EXCEPT ![v] = Asking(s, pc, full)],
         UNCHANGED <<clockVars, cacheVars>>
  PROVE  TokensInv'
<1> DEFINE q == Asking(s, pc, full)
<1>1. now \in Nat /\ enabled \in BOOLEAN /\ offSince \in Nat /\ MaxDelay \in Nat
  BY AccessTokensAssumption DEF TokensInv, AccessTokensTypeOK
<1>2. (~enabled) \in BOOLEAN /\ (enabled \/ ~enabled)
  BY <1>1
<1>3. /\ q \in Guarding /\ q.pc = pc /\ q.begun = now /\ q.said = "nothing"
      /\ pc = "ask" => ~q.full
      /\ q.off \/ enabled
  BY <1>1, <1>2 DEF Asking, Guarding
<1> HIDE DEF q
<1>4. Relies(q, now, enabled, offSince)
  BY <1>1, <1>2, <1>3 DEF Relies
<1>. QED  BY <1>3, <1>4, GuardOnlyMoves DEF q

\* What the auth service answers reaches the service that waits for it.
LEMMA AuthSays ==
  ASSUME TokensInv, NEW v \in Verifications, NEW said \in {"yes", "no", "fault"}, Says(v, said),
         guard[v].pc # "none",
         said = "yes" => /\ guard[v].begun < TokenEnd
                         /\ \/ enabled
                            \/ guard[v].begun <= offSince + (MaxDelay + LiteTtl - 1)
                         /\ guard[v].full => enabled \/ guard[v].begun <= offSince,
         said = "no" => now >= TokenEnd \/ guard[v].off
  PROVE  \E q \in Guarding : /\ guard' = [guard EXCEPT ![v] = q]
                             /\ Relies(q, now, enabled, offSince)
<1> DEFINE q == [guard[v] EXCEPT !.pc = "answer", !.said = said]
<1>1. now \in Nat /\ enabled \in BOOLEAN /\ offSince \in Nat
      /\ guard[v] \in Guarding /\ Relies(guard[v], now, enabled, offSince)
  BY DEF TokensInv, AccessTokensTypeOK
<1>2. /\ q \in Guarding /\ q.pc = "answer" /\ q.begun = guard[v].begun /\ q.said = said
      /\ q.full = guard[v].full /\ q.off = guard[v].off
  BY <1>1 DEF Guarding
<1>3. guard' = [guard EXCEPT ![v] = q] \/ guard' = [guard EXCEPT ![v] = NoGuard]
  BY DEF Says
<1> HIDE DEF q
<1>4. Relies(q, now, enabled, offSince)
  BY <1>1, <1>2 DEF Relies
<1>. QED  BY <1>1, <1>2, <1>3, <1>4, NoGuardType, NoGuardRelies, Zenon

\* The invariant the verdicts rest on.
THEOREM TokensInvariance == AccessTokensSpec => []TokensInv
<1>1. AccessTokensInit => TokensInv
  <2> SUFFICES ASSUME AccessTokensInit PROVE TokensInv
    OBVIOUS
  <2>1. /\ now = 0 /\ enabled = TRUE /\ offSince = 0 /\ liteUntil = 0
        /\ siteUntil = [s \in CachedSites |-> 0]
        /\ guard = [v \in Verifications |-> NoGuard]
    BY DEF AccessTokensInit
  <2>2. AccessTokensTypeOK
    BY <2>1, NoGuardType DEF AccessTokensTypeOK
  <2>3. \A v \in Verifications : Relies(guard[v], now, enabled, offSince)
    BY <2>1, NoGuardRelies
  <2>4. LiteInTime(liteUntil, now, enabled, offSince)
    BY <2>1, AccessTokensAssumption DEF LiteInTime
  <2>5. \A s \in CachedSites : SiteInTime(siteUntil[s], CacheTtl[s], now, enabled, offSince)
    <3> SUFFICES ASSUME NEW s \in CachedSites
                 PROVE  SiteInTime(siteUntil[s], CacheTtl[s], now, enabled, offSince)
      OBVIOUS
    <3>1. /\ CacheTtl[s] \in Nat \ {0} /\ LiteTtl \in Nat \ {0} /\ TokenEnd \in Nat
          /\ MaxDelay \in Nat /\ siteUntil[s] = 0 /\ now = 0 /\ offSince = 0
      BY <2>1, AccessTokensAssumption
    <3>. QED  BY <2>1, <3>1 DEF SiteInTime
  <2>6. offSince <= now
    BY <2>1
  <2>. QED  BY <2>2, <2>3, <2>4, <2>5, <2>6, Zenon DEF TokensInv
<1>2. TokensInv /\ [AccessTokensNext]_tokenVars => TokensInv'
  <2> SUFFICES ASSUME TokensInv, [AccessTokensNext]_tokenVars PROVE TokensInv'
    OBVIOUS
  <2>0. /\ now \in Nat /\ enabled \in BOOLEAN /\ offSince \in Nat /\ liteUntil \in Nat
        /\ siteUntil \in [CachedSites -> Nat]
        /\ guard \in [Verifications -> Guarding]
        /\ offSince <= now
        /\ \A v \in Verifications : Relies(guard[v], now, enabled, offSince)
        /\ LiteInTime(liteUntil, now, enabled, offSince)
        /\ \A s \in CachedSites : SiteInTime(siteUntil[s], CacheTtl[s], now, enabled, offSince)
    BY DEF TokensInv, AccessTokensTypeOK
  <2>a. /\ CacheTtl \in [CachedSites -> Nat \ {0}] /\ LiteTtl \in Nat \ {0}
        /\ TokenEnd \in Nat /\ MaxDelay \in Nat
    BY AccessTokensAssumption
  <2>1. ASSUME NEW v \in Verifications, NEW s \in CachedSites, NEW b \in BOOLEAN,
               MissInPod(v, s) \/ MissCachedIdentity(v, s, b)
        PROVE  TokensInv'
    BY <2>1, GuardBegins DEF MissInPod, MissCachedIdentity, Sites
  <2>2. ASSUME NEW v \in Verifications, NEW s \in PlainSites \cup AdminSites,
               VerifyLite(v, s) \/ VerifyInFull(v, s)
        PROVE  TokensInv'
    BY <2>2, GuardBegins DEF VerifyLite, VerifyInFull, Sites
  <2>3. ASSUME NEW v \in Verifications, NEW q \in {guard[v]}, NEW pc \in {"check", "write"},
               guard[v].pc \in {"ask", "check"}, GuardTo(v, pc),
               pc = "write" => enabled /\ now < TokenEnd,
               UNCHANGED <<clockVars, cacheVars>>
        PROVE  TokensInv'
    <3> DEFINE g == [guard[v] EXCEPT !.pc = pc]
    <3>1. /\ g \in Guarding /\ g.pc = pc /\ g.begun = guard[v].begun /\ g.said = guard[v].said
          /\ g.full = guard[v].full /\ g.off = guard[v].off
      BY <2>0 DEF Guarding
    <3>2. guard' = [guard EXCEPT ![v] = g]
      BY <2>3 DEF GuardTo
    <3>3. guard[v] \in Guarding /\ Relies(guard[v], now, enabled, offSince)
      BY <2>0
    <3> HIDE DEF g
    <3>4. Relies(g, now, enabled, offSince)
      BY <2>0, <2>a, <2>3, <3>1, <3>3 DEF Relies, Guarding
    <3>. QED  BY <2>3, <3>1, <3>2, <3>4, GuardOnlyMoves
  <2>4. ASSUME NEW v \in Verifications, NEW b \in BOOLEAN, ReadLiteCache(v, b)
        PROVE  TokensInv'
    <3>1. guard[v].pc = "ask" /\ UNCHANGED <<clockVars, cacheVars>>
      BY <2>4 DEF ReadLiteCache, GuardAt
    <3>2. CASE GuardTo(v, "check")
      BY <2>3, <3>1, <3>2
    <3>3. CASE now < liteUntil /\ Says(v, "yes")
      <4>1. /\ guard[v].begun < TokenEnd
            /\ enabled \/ guard[v].begun <= offSince + (MaxDelay + LiteTtl - 1)
            /\ ~guard[v].full
        BY <2>0, <2>a, <3>1, <3>3 DEF Relies, LiteInTime, Guarding
      <4>. QED  BY <3>1, <3>3, <4>1, AuthSays, GuardOnlyMoves
    <3>. QED  BY <2>4, <3>2, <3>3 DEF ReadLiteCache
  <2>5. ASSUME NEW v \in Verifications, NEW b \in BOOLEAN, VerifyAndLoadUser(v, b)
        PROVE  TokensInv'
    <3>1. guard[v].pc = "check" /\ UNCHANGED <<clockVars, cacheVars>>
          /\ guard[v] \in Guarding /\ Relies(guard[v], now, enabled, offSince)
      BY <2>5, <2>0 DEF VerifyAndLoadUser, GuardAt
    <3>2. \/ now >= TokenEnd /\ Says(v, "no")
          \/ Says(v, "fault")
          \/ ~enabled /\ Says(v, "no")
          \/ now < TokenEnd /\ enabled /\ Says(v, "yes")
          \/ now < TokenEnd /\ enabled /\ GuardTo(v, "write")
      <4>1. now >= TokenEnd \/ now < TokenEnd
        BY <2>0, <2>a
      <4>2. CASE now >= TokenEnd
        BY <4>2, <2>5, <2>0, <2>a DEF VerifyAndLoadUser
      <4>3. CASE now < TokenEnd /\ b
        BY <4>3, <2>5, <2>0, <2>a DEF VerifyAndLoadUser
      <4>4. CASE now < TokenEnd /\ ~b /\ ~enabled
        BY <4>4, <2>5, <2>0, <2>a DEF VerifyAndLoadUser
      <4>5. CASE now < TokenEnd /\ ~b /\ enabled
        BY <4>5, <2>5, <2>0, <2>a DEF VerifyAndLoadUser
      <4>. QED  BY <4>1, <4>2, <4>3, <4>4, <4>5
    <3>3. now < TokenEnd => guard[v].begun < TokenEnd
      BY <2>0, <2>a, <3>1 DEF Relies, Guarding
    <3>4. ~enabled => guard[v].off
      BY <3>1 DEF Relies
    <3>5. CASE Says(v, "no") /\ (now >= TokenEnd \/ ~enabled)
      BY <3>5, <3>1, <3>4, AuthSays, GuardOnlyMoves
    <3>6. CASE Says(v, "fault")
      BY <3>6, <3>1, AuthSays, GuardOnlyMoves
    <3>7. CASE Says(v, "yes") /\ now < TokenEnd /\ enabled
      BY <3>7, <3>1, <3>3, AuthSays, GuardOnlyMoves
    <3>8. CASE GuardTo(v, "write") /\ now < TokenEnd /\ enabled
      BY <3>8, <3>1, <2>3
    <3>. QED  BY <3>2, <3>5, <3>6, <3>7, <3>8
  <2>6. ASSUME NEW v \in Verifications, NEW b \in BOOLEAN, WriteLiteCache(v, b)
        PROVE  TokensInv'
    <3>1. /\ guard[v].pc = "write" /\ Says(v, "yes") /\ UNCHANGED clockVars
          /\ siteUntil' = siteUntil
          /\ liteUntil' \in {liteUntil, Min({now + LiteTtl, TokenEnd})}
      BY <2>6 DEF WriteLiteCache, GuardAt
    <3>2. LET m == Min({now + LiteTtl, TokenEnd})
          IN  m \in {now + LiteTtl, TokenEnd} /\ m <= now + LiteTtl /\ m <= TokenEnd
      <4>1. \A x, y \in Nat : /\ Min({x, y}) \in {x, y}
                              /\ Min({x, y}) <= x /\ Min({x, y}) <= y
        <5> SUFFICES ASSUME NEW x \in Nat, NEW y \in Nat
                     PROVE  LET m == Min({x, y}) IN m \in {x, y} /\ m <= x /\ m <= y
          OBVIOUS
        <5>1. \E k \in {x, y} : \A j \in {x, y} : k <= j
          OBVIOUS
        <5>. QED  BY <5>1 DEF Min
      <4>. QED  BY <4>1, <2>0, <2>a
    <3>3. /\ guard[v].begun <= now /\ now <= guard[v].begun + MaxDelay
          /\ guard[v].begun < TokenEnd /\ guard[v].begun \in Nat
          /\ enabled \/ guard[v].begun <= offSince
      BY <2>0, <3>1 DEF Relies, Guarding
    <3>4. /\ liteUntil' \in Nat
          /\ LiteInTime(liteUntil', now, enabled, offSince)
      BY <2>0, <2>a, <3>1, <3>2, <3>3 DEF LiteInTime
    <3>5. enabled \/ guard[v].begun <= offSince + (MaxDelay + LiteTtl - 1)
      BY <2>0, <2>a, <3>3
    <3>6. PICK q \in Guarding : /\ guard' = [guard EXCEPT ![v] = q]
                                /\ Relies(q, now, enabled, offSince)
      BY <3>1, <3>3, <3>5, AuthSays
    <3>. QED  BY <3>1, <3>4, <3>6, <2>0, GuardMoves
  <2>7. ASSUME NEW v \in Verifications, GrpcTimesOut(v)
        PROVE  TokensInv'
    <3> DEFINE q == [guard[v] EXCEPT !.waiting = FALSE]
    <3>1. \/ guard' = [guard EXCEPT ![v] = NoGuard]
          \/ guard' = [guard EXCEPT ![v] = q]
      BY <2>7 DEF GrpcTimesOut
    <3>2. /\ q \in Guarding /\ q.pc = guard[v].pc /\ q.begun = guard[v].begun
          /\ q.said = guard[v].said /\ q.full = guard[v].full /\ q.off = guard[v].off
          /\ q.site = guard[v].site
      BY <2>0 DEF Guarding
    <3>3. Relies(guard[v], now, enabled, offSince) /\ UNCHANGED <<clockVars, cacheVars>>
      BY <2>0, <2>7 DEF GrpcTimesOut
    <3> HIDE DEF q
    <3>4. Relies(q, now, enabled, offSince)
      BY <3>2, <3>3 DEF Relies
    <3>. QED
      BY <3>1, <3>2, <3>3, <3>4, <2>0, NoGuardType, NoGuardRelies, GuardOnlyMoves
  <2>8. ASSUME NEW v \in Verifications, GuardEnds(v), UNCHANGED <<clockVars, cacheVars>>
        PROVE  TokensInv'
    BY <2>8, <2>0, NoGuardType, NoGuardRelies, GuardOnlyMoves DEF GuardEnds
  <2>9. ASSUME NEW v \in Verifications, TakeAnswer(v) \/ TakeAnswerForAdmin(v)
        PROVE  TokensInv'
    <3>1. CASE GuardEnds(v)
      BY <2>8, <2>9, <3>1 DEF TakeAnswer, TakeAnswerForAdmin
    <3>2. CASE GuardTo(v, "keep") /\ guard[v].site \in RedisSites /\ GuardAt(v, "answer")
               /\ Verdict(guard[v].said) = "in"
      <4> DEFINE q == [guard[v] EXCEPT !.pc = "keep"]
      <4>1. /\ q \in Guarding /\ q.pc = "keep" /\ q.begun = guard[v].begun
            /\ q.said = guard[v].said /\ q.full = guard[v].full /\ q.off = guard[v].off
            /\ q.site = guard[v].site
        BY <2>0 DEF Guarding
      <4>2. guard' = [guard EXCEPT ![v] = q]
        BY <3>2 DEF GuardTo
      <4>3. /\ guard[v] \in Guarding /\ Relies(guard[v], now, enabled, offSince)
            /\ guard[v].pc = "answer"
        BY <2>0, <3>2 DEF GuardAt
      <4> HIDE DEF q
      <4>4. guard[v].said = "yes"
        BY <3>2, <2>0, <4>3 DEF Verdict, Relies, Guarding
      <4>5. Relies(q, now, enabled, offSince)
        BY <4>1, <4>3, <4>4, <3>2 DEF Relies
      <4>6. UNCHANGED <<clockVars, cacheVars>>
        BY <2>9 DEF TakeAnswer, TakeAnswerForAdmin
      <4>. QED  BY <4>1, <4>2, <4>5, <4>6, GuardOnlyMoves
    <3>. QED  BY <2>9, <3>1, <3>2 DEF TakeAnswer, TakeAnswerForAdmin
  \* An answer fills the entry of its site.
  <2>10. ASSUME NEW v \in Verifications, NEW s \in CachedSites, guard[v].said = "yes",
                GuardEnds(v), UNCHANGED clockVars, liteUntil' = liteUntil,
                siteUntil' = [siteUntil EXCEPT ![s] = now + CacheTtl[s]]
         PROVE  TokensInv'
    <3>1. /\ guard[v].begun \in Nat /\ guard[v].begun <= now
          /\ now <= guard[v].begun + MaxDelay /\ guard[v].begun < TokenEnd
          /\ enabled \/ guard[v].begun <= offSince + (MaxDelay + LiteTtl - 1)
      BY <2>0, <2>10 DEF Relies, Guarding
    <3>2. CacheTtl[s] \in Nat \ {0}
      BY <2>a
    <3>3. SiteInTime(now + CacheTtl[s], CacheTtl[s], now, enabled, offSince)
      BY <2>0, <2>a, <3>1, <3>2 DEF SiteInTime
    <3>4. /\ siteUntil' \in [CachedSites -> Nat]
          /\ \A k \in CachedSites :
               siteUntil'[k] = IF k = s THEN now + CacheTtl[s] ELSE siteUntil[k]
      BY <2>0, <2>10, <3>2
    <3>5. \A k \in CachedSites : SiteInTime(siteUntil'[k], CacheTtl[k], now, enabled, offSince)
      BY <3>3, <3>4, <2>0
    <3>. QED
      BY <2>0, <2>10, <3>4, <3>5, NoGuardType, NoGuardRelies, GuardMoves DEF GuardEnds
  <2>11. ASSUME NEW v \in Verifications, NEW b \in BOOLEAN, SetCachedIdentity(v, b)
         PROVE  TokensInv'
    <3>1. guard[v].said = "yes" /\ guard[v].site \in CachedSites
      BY <2>0, <2>11 DEF SetCachedIdentity, GuardAt, Relies, CachedSites
    <3>2. CASE siteUntil' = siteUntil
      BY <2>8, <2>11, <3>2 DEF SetCachedIdentity, cacheVars
    <3>3. CASE siteUntil' = [siteUntil EXCEPT ![guard[v].site] = now + CacheTtl[guard[v].site]]
      BY <2>10, <2>11, <3>1, <3>3 DEF SetCachedIdentity
    <3>. QED  BY <2>11, <3>2, <3>3 DEF SetCachedIdentity
  <2>12. ASSUME NEW v \in Verifications, TakeAnswerInPod(v)
         PROVE  TokensInv'
    <3>1. guard[v].said \in {"yes", "no", "fault"}
      BY <2>0, <2>12 DEF TakeAnswerInPod, GuardAt, Relies, Guarding
    <3>2. CASE siteUntil' = siteUntil
      BY <2>8, <2>12, <3>2 DEF TakeAnswerInPod, cacheVars
    <3>3. CASE siteUntil' # siteUntil
      <4>1. /\ Verdict(guard[v].said) = "in" /\ guard[v].site \in CachedSites
            /\ GuardEnds(v) /\ UNCHANGED clockVars /\ liteUntil' = liteUntil
            /\ siteUntil' = [siteUntil EXCEPT ![guard[v].site] = now + CacheTtl[guard[v].site]]
        BY <2>12, <3>3 DEF TakeAnswerInPod, CachedSites
      <4>2. guard[v].said = "yes"
        BY <4>1, <3>1 DEF Verdict
      <4>. QED  BY <2>10, <4>1, <4>2
    <3>. QED  BY <3>2, <3>3
  <2>13. ASSUME NEW s \in MemorySites, EvictEntry(s)
         PROVE  TokensInv'
    <3>1. /\ siteUntil' \in [CachedSites -> Nat]
          /\ \A k \in CachedSites : siteUntil'[k] \in {0, siteUntil[k]}
          /\ now' = now /\ enabled' = enabled /\ offSince' = offSince
          /\ liteUntil' = liteUntil /\ guard' = guard
      BY <2>13, <2>0 DEF EvictEntry, clockVars
    <3>2. \A k \in CachedSites : SiteInTime(0, CacheTtl[k], now, enabled, offSince)
      BY <2>0, <2>a DEF SiteInTime
    <3>. QED  BY <2>0, <3>1, <3>2 DEF TokensInv, AccessTokensTypeOK
  <2>14. ASSUME NEW active \in BOOLEAN, SwitchAccount(active)
         PROVE  TokensInv'
    <3>1. /\ now' = now /\ liteUntil' = liteUntil /\ siteUntil' = siteUntil
          /\ enabled' = active /\ offSince' = IF active THEN 0 ELSE now
          /\ guard' = [v \in Verifications |->
                         IF active \/ guard[v].pc = "none" THEN guard[v]
                         ELSE [guard[v] EXCEPT !.off = TRUE]]
      BY <2>14 DEF SwitchAccount, cacheVars, GuardAt
    <3>2. offSince' \in Nat /\ offSince' <= now' /\ enabled' \in BOOLEAN
          /\ (enabled' \/ offSince' = now)
      BY <3>1, <2>0
    <3>3. ASSUME NEW v \in Verifications
          PROVE  guard'[v] \in Guarding /\ Relies(guard'[v], now', enabled', offSince')
      <4> DEFINE q == [guard[v] EXCEPT !.off = TRUE]
      <4>1. /\ q \in Guarding /\ q.pc = guard[v].pc /\ q.begun = guard[v].begun
            /\ q.said = guard[v].said /\ q.full = guard[v].full /\ q.off = TRUE
            /\ q.site = guard[v].site
        BY <2>0 DEF Guarding
      <4>2. guard[v] \in Guarding /\ Relies(guard[v], now, enabled, offSince)
        BY <2>0
      <4>3. \/ guard'[v] = guard[v] /\ (active \/ guard[v].pc = "none")
            \/ guard'[v] = q /\ guard[v].pc # "none"
        BY <3>1
      <4> HIDE DEF q
      <4>4. CASE guard'[v] = guard[v] /\ (active \/ guard[v].pc = "none")
        <5>1. guard[v].pc = "none" => guard[v].said = "nothing"
          BY <4>2 DEF Relies
        <5>2. active => enabled'
          BY <3>1
        <5>. QED  BY <4>2, <4>4, <5>1, <5>2, <3>1 DEF Relies
      <4>5. CASE guard'[v] = q /\ guard[v].pc # "none"
        <5>1. /\ guard[v].begun \in Nat /\ guard[v].begun <= now
              /\ guard[v].begun <= now + (MaxDelay + LiteTtl - 1)
          BY <2>0, <2>a, <4>2, <4>5 DEF Relies, Guarding
        <5>. QED  BY <4>1, <4>2, <4>5, <5>1, <3>1, <3>2 DEF Relies
      <4>. QED  BY <4>3, <4>4, <4>5
    <3>4. guard' \in [Verifications -> Guarding]
      BY <3>1, <3>3, Zenon
    <3>5. LiteInTime(liteUntil', now', enabled', offSince')
      BY <2>0, <2>a, <3>1, <3>2 DEF LiteInTime
    <3>6. \A s \in CachedSites :
            SiteInTime(siteUntil'[s], CacheTtl[s], now', enabled', offSince')
      <4> SUFFICES ASSUME NEW s \in CachedSites
                   PROVE  SiteInTime(siteUntil'[s], CacheTtl[s], now', enabled', offSince')
        OBVIOUS
      <4>1. /\ CacheTtl[s] \in Nat /\ siteUntil[s] \in Nat /\ siteUntil'[s] = siteUntil[s]
            /\ now \in Nat /\ now' = now /\ LiteTtl \in Nat /\ MaxDelay \in Nat
            /\ SiteInTime(siteUntil[s], CacheTtl[s], now, enabled, offSince)
        BY <2>0, <2>a, <3>1
      <4>2. CASE enabled'
        BY <4>1, <4>2 DEF SiteInTime
      <4>3. CASE offSince' = now
        BY <4>1, <4>3, <2>a DEF SiteInTime
      <4>. QED  BY <4>2, <4>3, <3>2
    <3>. QED
      BY <2>0, <3>1, <3>2, <3>3, <3>4, <3>5, <3>6 DEF TokensInv, AccessTokensTypeOK
  <2>15. CASE Tick
    <3>1. /\ now' = now + 1 /\ enabled' = enabled /\ offSince' = offSince /\ guard' = guard
          /\ \A v \in Verifications : guard[v].pc # "none" => now < guard[v].begun + MaxDelay
          /\ liteUntil' \in {liteUntil, 0}
          /\ siteUntil' = [s \in CachedSites |-> Left(siteUntil[s])]
      BY <2>15 DEF Tick, GuardAt, Left
    <3>2. \A s \in CachedSites : siteUntil'[s] \in {siteUntil[s], 0}
      BY <3>1 DEF Left
    <3>3. siteUntil' \in [CachedSites -> Nat]
      BY <3>1, <2>0 DEF Left
    <3>4. \A v \in Verifications : Relies(guard'[v], now', enabled', offSince')
      BY <2>0, <2>a, <3>1 DEF Relies, Guarding
    <3>5. LiteInTime(liteUntil', now', enabled', offSince')
      BY <2>0, <2>a, <3>1 DEF LiteInTime
    <3>6. \A s \in CachedSites :
            SiteInTime(siteUntil'[s], CacheTtl[s], now', enabled', offSince')
      <4> SUFFICES ASSUME NEW s \in CachedSites
                   PROVE  SiteInTime(siteUntil'[s], CacheTtl[s], now', enabled', offSince')
        OBVIOUS
      <4>1. CacheTtl[s] \in Nat \ {0} /\ siteUntil[s] \in Nat
            /\ SiteInTime(siteUntil[s], CacheTtl[s], now, enabled, offSince)
        BY <2>0, <2>a
      <4>. QED  BY <2>0, <2>a, <3>1, <3>2, <4>1 DEF SiteInTime
    <3>. QED
      BY <2>0, <3>1, <3>3, <3>4, <3>5, <3>6 DEF TokensInv, AccessTokensTypeOK
  <2>16. CASE UNCHANGED tokenVars
    BY <2>16 DEF tokenVars, TokensInv, AccessTokensTypeOK
  <2>. QED
    BY <2>1, <2>2, <2>4, <2>5, <2>6, <2>7, <2>9, <2>11, <2>12, <2>13, <2>14, <2>15, <2>16
       DEF AccessTokensNext, CachedSites
<1>. QED  BY <1>1, <1>2, PTL DEF AccessTokensSpec

\* A disabled account and an expired token get in for no longer than the entries and
\* the verifications behind them allow, and 401 has a cause, for any number of sites
\* and overlapping verifications and whatever the times to live.
THEOREM VerdictsAreFounded == AccessTokensSpec => []VerdictsFounded
<1>1. TokensInv => VerdictsFounded
  <2> SUFFICES ASSUME TokensInv PROVE VerdictsFounded
    OBVIOUS
  <2>0. /\ now \in Nat /\ enabled \in BOOLEAN /\ offSince \in Nat
        /\ siteUntil \in [CachedSites -> Nat]
        /\ guard \in [Verifications -> Guarding]
        /\ \A v \in Verifications : Relies(guard[v], now, enabled, offSince)
        /\ \A s \in CachedSites : SiteInTime(siteUntil[s], CacheTtl[s], now, enabled, offSince)
    BY DEF TokensInv, AccessTokensTypeOK
  <2>a. /\ CacheTtl \in [CachedSites -> Nat \ {0}] /\ LiteTtl \in Nat \ {0}
        /\ TokenEnd \in Nat /\ MaxDelay \in Nat
    BY AccessTokensAssumption
  <2>1. ASSUME NEW s \in CachedSites PROVE CacheInTime(s)
    <3>1. CacheTtl[s] \in Nat \ {0} /\ siteUntil[s] \in Nat
          /\ SiteInTime(siteUntil[s], CacheTtl[s], now, enabled, offSince)
      BY <2>0, <2>a
    <3>. QED  BY <2>0, <2>a, <3>1 DEF SiteInTime, CacheInTime, OffFor, ExpiredFor
  <2>2. ASSUME NEW v \in Verifications, guard[v].said # "nothing"
        PROVE  /\ guard[v].said = "yes" => AnswerInTime(guard[v])
               /\ guard[v].said = "no" => CauseToRefuse(guard[v])
    <3>1. guard[v] \in Guarding /\ Relies(guard[v], now, enabled, offSince)
      BY <2>0
    <3>2. guard[v].begun \in Nat /\ now <= guard[v].begun + MaxDelay
      BY <3>1, <2>2 DEF Relies, Guarding
    <3>3. guard[v].said = "yes" => ExpiredFor(MaxDelay)
      BY <2>0, <2>a, <3>1, <3>2 DEF Relies, ExpiredFor
    <3>4. guard[v].said = "yes" /\ guard[v].full => OffFor(MaxDelay)
      BY <2>0, <2>a, <3>1, <3>2 DEF Relies, OffFor
    <3>5. guard[v].said = "yes" => OffFor(LiteTtl - 1 + 2 * MaxDelay)
      BY <2>0, <2>a, <3>1, <3>2 DEF Relies, OffFor
    <3>6. guard[v].said = "yes" => AnswerInTime(guard[v])
      BY <3>3, <3>4, <3>5 DEF AnswerInTime
    <3>. QED  BY <3>1, <3>6 DEF Relies, CauseToRefuse
  <2>3. ASSUME NEW v \in Verifications, guard[v].said # "nothing"
        PROVE  /\ Verdict(guard[v].said) = "in" <=> guard[v].said = "yes"
               /\ Verdict(guard[v].said) = "refused" <=> guard[v].said = "no"
               /\ AdminVerdict(guard[v].said) = "in" <=> guard[v].said = "yes"
               /\ AdminVerdict(guard[v].said) # "refused"
    BY <2>0, <2>3 DEF Verdict, AdminVerdict, Guarding
  <2>. QED  BY <2>1, <2>2, <2>3 DEF VerdictsFounded
<1>. QED  BY TokensInvariance, <1>1, PTL

-----------------------------------------------------------------------------
(***************************************************************************)
(* The copies of a profile.  What a reader holds is not newer than the     *)
(* row, and is the row's revision only while that is not deleted; while    *)
(* nothing is lost, parked or crossed, the messages not consumed end with  *)
(* the revision published last.                                            *)
(***************************************************************************)

\* The row, what was published of it, and what its writers had read.
RowKept ==
  /\ row.rev # 0 /\ ~row.deleted => followed.published = row.rev
  /\ followed.published <= row.rev
  /\ row.rev # 0 => followed.published # 0
  /\ row.deleted => row.rev # 0 /\ followed.erased # 0
  /\ followed.erased <= row.rev
  /\ \A e \in Edits : edit[e].pc # "none" =>
       /\ edit[e].read <= row.rev
       /\ edit[e].kind # "register" => row.rev # 0
       /\ row.deleted => edit[e].read < followed.erased
  /\ ErasureUndoneOnlyByOverlap

\* A revision a reader holds, or the cache: of the row as it is, or older.
OfRow(rev) == rev <= row.rev /\ (rev = row.rev => ~row.deleted)

CopiesKept ==
  /\ CacheStaleOnlyByRace
  /\ \A e \in Edits : EditAt(e, "commit") => cached.rev = 0 \/ cached.raced
  /\ cached.rev # 0 => OfRow(cached.rev)
  /\ \A l \in Lookups : lookup[l].pc # "none" => lookup[l].copy # 0 /\ OfRow(lookup[l].copy)

\* The messages of a topic are in the order of their revisions, and between them
\* the topics end with the last one published.
MessagesKept ==
  /\ \A t \in Topics : \A i \in DOMAIN topics[t] :
       topics[t][i] # 0 /\ topics[t][i] <= followed.published
  /\ \A t \in Topics : \A i, j \in DOMAIN topics[t] : i < j => topics[t][i] < topics[t][j]
  /\ (\E t \in Topics : topics[t] # <<>>)
       => \E t \in Topics : \E i \in DOMAIN topics[t] : topics[t][i] = followed.published
  /\ (\A t \in Topics : topics[t] = <<>>) => replica = followed.published
  /\ replica = 0 /\ followed.published # 0 =>
       /\ topics["registered"] # <<>> /\ Head(topics["registered"]) = 1
       /\ \A i \in DOMAIN topics["updated"] : topics["updated"][i] # 1

ReplicaKept == ~followed.astray /\ parked = {} => MessagesKept

UserReplicasInv == UserReplicasTypeOK /\ RowKept /\ CopiesKept /\ ReplicaKept

LEMMA UserReplicasInvImplies == UserReplicasInv => CopiesExplained
<1> SUFFICES ASSUME UserReplicasInv PROVE CopiesExplained
  OBVIOUS
<1>1. CacheStaleOnlyByRace /\ ErasureUndoneOnlyByOverlap
  BY DEF UserReplicasInv, CopiesKept, RowKept
<1>2. ReplicaCatchesUp
  <2> SUFFICES ASSUME topics = [t \in Topics |-> <<>>], parked = {}, ~followed.astray
               PROVE  replica = followed.published
    BY DEF ReplicaCatchesUp
  <2>1. \A t \in Topics : topics[t] = <<>>
    OBVIOUS
  <2>. QED  BY <2>1 DEF UserReplicasInv, ReplicaKept, MessagesKept
<1>. QED  BY <1>1, <1>2 DEF CopiesExplained

LEMMA ReplicaTypes ==
  ASSUME UserReplicasTypeOK
  PROVE  /\ row.rev \in Nat /\ row.deleted \in BOOLEAN
         /\ row = [rev |-> row.rev, deleted |-> row.deleted]
         /\ cached.rev \in Nat /\ cached.raced \in BOOLEAN
         /\ \A e \in Edits : /\ edit[e] \in ProfileEdit /\ edit[e].read \in Nat
                             /\ edit[e].kind \in {"register", "update", "anonymize"}
         /\ \A l \in Lookups : /\ lookup[l] \in ProfileLookup /\ lookup[l].copy \in Nat
         /\ \A t \in Topics : topics[t] \in Seq(Nat)
         /\ followed.published \in Nat /\ followed.erased \in Nat /\ followed.reviver \in Nat
         /\ followed.astray \in BOOLEAN
         /\ replica \in Nat /\ replicaCalls \in Nat
BY DEF UserReplicasTypeOK, ProfileEdit, ProfileLookup, FollowedProfile

\* A writer takes a step and knows no more than before.
LEMMA EditSteps ==
  ASSUME UserReplicasTypeOK, NEW e \in Edits,
         NEW pc \in {"none", "save", "uncache", "commit", "uncache_saved"}, EditTo(e, pc)
  PROVE  /\ edit' \in [Edits -> ProfileEdit]
         /\ \A d \in Edits : /\ edit'[d].pc = IF d = e THEN pc ELSE edit[d].pc
                             /\ edit'[d].kind = edit[d].kind /\ edit'[d].read = edit[d].read
<1> DEFINE x == [edit[e] EXCEPT !.pc = pc]
<1>1. edit[e] \in ProfileEdit
  BY ReplicaTypes
<1>2. x \in ProfileEdit /\ x.pc = pc /\ x.kind = edit[e].kind /\ x.read = edit[e].read
  BY <1>1 DEF ProfileEdit
<1>3. edit' = [edit EXCEPT ![e] = x]
  BY DEF EditTo
<1> HIDE DEF x
<1>. QED  BY <1>2, <1>3 DEF UserReplicasTypeOK

\* What the steps below leave alone.
LEMMA RowStays ==
  ASSUME RowKept, UNCHANGED <<row, edit>>, followed'.published = followed.published,
         followed'.erased = followed.erased, followed'.reviver = followed.reviver
  PROVE  RowKept'
BY DEF RowKept, ErasureUndoneOnlyByOverlap

\* Of the writers only those that begin can add to what the row has to keep.
LEMMA RowStaysWithEdits ==
  ASSUME RowKept, UNCHANGED <<row, followed>>,
         \A e \in Edits : edit'[e].pc # "none" =>
           edit[e].pc # "none" /\ edit'[e].kind = edit[e].kind /\ edit'[e].read = edit[e].read
  PROVE  RowKept'
BY DEF RowKept, ErasureUndoneOnlyByOverlap

LEMMA CopiesStay ==
  ASSUME CopiesKept, UNCHANGED <<row, cached, edit, lookup>>
  PROVE  CopiesKept'
BY DEF CopiesKept, OfRow, CacheStaleOnlyByRace, EditAt

LEMMA ReplicaStays ==
  ASSUME ReplicaKept, UNCHANGED <<topics, parked, replica>>,
         followed'.published = followed.published, followed'.astray = followed.astray
  PROVE  ReplicaKept'
BY DEF ReplicaKept, MessagesKept

-----------------------------------------------------------------------------
LEMMA LoadProfileKeeps ==
  ASSUME UserReplicasInv, NEW e \in Edits, NEW kind \in {"register", "update", "anonymize"},
         LoadProfile(e, kind)
  PROVE  UserReplicasInv'
<1> DEFINE x == [pc |-> "save", kind |-> kind, read |-> Found]
<1>t. UserReplicasTypeOK /\ RowKept /\ CopiesKept /\ ReplicaKept
  BY DEF UserReplicasInv
<1>1. /\ edit' = [edit EXCEPT ![e] = x] /\ edit[e].pc = "none"
      /\ kind # "register" => Found # 0
      /\ replicaCalls' = replicaCalls + 1
      /\ UNCHANGED <<row, locked, cached, lookup, topics, parked, replica, followed>>
  BY DEF LoadProfile, AnotherCall, EditAt
<1>2. /\ Found \in Nat /\ Found <= row.rev /\ (row.deleted => Found = 0)
      /\ (Found # 0 => row.rev # 0)
  BY <1>t, ReplicaTypes DEF Found
<1>3. x \in ProfileEdit /\ x.pc = "save" /\ x.kind = kind /\ x.read = Found
  BY <1>2 DEF ProfileEdit
<1> HIDE DEF x
<1>4. /\ edit' \in [Edits -> ProfileEdit]
      /\ \A d \in Edits : edit'[d] = IF d = e THEN x ELSE edit[d]
  BY <1>t, <1>1, <1>3 DEF UserReplicasTypeOK
<1>5. UserReplicasTypeOK'
  BY <1>t, <1>1, <1>4, ReplicaTypes DEF UserReplicasTypeOK
<1>6. RowKept'
  <2>1. row.deleted => Found < followed.erased
    BY <1>t, <1>2, ReplicaTypes DEF RowKept
  <2>. QED  BY <1>t, <1>1, <1>2, <1>3, <1>4, <2>1 DEF RowKept, ErasureUndoneOnlyByOverlap
<1>7. CopiesKept'
  BY <1>t, <1>1, <1>3, <1>4 DEF CopiesKept, OfRow, CacheStaleOnlyByRace, EditAt
<1>8. ReplicaKept'
  BY <1>t, <1>1, ReplicaStays
<1>. QED  BY <1>5, <1>6, <1>7, <1>8 DEF UserReplicasInv

LEMMA SaveInTransactionKeeps ==
  ASSUME UserReplicasInv, NEW e \in Edits, SaveInTransaction(e)
  PROVE  UserReplicasInv'
<1>t. UserReplicasTypeOK /\ RowKept /\ CopiesKept /\ ReplicaKept
  BY DEF UserReplicasInv
<1>1. /\ edit[e].pc = "save" /\ locked' \in BOOLEAN
      /\ \E pc \in {"none", "uncache"} : EditTo(e, pc)
      /\ UNCHANGED <<row, cached, lookup, topics, parked, replica, replicaCalls, followed>>
  BY <1>t DEF SaveInTransaction, EditAt, UserReplicasTypeOK
<1>2. PICK pc \in {"none", "uncache"} : EditTo(e, pc)
  BY <1>1
<1>3. /\ edit' \in [Edits -> ProfileEdit]
      /\ \A d \in Edits : /\ edit'[d].pc = IF d = e THEN pc ELSE edit[d].pc
                          /\ edit'[d].kind = edit[d].kind /\ edit'[d].read = edit[d].read
  BY <1>t, <1>2, EditSteps
<1>4. UserReplicasTypeOK'
  BY <1>t, <1>1, <1>3 DEF UserReplicasTypeOK
<1>5. RowKept'
  BY <1>t, <1>1, <1>3, RowStaysWithEdits
<1>6. CopiesKept'
  BY <1>t, <1>1, <1>2, <1>3 DEF CopiesKept, OfRow, CacheStaleOnlyByRace, EditAt
<1>7. ReplicaKept'
  BY <1>t, <1>1, ReplicaStays
<1>. QED  BY <1>4, <1>5, <1>6, <1>7 DEF UserReplicasInv

\* The three steps that delete the cached copy, or fail to.
LEMMA UncacheKeeps ==
  ASSUME UserReplicasInv, NEW e \in Edits, NEW pc \in {"none", "commit"}, EditTo(e, pc),
         edit[e].pc \in {"uncache", "uncache_saved"}, NEW done \in BOOLEAN,
         cached' = Uncached(done), locked' \in BOOLEAN,
         UNCHANGED <<row, lookup, topics, parked, replica, replicaCalls, followed>>
  PROVE  UserReplicasInv'
<1>t. UserReplicasTypeOK /\ RowKept /\ CopiesKept /\ ReplicaKept
  BY DEF UserReplicasInv
<1>1. /\ cached' \in [rev : Nat, raced : BOOLEAN]
      /\ cached'.rev = 0 \/ cached'.raced
      /\ cached'.rev = 0 \/ cached'.rev = cached.rev
  BY <1>t DEF Uncached, NothingCached, UserReplicasTypeOK
<1>2. /\ edit' \in [Edits -> ProfileEdit]
      /\ \A d \in Edits : /\ edit'[d].pc = IF d = e THEN pc ELSE edit[d].pc
                          /\ edit'[d].kind = edit[d].kind /\ edit'[d].read = edit[d].read
  BY <1>t, EditSteps
<1>3. UserReplicasTypeOK'
  BY <1>t, <1>1, <1>2 DEF UserReplicasTypeOK
<1>4. RowKept'
  BY <1>t, <1>2, RowStaysWithEdits
<1>5. CopiesKept'
  BY <1>t, <1>1 DEF CopiesKept, OfRow, CacheStaleOnlyByRace, EditAt
<1>6. ReplicaKept'
  BY <1>t, ReplicaStays
<1>. QED  BY <1>3, <1>4, <1>5, <1>6 DEF UserReplicasInv

LEMMA EditFailsKeeps ==
  ASSUME UserReplicasInv, NEW e \in Edits, EditFails(e)
  PROVE  UserReplicasInv'
<1>t. UserReplicasTypeOK /\ RowKept /\ CopiesKept /\ ReplicaKept
  BY DEF UserReplicasInv
<1>1. /\ EditTo(e, "none") /\ locked' \in BOOLEAN
      /\ cached' = IF EditAt(e, "uncache_saved") THEN Uncached(FALSE) ELSE cached
      /\ UNCHANGED <<row, lookup, topics, parked, replica, replicaCalls, followed>>
  BY <1>t DEF EditFails, UserReplicasTypeOK
<1>2. CASE edit[e].pc = "uncache_saved"
  <2>1. cached' = Uncached(FALSE)
    BY <1>1, <1>2 DEF EditAt
  <2>. QED  BY <1>1, <1>2, <2>1, UncacheKeeps
<1>3. CASE edit[e].pc # "uncache_saved"
  <2>1. cached' = cached
    BY <1>1, <1>3 DEF EditAt
  <2>2. /\ edit' \in [Edits -> ProfileEdit]
        /\ \A d \in Edits : /\ edit'[d].pc = IF d = e THEN "none" ELSE edit[d].pc
                            /\ edit'[d].kind = edit[d].kind /\ edit'[d].read = edit[d].read
    BY <1>t, <1>1, EditSteps
  <2>3. UserReplicasTypeOK'
    BY <1>t, <1>1, <2>1, <2>2 DEF UserReplicasTypeOK
  <2>4. RowKept'
    BY <1>t, <1>1, <2>2, RowStaysWithEdits
  <2>5. CopiesKept'
    BY <1>t, <1>1, <1>3, <2>1, <2>2 DEF CopiesKept, OfRow, CacheStaleOnlyByRace, EditAt
  <2>6. ReplicaKept'
    BY <1>t, <1>1, ReplicaStays
  <2>. QED  BY <2>3, <2>4, <2>5, <2>6 DEF UserReplicasInv
<1>. QED  BY <1>2, <1>3

\* One message more, or one less, in a topic.
LEMMA AppendedMessage ==
  ASSUME NEW s \in Seq(Nat), NEW v \in Nat
  PROVE  /\ Len(s) \in Nat /\ DOMAIN s = 1 .. Len(s) /\ DOMAIN Append(s, v) = 1 .. Len(s) + 1
         /\ Append(s, v)[Len(s) + 1] = v /\ Append(s, v) # <<>>
         /\ \A i \in 1 .. Len(s) : Append(s, v)[i] = s[i] /\ s[i] \in Nat
         /\ (Len(s) # 0 => s # <<>> /\ Head(Append(s, v)) = Head(s))
         /\ (Len(s) = 0 => Head(Append(s, v)) = v /\ s = <<>>)
<1>1. /\ Len(s) \in Nat /\ DOMAIN s = 1 .. Len(s) /\ DOMAIN Append(s, v) = 1 .. Len(s) + 1
      /\ Append(s, v)[Len(s) + 1] = v /\ Append(s, v) \in Seq(Nat)
      /\ Len(Append(s, v)) = Len(s) + 1
      /\ \A i \in 1 .. Len(s) : Append(s, v)[i] = s[i]
  OBVIOUS
<1>2. \A i \in 1 .. Len(s) : s[i] \in Nat
  BY <1>1
<1>3. Append(s, v) # <<>> /\ Head(Append(s, v)) = Append(s, v)[1]
  BY <1>1
<1>4. ASSUME Len(s) # 0 PROVE s # <<>> /\ Head(Append(s, v)) = Head(s)
  <2>1. s # <<>> /\ Head(s) = s[1] /\ 1 \in 1 .. Len(s)
    BY <1>1, <1>4
  <2>. QED  BY <2>1, <1>1, <1>3
<1>5. ASSUME Len(s) = 0 PROVE Head(Append(s, v)) = v /\ s = <<>>
  BY <1>1, <1>3, <1>5
<1>. QED  BY <1>1, <1>2, <1>3, <1>4, <1>5

LEMMA FirstMessageGone ==
  ASSUME NEW s \in Seq(Nat), s # <<>>
  PROVE  /\ Len(s) \in Nat /\ Len(s) # 0 /\ DOMAIN s = 1 .. Len(s) /\ Head(s) = s[1]
         /\ 1 \in DOMAIN s /\ \A i \in 1 .. Len(s) : s[i] \in Nat
         /\ Tail(s) \in Seq(Nat) /\ Len(Tail(s)) = Len(s) - 1
         /\ DOMAIN Tail(s) = 1 .. Len(s) - 1
         /\ \A i \in 1 .. Len(s) - 1 : Tail(s)[i] = s[i + 1]
         /\ (Tail(s) = <<>> <=> Len(s) = 1)
<1>1. Len(s) \in Nat /\ Len(s) # 0 /\ DOMAIN s = 1 .. Len(s) /\ Head(s) = s[1]
  OBVIOUS
<1>2. 1 \in DOMAIN s /\ \A i \in 1 .. Len(s) : s[i] \in Nat
  BY <1>1
<1>3. Tail(s) \in Seq(Nat) /\ Len(Tail(s)) = Len(s) - 1
  BY <1>1
<1>4. DOMAIN Tail(s) = 1 .. Len(s) - 1 /\ (Tail(s) = <<>> <=> Len(s) = 1)
  <2>1. DOMAIN Tail(s) = 1 .. Len(s) - 1
    BY <1>1, <1>3
  <2>2. \A q \in Seq(Nat) : q = <<>> <=> Len(q) = 0
    OBVIOUS
  <2>3. Tail(s) = <<>> <=> Len(Tail(s)) = 0
    BY <1>3, <2>2
  <2>4. Len(s) \in Nat /\ (Len(Tail(s)) = 0 <=> Len(s) = 1)
    BY <1>1, <1>3
  <2>. QED  BY <2>1, <2>3, <2>4, Zenon
<1>5. \A i \in 1 .. Len(s) - 1 : Tail(s)[i] = s[i + 1]
  BY <1>1, <1>3
<1>. QED  BY <1>1, <1>2, <1>3, <1>4, <1>5

LEMMA CommitProfileKeeps ==
  ASSUME UserReplicasInv, NEW e \in Edits, CommitProfile(e)
  PROVE  UserReplicasInv'
<1> DEFINE rev == row.rev + 1
           topic == IF edit[e].kind = "register" THEN "registered" ELSE "updated"
           reviver == IF row.deleted THEN edit[e].read ELSE followed.reviver
<1>t. UserReplicasTypeOK /\ RowKept /\ CopiesKept /\ ReplicaKept
  BY DEF UserReplicasInv
<1>1. /\ edit[e].pc = "commit" /\ row' = [rev |-> rev, deleted |-> FALSE] /\ locked' = FALSE
      /\ topics' = [topics EXCEPT ![topic] = Append(topics[topic], rev)]
      /\ followed' = [followed EXCEPT !.published = rev, !.reviver = reviver]
      /\ EditTo(e, "none")
      /\ UNCHANGED <<cached, lookup, parked, replica, replicaCalls>>
  BY DEF CommitProfile, EditAt
<1>2. /\ rev \in Nat /\ row.rev \in Nat /\ row.rev < rev /\ rev # 0
      /\ topic \in Topics /\ reviver \in Nat
      /\ (topic = "updated" <=> edit[e].kind # "register")
  BY <1>t, ReplicaTypes DEF Topics
<1>3. /\ followed' \in FollowedProfile /\ followed'.published = rev
      /\ followed'.reviver = reviver /\ followed'.erased = followed.erased
      /\ followed'.astray = followed.astray
  <2>1. followed \in FollowedProfile
    BY <1>t DEF UserReplicasTypeOK
  <2> HIDE DEF rev, reviver
  <2>. QED  BY <1>1, <1>2, <2>1 DEF FollowedProfile
<1>4. /\ edit' \in [Edits -> ProfileEdit]
      /\ \A d \in Edits : /\ edit'[d].pc = IF d = e THEN "none" ELSE edit[d].pc
                          /\ edit'[d].kind = edit[d].kind /\ edit'[d].read = edit[d].read
  BY <1>t, <1>1, EditSteps
<1>r. row'.rev = rev /\ row'.deleted = FALSE /\ row' \in [rev : Nat, deleted : BOOLEAN]
  BY <1>1, <1>2
<1> HIDE DEF rev, topic
<1>5. /\ topics' \in [Topics -> Seq(Nat)]
      /\ \A t \in Topics : t # topic => topics'[t] = topics[t]
      /\ topics'[topic] = Append(topics[topic], rev)
      /\ topics[topic] \in Seq(Nat)
  BY <1>t, <1>1, <1>2 DEF UserReplicasTypeOK
<1>6. UserReplicasTypeOK'
  BY <1>t, <1>1, <1>r, <1>3, <1>4, <1>5 DEF UserReplicasTypeOK
<1>7. RowKept'
  <2>1. followed.erased \in Nat /\ followed.published \in Nat
    BY <1>t, ReplicaTypes
  <2>2. row.deleted => edit[e].read < followed.erased
    BY <1>t, <1>1 DEF RowKept
  <2>3. ErasureUndoneOnlyByOverlap'
    BY <1>t, <1>r, <1>3, <2>2 DEF RowKept, ErasureUndoneOnlyByOverlap
  <2>4. \A d \in Edits : edit'[d].pc # "none" =>
          /\ edit'[d].read <= rev /\ row'.rev # 0
    BY <1>t, <1>4, <1>r, <1>2, ReplicaTypes DEF RowKept
  <2>5. followed.erased <= rev
    BY <1>t, <1>2, <2>1 DEF RowKept
  <2>. QED  BY <1>r, <1>2, <1>3, <2>3, <2>4, <2>5 DEF RowKept
<1>8. CopiesKept'
  <2>1. cached.rev = 0 \/ cached.raced
    BY <1>t, <1>1 DEF CopiesKept, EditAt
  <2>2. \A n \in Nat : OfRow(n) => n <= rev /\ n # rev
    BY <1>2 DEF OfRow
  <2>3. cached.rev # 0 => OfRow(cached.rev)'
    BY <1>t, <1>1, <1>r, <2>2, ReplicaTypes DEF CopiesKept, OfRow
  <2>4. \A l \in Lookups : lookup[l].pc # "none" =>
          lookup[l].copy # 0 /\ lookup[l].copy <= rev /\ lookup[l].copy # rev
    BY <1>t, <2>2, ReplicaTypes DEF CopiesKept
  <2>. QED  BY <1>1, <1>r, <2>1, <2>3, <2>4 DEF CopiesKept, OfRow, CacheStaleOnlyByRace, EditAt
<1>9. ReplicaKept'
  <2> SUFFICES ASSUME ~followed'.astray, parked' = {} PROVE MessagesKept'
    BY DEF ReplicaKept
  <2>1. MessagesKept
    BY <1>t, <1>1, <1>3 DEF ReplicaKept
  <2> DEFINE s == topics[topic]
             L == Len(s)
  <2>2. /\ L \in Nat /\ DOMAIN s = 1 .. L /\ DOMAIN topics'[topic] = 1 .. L + 1
        /\ topics'[topic][L + 1] = rev /\ topics'[topic] # <<>>
        /\ \A i \in 1 .. L : topics'[topic][i] = s[i] /\ s[i] \in Nat
        /\ (L # 0 => s # <<>> /\ Head(topics'[topic]) = Head(s))
        /\ (L = 0 => Head(topics'[topic]) = rev /\ s = <<>>)
    <3>1. s \in Seq(Nat) /\ topics'[topic] = Append(s, rev) /\ rev \in Nat
      BY <1>2, <1>5
    <3> HIDE DEF s, L
    <3>2. /\ Len(s) \in Nat /\ DOMAIN s = 1 .. Len(s)
          /\ DOMAIN Append(s, rev) = 1 .. Len(s) + 1
          /\ Append(s, rev)[Len(s) + 1] = rev /\ Append(s, rev) # <<>>
          /\ \A i \in 1 .. Len(s) : Append(s, rev)[i] = s[i] /\ s[i] \in Nat
          /\ (Len(s) # 0 => s # <<>> /\ Head(Append(s, rev)) = Head(s))
          /\ (Len(s) = 0 => Head(Append(s, rev)) = rev /\ s = <<>>)
      BY <3>1, AppendedMessage
    <3>. QED  BY <3>1, <3>2, Zenon DEF L
  <2>3. \A t \in Topics : \A i \in DOMAIN topics[t] :
          topics[t][i] \in Nat /\ topics[t][i] # 0 /\ topics[t][i] < rev
    <3>1. \A t \in Topics : \A i \in DOMAIN topics[t] :
            topics[t][i] \in Nat /\ topics[t][i] # 0 /\ topics[t][i] <= followed.published
      <4> SUFFICES ASSUME NEW t \in Topics, NEW i \in DOMAIN topics[t]
                   PROVE  topics[t][i] \in Nat /\ topics[t][i] # 0
                          /\ topics[t][i] <= followed.published
        OBVIOUS
      <4>1. topics[t] \in Seq(Nat)
        BY <1>t, ReplicaTypes
      <4>2. topics[t][i] \in Nat
        BY <4>1
      <4>. QED  BY <2>1, <4>2 DEF MessagesKept
    <3>2. followed.published <= row.rev /\ followed.published \in Nat
      BY <1>t, ReplicaTypes DEF RowKept
    <3>. QED  BY <3>1, <3>2, <1>2
  <2> HIDE DEF s, L
  <2>4. \A t \in Topics : \A i \in DOMAIN topics'[t] : topics'[t][i] # 0 /\ topics'[t][i] <= rev
    <3> SUFFICES ASSUME NEW t \in Topics, NEW i \in DOMAIN topics'[t]
                 PROVE  topics'[t][i] # 0 /\ topics'[t][i] <= rev
      OBVIOUS
    <3>1. CASE t # topic
      <4>1. i \in DOMAIN topics[t] /\ topics'[t][i] = topics[t][i]
        BY <3>1, <1>5
      <4>2. topics[t][i] \in Nat /\ topics[t][i] # 0 /\ topics[t][i] < rev
        BY <4>1, <2>3
      <4>. QED  BY <4>1, <4>2, <1>2
    <3>2. CASE t = topic /\ i = L + 1
      BY <3>2, <1>2, <2>2
    <3>3. CASE t = topic /\ i \in 1 .. L
      <4>1. topics'[t][i] = topics[t][i] /\ i \in DOMAIN topics[t]
        BY <3>3, <2>2 DEF s
      <4>2. topics[t][i] \in Nat /\ topics[t][i] # 0 /\ topics[t][i] < rev
        BY <4>1, <2>3
      <4>. QED  BY <4>1, <4>2, <1>2
    <3>. QED  BY <3>1, <3>2, <3>3, <2>2
  <2>5. \A t \in Topics : \A i, j \in DOMAIN topics'[t] : i < j => topics'[t][i] < topics'[t][j]
    <3> SUFFICES ASSUME NEW t \in Topics, NEW i \in DOMAIN topics'[t], NEW j \in DOMAIN topics'[t],
                        i < j
                 PROVE  topics'[t][i] < topics'[t][j]
      OBVIOUS
    <3>1. CASE t # topic
      BY <3>1, <1>5, <2>1 DEF MessagesKept
    <3>2. CASE t = topic /\ j = L + 1
      <4>1. i \in 1 .. L
        BY <3>2, <2>2
      <4>. QED  BY <3>2, <4>1, <1>2, <2>2, <2>3 DEF s
    <3>3. CASE t = topic /\ j # L + 1
      <4>0. i \in 1 .. L + 1 /\ j \in 1 .. L + 1 /\ L \in Nat
        BY <3>3, <2>2
      <4>1. i \in 1 .. L /\ j \in 1 .. L
        BY <4>0, <3>3
      <4>. QED  BY <3>3, <4>1, <1>2, <2>1, <2>2 DEF s, MessagesKept
    <3>. QED  BY <3>1, <3>2, <3>3
  <2>6. \E t \in Topics : \E i \in DOMAIN topics'[t] : topics'[t][i] = rev
    <3>1. topic \in Topics /\ L + 1 \in DOMAIN topics'[topic] /\ topics'[topic][L + 1] = rev
      BY <1>2, <2>2
    <3>. QED  BY <3>1
  <2>7. ~ \A t \in Topics : topics'[t] = <<>>
    BY <1>2, <2>2
  <2>8. ASSUME replica = 0
        PROVE  /\ topics'["registered"] # <<>> /\ Head(topics'["registered"]) = 1
               /\ \A i \in DOMAIN topics'["updated"] : topics'["updated"][i] # 1
    <3>r. "registered" \in Topics /\ "updated" \in Topics /\ "registered" # "updated"
      BY DEF Topics
    <3>1. CASE followed.published = 0
      <4>1. row.rev = 0
        BY <1>t, <3>1 DEF RowKept
      <4>2. rev = 1
        BY <4>1 DEF rev
      <4>3. edit[e].kind = "register"
        BY <1>t, <1>1, <4>1 DEF RowKept
      <4>4. topic = "registered"
        BY <4>3 DEF topic
      <4>5. \A t \in Topics : \A i \in DOMAIN topics[t] : FALSE
        BY <2>1, <2>3, <3>1, <1>t, ReplicaTypes DEF MessagesKept
      <4>6. L = 0
        BY <4>5, <1>2, <2>2 DEF s
      <4>. QED  BY <3>r, <4>2, <4>4, <4>5, <4>6, <1>5, <2>2
    <3>2. CASE followed.published # 0
      <4>1. /\ topics["registered"] # <<>> /\ Head(topics["registered"]) = 1
            /\ \A i \in DOMAIN topics["updated"] : topics["updated"][i] # 1
        BY <2>1, <2>8, <3>2 DEF MessagesKept
      <4>2. rev # 1
        BY <1>t, <3>2, ReplicaTypes DEF RowKept, rev
      <4>3. CASE topic = "registered"
        <5>1. L # 0 /\ s = topics["registered"]
          BY <4>1, <4>3, <2>2 DEF s
        <5>. QED  BY <4>1, <4>3, <5>1, <3>r, <1>5, <2>2
      <4>4. CASE topic = "updated"
        <5>1. topics'["registered"] = topics["registered"] /\ s = topics["updated"]
          BY <4>4, <3>r, <1>5 DEF s
        <5>2. \A i \in DOMAIN topics'["updated"] : topics'["updated"][i] # 1
          BY <4>1, <4>2, <4>4, <5>1, <2>2
        <5>. QED  BY <4>1, <5>1, <5>2
      <4>. QED  BY <4>3, <4>4, <1>2 DEF Topics
    <3>. QED  BY <3>1, <3>2
  <2>. QED  BY <1>1, <1>3, <2>4, <2>5, <2>6, <2>7, <2>8 DEF MessagesKept
<1>. QED  BY <1>6, <1>7, <1>8, <1>9 DEF UserReplicasInv

LEMMA AnonymizeKeeps ==
  ASSUME UserReplicasInv, NEW e \in Edits, Anonymize(e)
  PROVE  UserReplicasInv'
<1> DEFINE rev == row.rev + 1
<1>t. UserReplicasTypeOK /\ RowKept /\ CopiesKept /\ ReplicaKept
  BY DEF UserReplicasInv
<1>1. /\ edit[e].pc = "save" /\ edit[e].kind = "anonymize"
      /\ row' = [rev |-> rev, deleted |-> TRUE] /\ row'.rev = rev
      /\ followed' = [followed EXCEPT !.erased = rev] /\ EditTo(e, "uncache_saved")
      /\ UNCHANGED <<locked, cached, lookup, topics, parked, replica, replicaCalls>>
  BY DEF Anonymize, EditAt
<1>2. rev \in Nat /\ row.rev \in Nat /\ row.rev < rev /\ rev # 0 /\ row.rev # 0
  BY <1>t, <1>1, ReplicaTypes DEF RowKept
<1>r. row'.rev = rev /\ row'.deleted = TRUE /\ row' \in [rev : Nat, deleted : BOOLEAN]
  BY <1>1, <1>2
<1> HIDE DEF rev
<1>3. /\ followed' \in FollowedProfile /\ followed'.published = followed.published
      /\ followed'.reviver = followed.reviver /\ followed'.erased = rev
      /\ followed'.astray = followed.astray
  BY <1>t, <1>1, <1>2 DEF UserReplicasTypeOK, FollowedProfile
<1>4. /\ edit' \in [Edits -> ProfileEdit]
      /\ \A d \in Edits : /\ edit'[d].pc = IF d = e THEN "uncache_saved" ELSE edit[d].pc
                          /\ edit'[d].kind = edit[d].kind /\ edit'[d].read = edit[d].read
  BY <1>t, <1>1, EditSteps
<1>5. UserReplicasTypeOK'
  BY <1>t, <1>1, <1>r, <1>3, <1>4 DEF UserReplicasTypeOK
<1>6. RowKept'
  <2>1. \A d \in Edits : edit'[d].pc # "none" => edit'[d].read <= rev /\ edit'[d].read < rev
    BY <1>t, <1>1, <1>2, <1>4, ReplicaTypes DEF RowKept
  <2>2. followed.published <= rev /\ followed.published # 0
    BY <1>t, <1>2, ReplicaTypes DEF RowKept
  <2>. QED  BY <1>2, <1>r, <1>3, <2>1, <2>2 DEF RowKept, ErasureUndoneOnlyByOverlap
<1>7. CopiesKept'
  <2>1. \A n \in Nat : OfRow(n) => n <= rev /\ n # rev
    BY <1>2 DEF OfRow
  <2>2. cached.rev # 0 => cached.rev <= rev /\ cached.rev # rev
    BY <1>t, <2>1, ReplicaTypes DEF CopiesKept
  <2>3. \A l \in Lookups : lookup[l].pc # "none" =>
          lookup[l].copy # 0 /\ lookup[l].copy <= rev /\ lookup[l].copy # rev
    BY <1>t, <2>1, ReplicaTypes DEF CopiesKept
  <2>4. \A d \in Edits : edit'[d].pc = "commit" => edit[d].pc = "commit"
    BY <1>4
  <2>5. edit'[e].pc = "uncache_saved"
    BY <1>4
  <2>. QED  BY <1>t, <1>1, <1>r, <2>2, <2>3, <2>4, <2>5
            DEF CopiesKept, OfRow, CacheStaleOnlyByRace, EditAt
<1>8. ReplicaKept'
  BY <1>t, <1>1, <1>3, ReplicaStays
<1>. QED  BY <1>5, <1>6, <1>7, <1>8 DEF UserReplicasInv

-----------------------------------------------------------------------------
\* A reader takes a step, after which it holds what x says.
LEMMA LookupSteps ==
  ASSUME UserReplicasTypeOK, NEW l \in Lookups, NEW x \in ProfileLookup,
         lookup' = [lookup EXCEPT ![l] = x]
  PROVE  /\ lookup' \in [Lookups -> ProfileLookup]
         /\ \A m \in Lookups : lookup'[m] = IF m = l THEN x ELSE lookup[m]
BY DEF UserReplicasTypeOK

LEMMA StartLookupKeeps ==
  ASSUME UserReplicasInv, NEW l \in Lookups, NEW for \in {"cache", "replica"},
         StartLookup(l, for)
  PROVE  UserReplicasInv'
<1>t. UserReplicasTypeOK /\ RowKept /\ CopiesKept /\ ReplicaKept
  BY DEF UserReplicasInv
<1>1. /\ replicaCalls' = replicaCalls + 1
      /\ UNCHANGED <<row, locked, cached, edit, topics, parked, replica, followed>>
  BY DEF StartLookup, AnotherCall
<1>2. \E pc \in {"fill", "upsert"}, copy \in Nat :
        /\ lookup' = [lookup EXCEPT ![l] = [pc |-> pc, for |-> for, copy |-> copy]]
        /\ copy # 0 /\ OfRow(copy)
  <2>1. \/ /\ cached.rev # 0
           /\ lookup' = [lookup EXCEPT ![l] = [pc |-> "upsert", for |-> for, copy |-> cached.rev]]
        \/ /\ Found # 0
           /\ lookup' = [lookup EXCEPT ![l] = [pc |-> "fill", for |-> for, copy |-> row.rev]]
    BY DEF StartLookup
  <2>2. cached.rev \in Nat /\ row.rev \in Nat
    BY <1>t, ReplicaTypes
  <2>3. cached.rev # 0 => OfRow(cached.rev)
    BY <1>t DEF CopiesKept
  <2>4. Found # 0 => row.rev # 0 /\ OfRow(row.rev)
    BY <2>2 DEF Found, OfRow
  <2>. QED  BY <2>1, <2>2, <2>3, <2>4
<1>3. PICK pc \in {"fill", "upsert"}, copy \in Nat :
        /\ lookup' = [lookup EXCEPT ![l] = [pc |-> pc, for |-> for, copy |-> copy]]
        /\ copy # 0 /\ OfRow(copy)
  BY <1>2
<1> DEFINE x == [pc |-> pc, for |-> for, copy |-> copy]
<1>4. x \in ProfileLookup /\ x.copy = copy
  BY DEF ProfileLookup
<1> HIDE DEF x
<1>5. /\ lookup' \in [Lookups -> ProfileLookup]
      /\ \A m \in Lookups : lookup'[m] = IF m = l THEN x ELSE lookup[m]
  BY <1>t, <1>3, <1>4, LookupSteps DEF x
<1>6. UserReplicasTypeOK'
  BY <1>t, <1>1, <1>5, ReplicaTypes DEF UserReplicasTypeOK
<1>7. RowKept' /\ ReplicaKept'
  BY <1>t, <1>1, RowStays, ReplicaStays
<1>8. CopiesKept'
  BY <1>t, <1>1, <1>3, <1>4, <1>5 DEF CopiesKept, OfRow, CacheStaleOnlyByRace, EditAt
<1>. QED  BY <1>6, <1>7, <1>8 DEF UserReplicasInv

LEMMA NoLookupTyped == NoLookup \in ProfileLookup /\ NoLookup.pc = "none"
BY DEF NoLookup, ProfileLookup

LEMMA FillCacheKeeps ==
  ASSUME UserReplicasInv, NEW l \in Lookups, FillCache(l)
  PROVE  UserReplicasInv'
<1> DEFINE y == [lookup[l] EXCEPT !.pc = "upsert"]
           x == IF lookup[l].for = "replica" THEN y ELSE NoLookup
           raced == lookup[l].copy # row.rev \/ \E e \in Edits : EditAt(e, "commit")
<1>t. UserReplicasTypeOK /\ RowKept /\ CopiesKept /\ ReplicaKept
  BY DEF UserReplicasInv
<1>1. /\ lookup[l].pc = "fill" /\ cached' = [rev |-> lookup[l].copy, raced |-> raced]
      /\ lookup' = [lookup EXCEPT ![l] = x]
      /\ UNCHANGED <<row, locked, edit, topics, parked, replica, replicaCalls, followed>>
  BY DEF FillCache
<1>2. /\ lookup[l] \in ProfileLookup /\ lookup[l].copy \in Nat
      /\ lookup[l].copy # 0 /\ OfRow(lookup[l].copy)
  BY <1>t, <1>1, ReplicaTypes DEF CopiesKept
<1>3. y \in ProfileLookup /\ y.copy = lookup[l].copy
  BY <1>2 DEF ProfileLookup
<1> HIDE DEF y
<1>4. x \in ProfileLookup /\ (x.pc # "none" => x.copy = lookup[l].copy)
  BY <1>3, NoLookupTyped
<1>5. raced \in BOOLEAN
  OBVIOUS
<1> HIDE DEF x, raced
<1>6. /\ lookup' \in [Lookups -> ProfileLookup]
      /\ \A m \in Lookups : lookup'[m] = IF m = l THEN x ELSE lookup[m]
  BY <1>t, <1>1, <1>4, LookupSteps
<1>7. /\ cached'.rev = lookup[l].copy /\ cached'.raced = raced
      /\ cached' \in [rev : Nat, raced : BOOLEAN]
  BY <1>1, <1>2, <1>5
<1>8. UserReplicasTypeOK'
  BY <1>t, <1>1, <1>6, <1>7 DEF UserReplicasTypeOK
<1>9. RowKept' /\ ReplicaKept'
  BY <1>t, <1>1, RowStays, ReplicaStays
<1>10. CopiesKept'
  <2>1. raced \/ (lookup[l].copy = row.rev /\ \A e \in Edits : ~EditAt(e, "commit"))
    BY DEF raced
  <2>. QED  BY <1>t, <1>1, <1>2, <1>4, <1>6, <1>7, <2>1
            DEF CopiesKept, OfRow, CacheStaleOnlyByRace, EditAt
<1>. QED  BY <1>8, <1>9, <1>10 DEF UserReplicasInv

LEMMA UpsertLookedUpKeeps ==
  ASSUME UserReplicasInv, NEW l \in Lookups, UpsertLookedUp(l)
  PROVE  UserReplicasInv'
<1> DEFINE off == followed.astray \/ lookup[l].copy # row.rev
<1>t. UserReplicasTypeOK /\ RowKept /\ CopiesKept /\ ReplicaKept
  BY DEF UserReplicasInv
<1>1. /\ lookup[l].pc = "upsert" /\ replica' = lookup[l].copy
      /\ followed' = [followed EXCEPT !.astray = off]
      /\ lookup' = [lookup EXCEPT ![l] = NoLookup]
      /\ UNCHANGED <<row, locked, cached, edit, topics, parked, replicaCalls>>
  BY DEF UpsertLookedUp
<1>2. /\ lookup[l].copy \in Nat /\ lookup[l].copy # 0 /\ OfRow(lookup[l].copy)
  BY <1>t, <1>1, ReplicaTypes DEF CopiesKept
<1>3. off \in BOOLEAN
  BY <1>t, ReplicaTypes
<1>4. ~off => ~followed.astray /\ lookup[l].copy = row.rev
  OBVIOUS
<1> HIDE DEF off
<1>5. /\ followed' \in FollowedProfile /\ followed'.published = followed.published
      /\ followed'.reviver = followed.reviver /\ followed'.erased = followed.erased
      /\ followed'.astray = off
  BY <1>t, <1>1, <1>3 DEF UserReplicasTypeOK, FollowedProfile
<1>6. /\ lookup' \in [Lookups -> ProfileLookup]
      /\ \A m \in Lookups : lookup'[m] = IF m = l THEN NoLookup ELSE lookup[m]
  BY <1>t, <1>1, NoLookupTyped, LookupSteps
<1>7. UserReplicasTypeOK'
  BY <1>t, <1>1, <1>2, <1>5, <1>6 DEF UserReplicasTypeOK
<1>8. RowKept'
  BY <1>t, <1>1, <1>5, RowStays
<1>9. CopiesKept'
  BY <1>t, <1>1, <1>6, NoLookupTyped DEF CopiesKept, OfRow, CacheStaleOnlyByRace, EditAt
<1>10. ReplicaKept'
  <2> SUFFICES ASSUME ~followed'.astray, parked' = {} PROVE MessagesKept'
    BY DEF ReplicaKept
  <2>1. MessagesKept /\ lookup[l].copy = row.rev
    BY <1>t, <1>1, <1>4, <1>5 DEF ReplicaKept
  <2>2. row.rev = followed.published
    BY <1>t, <1>2, <2>1 DEF RowKept, OfRow
  <2>. QED  BY <1>1, <1>2, <1>5, <2>1, <2>2 DEF MessagesKept
<1>. QED  BY <1>7, <1>8, <1>9, <1>10 DEF UserReplicasInv

LEMMA LookupFailsKeeps ==
  ASSUME UserReplicasInv, NEW l \in Lookups, LookupFails(l)
  PROVE  UserReplicasInv'
<1>t. UserReplicasTypeOK /\ RowKept /\ CopiesKept /\ ReplicaKept
  BY DEF UserReplicasInv
<1>1. /\ lookup' = [lookup EXCEPT ![l] = NoLookup]
      /\ UNCHANGED <<row, locked, cached, edit, topics, parked, replica, replicaCalls, followed>>
  BY DEF LookupFails
<1>2. /\ lookup' \in [Lookups -> ProfileLookup]
      /\ \A m \in Lookups : lookup'[m] = IF m = l THEN NoLookup ELSE lookup[m]
  BY <1>t, <1>1, NoLookupTyped, LookupSteps
<1>3. UserReplicasTypeOK'
  BY <1>t, <1>1, <1>2 DEF UserReplicasTypeOK
<1>4. RowKept' /\ ReplicaKept'
  BY <1>t, <1>1, RowStays, ReplicaStays
<1>5. CopiesKept'
  BY <1>t, <1>1, <1>2, NoLookupTyped DEF CopiesKept, OfRow, CacheStaleOnlyByRace, EditAt
<1>. QED  BY <1>3, <1>4, <1>5 DEF UserReplicasInv

LEMMA CachedProfileExpiresKeeps ==
  ASSUME UserReplicasInv, CachedProfileExpires
  PROVE  UserReplicasInv'
<1>t. UserReplicasTypeOK /\ RowKept /\ CopiesKept /\ ReplicaKept
  BY DEF UserReplicasInv
<1>1. /\ cached' = NothingCached
      /\ UNCHANGED <<row, locked, edit, lookup, topics, parked, replica, replicaCalls, followed>>
  BY DEF CachedProfileExpires
<1>2. NothingCached.rev = 0 /\ NothingCached \in [rev : Nat, raced : BOOLEAN]
  BY DEF NothingCached
<1>3. UserReplicasTypeOK'
  BY <1>t, <1>1, <1>2 DEF UserReplicasTypeOK
<1>4. RowKept' /\ ReplicaKept'
  BY <1>t, <1>1, RowStays, ReplicaStays
<1>5. CopiesKept'
  BY <1>t, <1>1, <1>2 DEF CopiesKept, OfRow, CacheStaleOnlyByRace, EditAt
<1>. QED  BY <1>3, <1>4, <1>5 DEF UserReplicasInv

-----------------------------------------------------------------------------
LEMMA ConsumeProfileEventKeeps ==
  ASSUME UserReplicasInv, NEW t \in Topics, NEW committed \in BOOLEAN,
         ConsumeProfileEvent(t, committed)
  PROVE  UserReplicasInv'
<1> DEFINE off == followed.astray \/ Crosses(t)
           h == Head(topics[t])
           new == IF committed THEN Tail(topics[t]) ELSE topics[t]
<1>t. UserReplicasTypeOK /\ RowKept /\ CopiesKept /\ ReplicaKept
  BY DEF UserReplicasInv
<1>1. /\ topics[t] # <<>> /\ replica' = Applied(t, h)
      /\ topics' = IF committed THEN [topics EXCEPT ![t] = Tail(@)] ELSE topics
      /\ followed' = [followed EXCEPT !.astray = off]
      /\ UNCHANGED <<row, locked, cached, edit, lookup, parked, replicaCalls>>
  BY DEF ConsumeProfileEvent
<1>2. topics[t] \in Seq(Nat) /\ h \in Nat /\ Tail(topics[t]) \in Seq(Nat)
  BY <1>t, <1>1, ReplicaTypes
<1>3. off \in BOOLEAN
  BY <1>t, ReplicaTypes DEF Crosses
<1>4. ~off => ~followed.astray /\ ~Crosses(t)
  OBVIOUS
<1>5. replica' \in Nat /\ (t = "updated" /\ replica = 0 => replica' = 0)
      /\ (~(t = "updated" /\ replica = 0) => replica' = h)
  BY <1>1, <1>2 DEF Applied
<1> HIDE DEF off
<1>6. /\ followed' \in FollowedProfile /\ followed'.published = followed.published
      /\ followed'.reviver = followed.reviver /\ followed'.erased = followed.erased
      /\ followed'.astray = off
  BY <1>t, <1>1, <1>3 DEF UserReplicasTypeOK, FollowedProfile
<1>7. /\ topics' \in [Topics -> Seq(Nat)] /\ topics'[t] = new
      /\ \A u \in Topics : u # t => topics'[u] = topics[u]
  BY <1>t, <1>1, <1>2 DEF UserReplicasTypeOK
<1>8. UserReplicasTypeOK'
  BY <1>t, <1>1, <1>5, <1>6, <1>7 DEF UserReplicasTypeOK
<1>9. RowKept' /\ CopiesKept'
  BY <1>t, <1>1, <1>6, RowStays, CopiesStay
<1>10. ReplicaKept'
  <2> SUFFICES ASSUME ~followed'.astray, parked' = {} PROVE MessagesKept'
    BY DEF ReplicaKept
  <2>1. MessagesKept /\ ~Crosses(t)
    BY <1>t, <1>1, <1>4, <1>6 DEF ReplicaKept
  <2> DEFINE P == followed.published
             s == topics[t]
             L == Len(s)
  <2>2. /\ L \in Nat /\ L # 0 /\ DOMAIN s = 1 .. L /\ h = s[1] /\ 1 \in DOMAIN s
        /\ \A i \in 1 .. L : s[i] \in Nat
        /\ Len(Tail(s)) = L - 1 /\ DOMAIN Tail(s) = 1 .. L - 1
        /\ \A i \in 1 .. L - 1 : Tail(s)[i] = s[i + 1]
        /\ (Tail(s) = <<>> <=> L = 1)
    BY <1>1, <1>2, FirstMessageGone
  <2>3. /\ P \in Nat /\ h # 0 /\ h <= P
        /\ \A i \in 1 .. L : s[i] # 0 /\ s[i] <= P
        /\ \A i, j \in 1 .. L : i < j => s[i] < s[j]
    BY <1>t, <2>1, <2>2, ReplicaTypes DEF MessagesKept
  <2>4. ASSUME NEW u \in Topics, u # t, topics[u] # <<>> PROVE h <= topics[u][1] /\ topics[u][1] \in Nat
    <3>1. topics[u] \in Seq(Nat) /\ Head(topics[u]) = topics[u][1] /\ topics[u][1] \in Nat
      BY <1>t, <2>4, ReplicaTypes
    <3>2. ~(Head(topics[u]) < h)
      BY <2>1, <2>4 DEF Crosses
    <3>. QED  BY <3>1, <3>2, <1>2
  \* The replica that is not there is made by the first message.
  <2>5. replica' = h
    <3>1. ASSUME t = "updated", replica = 0 PROVE FALSE
      <4>0. "registered" \in Topics /\ "registered" # t
        BY <3>1 DEF Topics
      <4>1. /\ topics["registered"] # <<>> /\ Head(topics["registered"]) = 1
            /\ \A i \in DOMAIN topics["updated"] : topics["updated"][i] # 1
        BY <2>1, <2>3, <3>1, <1>2 DEF MessagesKept
      <4>2. h # 1
        BY <4>1, <2>2, <3>1
      <4>3. ~(1 < h)
        BY <4>0, <4>1, <2>1 DEF Crosses
      <4>. QED  BY <4>2, <4>3, <2>3, <1>2
    <3>. QED  BY <3>1, <1>5
  <2> HIDE DEF P, s, L, h, new
  <2>6. \A i \in DOMAIN new : \E j \in 1 .. L : new[i] = s[j] /\ (committed => j = i + 1)
                                               /\ (~committed => j = i)
    <3>1. CASE committed
      <4>1. new = Tail(s)
        BY <3>1 DEF new, s
      <4>2. ASSUME NEW i \in DOMAIN new PROVE i + 1 \in 1 .. L /\ new[i] = s[i + 1]
        BY <4>1, <2>2
      <4>. QED  BY <3>1, <4>2
    <3>2. CASE ~committed
      BY <3>2, <2>2 DEF new, s
    <3>. QED  BY <3>1, <3>2
  <2>7. \A u \in Topics : \A i \in DOMAIN topics'[u] : topics'[u][i] # 0 /\ topics'[u][i] <= P
    <3> SUFFICES ASSUME NEW u \in Topics, NEW i \in DOMAIN topics'[u]
                 PROVE  topics'[u][i] # 0 /\ topics'[u][i] <= P
      OBVIOUS
    <3>1. CASE u = t
      BY <3>1, <1>7, <2>3, <2>6
    <3>2. CASE u # t
      BY <3>2, <1>7, <2>1 DEF MessagesKept, P
    <3>. QED  BY <3>1, <3>2
  <2>8. \A u \in Topics : \A i, j \in DOMAIN topics'[u] : i < j => topics'[u][i] < topics'[u][j]
    <3> SUFFICES ASSUME NEW u \in Topics, NEW i \in DOMAIN topics'[u],
                        NEW j \in DOMAIN topics'[u], i < j
                 PROVE  topics'[u][i] < topics'[u][j]
      OBVIOUS
    <3>1. CASE u = t
      <4>1. PICK a \in 1 .. L : /\ new[i] = s[a] /\ (committed => a = i + 1)
                                /\ (~committed => a = i)
        BY <3>1, <1>7, <2>6
      <4>2. PICK b \in 1 .. L : /\ new[j] = s[b] /\ (committed => b = j + 1)
                                /\ (~committed => b = j)
        BY <3>1, <1>7, <2>6
      <4>3. i \in Nat /\ j \in Nat
        <5>1. CASE committed
          <6>1. new = Tail(s)
            BY <5>1 DEF new, s
          <6>2. i \in 1 .. L - 1 /\ j \in 1 .. L - 1
            BY <6>1, <3>1, <1>7, <2>2
          <6>. QED  BY <6>2
        <5>2. CASE ~committed
          <6>1. new = s
            BY <5>2 DEF new, s
          <6>2. i \in 1 .. L /\ j \in 1 .. L
            BY <6>1, <3>1, <1>7, <2>2
          <6>. QED  BY <6>2
        <5>. QED  BY <5>1, <5>2
      <4>4. a < b
        BY <4>1, <4>2, <4>3
      <4>. QED  BY <3>1, <4>1, <4>2, <4>4, <1>7, <2>3
    <3>2. CASE u # t
      BY <3>2, <1>7, <2>1 DEF MessagesKept
    <3>. QED  BY <3>1, <3>2
  <2>9. ASSUME ~committed PROVE \A u \in Topics : topics'[u] = topics[u]
    BY <2>9, <1>1
  \* Who still waits, if the message was consumed.
  <2>10. ASSUME NEW u \in Topics, topics'[u] # <<>>
         PROVE  \E v \in Topics : \E i \in DOMAIN topics'[v] : topics'[v][i] = P
    <3>0. PICK v \in Topics : \E i \in DOMAIN topics[v] : topics[v][i] = P
      BY <1>1, <2>1 DEF MessagesKept, P
    <3>1. PICK i \in DOMAIN topics[v] : topics[v][i] = P
      BY <3>0
    <3>2. CASE ~committed
      BY <3>1, <3>2, <2>9
    <3>3. CASE committed /\ v # t
      BY <3>1, <3>3, <1>7
    <3>4. CASE committed /\ v = t /\ i # 1
      <4>1. i \in 1 .. L /\ i - 1 \in 1 .. L - 1 /\ (i - 1) + 1 = i
        BY <3>1, <3>4, <2>2 DEF s
      <4>2. new = Tail(s) /\ topics'[t] = new
        BY <3>4, <1>7 DEF new, s
      <4>3. i - 1 \in DOMAIN topics'[t] /\ topics'[t][i - 1] = P
        BY <4>1, <4>2, <3>1, <3>4, <2>2 DEF s
      <4>. QED  BY <4>3
    <3>5. CASE committed /\ v = t /\ i = 1
      <4>1. h = P
        BY <3>1, <3>5, <2>2 DEF s
      <4>2. CASE u = t
        <5>1. new = Tail(s) /\ Tail(s) # <<>>
          BY <4>2, <3>5, <2>10, <1>7 DEF new, s
        <5>2. 2 \in 1 .. L /\ 1 \in 1 .. L
          BY <5>1, <2>2
        <5>3. s[1] < s[2] /\ s[2] <= P /\ s[1] \in Nat /\ s[2] \in Nat
          BY <5>2, <2>2, <2>3
        <5>. QED  BY <4>1, <5>3, <2>2, <2>3
      <4>3. CASE u # t
        <5>1. topics[u] = topics'[u] /\ topics[u] # <<>>
          BY <4>3, <2>10, <1>7
        <5>2. h <= topics[u][1] /\ topics[u][1] \in Nat /\ 1 \in DOMAIN topics[u]
          <6>1. topics[u] \in Seq(Nat)
            BY <1>t, ReplicaTypes
          <6>2. 1 \in DOMAIN topics[u]
            BY <5>1, <6>1, FirstMessageGone
          <6>. QED  BY <4>3, <5>1, <6>2, <2>4
        <5>3. topics[u][1] <= P
          BY <5>2, <2>1 DEF MessagesKept, P
        <5>4. topics[u][1] = P
          BY <4>1, <5>2, <5>3, <2>3
        <5>. QED  BY <5>1, <5>2, <5>4
      <4>. QED  BY <4>2, <4>3
    <3>. QED  BY <3>2, <3>3, <3>4, <3>5
  <2>11. ASSUME \A u \in Topics : topics'[u] = <<>> PROVE replica' = P
    <3>0. PICK v \in Topics : \E i \in DOMAIN topics[v] : topics[v][i] = P
      BY <1>1, <2>1 DEF MessagesKept, P
    <3>1. PICK i \in DOMAIN topics[v] : topics[v][i] = P
      BY <3>0
    <3>2. topics[v] # <<>>
      BY <3>1
    <3>3. v = t /\ committed
      BY <3>2, <2>9, <2>11, <1>7
    <3>4. L = 1
      <4>1. topics'[t] = Tail(s)
        BY <3>3, <1>7 DEF new, s
      <4>. QED  BY <4>1, <2>11, <2>2
    <3>5. i = 1
      BY <3>1, <3>3, <3>4, <2>2 DEF s
    <3>. QED  BY <3>1, <3>3, <3>5, <2>2, <2>5 DEF s
  <2>12. replica' # 0
    BY <2>3, <2>5
  <2>. QED  BY <1>6, <2>7, <2>8, <2>10, <2>11, <2>12 DEF MessagesKept, P
<1>. QED  BY <1>8, <1>9, <1>10 DEF UserReplicasInv

\* Messages lost, parked or replayed: from then on the replica may be off.
LEMMA MisdeliveryKeeps ==
  ASSUME UserReplicasInv, topics' \in [Topics -> Seq(Nat)],
         parked' \in SUBSET (Topics \X Nat), replicaCalls' \in Nat,
         \/ followed' = [followed EXCEPT !.astray = TRUE]
         \/ followed' = followed /\ parked' # {},
         UNCHANGED <<row, locked, cached, edit, lookup, replica>>
  PROVE  UserReplicasInv'
<1>t. UserReplicasTypeOK /\ RowKept /\ CopiesKept /\ ReplicaKept
  BY DEF UserReplicasInv
<1>1. /\ followed' \in FollowedProfile /\ followed'.published = followed.published
      /\ followed'.reviver = followed.reviver /\ followed'.erased = followed.erased
      /\ followed'.astray \/ parked' # {}
  BY <1>t DEF UserReplicasTypeOK, FollowedProfile
<1>2. UserReplicasTypeOK'
  BY <1>t, <1>1 DEF UserReplicasTypeOK
<1>3. RowKept' /\ CopiesKept'
  BY <1>t, <1>1, RowStays, CopiesStay
<1>4. ReplicaKept'
  BY <1>1 DEF ReplicaKept
<1>. QED  BY <1>2, <1>3, <1>4 DEF UserReplicasInv

\* The invariant the property rests on.
THEOREM UserReplicasInvariance == UserReplicasSpec => []UserReplicasInv
<1>1. UserReplicasInit => UserReplicasInv
  <2> SUFFICES ASSUME UserReplicasInit PROVE UserReplicasInv
    OBVIOUS
  <2>1. /\ row = [rev |-> 0, deleted |-> FALSE] /\ locked = FALSE /\ cached = NothingCached
        /\ edit = [e \in Edits |-> NoEdit] /\ lookup = [l \in Lookups |-> NoLookup]
        /\ topics = [t \in Topics |-> <<>>] /\ parked = {} /\ replica = 0 /\ replicaCalls = 0
        /\ followed = [published |-> 0, erased |-> 0, reviver |-> 0, astray |-> FALSE]
    BY DEF UserReplicasInit
  <2>2. /\ NoEdit \in ProfileEdit /\ NoEdit.pc = "none"
        /\ NothingCached.rev = 0 /\ NothingCached \in [rev : Nat, raced : BOOLEAN]
    BY DEF NoEdit, ProfileEdit, NothingCached
  <2>3. /\ followed \in FollowedProfile /\ followed.published = 0 /\ followed.erased = 0
        /\ row.rev = 0 /\ ~row.deleted /\ row \in [rev : Nat, deleted : BOOLEAN]
    BY <2>1 DEF FollowedProfile
  <2>4. UserReplicasTypeOK
    <3>1. topics \in [Topics -> Seq(Nat)]
      BY <2>1
    <3>2. edit \in [Edits -> ProfileEdit] /\ lookup \in [Lookups -> ProfileLookup]
      BY <2>1, <2>2, NoLookupTyped
    <3>. QED  BY <2>1, <2>2, <2>3, <3>1, <3>2 DEF UserReplicasTypeOK
  <2>5. RowKept
    BY <2>1, <2>2, <2>3 DEF RowKept, ErasureUndoneOnlyByOverlap
  <2>6. CopiesKept
    BY <2>1, <2>2, NoLookupTyped DEF CopiesKept, CacheStaleOnlyByRace, EditAt
  <2>7. \A t \in Topics : topics[t] = <<>>
    BY <2>1
  <2>8. ReplicaKept
    BY <2>1, <2>3, <2>7 DEF ReplicaKept, MessagesKept
  <2>. QED  BY <2>4, <2>5, <2>6, <2>8 DEF UserReplicasInv
<1>2. UserReplicasInv /\ [UserReplicasNext]_replicaVars => UserReplicasInv'
  <2> SUFFICES ASSUME UserReplicasInv, [UserReplicasNext]_replicaVars PROVE UserReplicasInv'
    OBVIOUS
  <2>t. UserReplicasTypeOK
    BY DEF UserReplicasInv
  <2>1. ASSUME NEW e \in Edits, NEW done \in BOOLEAN, DeleteCachedProfile(e, done)
        PROVE  UserReplicasInv'
    <3>1. /\ EditTo(e, "commit") /\ edit[e].pc = "uncache" /\ cached' = Uncached(done)
          /\ locked' \in BOOLEAN
          /\ UNCHANGED <<row, lookup, topics, parked, replica, replicaCalls, followed>>
      BY <2>t, <2>1 DEF DeleteCachedProfile, EditAt, UserReplicasTypeOK
    <3>. QED  BY <3>1, UncacheKeeps
  <2>2. ASSUME NEW e \in Edits, NEW done \in BOOLEAN, DeleteCachedAfterSave(e, done)
        PROVE  UserReplicasInv'
    <3>1. /\ EditTo(e, "none") /\ edit[e].pc = "uncache_saved" /\ cached' = Uncached(done)
          /\ locked' \in BOOLEAN
          /\ UNCHANGED <<row, lookup, topics, parked, replica, replicaCalls, followed>>
      BY <2>t, <2>2 DEF DeleteCachedAfterSave, EditAt, UserReplicasTypeOK
    <3>. QED  BY <3>1, UncacheKeeps
  <2>3. ASSUME NEW t \in Topics, LoseProfileEvent(t) PROVE UserReplicasInv'
    <3>1. /\ topics' = [topics EXCEPT ![t] = Tail(topics[t])] /\ topics[t] # <<>>
          /\ followed' = [followed EXCEPT !.astray = TRUE]
          /\ replicaCalls' \in Nat /\ parked' \in SUBSET (Topics \X Nat)
          /\ UNCHANGED <<row, locked, cached, edit, lookup, replica>>
      <4>1. replicaCalls \in Nat /\ parked \in SUBSET (Topics \X Nat)
        BY <2>t DEF UserReplicasTypeOK
      <4>. QED  BY <2>3, <4>1 DEF LoseProfileEvent, AnotherCall
    <3>2. Tail(topics[t]) \in Seq(Nat)
      BY <2>t, <3>1, ReplicaTypes
    <3>3. topics' \in [Topics -> Seq(Nat)]
      BY <2>t, <3>1, <3>2 DEF UserReplicasTypeOK
    <3>. QED  BY <3>1, <3>3, MisdeliveryKeeps
  <2>4. ASSUME NEW t \in Topics, ParkProfileEvent(t) PROVE UserReplicasInv'
    <3>1. /\ topics' = [topics EXCEPT ![t] = Tail(topics[t])] /\ topics[t] # <<>>
          /\ followed' = followed /\ parked' = parked \cup {<<t, Head(topics[t])>>}
          /\ replicaCalls' \in Nat
          /\ UNCHANGED <<row, locked, cached, edit, lookup, replica>>
      BY <2>t, <2>4, ReplicaTypes DEF ParkProfileEvent, AnotherCall
    <3>2. Tail(topics[t]) \in Seq(Nat) /\ Head(topics[t]) \in Nat
      <4>1. topics[t] \in Seq(Nat) /\ topics[t] # <<>>
        BY <2>t, <3>1, ReplicaTypes
      <4>2. /\ Tail(topics[t]) \in Seq(Nat) /\ Head(topics[t]) = topics[t][1]
            /\ 1 \in DOMAIN topics[t] /\ \A i \in 1 .. Len(topics[t]) : topics[t][i] \in Nat
            /\ DOMAIN topics[t] = 1 .. Len(topics[t])
        BY <4>1, FirstMessageGone
      <4>. QED  BY <4>2
    <3>3. topics' \in [Topics -> Seq(Nat)]
      BY <2>t, <3>1, <3>2 DEF UserReplicasTypeOK
    <3>4. parked' \in SUBSET (Topics \X Nat) /\ parked' # {}
      <4>1. parked \in SUBSET (Topics \X Nat)
        BY <2>t DEF UserReplicasTypeOK
      <4>2. <<t, Head(topics[t])>> \in Topics \X Nat
        BY <3>2
      <4>. QED  BY <3>1, <4>1, <4>2
    <3>. QED  BY <3>1, <3>3, <3>4, MisdeliveryKeeps
  <2>5. ASSUME NEW m \in parked, ReplayProfileEvent(m) PROVE UserReplicasInv'
    <3>1. /\ parked' = parked \ {m}
          /\ topics' = [topics EXCEPT ![m[1]] = Append(topics[m[1]], m[2])]
          /\ followed' = [followed EXCEPT !.astray = TRUE]
          /\ UNCHANGED <<row, locked, cached, edit, lookup, replica, replicaCalls>>
      BY <2>5 DEF ReplayProfileEvent
    <3>2. m[1] \in Topics /\ m[2] \in Nat
      BY <2>t DEF UserReplicasTypeOK
    <3>3. Append(topics[m[1]], m[2]) \in Seq(Nat)
      BY <2>t, <3>2, ReplicaTypes
    <3>4. topics' \in [Topics -> Seq(Nat)]
      BY <2>t, <3>1, <3>2, <3>3 DEF UserReplicasTypeOK
    <3>5. parked' \in SUBSET (Topics \X Nat) /\ replicaCalls' \in Nat
      BY <2>t, <3>1 DEF UserReplicasTypeOK
    <3>. QED  BY <3>1, <3>4, <3>5, MisdeliveryKeeps
  <2>6. CASE UNCHANGED replicaVars
    BY <2>6 DEF replicaVars, UserReplicasInv, UserReplicasTypeOK, RowKept,
       ErasureUndoneOnlyByOverlap, CopiesKept, OfRow, CacheStaleOnlyByRace, EditAt,
       ReplicaKept, MessagesKept
  <2>. QED
    BY <2>1, <2>2, <2>3, <2>4, <2>5, <2>6, LoadProfileKeeps, SaveInTransactionKeeps,
       CommitProfileKeeps, AnonymizeKeeps, EditFailsKeeps, StartLookupKeeps, FillCacheKeeps,
       UpsertLookedUpKeeps, LookupFailsKeeps, CachedProfileExpiresKeeps,
       ConsumeProfileEventKeeps
       DEF UserReplicasNext
<1>. QED  BY <1>1, <1>2, PTL DEF UserReplicasSpec

\* What the cached copy, the replica and an anonymized row show is explained, for any
\* number of writers, readers and messages.
THEOREM CopiesAreExplained == UserReplicasSpec => []CopiesExplained
BY UserReplicasInvariance, UserReplicasInvImplies, PTL

-----------------------------------------------------------------------------
(***************************************************************************)
(* The settings of a user.  Fields shown after k updates are each that of  *)
(* the last update that set it, or an update of an older row came later;   *)
(* what a handler read is so of the updates there were then, and is the    *)
(* row as long as there are no more.                                       *)
(***************************************************************************)

\* Update n is the last of the first k that set field f; 0 stands for none.
IsLast(n, f, k, ups) ==
  /\ n = 0 \/ (n \in 1 .. k /\ f \in ups[n].sets)
  /\ \A i \in 1 .. k : f \in ups[i].sets => i <= n

Shows(fields, k, ups) ==
  \A f \in Fields, n \in Nat : IsLast(n, f, k, ups) =>
    fields[f] = n \/ \E j \in 1 .. k : n < j /\ ups[j].read < n

\* What a handler's copy of the row is worth.
ReadOnce(q, found, ups) ==
  /\ q.read <= Len(ups)
  /\ Shows(q.fields, q.read, ups)
  /\ q.read = Len(ups) => q.fields = found.fields

CopyWorth(c, found, clearing) ==
  c.held => c.fields = found.fields \/ c.read < c.stored \/ c.missed \/ clearing

Clearing == \E a \in Accesses : AccessAt(a, "delete_copy")

SettingsInv ==
  /\ UserSettingsTypeOK
  /\ Shows(settings.fields, Len(updates), updates)
  /\ \A a \in Accesses : access[a].pc # "none" => ReadOnce(access[a], settings, updates)
  /\ CopyWorth(copied, settings, Clearing)

LEMMA LargestOf ==
  ASSUME NEW N \in Nat, NEW S \in SUBSET (0 .. N), S # {}
  PROVE  Max(S) \in S /\ \A k \in S : k <= Max(S)
<1> DEFINE T == {N - k : k \in S}
<1>1. T \in SUBSET Nat /\ T # {}
  <2>1. \A k \in S : k \in Nat /\ k <= N /\ N - k \in Nat
    OBVIOUS
  <2>2. PICK k \in S : TRUE
    OBVIOUS
  <2>3. N - k \in T
    OBVIOUS
  <2>. QED  BY <2>1, <2>3
<1>2. PICK m \in T : \A k \in T : m <= k
  <2>1. \A x, y \in Nat : x < y => <<x, y>> \in OpToRel(<, Nat)
    BY SMT DEF OpToRel
  <2>2. PICK m \in T : \A k \in T : ~ (<<k, m>> \in OpToRel(<, Nat))
    BY <1>1, NatLessThanWellFounded, WFMin, T \subseteq Nat, Zenon
  <2>3. \A k \in T : ~ (k < m)
    BY <1>1, <2>1, <2>2, Zenon
  <2>4. \A k \in T : m \in Nat /\ k \in Nat
    BY <1>1, Zenon
  <2>5. \A k \in T : m <= k
    BY <2>3, <2>4, SMT
  <2>. QED  BY <2>5, Zenon
<1>3. PICK x \in S : m = N - x
  OBVIOUS
<1>4. ASSUME NEW y \in S PROVE x >= y
  <2>1. N - y \in T
    OBVIOUS
  <2>2. m <= N - y
    BY <1>2, <2>1
  <2>. QED  BY <1>3, <2>2
<1>5. \E z \in S : \A y \in S : z >= y
  BY <1>4
<1>6. Max(S) \in S /\ \A y \in S : Max(S) >= y
  BY <1>5, Zenon DEF Max
<1>. QED  BY <1>6

LEMMA LastIsLast ==
  ASSUME UserSettingsTypeOK, NEW f \in Fields
  PROVE  LastUpdateOf(f) \in Nat /\ IsLast(LastUpdateOf(f), f, Len(updates), updates)
<1> DEFINE S == {0} \cup {i \in DOMAIN updates : f \in updates[i].sets}
<1>1. Len(updates) \in Nat /\ DOMAIN updates = 1 .. Len(updates)
  BY DEF UserSettingsTypeOK
<1>2. S \in SUBSET (0 .. Len(updates)) /\ S # {}
  BY <1>1
<1>3. Max(S) \in S /\ \A k \in S : k <= Max(S)
  BY <1>1, <1>2, LargestOf
<1>4. LastUpdateOf(f) = Max(S)
  BY DEF LastUpdateOf
<1> DEFINE n == Max(S)
<1>5. n \in Nat /\ (n = 0 \/ (n \in 1 .. Len(updates) /\ f \in updates[n].sets))
  BY <1>1, <1>2, <1>3
<1>6. \A i \in 1 .. Len(updates) : f \in updates[i].sets => i <= n
  BY <1>1, <1>3
<1> HIDE DEF n, S
<1>. QED  BY <1>4, <1>5, <1>6 DEF IsLast, n

LEMMA SettingsInvImplies == SettingsInv => SettingsExplained
<1> SUFFICES ASSUME SettingsInv PROVE SettingsExplained
  OBVIOUS
<1>1. ASSUME NEW f \in Fields
      PROVE  \/ settings.fields[f] = LastUpdateOf(f)
             \/ \E j \in DOMAIN updates : j > LastUpdateOf(f) /\ updates[j].read < LastUpdateOf(f)
  <2>1. LastUpdateOf(f) \in Nat /\ IsLast(LastUpdateOf(f), f, Len(updates), updates)
    BY LastIsLast DEF SettingsInv
  <2>2. Len(updates) \in Nat /\ DOMAIN updates = 1 .. Len(updates)
    BY DEF SettingsInv, UserSettingsTypeOK
  <2>3. \/ settings.fields[f] = LastUpdateOf(f)
        \/ \E j \in 1 .. Len(updates) : LastUpdateOf(f) < j /\ updates[j].read < LastUpdateOf(f)
    BY <2>1, Zenon DEF SettingsInv, Shows
  <2>. QED  BY <2>1, <2>2, <2>3
<1>2. copied.held /\ (\A a \in Accesses : ~AccessAt(a, "delete_copy")) =>
        copied.fields = settings.fields \/ copied.read < copied.stored \/ copied.missed
  BY DEF SettingsInv, CopyWorth, Clearing
<1>. QED  BY <1>1, <1>2 DEF SettingsExplained

\* One more update changes nothing for the updates before it.
LEMMA ShowsStays ==
  ASSUME NEW ups \in Seq(SettingsUpdate), NEW u \in SettingsUpdate, NEW fields,
         NEW k \in Nat, k <= Len(ups), Shows(fields, k, ups)
  PROVE  Shows(fields, k, Append(ups, u))
<1>1. \A i \in 1 .. k : Append(ups, u)[i] = ups[i]
  OBVIOUS
<1>2. \A f \in Fields, n \in Nat : IsLast(n, f, k, Append(ups, u)) => IsLast(n, f, k, ups)
  BY <1>1 DEF IsLast
<1>. QED  BY <1>1, <1>2 DEF Shows

\* The row as an update leaves it.
LEMMA ShowsNext ==
  ASSUME NEW ups \in Seq(SettingsUpdate), NEW u \in SettingsUpdate,
         NEW old \in [Fields -> Nat], u.read <= Len(ups), Shows(old, u.read, ups),
         NEW new \in [Fields -> Nat],
         \A f \in Fields : new[f] = IF f \in u.sets THEN Len(ups) + 1 ELSE old[f]
  PROVE  Shows(new, Len(ups) + 1, Append(ups, u))
<1> DEFINE L == Len(ups)
           more == Append(ups, u)
<1>1. /\ L \in Nat /\ u.read \in Nat /\ more[L + 1] = u
      /\ \A i \in 1 .. L : more[i] = ups[i] /\ i \in 1 .. L + 1 /\ more[i].read \in Nat
      /\ L + 1 \in 1 .. L + 1
  <2>1. L \in Nat /\ u.read \in Nat /\ more[L + 1] = u /\ DOMAIN ups = 1 .. L
    BY DEF SettingsUpdate
  <2>2. ASSUME NEW i \in 1 .. L
        PROVE  more[i] = ups[i] /\ i \in 1 .. L + 1 /\ more[i].read \in Nat
    <3>1. ups[i] \in SettingsUpdate /\ more[i] = ups[i] /\ i \in 1 .. L + 1
      BY <2>1
    <3>. QED  BY <3>1 DEF SettingsUpdate
  <2>. QED  BY <2>1, <2>2
<1> HIDE DEF L, more
<1> SUFFICES ASSUME NEW f \in Fields, NEW n \in Nat, IsLast(n, f, L + 1, more)
             PROVE  new[f] = n \/ \E j \in 1 .. L + 1 : n < j /\ more[j].read < n
  BY DEF Shows, L, more
<1>2. CASE f \in u.sets
  <2>1. L + 1 <= n
    BY <1>1, <1>2 DEF IsLast
  <2>2. n = L + 1
    BY <1>1, <2>1 DEF IsLast
  <2>. QED  BY <1>2, <2>2 DEF L
<1>3. CASE f \notin u.sets
  <2>1. new[f] = old[f]
    BY <1>3
  <2>2. n # L + 1 /\ n <= L
    <3>1. n = 0 \/ (n \in 1 .. L + 1 /\ f \in more[n].sets)
      BY DEF IsLast
    <3>2. n # L + 1
      BY <1>1, <1>3, <3>1
    <3>. QED  BY <1>1, <3>1, <3>2
  <2>3. CASE u.read < n
    BY <1>1, <2>2, <2>3
  <2>4. CASE n <= u.read
    <3>1. u.read <= L
      BY DEF L
    <3>2. \A i \in 1 .. u.read : i \in 1 .. L /\ more[i] = ups[i] /\ i \in 1 .. L + 1
      BY <1>1, <3>1
    <3>3. IsLast(n, f, u.read, ups)
      <4>1. n = 0 \/ (n \in 1 .. L + 1 /\ f \in more[n].sets)
        BY DEF IsLast
      <4>2. n # 0 => n \in 1 .. u.read
        BY <1>1, <2>4, <4>1
      <4>3. n = 0 \/ (n \in 1 .. u.read /\ f \in ups[n].sets)
        BY <3>2, <4>1, <4>2
      <4>4. \A i \in 1 .. u.read : f \in ups[i].sets => i <= n
        BY <3>2 DEF IsLast
      <4>. QED  BY <4>3, <4>4 DEF IsLast
    <3>4. old[f] = n \/ \E j \in 1 .. u.read : n < j /\ ups[j].read < n
      BY <3>3 DEF Shows
    <3>. QED  BY <2>1, <3>2, <3>4
  <2>. QED  BY <1>1, <2>3, <2>4
<1>. QED  BY <1>2, <1>3

-----------------------------------------------------------------------------
\* A handler that begins with what it read, or goes on with it, or ends.
LEMMA AccessMoves ==
  ASSUME SettingsInv, NEW a \in Accesses, NEW q \in SettingsAccess,
         access' = [access EXCEPT ![a] = q],
         q.pc # "none" => ReadOnce(q, settings, updates)
  PROVE  /\ access' \in [Accesses -> SettingsAccess]
         /\ \A b \in Accesses : access'[b] = IF b = a THEN q ELSE access[b]
         /\ \A b \in Accesses : access'[b].pc # "none" => ReadOnce(access'[b], settings, updates)
BY DEF SettingsInv, UserSettingsTypeOK

LEMMA NoAccessTyped == NoAccess \in SettingsAccess /\ NoAccess.pc = "none"
  /\ NotCopied \in SettingsCopy /\ ~NotCopied.held
BY DEF NoAccess, SettingsAccess, Defaults, NotCopied, SettingsCopy

LEMMA SettingsTypes ==
  ASSUME SettingsInv
  PROVE  /\ settings.there \in BOOLEAN /\ settings.fields \in [Fields -> Nat]
         /\ settings = [there |-> settings.there, fields |-> settings.fields]
         /\ \A a \in Accesses : /\ access[a] \in SettingsAccess /\ access[a].read \in Nat
                                /\ access[a].fields \in [Fields -> Nat]
                                /\ access[a].sets \in SUBSET Fields
         /\ updates \in Seq(SettingsUpdate) /\ Len(updates) \in Nat
         /\ copied \in SettingsCopy /\ copied.held \in BOOLEAN /\ copied.missed \in BOOLEAN
BY DEF SettingsInv, UserSettingsTypeOK, SettingsRow, SettingsCopy, SettingsAccess

\* Who goes to step pc, and what else it keeps.
LEMMA AccessToStep ==
  ASSUME SettingsInv, NEW a \in Accesses,
         NEW pc \in {"none", "insert", "fill", "save", "delete_copy"}, AccessTo(a, pc)
  PROVE  \E q \in SettingsAccess :
           /\ access' = [access EXCEPT ![a] = q] /\ q.pc = pc
           /\ q.fields = access[a].fields /\ q.read = access[a].read
<1> DEFINE q == [access[a] EXCEPT !.pc = pc]
<1>1. q \in SettingsAccess /\ q.pc = pc /\ q.fields = access[a].fields /\ q.read = access[a].read
  BY SettingsTypes DEF SettingsAccess
<1>2. access' = [access EXCEPT ![a] = q]
  BY DEF AccessTo
<1>. QED  BY <1>1, <1>2

\* A step that leaves the row's fields and the updates alone.
LEMMA SettingsStay ==
  ASSUME SettingsInv, NEW a \in Accesses, NEW q \in SettingsAccess,
         access' = [access EXCEPT ![a] = q],
         q.pc # "none" => ReadOnce(q, settings, updates),
         UNCHANGED <<settingKind, updates>>, settings' \in SettingsRow,
         settings'.fields = settings.fields, copied' \in SettingsCopy,
         CopyWorth(copied', settings, \E b \in Accesses : access'[b].pc = "delete_copy")
  PROVE  SettingsInv'
<1>1. /\ access' \in [Accesses -> SettingsAccess]
      /\ \A b \in Accesses : access'[b].pc # "none" => ReadOnce(access'[b], settings, updates)
  BY AccessMoves
<1>2. UserSettingsTypeOK'
  BY <1>1 DEF SettingsInv, UserSettingsTypeOK
<1>3. Shows(settings'.fields, Len(updates'), updates')
  BY DEF SettingsInv
<1>4. \A b \in Accesses : access'[b].pc # "none" => ReadOnce(access'[b], settings', updates')
  BY <1>1 DEF ReadOnce
<1>5. CopyWorth(copied, settings, Clearing)'
  BY DEF CopyWorth, Clearing, AccessAt
<1>. QED  BY <1>2, <1>3, <1>4, <1>5 DEF SettingsInv

\* The copy is as good as before if it stays and nobody stops clearing it.
LEMMA CopyStays ==
  ASSUME SettingsInv, NEW a \in Accesses, NEW q \in SettingsAccess,
         access' = [access EXCEPT ![a] = q], UNCHANGED copied,
         access[a].pc = "delete_copy" => q.pc = "delete_copy"
  PROVE  CopyWorth(copied', settings, \E b \in Accesses : access'[b].pc = "delete_copy")
BY DEF SettingsInv, UserSettingsTypeOK, CopyWorth, Clearing, AccessAt

LEMMA ReadRowKeeps ==
  ASSUME SettingsInv, NEW a \in Accesses, NEW does \in {"get", "get_many", "update"},
         NEW sets \in SUBSET Fields, NEW pc \in {"insert", "fill", "save"},
         ReadRow(a, does, sets, pc)
  PROVE  SettingsInv'
<1> DEFINE q == [pc |-> pc, does |-> does, there |-> settings.there,
                 fields |-> settings.fields, sets |-> sets, read |-> Len(updates)]
<1>1. /\ access[a].pc = "none" /\ access' = [access EXCEPT ![a] = q]
      /\ UNCHANGED <<settingKind, settings, copied, updates>>
  BY DEF ReadRow, AccessAt
<1>2. q \in SettingsAccess /\ q.read = Len(updates) /\ q.fields = settings.fields /\ q.pc = pc
  BY SettingsTypes DEF SettingsAccess
<1> HIDE DEF q
<1>3. ReadOnce(q, settings, updates)
  BY <1>2, SettingsTypes DEF ReadOnce, SettingsInv
<1>4. CopyWorth(copied', settings, \E b \in Accesses : access'[b].pc = "delete_copy")
  BY <1>1, <1>2, CopyStays
<1>5. settings \in SettingsRow /\ copied \in SettingsCopy
  BY DEF SettingsInv, UserSettingsTypeOK
<1>. QED  BY <1>1, <1>2, <1>3, <1>4, <1>5, SettingsStay

LEMMA InsertDefaultsKeeps ==
  ASSUME SettingsInv, NEW a \in Accesses, InsertDefaults(a)
  PROVE  SettingsInv'
<1>1. /\ access[a].pc = "insert" /\ settings' = [settings EXCEPT !.there = TRUE]
      /\ AccessEnds(a) \/ AccessTo(a, "fill")
      /\ UNCHANGED <<settingKind, copied, updates>>
  BY DEF InsertDefaults, AccessAt
<1>2. settings' \in SettingsRow /\ settings'.fields = settings.fields
  BY <1>1, SettingsTypes DEF SettingsRow
<1>3. \E q \in SettingsAccess :
        /\ access' = [access EXCEPT ![a] = q]
        /\ q.pc = "none" \/ (q.pc = "fill" /\ q.fields = access[a].fields /\ q.read = access[a].read)
  <2>1. CASE AccessEnds(a)
    BY <2>1, NoAccessTyped DEF AccessEnds
  <2>2. CASE AccessTo(a, "fill")
    BY <2>2, AccessToStep
  <2>. QED  BY <1>1, <2>1, <2>2
<1>4. PICK q \in SettingsAccess :
        /\ access' = [access EXCEPT ![a] = q]
        /\ q.pc = "none" \/ (q.pc = "fill" /\ q.fields = access[a].fields /\ q.read = access[a].read)
  BY <1>3
<1>5. q.pc # "none" => ReadOnce(q, settings, updates)
  BY <1>1, <1>4 DEF SettingsInv, ReadOnce
<1>6. CopyWorth(copied', settings, \E b \in Accesses : access'[b].pc = "delete_copy")
  BY <1>1, <1>4, CopyStays
<1>7. copied' \in SettingsCopy
  BY <1>1 DEF SettingsInv, UserSettingsTypeOK
<1>. QED  BY <1>1, <1>2, <1>4, <1>5, <1>6, <1>7, SettingsStay

LEMMA SaveSettingsKeeps ==
  ASSUME SettingsInv, NEW a \in Accesses, SaveSettings(a)
  PROVE  SettingsInv'
<1> DEFINE save == Len(updates) + 1
           value == [f \in Fields |-> IF f \in access[a].sets THEN save ELSE access[a].fields[f]]
           u == [read |-> access[a].read, sets |-> access[a].sets]
<1>1. access[a].pc = "save" /\ UNCHANGED <<settingKind, copied>>
  BY DEF SaveSettings, AccessAt
<1>2. CASE AccessEnds(a) /\ UNCHANGED <<settings, updates>>
  <2>1. access' = [access EXCEPT ![a] = NoAccess]
    BY <1>2 DEF AccessEnds
  <2>2. CopyWorth(copied', settings, \E b \in Accesses : access'[b].pc = "delete_copy")
    BY <1>1, <2>1, NoAccessTyped, CopyStays
  <2>3. settings \in SettingsRow /\ copied \in SettingsCopy
    BY DEF SettingsInv, UserSettingsTypeOK
  <2>. QED  BY <1>1, <1>2, <2>1, <2>2, <2>3, NoAccessTyped, SettingsStay
<1>3. CASE /\ settings' = [there |-> TRUE, fields |-> value]
           /\ updates' = Append(updates, u) /\ AccessTo(a, "delete_copy")
  <2>1. PICK q \in SettingsAccess :
          /\ access' = [access EXCEPT ![a] = q] /\ q.pc = "delete_copy"
          /\ q.fields = access[a].fields /\ q.read = access[a].read
    BY <1>3, AccessToStep
  <2>2. ReadOnce(access[a], settings, updates)
    BY <1>1 DEF SettingsInv
  <2>3. /\ u \in SettingsUpdate /\ u.read = access[a].read /\ u.sets = access[a].sets
        /\ value \in [Fields -> Nat] /\ save \in Nat
        /\ \A f \in Fields : value[f] = IF f \in u.sets THEN save ELSE access[a].fields[f]
    BY SettingsTypes DEF SettingsUpdate
  <2>4. settings' \in SettingsRow /\ settings'.fields = value
    BY <1>3, <2>3 DEF SettingsRow
  <2> HIDE DEF u, value
  <2>5. /\ updates \in Seq(SettingsUpdate) /\ updates' \in Seq(SettingsUpdate)
        /\ Len(updates') = save /\ Len(updates) \in Nat
    BY <1>3, <2>3, SettingsTypes
  <2>6. Shows(settings'.fields, Len(updates'), updates')
    <3>1. u.read <= Len(updates) /\ Shows(access[a].fields, u.read, updates)
      BY <2>2, <2>3 DEF ReadOnce
    <3>2. access[a].fields \in [Fields -> Nat]
      BY SettingsTypes
    <3>3. Shows(value, Len(updates) + 1, Append(updates, u))
      BY <2>3, <2>5, <3>1, <3>2, ShowsNext
    <3>. QED  BY <1>3, <2>4, <2>5, <3>3
  <2>7. \A b \in Accesses : access'[b] = IF b = a THEN q ELSE access[b]
    BY <2>1 DEF SettingsInv, UserSettingsTypeOK
  <2>8. ASSUME NEW b \in Accesses, access'[b].pc # "none"
        PROVE  ReadOnce(access'[b], settings', updates')
    <3>1. /\ access'[b].read = access[b].read /\ access'[b].fields = access[b].fields
          /\ access[b].pc # "none" /\ access[b].read \in Nat
      BY <1>1, <2>1, <2>7, <2>8, SettingsTypes
    <3>2. ReadOnce(access[b], settings, updates)
      BY <3>1 DEF SettingsInv
    <3>3. Shows(access[b].fields, access[b].read, updates')
      BY <1>3, <2>3, <2>5, <3>1, <3>2, ShowsStays DEF ReadOnce
    <3>. QED  BY <2>5, <3>1, <3>2, <3>3 DEF ReadOnce
  <2>9. access' \in [Accesses -> SettingsAccess]
    BY <2>1 DEF SettingsInv, UserSettingsTypeOK
  <2>10. UserSettingsTypeOK'
    BY <1>1, <2>4, <2>5, <2>9 DEF SettingsInv, UserSettingsTypeOK
  <2>11. access'[a].pc = "delete_copy"
    BY <2>1, <2>7
  <2>12. CopyWorth(copied, settings, Clearing)'
    BY <2>11 DEF CopyWorth, Clearing, AccessAt
  <2>. QED  BY <2>6, <2>8, <2>10, <2>12 DEF SettingsInv
<1>. QED  BY <1>2, <1>3 DEF SaveSettings

\* The invariant the property rests on.
THEOREM SettingsInvariance == UserSettingsSpec => []SettingsInv
<1>1. UserSettingsInit => SettingsInv
  <2> SUFFICES ASSUME UserSettingsInit PROVE SettingsInv
    OBVIOUS
  <2>1. /\ settingKind \in {"preferences", "status"} /\ copied = NotCopied
        /\ settings = [there |-> FALSE, fields |-> Defaults]
        /\ access = [a \in Accesses |-> NoAccess] /\ updates = <<>>
    BY DEF UserSettingsInit
  <2>2. Defaults \in [Fields -> Nat] /\ \A f \in Fields : Defaults[f] = 0
    BY DEF Defaults
  <2>3. settings \in SettingsRow /\ settings.fields = Defaults
    BY <2>1, <2>2 DEF SettingsRow
  <2>4. UserSettingsTypeOK
    BY <2>1, <2>3, NoAccessTyped DEF UserSettingsTypeOK
  <2>5. Len(updates) = 0
    BY <2>1
  <2>6. Shows(settings.fields, Len(updates), updates)
    BY <2>2, <2>3, <2>5 DEF Shows, IsLast
  <2>. QED  BY <2>1, <2>4, <2>6, NoAccessTyped DEF SettingsInv, CopyWorth
<1>2. SettingsInv /\ [UserSettingsNext]_settingVars => SettingsInv'
  <2> SUFFICES ASSUME SettingsInv, [UserSettingsNext]_settingVars PROVE SettingsInv'
    OBVIOUS
  <2>t. settings \in SettingsRow /\ copied \in SettingsCopy
    BY DEF SettingsInv, UserSettingsTypeOK
  <2>1. ASSUME NEW a \in Accesses, GetSettings(a) PROVE SettingsInv'
    BY <2>1, ReadRowKeeps DEF GetSettings
  <2>2. ASSUME NEW a \in Accesses, GetStatusesByUserIds(a) PROVE SettingsInv'
    BY <2>2, ReadRowKeeps DEF GetStatusesByUserIds
  <2>3. ASSUME NEW a \in Accesses, NEW sets \in SUBSET Fields, LoadSettings(a, sets)
        PROVE  SettingsInv'
    BY <2>3, ReadRowKeeps DEF LoadSettings
  <2>4. ASSUME NEW a \in Accesses, InsertDefaults(a) PROVE SettingsInv'
    BY <2>4, InsertDefaultsKeeps
  <2>5. ASSUME NEW a \in Accesses, FillCopy(a) PROVE SettingsInv'
    <3>1. /\ access[a].pc = "fill" /\ access' = [access EXCEPT ![a] = NoAccess]
          /\ copied' = [held |-> TRUE, fields |-> access[a].fields, read |-> access[a].read,
                        stored |-> Len(updates), missed |-> FALSE]
          /\ UNCHANGED <<settingKind, settings, updates>>
      BY <2>5 DEF FillCopy, AccessAt, AccessEnds
    <3>2. /\ copied' \in SettingsCopy /\ copied'.fields = access[a].fields
          /\ copied'.read = access[a].read /\ copied'.stored = Len(updates)
      BY <3>1, SettingsTypes DEF SettingsCopy
    <3>3. ReadOnce(access[a], settings, updates)
      BY <3>1 DEF SettingsInv
    <3>4. CopyWorth(copied', settings, \E b \in Accesses : access'[b].pc = "delete_copy")
      BY <3>2, <3>3, SettingsTypes DEF CopyWorth, ReadOnce
    <3>. QED  BY <2>t, <3>1, <3>2, <3>4, NoAccessTyped, SettingsStay
  <2>6. ASSUME NEW a \in Accesses, SaveSettings(a) PROVE SettingsInv'
    BY <2>6, SaveSettingsKeeps
  <2>7. ASSUME NEW a \in Accesses, AccessFails(a) PROVE SettingsInv'
    <3> DEFINE c == [copied EXCEPT !.missed = copied.missed \/ (copied.held /\ AccessAt(a, "delete_copy"))]
    <3>1. /\ access' = [access EXCEPT ![a] = NoAccess] /\ copied' = c
          /\ UNCHANGED <<settingKind, settings, updates>>
      BY <2>7 DEF AccessFails, AccessEnds
    <3>2. /\ c \in SettingsCopy /\ c.held = copied.held /\ c.fields = copied.fields
          /\ c.read = copied.read /\ c.stored = copied.stored
          /\ c.missed = (copied.missed \/ (copied.held /\ AccessAt(a, "delete_copy")))
      BY <2>t DEF SettingsCopy, AccessAt
    <3> HIDE DEF c
    <3>3. \A b \in Accesses : b # a => access'[b] = access[b]
      BY <3>1 DEF SettingsInv, UserSettingsTypeOK
    <3>4. CopyWorth(copied', settings, \E b \in Accesses : access'[b].pc = "delete_copy")
      BY <3>1, <3>2, <3>3 DEF SettingsInv, CopyWorth, Clearing, AccessAt
    <3>. QED  BY <2>t, <3>1, <3>2, <3>4, NoAccessTyped, SettingsStay
  <2>8. ASSUME NEW a \in Accesses, NEW done \in BOOLEAN, DeleteCopy(a, done) PROVE SettingsInv'
    <3> DEFINE c == IF done THEN NotCopied ELSE [copied EXCEPT !.missed = copied.held]
    <3>1. /\ access' = [access EXCEPT ![a] = NoAccess] /\ copied' = c
          /\ UNCHANGED <<settingKind, settings, updates>>
      BY <2>8 DEF DeleteCopy, AccessEnds
    <3>2. c \in SettingsCopy /\ (c.held => c.missed)
      BY <2>t, NoAccessTyped DEF SettingsCopy
    <3> HIDE DEF c
    <3>3. CopyWorth(copied', settings, \E b \in Accesses : access'[b].pc = "delete_copy")
      BY <3>1, <3>2 DEF CopyWorth
    <3>. QED  BY <2>t, <3>1, <3>2, <3>3, NoAccessTyped, SettingsStay
  <2>9. CASE CopyExpires
    <3>1. copied' = NotCopied /\ UNCHANGED <<settingKind, settings, access, updates>>
      BY <2>9 DEF CopyExpires
    <3>. QED  BY <3>1, NoAccessTyped DEF SettingsInv, UserSettingsTypeOK, Shows, IsLast,
              ReadOnce, CopyWorth
  <2>10. CASE UNCHANGED settingVars
    BY <2>10 DEF settingVars, SettingsInv, UserSettingsTypeOK, Shows, IsLast,
       ReadOnce, CopyWorth, Clearing, AccessAt
  <2>. QED
    BY <2>1, <2>2, <2>3, <2>4, <2>5, <2>6, <2>7, <2>8, <2>9, <2>10
    DEF UserSettingsNext, GetPreferences, GetStatus, UpdatePreferences, UpdateStatus,
        GetPreferencesEntity, GetStatusEntity
<1>. QED  BY <1>1, <1>2, PTL DEF UserSettingsSpec

\* A field shows its last update unless one of an older row came later, and the
\* copy is the row unless it was stored across an update or left in place.
THEOREM SettingsAreExplained == UserSettingsSpec => []SettingsExplained
BY SettingsInvariance, SettingsInvImplies, PTL

-----------------------------------------------------------------------------
(***************************************************************************)
(* Sessions.  A live token goes back to a login against a row that was     *)
(* saved since the last time all tokens were revoked, or its family has a  *)
(* token whose request overlapped such a revocation.  A token with a       *)
(* successor is revoked, so whoever rotates it again had read it before.   *)
(* A key that was consumed was mailed, and no mailed key is set again.     *)
(* A request about to save the row holds the one now stored, or loaded it  *)
(* before the last save.                                                   *)
(***************************************************************************)
Sending == {"delete_lookup", "set_lookup", "set_pointer"}

\* What the steps of a request need of what it was started with.
RequestTyped(q) ==
  /\ q.pc \in {"load_user", "save_password", "delete_keys"} => q.password \in Passwords
  /\ q.pc \in Sending \cup {"delete_keys"} => q.key \in ResetKeys

SessionsTyped ==
  SessionsTypeOK /\ \A r \in SessionRequests : RequestTyped(request[r])

FamilyStraddles(family, toks) ==
  \E j \in DOMAIN toks : toks[j].family = family /\ toks[j].read < toks[j].born

TokenOK(i, toks, p) ==
  /\ toks[i].login <= p.saves
  /\ ~ toks[i].revoked => p.covered <= toks[i].login \/ FamilyStraddles(toks[i].family, toks)
  /\ toks[i].parent # 0 => toks[i].parent \in DOMAIN toks /\ toks[toks[i].parent].revoked

\* Two successors of a token: the later one's request had read the token first.
SuccessorsOK(toks) ==
  \A i, j \in DOMAIN toks :
    i < j /\ toks[i].parent = toks[j].parent /\ toks[i].parent # 0 => toks[j].seen < i

IssueOK(q, p) ==
  q.pc = "issue" => /\ q.login <= p.saves /\ q.read <= p.purges
                    /\ q.read = p.purges => p.covered <= q.login

RotateOK(q, toks, p) ==
  q.pc = "rotate" =>
    /\ q.token \in DOMAIN toks /\ q.login <= p.saves /\ q.read <= p.purges
    /\ q.read = p.purges =>
         p.covered <= q.login \/ FamilyStraddles(toks[q.token].family, toks)
    /\ q.seen <= Len(toks)
    /\ \A i \in DOMAIN toks : toks[i].parent = q.token => q.seen < i

FamiliesOK ==
  /\ past.covered <= past.saves
  /\ \A i \in DOMAIN tokens : TokenOK(i, tokens, past)
  /\ SuccessorsOK(tokens)
  /\ \A r \in SessionRequests : IssueOK(request[r], past) /\ RotateOK(request[r], tokens, past)

\* The keys: drawn by one request, mailed, consumed.
SendOK(q, m) == q.pc \in Sending => q.key \notin m
ConsumeOK(q, m, cons) ==
  q.pc = "delete_keys" =>
    /\ q.key \in m /\ q.seen <= Len(cons)
    /\ \A i \in DOMAIN cons : cons[i].key = q.key => q.seen < i
ConsumptionsOK(cons) ==
  \A i, j \in DOMAIN cons : i < j /\ cons[i].key = cons[j].key => cons[j].seen < i

KeysOK ==
  /\ \A r \in SessionRequests : SendOK(request[r], mailed) /\ ConsumeOK(request[r], mailed, consumed)
  /\ \A r, s \in SessionRequests :
       r # s /\ request[r].pc \in Sending /\ request[s].pc \in Sending
         => request[r].key # request[s].key
  /\ \A i \in DOMAIN consumed : consumed[i].key \in mailed \ redis.lookup
  /\ ConsumptionsOK(consumed)

\* The row: a request that read it holds it, or read it before the last save.
RowRead(q, u, saves) ==
  /\ q.pc \in {"issue", "rotate"} /\ q.login = saves => u.active
  /\ q.pc \in {"save_password", "save_active"} =>
       q.loaded <= saves /\ (q.loaded = saves => q.row = u)

LoginsActive(toks, u, saves) == \A i \in DOMAIN toks : toks[i].login = saves => u.active

RowOK ==
  /\ AccountStands
  /\ LoginsActive(tokens, user, past.saves)
  /\ \A r \in SessionRequests : RowRead(request[r], user, past.saves)

LEMMA SessionsImplied == SessionsTyped /\ FamiliesOK /\ KeysOK /\ RowOK => SessionsExplained
<1> SUFFICES ASSUME SessionsTyped, FamiliesOK, KeysOK, RowOK PROVE SessionsExplained
  OBVIOUS
<1>1. SavesEndSessions
  <2> SUFFICES ASSUME past.covered = past.saves, NEW i \in DOMAIN tokens, ~ tokens[i].revoked
               PROVE  \/ tokens[i].login = past.saves /\ user.active
                      \/ FamilyStraddles(tokens[i].family, tokens)
    BY DEF SavesEndSessions, FamilyStraddles, Straddles, Live
  <2>1. TokenOK(i, tokens, past)
    BY DEF FamiliesOK
  <2>2. tokens[i] \in TokenRow /\ past.saves \in Nat /\ past.covered \in Nat
    BY DEF SessionsTyped, SessionsTypeOK
  <2>3. tokens[i].login \in Nat
    BY <2>2 DEF TokenRow
  <2>4. tokens[i].login = past.saves => user.active
    BY DEF RowOK, LoginsActive
  <2>. QED  BY <2>1, <2>2, <2>3, <2>4 DEF TokenOK
<1>2. ReuseOnlyByOverlap
  BY DEF ReuseOnlyByOverlap, FamiliesOK, SuccessorsOK, KeysOK, ConsumptionsOK
<1>. QED  BY <1>1, <1>2 DEF SessionsExplained, RowOK

-----------------------------------------------------------------------------
\* Types.

LEMMA RevokedShape ==
  ASSUME NEW S, tokens \in Seq(TokenRow)
  PROVE  /\ Revoked(S) \in Seq(TokenRow) /\ DOMAIN Revoked(S) = DOMAIN tokens
         /\ Len(Revoked(S)) = Len(tokens)
         /\ \A i \in DOMAIN tokens :
              /\ Revoked(S)[i].family = tokens[i].family /\ Revoked(S)[i].parent = tokens[i].parent
              /\ Revoked(S)[i].login = tokens[i].login /\ Revoked(S)[i].seen = tokens[i].seen
              /\ Revoked(S)[i].read = tokens[i].read /\ Revoked(S)[i].born = tokens[i].born
              /\ Revoked(S)[i].revoked <=> tokens[i].revoked \/ i \in S
<1>1. DOMAIN tokens = 1 .. Len(tokens) /\ Len(tokens) \in Nat
  OBVIOUS
<1>2. \A i \in DOMAIN tokens : tokens[i] \in TokenRow
  OBVIOUS
<1>3. \A i \in DOMAIN tokens : [tokens[i] EXCEPT !.revoked = @ \/ i \in S] \in TokenRow
  BY <1>2 DEF TokenRow
<1>4. Revoked(S) = [i \in 1 .. Len(tokens) |-> [tokens[i] EXCEPT !.revoked = @ \/ i \in S]]
  BY <1>1, Zenon DEF Revoked
<1>5. Revoked(S) \in Seq(TokenRow) /\ Len(Revoked(S)) = Len(tokens)
      /\ DOMAIN Revoked(S) = DOMAIN tokens
  BY <1>1, <1>3, <1>4, IsASeq, LenProperties
<1>6. ASSUME NEW i \in DOMAIN tokens
      PROVE  /\ Revoked(S)[i].family = tokens[i].family /\ Revoked(S)[i].parent = tokens[i].parent
             /\ Revoked(S)[i].login = tokens[i].login /\ Revoked(S)[i].seen = tokens[i].seen
             /\ Revoked(S)[i].read = tokens[i].read /\ Revoked(S)[i].born = tokens[i].born
             /\ Revoked(S)[i].revoked <=> tokens[i].revoked \/ i \in S
  <2>1. Revoked(S)[i] = [tokens[i] EXCEPT !.revoked = @ \/ i \in S]
    BY Zenon DEF Revoked
  <2>. QED  BY <1>2, <2>1 DEF TokenRow
<1>. QED  BY <1>5, <1>6

LEMMA IdleTyped ==
  FirstUser \in UserRow /\ Idle \in RequestState /\ Idle.pc = "idle" /\ Idle.key = NoValue
<1>1. FirstUser \in UserRow
  BY SessionsAssumption DEF FirstUser, UserRow
<1>. QED  BY <1>1 DEF Idle, RequestState

LEMMA NewTokenType ==
  ASSUME SessionsTypeOK, NEW r \in SessionRequests, NEW family \in Nat, NEW parent \in Nat
  PROVE  NewToken(family, parent, r) \in TokenRow
<1>1. request[r] \in RequestState /\ past.purges \in Nat
  BY DEF SessionsTypeOK
<1>2. request[r].seen \in Nat /\ request[r].read \in Nat /\ request[r].login \in Nat
  BY <1>1 DEF RequestState
<1>. QED  BY <1>1, <1>2 DEF NewToken, TokenRow

\* A request that moves on.
LEMMA RequestMoves ==
  ASSUME SessionsTyped, NEW r \in SessionRequests, NEW q \in RequestState, RequestTyped(q),
         Go(r, q)
  PROVE  /\ request' \in [SessionRequests -> RequestState]
         /\ \A s \in SessionRequests : RequestTyped(request'[s])
         /\ \A s \in SessionRequests : request'[s] = IF s = r THEN q ELSE request[s]
<1>1. request \in [SessionRequests -> RequestState]
  BY DEF SessionsTyped, SessionsTypeOK
<1>2. request' = [request EXCEPT ![r] = q]
  BY DEF Go
<1>. QED  BY <1>1, <1>2 DEF SessionsTyped

\* A request that arrives, and the request it becomes.
LEMMA BeginMoves ==
  ASSUME SessionsTyped, NEW r \in SessionRequests, NEW q \in RequestState, RequestTyped(q),
         Begin(r, q)
  PROVE  /\ request' \in [SessionRequests -> RequestState] /\ sessionCalls' \in Nat
         /\ \A s \in SessionRequests : RequestTyped(request'[s])
         /\ \A s \in SessionRequests :
              request'[s] = IF s = r THEN [q EXCEPT !.read = past.purges] ELSE request[s]
<1> DEFINE b == [q EXCEPT !.read = past.purges]
<1>1. past.purges \in Nat /\ sessionCalls \in Nat
  BY DEF SessionsTyped, SessionsTypeOK
<1>2. b \in RequestState /\ b.pc = q.pc /\ b.key = q.key /\ b.password = q.password
  BY <1>1 DEF RequestState
<1>3. Go(r, b) /\ sessionCalls' = sessionCalls + 1
  BY Zenon DEF Begin
<1>4. RequestTyped(b)
  BY <1>2 DEF RequestTyped
<1> HIDE DEF b
<1>5. /\ request' \in [SessionRequests -> RequestState]
      /\ \A s \in SessionRequests : RequestTyped(request'[s])
      /\ \A s \in SessionRequests : request'[s] = IF s = r THEN b ELSE request[s]
  BY <1>2, <1>3, <1>4, RequestMoves
<1>. QED  BY <1>1, <1>3, <1>5 DEF b

\* The requests a handler starts with.
LEMMA StartTyped ==
  /\ \A p \in Passwords :
       /\ [Idle EXCEPT !.pc = "load_user", !.password = p] \in RequestState
       /\ RequestTyped([Idle EXCEPT !.pc = "load_user", !.password = p])
  /\ \A n \in Nat : [Idle EXCEPT !.pc = "issue", !.login = n] \in RequestState
  /\ \A i, m, n \in Nat :
       [Idle EXCEPT !.pc = "rotate", !.token = i, !.seen = m, !.login = n] \in RequestState
  /\ \A i \in Nat : \A pc \in {"logout", "revoke_family", "logout_others", "revoke_all"} :
       [Idle EXCEPT !.pc = pc, !.token = i] \in RequestState
  /\ [Idle EXCEPT !.pc = "revoke_all"] \in RequestState
  /\ \A b \in BOOLEAN, u \in UserRow, n \in Nat :
       [Idle EXCEPT !.pc = "save_active", !.active = b, !.row = u, !.loaded = n] \in RequestState
  /\ \A k \in ResetKeys : \A old \in ResetKeys \cup {NoValue} :
       /\ [Idle EXCEPT !.pc = "delete_lookup", !.key = k, !.old = old] \in RequestState
       /\ RequestTyped([Idle EXCEPT !.pc = "delete_lookup", !.key = k, !.old = old])
  /\ \A k \in ResetKeys, p \in Passwords, n \in Nat :
       /\ [Idle EXCEPT !.pc = "delete_keys", !.key = k, !.password = p, !.seen = n] \in RequestState
       /\ RequestTyped([Idle EXCEPT !.pc = "delete_keys", !.key = k, !.password = p, !.seen = n])
<1>1. ASSUME NEW p \in Passwords
      PROVE  /\ [Idle EXCEPT !.pc = "load_user", !.password = p] \in RequestState
             /\ RequestTyped([Idle EXCEPT !.pc = "load_user", !.password = p])
  BY IdleTyped DEF Idle, RequestState, RequestTyped, Sending
<1>2. ASSUME NEW n \in Nat PROVE [Idle EXCEPT !.pc = "issue", !.login = n] \in RequestState
  BY IdleTyped DEF Idle, RequestState
<1>3. ASSUME NEW i \in Nat, NEW m \in Nat, NEW n \in Nat
      PROVE  [Idle EXCEPT !.pc = "rotate", !.token = i, !.seen = m, !.login = n] \in RequestState
  BY IdleTyped DEF Idle, RequestState
<1>4. ASSUME NEW i \in Nat, NEW pc \in {"logout", "revoke_family", "logout_others", "revoke_all"}
      PROVE  [Idle EXCEPT !.pc = pc, !.token = i] \in RequestState
  BY IdleTyped DEF Idle, RequestState
<1>5. [Idle EXCEPT !.pc = "revoke_all"] \in RequestState
  BY IdleTyped DEF Idle, RequestState
<1>6. ASSUME NEW b \in BOOLEAN, NEW u \in UserRow, NEW n \in Nat
      PROVE  [Idle EXCEPT !.pc = "save_active", !.active = b, !.row = u, !.loaded = n]
               \in RequestState
  BY IdleTyped DEF Idle, RequestState
<1>7. ASSUME NEW k \in ResetKeys, NEW old \in ResetKeys \cup {NoValue}
      PROVE  /\ [Idle EXCEPT !.pc = "delete_lookup", !.key = k, !.old = old] \in RequestState
             /\ RequestTyped([Idle EXCEPT !.pc = "delete_lookup", !.key = k, !.old = old])
  BY IdleTyped DEF Idle, RequestState, RequestTyped, Sending
<1>8. ASSUME NEW k \in ResetKeys, NEW p \in Passwords, NEW n \in Nat
      PROVE  /\ [Idle EXCEPT !.pc = "delete_keys", !.key = k, !.password = p, !.seen = n]
                  \in RequestState
             /\ RequestTyped([Idle EXCEPT !.pc = "delete_keys", !.key = k, !.password = p,
                                          !.seen = n])
  BY IdleTyped DEF Idle, RequestState, RequestTyped, Sending
<1>. QED  BY <1>1, <1>2, <1>3, <1>4, <1>5, <1>6, <1>7, <1>8

LEMMA OtherTyped ==
  ASSUME NEW q, q.pc \notin {"load_user", "save_password", "delete_keys"} \cup Sending
  PROVE  RequestTyped(q)
BY DEF RequestTyped

LEMMA SessionsTypedInit == SessionsInit => SessionsTyped
BY IdleTyped, SessionsAssumption
   DEF SessionsInit, SessionsTyped, SessionsTypeOK, RequestTyped, Sending

\* What a started request goes on with.
Later(q, pc) == [q EXCEPT !.pc = pc]

LEMMA LaterTyped ==
  ASSUME NEW q \in RequestState,
         NEW pc \in {"revoke_all", "set_lookup", "set_pointer", "load_user"}
  PROVE  /\ Later(q, pc) \in RequestState /\ Later(q, pc).pc = pc
         /\ Later(q, pc).key = q.key /\ Later(q, pc).password = q.password
BY DEF Later, RequestState

\* The request that loaded the row to save its password.
Loaded(q, u, n) == [q EXCEPT !.pc = "save_password", !.row = u, !.loaded = n]

LEMMA LoadedTyped ==
  ASSUME NEW q \in RequestState, NEW u \in UserRow, NEW n \in Nat
  PROVE  /\ Loaded(q, u, n) \in RequestState /\ Loaded(q, u, n).pc = "save_password"
         /\ Loaded(q, u, n).password = q.password /\ Loaded(q, u, n).key = q.key
         /\ Loaded(q, u, n).row = u /\ Loaded(q, u, n).loaded = n
BY DEF Loaded, RequestState

LEMMA SessionsTypedNext ==
  SessionsTyped /\ FamiliesOK /\ [SessionsNext]_sessionVars => SessionsTyped'
<1> SUFFICES ASSUME SessionsTyped, FamiliesOK, [SessionsNext]_sessionVars PROVE SessionsTyped'
  OBVIOUS
<1>1. /\ user \in UserRow /\ asked \in [user : UserRow, lost : SUBSET Columns]
      /\ tokens \in Seq(TokenRow) /\ DOMAIN tokens \subseteq Nat /\ Len(tokens) \in Nat
      /\ redis \in [lookup : SUBSET ResetKeys, pointer : ResetKeys \cup {NoValue}]
      /\ mailed \in SUBSET ResetKeys
      /\ request \in [SessionRequests -> RequestState]
      /\ sessionCalls \in Nat
      /\ past \in [saves : Nat, purges : Nat, covered : Nat]
      /\ consumed \in Seq([key : ResetKeys, seen : Nat]) /\ Len(consumed) \in Nat
  BY DEF SessionsTyped, SessionsTypeOK
<1>2. \A r \in SessionRequests : RequestTyped(request[r]) /\ request[r] \in RequestState
  BY <1>1 DEF SessionsTyped
<1>3. redis.pointer \in ResetKeys \cup {NoValue} /\ past.saves \in Nat /\ past.purges \in Nat
  BY <1>1
<1>4. RequestTyped(Idle) /\ Idle \in RequestState
  BY IdleTyped, OtherTyped DEF Sending
\* A request starts.
<1>5. ASSUME NEW r \in SessionRequests, NEW q \in RequestState, RequestTyped(q), Begin(r, q),
             UNCHANGED <<userVars, tokens, redis, mailed, past, consumed>>
      PROVE  SessionsTyped'
  BY <1>1, <1>5, BeginMoves DEF SessionsTyped, SessionsTypeOK, userVars
<1>6. ASSUME NEW r \in SessionRequests, NEW q \in RequestState, Begin(r, q),
             q.pc \notin {"load_user", "save_password", "delete_keys"} \cup Sending,
             UNCHANGED <<userVars, tokens, redis, mailed, past, consumed>>
      PROVE  SessionsTyped'
  BY <1>5, <1>6, OtherTyped
\* A request ends.
<1>7. ASSUME NEW r \in SessionRequests, End(r),
             tokens' \in Seq(TokenRow), UNCHANGED userVars, sessionCalls' = sessionCalls,
             redis' \in [lookup : SUBSET ResetKeys, pointer : ResetKeys \cup {NoValue}],
             mailed' \in SUBSET ResetKeys, past' \in [saves : Nat, purges : Nat, covered : Nat],
             consumed' = consumed
      PROVE  SessionsTyped'
  BY <1>1, <1>4, <1>7, RequestMoves DEF End, SessionsTyped, SessionsTypeOK, userVars
<1>8. ASSUME NEW r \in SessionRequests, NEW q \in RequestState, RequestTyped(q), Go(r, q),
             tokens' = tokens, user' \in UserRow, asked' \in [user : UserRow, lost : SUBSET Columns],
             sessionCalls' = sessionCalls, mailed' = mailed,
             redis' \in [lookup : SUBSET ResetKeys, pointer : ResetKeys \cup {NoValue}],
             past' \in [saves : Nat, purges : Nat, covered : Nat],
             consumed' \in Seq([key : ResetKeys, seen : Nat])
      PROVE  SessionsTyped'
  BY <1>1, <1>8, RequestMoves DEF SessionsTyped, SessionsTypeOK
<1>9. \A S : Revoked(S) \in Seq(TokenRow)
  BY <1>1, RevokedShape
<1>10. \A i \in DOMAIN tokens : tokens[i].family \in Nat /\ tokens[i].login \in Nat
  <2>1. \A i \in DOMAIN tokens : tokens[i] \in TokenRow
    BY <1>1
  <2>. QED  BY <2>1 DEF TokenRow
<1>11. ASSUME NEW r \in SessionRequests, Login(r) PROVE SessionsTyped'
  <2>1. CASE ValidateCredentials(r)
    BY <1>3, <1>6, <2>1, StartTyped DEF ValidateCredentials, Idle, Sending
  <2>2. CASE IssueToken(r)
    <3>1. NewToken(Len(tokens) + 1, 0, r) \in TokenRow
      BY <1>1, NewTokenType DEF SessionsTyped
    <3>2. tokens' \in Seq(TokenRow)
      BY <1>1, <2>2, <3>1 DEF IssueToken
    <3>. QED  BY <1>1, <1>7, <2>2, <3>2 DEF IssueToken
  <2>. QED  BY <1>11, <2>1, <2>2 DEF Login
<1>12. ASSUME NEW r \in SessionRequests, RefreshSession(r) PROVE SessionsTyped'
  <2>1. ASSUME NEW i \in DOMAIN tokens, LoadTokenToRotate(r, i) PROVE SessionsTyped'
    BY <1>1, <1>6, <1>10, <2>1, StartTyped DEF LoadTokenToRotate, Idle, Sending
  <2>2. CASE RotateToken(r)
    <3>0. request[r].token \in DOMAIN tokens
      BY <2>2 DEF RotateToken, At, FamiliesOK, RotateOK
    <3>1. NewToken(tokens[request[r].token].family, request[r].token, r) \in TokenRow
      BY <1>1, <1>10, <3>0, NewTokenType DEF SessionsTyped
    <3>2. tokens' \in Seq(TokenRow)
      BY <1>9, <2>2, <3>1 DEF RotateToken
    <3>. QED  BY <1>1, <1>7, <2>2, <3>2 DEF RotateToken
  <2>. QED  BY <1>12, <2>1, <2>2 DEF RefreshSession
<1>13. ASSUME NEW r \in SessionRequests, Logout(r) PROVE SessionsTyped'
  <2>1. ASSUME NEW i \in DOMAIN tokens, LoadTokenToRevoke(r, i) PROVE SessionsTyped'
    BY <1>1, <1>6, <2>1, StartTyped DEF LoadTokenToRevoke, Idle, Sending
  <2>2. CASE SaveRevokedToken(r)
    BY <1>1, <1>7, <1>9, <2>2 DEF SaveRevokedToken
  <2>. QED  BY <1>13, <2>1, <2>2 DEF Logout
<1>14. ASSUME NEW r \in SessionRequests, NEW i \in Nat,
              NEW pc \in {"revoke_family", "logout_others", "revoke_all"}, Authorize(r, pc, i)
       PROVE  SessionsTyped'
  BY <1>6, <1>14, StartTyped DEF Authorize, Idle, Sending
<1>15. ASSUME NEW r \in SessionRequests, RevokeSession(r) PROVE SessionsTyped'
  <2>1. CASE RevokeFamilyForUser(r)
    BY <1>1, <1>7, <1>9, <2>1 DEF RevokeFamilyForUser
  <2>. QED  BY <1>1, <1>14, <1>15, <2>1 DEF RevokeSession
<1>16. ASSUME NEW r \in SessionRequests, LogoutOthers(r) PROVE SessionsTyped'
  <2>1. CASE RevokeOtherFamiliesForUser(r)
    BY <1>1, <1>7, <1>9, <2>1 DEF RevokeOtherFamiliesForUser
  <2>. QED  BY <1>1, <1>14, <1>16, <2>1 DEF LogoutOthers
<1>17. ASSUME NEW r \in SessionRequests, LogoutAll(r) PROVE SessionsTyped'
  <2>1. CASE RevokeAllForUser(r)
    <3>1. past' \in [saves : Nat, purges : Nat, covered : Nat]
      <4>1. past.purges + 1 \in Nat /\ past.saves \in Nat
        BY <1>1
      <4>2. past' = [past EXCEPT !.purges = past.purges + 1, !.covered = past.saves]
        BY <2>1, Zenon DEF RevokeAllForUser
      <4>. QED  BY <1>1, <4>1, <4>2
    <3>. QED  BY <1>1, <1>7, <1>9, <2>1, <3>1 DEF RevokeAllForUser
  <2>. QED  BY <1>14, <1>17, <2>1 DEF LogoutAll
\* A save of the row, which then revokes.
<1>27. ASSUME NEW r \in SessionRequests, NEW u \in UserRow, NEW c \in Columns, SaveUser(r, u, c)
       PROVE  SessionsTyped'
  <2>1. Go(r, Later(request[r], "revoke_all"))
    BY <1>27 DEF SaveUser, Later
  <2>2. RequestTyped(Later(request[r], "revoke_all"))
    BY <1>2, LaterTyped, OtherTyped DEF Sending
  <2>3. past' \in [saves : Nat, purges : Nat, covered : Nat]
    <3>1. past.saves + 1 \in Nat
      BY <1>1
    <3>2. past' = [past EXCEPT !.saves = past.saves + 1]
      BY <1>27, Zenon DEF SaveUser
    <3>. QED  BY <1>1, <3>1, <3>2
  <2>4. asked' \in [user : UserRow, lost : SUBSET Columns]
    <3>1. c \in {"password", "active"}
      BY DEF Columns, FirstUser
    <3>2. [asked.user EXCEPT ![c] = u[c]] \in UserRow
      BY <1>1, <3>1 DEF UserRow
    <3>3. asked'.user = [asked.user EXCEPT ![c] = u[c]] /\ asked'.lost \subseteq Columns
          /\ asked' = [user |-> asked'.user, lost |-> asked'.lost]
      BY <1>1, <1>27 DEF SaveUser
    <3>. QED  BY <3>2, <3>3
  <2>5. /\ tokens' = tokens /\ user' = u /\ sessionCalls' = sessionCalls /\ mailed' = mailed
        /\ redis' = redis /\ consumed' = consumed
    BY <1>27 DEF SaveUser
  <2>. QED  BY <1>1, <1>2, <1>8, <2>1, <2>2, <2>3, <2>4, <2>5, LaterTyped
<1>28. "password" \in Columns /\ "active" \in Columns
  BY DEF Columns, FirstUser
<1>18. ASSUME NEW r \in SessionRequests, ChangePassword(r) PROVE SessionsTyped'
  <2>1. ASSUME NEW p \in Passwords, RequestPasswordChange(r, p) PROVE SessionsTyped'
    BY <1>5, <2>1, StartTyped DEF RequestPasswordChange
  <2>2. CASE LoadUserToSavePassword(r)
    <3> DEFINE q == Loaded(request[r], user, past.saves)
    <3>0. request[r] \in RequestState /\ user \in UserRow /\ past.saves \in Nat
      BY <1>1, <1>2
    <3>1. request[r].password \in Passwords
      BY <1>2, <2>2 DEF LoadUserToSavePassword, At, RequestTyped
    <3>2. q \in RequestState /\ q.pc = "save_password" /\ q.password = request[r].password
      BY <3>0, LoadedTyped
    <3>3. Go(r, q)
      BY <2>2 DEF LoadUserToSavePassword, Loaded
    <3> HIDE DEF q
    <3>4. RequestTyped(q)
      BY <3>1, <3>2 DEF RequestTyped, Sending
    <3>. QED  BY <1>1, <1>8, <2>2, <3>2, <3>3, <3>4 DEF LoadUserToSavePassword, userVars
  <2>3. CASE SavePassword(r)
    <3>1. request[r].password \in Passwords /\ request[r].row \in UserRow
      BY <1>2, <2>3 DEF SavePassword, At, RequestTyped, RequestState
    <3>2. [request[r].row EXCEPT !.password = request[r].password] \in UserRow
      BY <3>1 DEF UserRow
    <3>. QED  BY <1>27, <1>28, <2>3, <3>2 DEF SavePassword
  <2>. QED  BY <1>18, <2>1, <2>2, <2>3 DEF ChangePassword
<1>19. ASSUME NEW r \in SessionRequests, SetUserActive(r) PROVE SessionsTyped'
  <2>1. ASSUME NEW b \in BOOLEAN, LoadUserToSetActive(r, b) PROVE SessionsTyped'
    BY <1>1, <1>3, <1>6, <2>1, StartTyped DEF LoadUserToSetActive, Idle, Sending
  <2>2. CASE SaveActive(r)
    <3>1. request[r].active \in BOOLEAN /\ request[r].row \in UserRow
      BY <1>2 DEF RequestState
    <3>2. [request[r].row EXCEPT !.active = request[r].active] \in UserRow
      BY <3>1 DEF UserRow
    <3>. QED  BY <1>27, <1>28, <2>2, <3>2 DEF SaveActive
  <2>. QED  BY <1>19, <2>1, <2>2 DEF SetUserActive
<1>20. ASSUME NEW r \in SessionRequests, AssignRole(r) PROVE SessionsTyped'
  BY <1>6, <1>20, StartTyped DEF AssignRole, Idle, Sending
<1>21. ASSUME NEW r \in SessionRequests, ForgotPassword(r) PROVE SessionsTyped'
  <2>1. ASSUME NEW k \in ResetKeys, ReadResetPointer(r, k) PROVE SessionsTyped'
    BY <1>3, <1>5, <2>1, StartTyped DEF ReadResetPointer
  <2>2. CASE DeleteOldLookup(r)
    <3>1. request[r].key \in ResetKeys
      BY <1>2, <2>2 DEF DeleteOldLookup, At, RequestTyped, Sending
    <3>2. RequestTyped(Later(request[r], "set_lookup")) /\ Go(r, Later(request[r], "set_lookup"))
      BY <1>2, <2>2, <3>1, LaterTyped DEF RequestTyped, DeleteOldLookup, Later
    <3>. QED  BY <1>1, <1>2, <1>8, <2>2, <3>2, LaterTyped DEF DeleteOldLookup, userVars
  <2>3. CASE SetLookup(r)
    <3>1. request[r].key \in ResetKeys
      BY <1>2, <2>3 DEF SetLookup, At, RequestTyped, Sending
    <3>2. RequestTyped(Later(request[r], "set_pointer")) /\ Go(r, Later(request[r], "set_pointer"))
      BY <1>2, <2>3, <3>1, LaterTyped DEF RequestTyped, SetLookup, Later
    <3>. QED  BY <1>1, <1>2, <1>8, <2>3, <3>1, <3>2, LaterTyped DEF SetLookup, userVars
  <2>4. CASE SetPointerAndMail(r)
    <3>1. request[r].key \in ResetKeys
      BY <1>2, <2>4 DEF SetPointerAndMail, At, RequestTyped, Sending
    <3>. QED  BY <1>1, <1>7, <2>4, <3>1 DEF SetPointerAndMail
  <2>. QED  BY <1>21, <2>1, <2>2, <2>3, <2>4 DEF ForgotPassword
<1>22. ASSUME NEW r \in SessionRequests, ResetPassword(r) PROVE SessionsTyped'
  <2>1. ASSUME NEW k \in ResetKeys, NEW p \in Passwords, ReadResetKey(r, k, p)
        PROVE  SessionsTyped'
    BY <1>1, <1>5, <2>1, StartTyped DEF ReadResetKey
  <2>2. CASE DeleteResetKeys(r)
    <3>1. request[r].key \in ResetKeys /\ request[r].password \in Passwords
          /\ request[r].seen \in Nat
      BY <1>2, <2>2 DEF DeleteResetKeys, At, RequestTyped, RequestState
    <3>2. /\ RequestTyped(Later(request[r], "load_user"))
          /\ Go(r, Later(request[r], "load_user"))
      BY <1>2, <2>2, <3>1, LaterTyped DEF RequestTyped, DeleteResetKeys, Later, Sending
    <3>3. consumed' \in Seq([key : ResetKeys, seen : Nat])
      BY <1>1, <2>2, <3>1 DEF DeleteResetKeys
    <3>. QED  BY <1>1, <1>2, <1>8, <2>2, <3>2, <3>3, LaterTyped DEF DeleteResetKeys, userVars
  <2>. QED  BY <1>22, <2>1, <2>2 DEF ResetPassword
<1>23. ASSUME NEW r \in SessionRequests, RequestFails(r) PROVE SessionsTyped'
  BY <1>1, <1>7, <1>23 DEF RequestFails
<1>24. ASSUME NEW i \in DOMAIN tokens, TokenExpires(i) PROVE SessionsTyped'
  <2>1. tokens' \in Seq(TokenRow)
    <3>1. tokens[i] \in TokenRow /\ i \in 1 .. Len(tokens)
      BY <1>1
    <3>2. [tokens[i] EXCEPT !.expired = TRUE] \in TokenRow
      BY <3>1 DEF TokenRow
    <3>. QED  BY <1>1, <1>24, <3>1, <3>2 DEF TokenExpires
  <2>. QED  BY <1>24, <2>1 DEF TokenExpires, SessionsTyped, SessionsTypeOK, userVars
<1>25. CASE ResetKeysExpire
  BY <1>25 DEF ResetKeysExpire, SessionsTyped, SessionsTypeOK, userVars
<1>26. CASE UNCHANGED sessionVars
  BY <1>26 DEF sessionVars, SessionsTyped, SessionsTypeOK, userVars
<1>. QED
  BY <1>11, <1>12, <1>13, <1>15, <1>16, <1>17, <1>18, <1>19, <1>20, <1>21, <1>22, <1>23,
     <1>24, <1>25, <1>26 DEF SessionsNext

-----------------------------------------------------------------------------
\* Families.

\* Token rows that only expired or were revoked.
Kept(toks, toks2) ==
  /\ DOMAIN toks2 = DOMAIN toks /\ Len(toks2) = Len(toks)
  /\ \A i \in DOMAIN toks :
       /\ toks2[i].family = toks[i].family /\ toks2[i].parent = toks[i].parent
       /\ toks2[i].login = toks[i].login /\ toks2[i].seen = toks[i].seen
       /\ toks2[i].read = toks[i].read /\ toks2[i].born = toks[i].born
       /\ toks[i].revoked => toks2[i].revoked

\* Passwords may have been saved, tokens were not purged.
SamePast(p, p2) == p2.covered = p.covered /\ p2.purges = p.purges /\ p.saves <= p2.saves

TokensOK(toks, p) == (\A i \in DOMAIN toks : TokenOK(i, toks, p)) /\ SuccessorsOK(toks)

LEMMA FamiliesKept ==
  ASSUME NEW toks \in Seq(TokenRow), NEW toks2 \in Seq(TokenRow), Kept(toks, toks2),
         NEW p \in [saves : Nat, purges : Nat, covered : Nat],
         NEW p2 \in [saves : Nat, purges : Nat, covered : Nat], SamePast(p, p2)
  PROVE  /\ TokensOK(toks, p) => TokensOK(toks2, p2)
         /\ \A q \in RequestState :
              /\ IssueOK(q, p) => IssueOK(q, p2)
              /\ RotateOK(q, toks, p) => RotateOK(q, toks2, p2)
<1>1. \A i \in DOMAIN toks : toks[i] \in TokenRow
  OBVIOUS
<1>2. \A i \in DOMAIN toks : toks[i].login \in Nat
  BY <1>1 DEF TokenRow
<1>3. p.saves \in Nat /\ p2.saves \in Nat /\ p.saves <= p2.saves /\ p2.covered = p.covered
      /\ p2.purges = p.purges
  BY DEF SamePast
<1>4. \A f : FamilyStraddles(f, toks) => FamilyStraddles(f, toks2)
  BY DEF FamilyStraddles, Kept
<1>5. ASSUME NEW i \in DOMAIN toks, TokenOK(i, toks, p) PROVE TokenOK(i, toks2, p2)
  BY <1>2, <1>3, <1>4, <1>5 DEF TokenOK, Kept
<1>6. SuccessorsOK(toks) => SuccessorsOK(toks2)
  BY DEF SuccessorsOK, Kept
<1>7. ASSUME NEW q \in RequestState, IssueOK(q, p) PROVE IssueOK(q, p2)
  BY <1>3, <1>7 DEF IssueOK, RequestState
<1>8. ASSUME NEW q \in RequestState, RotateOK(q, toks, p) PROVE RotateOK(q, toks2, p2)
  <2>1. q.login \in Nat
    BY DEF RequestState
  <2>. QED  BY <1>3, <1>4, <1>8, <2>1 DEF RotateOK, Kept
<1>9. DOMAIN toks2 = DOMAIN toks
  BY DEF Kept
<1>. QED  BY <1>5, <1>6, <1>7, <1>8, <1>9 DEF TokensOK

\* A new token: what it was issued for holds, and it comes after its siblings.
LEMMA FamiliesAppend ==
  ASSUME NEW toks \in Seq(TokenRow), NEW t \in TokenRow,
         NEW p \in [saves : Nat, purges : Nat, covered : Nat], TokensOK(toks, p),
         t.login <= p.saves,
         t.read < t.born \/ p.covered <= t.login \/ FamilyStraddles(t.family, toks),
         t.parent # 0 =>
           /\ t.parent \in DOMAIN toks /\ toks[t.parent].revoked
           /\ \A i \in DOMAIN toks : toks[i].parent = t.parent => t.seen < i
  PROVE  /\ TokensOK(Append(toks, t), p)
         /\ \A q \in RequestState : RotateOK(q, toks, p) => RotateOK(q, Append(toks, t), p)
<1> DEFINE a == Append(toks, t)
<1>1. /\ Len(toks) \in Nat /\ DOMAIN toks = 1 .. Len(toks) /\ a \in Seq(TokenRow)
      /\ Len(a) = Len(toks) + 1 /\ DOMAIN a = 1 .. Len(toks) + 1
      /\ a[Len(toks) + 1] = t /\ \A i \in DOMAIN toks : a[i] = toks[i]
  OBVIOUS
<1> HIDE DEF a
<1>2. \A f : FamilyStraddles(f, toks) => FamilyStraddles(f, a)
  BY <1>1 DEF FamilyStraddles
<1>3. t.read < t.born => FamilyStraddles(t.family, a)
  BY <1>1 DEF FamilyStraddles
<1>4. TokenOK(Len(toks) + 1, a, p)
  BY <1>1, <1>2, <1>3 DEF TokenOK
<1>5. ASSUME NEW i \in DOMAIN toks PROVE TokenOK(i, a, p)
  <2>1. TokenOK(i, toks, p)
    BY DEF TokensOK
  <2>. QED  BY <1>1, <1>2, <2>1 DEF TokenOK
<1>6. SuccessorsOK(a)
  <2>1. ASSUME NEW i \in DOMAIN a, NEW j \in DOMAIN a, i < j, a[i].parent = a[j].parent,
               a[i].parent # 0
        PROVE  a[j].seen < i
    <3>1. i \in DOMAIN toks
      BY <1>1, <2>1
    <3>2. CASE j \in DOMAIN toks
      BY <1>1, <2>1, <3>1, <3>2 DEF TokensOK, SuccessorsOK
    <3>3. CASE j = Len(toks) + 1
      BY <1>1, <2>1, <3>1, <3>3
    <3>. QED  BY <1>1, <3>2, <3>3
  <2>. QED  BY <2>1 DEF SuccessorsOK
<1>7. ASSUME NEW q \in RequestState, RotateOK(q, toks, p) PROVE RotateOK(q, a, p)
  <2>1. q.seen \in Nat /\ q.token \in Nat
    BY DEF RequestState
  <2>2. CASE q.pc = "rotate"
    <3>1. /\ q.token \in DOMAIN toks /\ q.login <= p.saves /\ q.read <= p.purges
          /\ q.read = p.purges =>
               p.covered <= q.login \/ FamilyStraddles(toks[q.token].family, toks)
          /\ q.seen <= Len(toks)
          /\ \A i \in DOMAIN toks : toks[i].parent = q.token => q.seen < i
      BY <1>7, <2>2 DEF RotateOK
    <3>2. \A i \in DOMAIN a : a[i].parent = q.token => q.seen < i
      BY <1>1, <2>1, <3>1
    <3>. QED  BY <1>1, <1>2, <2>1, <3>1, <3>2 DEF RotateOK
  <2>. QED  BY <2>2 DEF RotateOK
<1>. QED  BY <1>1, <1>4, <1>5, <1>6, <1>7 DEF TokensOK, a

LEMMA FamiliesInit == SessionsInit => FamiliesOK
BY DEF SessionsInit, FamiliesOK, SuccessorsOK, IssueOK, RotateOK, Idle

\* A step that only revokes tokens, for a request that goes on with q.
LEMMA FamiliesStep ==
  ASSUME SessionsTyped, SessionsTyped', FamiliesOK, NEW r \in SessionRequests,
         Kept(tokens, tokens'), SamePast(past, past'),
         \A s \in SessionRequests : s # r => request'[s] = request[s],
         IssueOK(request'[r], past'), RotateOK(request'[r], tokens', past')
  PROVE  FamiliesOK'
<1>1. /\ tokens \in Seq(TokenRow) /\ tokens' \in Seq(TokenRow)
      /\ past \in [saves : Nat, purges : Nat, covered : Nat]
      /\ past' \in [saves : Nat, purges : Nat, covered : Nat]
      /\ \A s \in SessionRequests : request[s] \in RequestState
  BY DEF SessionsTyped, SessionsTypeOK
<1>2. TokensOK(tokens, past)
  BY DEF FamiliesOK, TokensOK
<1>3. /\ TokensOK(tokens', past')
      /\ \A s \in SessionRequests :
           s # r => IssueOK(request[s], past') /\ RotateOK(request[s], tokens', past')
  BY <1>1, <1>2, FamiliesKept DEF FamiliesOK
<1>4. past'.covered <= past'.saves
  <2>1. past.covered <= past.saves
    BY DEF FamiliesOK
  <2>2. past.covered \in Nat /\ past.saves \in Nat /\ past'.saves \in Nat
    BY <1>1
  <2>. QED  BY <2>1, <2>2 DEF SamePast
<1>. QED  BY <1>3, <1>4 DEF FamiliesOK, TokensOK

LEMMA KeptAll ==
  ASSUME tokens \in Seq(TokenRow)
  PROVE  Kept(tokens, tokens) /\ \A S : Kept(tokens, Revoked(S))
BY RevokedShape DEF Kept

LEMMA FamiliesNext ==
  SessionsTyped /\ SessionsTyped' /\ FamiliesOK /\ [SessionsNext]_sessionVars => FamiliesOK'
<1> SUFFICES ASSUME SessionsTyped, SessionsTyped', FamiliesOK, [SessionsNext]_sessionVars
             PROVE  FamiliesOK'
  OBVIOUS
<1>1. /\ tokens \in Seq(TokenRow) /\ DOMAIN tokens = 1 .. Len(tokens) /\ Len(tokens) \in Nat
      /\ request \in [SessionRequests -> RequestState]
      /\ past \in [saves : Nat, purges : Nat, covered : Nat]
      /\ Kept(tokens, tokens) /\ \A S : Kept(tokens, Revoked(S))
  BY KeptAll DEF SessionsTyped, SessionsTypeOK
<1>2. past.saves \in Nat /\ past.purges \in Nat /\ past.covered \in Nat
  BY <1>1
<1>3. SamePast(past, past)
  BY <1>2 DEF SamePast
\* Requests that do not issue tokens.
<1>4. ASSUME NEW r \in SessionRequests, NEW q, Go(r, q), q.pc \notin {"issue", "rotate"},
             Kept(tokens, tokens'), SamePast(past, past')
      PROVE  FamiliesOK'
  <2>1. \A s \in SessionRequests : request'[s] = IF s = r THEN q ELSE request[s]
    BY <1>1, <1>4 DEF Go
  <2>2. IssueOK(request'[r], past') /\ RotateOK(request'[r], tokens', past')
    BY <1>4, <2>1 DEF IssueOK, RotateOK
  <2>. QED  BY <1>4, <2>1, <2>2, FamiliesStep
<1>5. ASSUME NEW r \in SessionRequests, End(r), Kept(tokens, tokens'), SamePast(past, past')
      PROVE  FamiliesOK'
  BY <1>4, <1>5, IdleTyped DEF End
<1>6. ASSUME NEW r \in SessionRequests, NEW q \in RequestState, Begin(r, q),
             q.pc \notin {"issue", "rotate"}, tokens' = tokens, past' = past
      PROVE  FamiliesOK'
  <2>1. Go(r, [q EXCEPT !.read = past.purges])
    BY <1>6 DEF Begin
  <2>2. [q EXCEPT !.read = past.purges].pc = q.pc
    BY DEF RequestState
  <2>. QED  BY <1>1, <1>3, <1>4, <1>6, <2>1, <2>2
\* Requests that issued their token.
<1>8. ASSUME NEW r \in SessionRequests, End(r), past' = past, TokensOK(tokens', past),
             \A q \in RequestState : RotateOK(q, tokens, past) => RotateOK(q, tokens', past)
      PROVE  FamiliesOK'
  <2>1. \A s \in SessionRequests : request'[s] = IF s = r THEN Idle ELSE request[s]
    BY <1>1, <1>8 DEF End, Go
  <2>2. ASSUME NEW s \in SessionRequests
        PROVE  IssueOK(request'[s], past') /\ RotateOK(request'[s], tokens', past')
    <3>1. CASE s = r
      BY <2>1, <3>1, IdleTyped DEF IssueOK, RotateOK
    <3>2. CASE s # r
      BY <1>1, <1>8, <2>1, <3>2 DEF FamiliesOK
    <3>. QED  BY <3>1, <3>2
  <2>. QED  BY <1>8, <2>2 DEF FamiliesOK, TokensOK
<1>7. ASSUME NEW r \in SessionRequests, Login(r) PROVE FamiliesOK'
  <2>1. CASE ValidateCredentials(r)
    <3> DEFINE q == [Idle EXCEPT !.pc = "issue", !.login = past.saves]
    <3>1. q \in RequestState /\ q.pc = "issue" /\ q.login = past.saves
      BY <1>2, StartTyped DEF Idle
    <3>2. Begin(r, q) /\ tokens' = tokens /\ past' = past
      BY <2>1 DEF ValidateCredentials
    <3> HIDE DEF q
    <3>3. \A s \in SessionRequests :
            request'[s] = IF s = r THEN [q EXCEPT !.read = past.purges] ELSE request[s]
      BY <1>1, <3>2 DEF Begin, Go
    <3>4. request'[r].pc = "issue" /\ request'[r].login = past.saves
          /\ request'[r].read = past.purges
      BY <3>1, <3>3 DEF RequestState
    <3>5. past.covered <= past.saves
      BY DEF FamiliesOK
    <3>6. IssueOK(request'[r], past') /\ RotateOK(request'[r], tokens', past')
      BY <1>2, <3>2, <3>4, <3>5 DEF IssueOK, RotateOK
    <3>. QED  BY <1>1, <1>3, <3>2, <3>3, <3>6, FamiliesStep
  <2>2. CASE IssueToken(r)
    <3> DEFINE t == NewToken(Len(tokens) + 1, 0, r)
    <3>1. t \in TokenRow
      BY <1>1, NewTokenType DEF SessionsTyped
    <3>2. /\ t.login = request[r].login /\ t.read = request[r].read /\ t.born = past.purges
          /\ t.parent = 0
      BY DEF NewToken
    <3>3. /\ request[r].login <= past.saves /\ request[r].read <= past.purges
          /\ request[r].read = past.purges => past.covered <= request[r].login
      BY <2>2 DEF IssueToken, At, FamiliesOK, IssueOK
    <3>4. request[r].read \in Nat
      BY <1>1 DEF RequestState
    <3>5. tokens' = Append(tokens, t) /\ past' = past /\ End(r)
      BY <2>2 DEF IssueToken
    <3> HIDE DEF t
    <3>6. TokensOK(tokens, past)
      BY DEF FamiliesOK, TokensOK
    <3>7. t.read < t.born \/ past.covered <= t.login
      BY <1>2, <3>2, <3>3, <3>4
    <3>8. /\ TokensOK(tokens', past)
          /\ \A q \in RequestState : RotateOK(q, tokens, past) => RotateOK(q, tokens', past)
      BY <1>1, <3>1, <3>2, <3>3, <3>5, <3>6, <3>7, FamiliesAppend
    <3>. QED  BY <1>8, <3>5, <3>8
  <2>. QED  BY <1>7, <2>1, <2>2 DEF Login
<1>9. ASSUME NEW r \in SessionRequests, RefreshSession(r) PROVE FamiliesOK'
  <2>1. ASSUME NEW i \in DOMAIN tokens, LoadTokenToRotate(r, i) PROVE FamiliesOK'
    <3> DEFINE q == [Idle EXCEPT !.pc = "rotate", !.token = i, !.seen = Len(tokens),
                                 !.login = tokens[i].login]
    <3>1. tokens[i] \in TokenRow
      BY <1>1
    <3>2. tokens[i].login \in Nat
      BY <3>1 DEF TokenRow
    <3>3. q \in RequestState /\ q.pc = "rotate" /\ q.token = i /\ q.seen = Len(tokens)
          /\ q.login = tokens[i].login
      <4>1. q \in RequestState
        <5>1. i \in Nat
          BY <1>1
        <5>. QED  BY <1>1, <3>2, <5>1, StartTyped
      <4>2. q.pc = "rotate" /\ q.token = i /\ q.seen = Len(tokens) /\ q.login = tokens[i].login
        BY DEF Idle
      <4>. QED  BY <4>1, <4>2
    <3>4. Begin(r, q) /\ tokens' = tokens /\ past' = past /\ ~ tokens[i].revoked
      BY <2>1 DEF LoadTokenToRotate
    <3> HIDE DEF q
    <3>5. \A s \in SessionRequests :
            request'[s] = IF s = r THEN [q EXCEPT !.read = past.purges] ELSE request[s]
      BY <1>1, <3>4 DEF Begin, Go
    <3>6. /\ request'[r].pc = "rotate" /\ request'[r].token = i /\ request'[r].seen = Len(tokens)
          /\ request'[r].login = tokens[i].login /\ request'[r].read = past.purges
      BY <3>3, <3>5 DEF RequestState
    <3>7. TokenOK(i, tokens, past)
      BY DEF FamiliesOK
    <3>8. \A j \in DOMAIN tokens : tokens[j].parent # i
      <4>1. ASSUME NEW j \in DOMAIN tokens, tokens[j].parent = i PROVE FALSE
        <5>1. TokenOK(j, tokens, past)
          BY DEF FamiliesOK
        <5>. QED  BY <1>1, <3>4, <4>1, <5>1 DEF TokenOK
      <4>. QED  BY <4>1
    <3>9. IssueOK(request'[r], past') /\ RotateOK(request'[r], tokens', past')
      BY <1>1, <1>2, <3>4, <3>6, <3>7, <3>8 DEF IssueOK, RotateOK, TokenOK
    <3>. QED  BY <1>1, <1>3, <3>4, <3>5, <3>9, FamiliesStep
  <2>2. CASE RotateToken(r)
    <3> DEFINE i == request[r].token
               v == Revoked({i})
               t == NewToken(tokens[i].family, i, r)
    <3>1. RotateOK(request[r], tokens, past) /\ request[r].pc = "rotate"
      BY <2>2 DEF RotateToken, At, FamiliesOK
    <3>2. i \in DOMAIN tokens /\ tokens[i] \in TokenRow
      BY <1>1, <3>1 DEF RotateOK
    <3>3. t \in TokenRow
      <4>1. tokens[i].family \in Nat
        BY <3>2 DEF TokenRow
      <4>2. i \in Nat
        BY <1>1, <3>2
      <4>. QED  BY <4>1, <4>2, NewTokenType DEF SessionsTyped
    <3>4. /\ t.login = request[r].login /\ t.read = request[r].read /\ t.born = past.purges
          /\ t.parent = i /\ t.family = tokens[i].family /\ t.seen = request[r].seen
      BY DEF NewToken
    <3>5. tokens' = Append(v, t) /\ past' = past /\ End(r)
      BY <2>2 DEF RotateToken
    <3>6. /\ v \in Seq(TokenRow) /\ DOMAIN v = DOMAIN tokens /\ v[i].revoked
          /\ \A j \in DOMAIN tokens : v[j].parent = tokens[j].parent /\ v[j].family = tokens[j].family
          /\ Kept(tokens, v)
      BY <1>1, <3>2, RevokedShape
    <3> HIDE DEF t, v
    <3>7. TokensOK(tokens, past)
      BY DEF FamiliesOK, TokensOK
    <3>8. /\ TokensOK(v, past)
          /\ \A q \in RequestState : RotateOK(q, tokens, past) => RotateOK(q, v, past)
      BY <1>1, <1>3, <3>6, <3>7, FamiliesKept
    <3>9. RotateOK(request[r], v, past)
      BY <1>1, <3>1, <3>8
    <3>10. request[r].read \in Nat /\ request[r].seen \in Nat
      BY <1>1 DEF RequestState
    <3>11. t.read < t.born \/ past.covered <= t.login \/ FamilyStraddles(t.family, v)
      BY <1>2, <3>1, <3>2, <3>4, <3>6, <3>9, <3>10 DEF RotateOK
    <3>12. t.login <= past.saves
      BY <3>1, <3>4 DEF RotateOK
    <3>13. /\ t.parent \in DOMAIN v /\ v[t.parent].revoked
           /\ \A j \in DOMAIN v : v[j].parent = t.parent => t.seen < j
      BY <3>1, <3>2, <3>4, <3>6, <3>9 DEF RotateOK
    <3>14. /\ TokensOK(tokens', past)
           /\ \A q \in RequestState : RotateOK(q, v, past) => RotateOK(q, tokens', past)
      BY <1>1, <3>3, <3>5, <3>6, <3>8, <3>11, <3>12, <3>13, FamiliesAppend
    <3>. QED  BY <1>8, <3>5, <3>8, <3>14
  <2>. QED  BY <1>9, <2>1, <2>2 DEF RefreshSession
<1>10. ASSUME NEW r \in SessionRequests, Logout(r) PROVE FamiliesOK'
  <2>1. ASSUME NEW i \in DOMAIN tokens, LoadTokenToRevoke(r, i) PROVE FamiliesOK'
    <3> DEFINE q == [Idle EXCEPT !.pc = "logout", !.token = i]
    <3>1. i \in Nat
      BY <1>1
    <3>2. q \in RequestState
      BY <3>1, StartTyped
    <3>3. q.pc = "logout"
      BY DEF Idle
    <3>4. Begin(r, q) /\ tokens' = tokens /\ past' = past
      BY <2>1 DEF LoadTokenToRevoke
    <3> HIDE DEF q
    <3>. QED  BY <1>6, <3>2, <3>3, <3>4
  <2>2. CASE SaveRevokedToken(r)
    BY <1>1, <1>3, <1>5, <2>2 DEF SaveRevokedToken
  <2>. QED  BY <1>10, <2>1, <2>2 DEF Logout
<1>11. ASSUME NEW r \in SessionRequests, NEW i \in Nat,
              NEW pc \in {"revoke_family", "logout_others", "revoke_all"}, Authorize(r, pc, i)
       PROVE  FamiliesOK'
  BY <1>6, <1>11, StartTyped DEF Authorize, Idle
<1>12. ASSUME NEW r \in SessionRequests, RevokeSession(r) PROVE FamiliesOK'
  <2>1. CASE RevokeFamilyForUser(r)
    BY <1>1, <1>3, <1>5, <2>1 DEF RevokeFamilyForUser
  <2>. QED  BY <1>1, <1>11, <1>12, <2>1 DEF RevokeSession
<1>13. ASSUME NEW r \in SessionRequests, LogoutOthers(r) PROVE FamiliesOK'
  <2>1. CASE RevokeOtherFamiliesForUser(r)
    BY <1>1, <1>3, <1>5, <2>1 DEF RevokeOtherFamiliesForUser
  <2>. QED  BY <1>1, <1>11, <1>13, <2>1 DEF LogoutOthers
<1>14. ASSUME NEW r \in SessionRequests, LogoutAll(r) PROVE FamiliesOK'
  <2>1. CASE RevokeAllForUser(r)
    <3>1. past'.saves = past.saves /\ past'.purges = past.purges + 1 /\ past'.covered = past.saves
      BY <1>1, <2>1 DEF RevokeAllForUser
    <3>2. tokens' = Revoked(DOMAIN tokens) /\ End(r)
      BY <2>1 DEF RevokeAllForUser
    <3>3. /\ DOMAIN tokens' = DOMAIN tokens /\ Len(tokens') = Len(tokens)
          /\ \A i \in DOMAIN tokens :
               /\ tokens'[i].login = tokens[i].login /\ tokens'[i].revoked
               /\ tokens'[i].parent = tokens[i].parent /\ tokens'[i].seen = tokens[i].seen
      BY <1>1, <3>2, RevokedShape
    <3>4. ASSUME NEW i \in DOMAIN tokens' PROVE TokenOK(i, tokens', past')
      <4>1. TokenOK(i, tokens, past)
        BY <3>3 DEF FamiliesOK
      <4>. QED  BY <3>1, <3>3, <4>1 DEF TokenOK
    <3>5. SuccessorsOK(tokens')
      BY <3>3 DEF FamiliesOK, SuccessorsOK
    <3>6. ASSUME NEW s \in SessionRequests
          PROVE  IssueOK(request'[s], past') /\ RotateOK(request'[s], tokens', past')
      <4>1. CASE s = r
        BY <1>1, <3>2, <4>1, IdleTyped DEF IssueOK, RotateOK, End, Go
      <4>2. CASE s # r
        <5>1. request'[s] = request[s] /\ request[s].read \in Nat
          BY <1>1, <3>2, <4>2 DEF End, Go, RequestState
        <5>2. IssueOK(request[s], past) /\ RotateOK(request[s], tokens, past)
          BY DEF FamiliesOK
        <5>3. request[s].pc \in {"issue", "rotate"} =>
                request[s].read <= past'.purges /\ request[s].read # past'.purges
          BY <1>2, <3>1, <5>1, <5>2 DEF IssueOK, RotateOK
        <5>4. IssueOK(request[s], past')
          BY <3>1, <5>2, <5>3 DEF IssueOK
        <5>5. RotateOK(request[s], tokens', past')
          BY <3>1, <3>3, <5>2, <5>3 DEF RotateOK
        <5>. QED  BY <5>1, <5>4, <5>5
      <4>. QED  BY <4>1, <4>2
    <3>7. past'.covered <= past'.saves
      BY <1>2, <3>1
    <3>. QED  BY <3>4, <3>5, <3>6, <3>7 DEF FamiliesOK
  <2>. QED  BY <1>11, <1>14, <2>1 DEF LogoutAll
<1>24. ASSUME NEW r \in SessionRequests, NEW u, NEW c, SaveUser(r, u, c) PROVE FamiliesOK'
  <2>1. SamePast(past, past')
    BY <1>1, <1>2, <1>24 DEF SaveUser, SamePast
  <2>2. Go(r, Later(request[r], "revoke_all")) /\ tokens' = tokens
    BY <1>24 DEF SaveUser, Later
  <2>. QED  BY <1>1, <1>4, <2>1, <2>2, LaterTyped
<1>15. ASSUME NEW r \in SessionRequests, ChangePassword(r) PROVE FamiliesOK'
  <2>1. ASSUME NEW p \in Passwords, RequestPasswordChange(r, p) PROVE FamiliesOK'
    BY <1>6, <2>1, StartTyped DEF RequestPasswordChange, Idle
  <2>2. CASE LoadUserToSavePassword(r)
    <3>1. Go(r, Loaded(request[r], user, past.saves)) /\ tokens' = tokens /\ past' = past
      BY <2>2 DEF LoadUserToSavePassword, Loaded
    <3>2. user \in UserRow
      BY DEF SessionsTyped, SessionsTypeOK
    <3>3. Loaded(request[r], user, past.saves).pc = "save_password"
      BY <1>1, <1>2, <3>2, LoadedTyped
    <3>. QED  BY <1>1, <1>3, <1>4, <3>1, <3>3
  <2>. QED  BY <1>15, <1>24, <2>1, <2>2 DEF ChangePassword, SavePassword
<1>16. ASSUME NEW r \in SessionRequests, SetUserActive(r) PROVE FamiliesOK'
  <2>1. ASSUME NEW b \in BOOLEAN, LoadUserToSetActive(r, b) PROVE FamiliesOK'
    <3>1. user \in UserRow
      BY DEF SessionsTyped, SessionsTypeOK
    <3>. QED  BY <1>2, <1>6, <2>1, <3>1, StartTyped DEF LoadUserToSetActive, Idle
  <2>. QED  BY <1>16, <1>24, <2>1 DEF SetUserActive, SaveActive
<1>17. ASSUME NEW r \in SessionRequests, AssignRole(r) PROVE FamiliesOK'
  BY <1>6, <1>17, StartTyped DEF AssignRole, Idle
<1>18. ASSUME NEW r \in SessionRequests, ForgotPassword(r) PROVE FamiliesOK'
  <2>1. ASSUME NEW k \in ResetKeys, ReadResetPointer(r, k) PROVE FamiliesOK'
    <3>1. redis.pointer \in ResetKeys \cup {NoValue}
      BY DEF SessionsTyped, SessionsTypeOK
    <3>. QED  BY <1>6, <2>1, <3>1, StartTyped DEF ReadResetPointer, Idle
  <2>2. CASE DeleteOldLookup(r)
    BY <1>1, <1>3, <1>4, <2>2, LaterTyped DEF DeleteOldLookup, Later
  <2>3. CASE SetLookup(r)
    BY <1>1, <1>3, <1>4, <2>3, LaterTyped DEF SetLookup, Later
  <2>4. CASE SetPointerAndMail(r)
    BY <1>1, <1>3, <1>5, <2>4 DEF SetPointerAndMail
  <2>. QED  BY <1>18, <2>1, <2>2, <2>3, <2>4 DEF ForgotPassword
<1>19. ASSUME NEW r \in SessionRequests, ResetPassword(r) PROVE FamiliesOK'
  <2>1. ASSUME NEW k \in ResetKeys, NEW p \in Passwords, ReadResetKey(r, k, p)
        PROVE  FamiliesOK'
    <3>1. Len(consumed) \in Nat
      BY DEF SessionsTyped, SessionsTypeOK
    <3>. QED  BY <1>6, <2>1, <3>1, StartTyped DEF ReadResetKey, Idle
  <2>2. CASE DeleteResetKeys(r)
    BY <1>1, <1>3, <1>4, <2>2, LaterTyped DEF DeleteResetKeys, Later
  <2>. QED  BY <1>19, <2>1, <2>2 DEF ResetPassword
<1>20. ASSUME NEW r \in SessionRequests, RequestFails(r) PROVE FamiliesOK'
  BY <1>1, <1>3, <1>5, <1>20 DEF RequestFails
<1>21. ASSUME tokens' = tokens \/ (\E i \in DOMAIN tokens : TokenExpires(i)), past' = past,
              request' = request
       PROVE  FamiliesOK'
  <2>1. Kept(tokens, tokens')
    <3>1. ASSUME NEW i \in DOMAIN tokens, TokenExpires(i) PROVE Kept(tokens, tokens')
      <4>1. tokens[i] \in TokenRow
        BY <1>1
      <4>2. /\ DOMAIN tokens' = DOMAIN tokens /\ Len(tokens') = Len(tokens)
            /\ \A j \in DOMAIN tokens :
                 tokens'[j] = IF j = i THEN [tokens[i] EXCEPT !.expired = TRUE] ELSE tokens[j]
        BY <1>1, <3>1 DEF TokenExpires
      <4>. QED  BY <4>1, <4>2 DEF Kept, TokenRow
    <3>. QED  BY <1>1, <1>21, <3>1
  <2>2. TokensOK(tokens, past)
    BY DEF FamiliesOK, TokensOK
  <2>3. /\ TokensOK(tokens', past')
        /\ \A s \in SessionRequests :
             IssueOK(request[s], past') /\ RotateOK(request[s], tokens', past')
    <3>1. tokens' \in Seq(TokenRow)
      BY DEF SessionsTyped, SessionsTypeOK
    <3>. QED  BY <1>1, <1>3, <1>21, <2>1, <2>2, <3>1, FamiliesKept DEF FamiliesOK
  <2>. QED  BY <1>21, <2>3 DEF FamiliesOK, TokensOK
<1>22. CASE ResetKeysExpire \/ UNCHANGED sessionVars
  BY <1>21, <1>22 DEF ResetKeysExpire, sessionVars
<1>23. ASSUME NEW i \in DOMAIN tokens, TokenExpires(i) PROVE FamiliesOK'
  BY <1>21, <1>23 DEF TokenExpires
<1>. QED
  BY <1>7, <1>9, <1>10, <1>12, <1>13, <1>14, <1>15, <1>16, <1>17, <1>18, <1>19, <1>20,
     <1>22, <1>23 DEF SessionsNext

-----------------------------------------------------------------------------
\* Keys.

KeyState(q, m, cons) == SendOK(q, m) /\ ConsumeOK(q, m, cons)

\* One request moves on and nothing is mailed or consumed.
LEMMA KeysStep ==
  ASSUME SessionsTyped, KeysOK, NEW r \in SessionRequests, NEW q, Go(r, q),
         KeyState(q, mailed, consumed),
         q.pc \in Sending =>
           \/ request[r].pc \in Sending /\ q.key = request[r].key
           \/ \A s \in SessionRequests : request[s].key # q.key,
         redis'.lookup \subseteq redis.lookup
           \/ (request[r].pc \in Sending
                 /\ redis'.lookup \subseteq redis.lookup \cup {request[r].key}),
         mailed' = mailed, consumed' = consumed
  PROVE  KeysOK'
<1>1. \A s \in SessionRequests : request'[s] = IF s = r THEN q ELSE request[s]
  BY DEF SessionsTyped, SessionsTypeOK, Go
<1>2. \A s \in SessionRequests : KeyState(request'[s], mailed', consumed')
  BY <1>1 DEF KeysOK, KeyState
<1>3. ASSUME NEW s \in SessionRequests, NEW t \in SessionRequests, s # t,
             request'[s].pc \in Sending, request'[t].pc \in Sending
      PROVE  request'[s].key # request'[t].key
  <2>1. CASE s = r
    BY <1>1, <1>3, <2>1 DEF KeysOK
  <2>2. CASE t = r
    BY <1>1, <1>3, <2>2 DEF KeysOK
  <2>3. CASE s # r /\ t # r
    BY <1>1, <1>3, <2>3 DEF KeysOK
  <2>. QED  BY <2>1, <2>2, <2>3
<1>4. ASSUME NEW i \in DOMAIN consumed PROVE consumed[i].key \in mailed \ redis'.lookup
  <2>1. consumed[i].key \in mailed \ redis.lookup
    BY DEF KeysOK
  <2>2. request[r].pc \in Sending => request[r].key # consumed[i].key
    BY <2>1 DEF KeysOK, SendOK
  <2>. QED  BY <2>1, <2>2
<1>. QED  BY <1>2, <1>3, <1>4 DEF KeysOK, KeyState

LEMMA KeysInit == SessionsInit => KeysOK
<1> SUFFICES ASSUME SessionsInit PROVE KeysOK
  OBVIOUS
<1>1. \A r \in SessionRequests : request[r].pc = "idle"
  BY IdleTyped DEF SessionsInit
<1>2. consumed = <<>> /\ DOMAIN consumed = {}
  BY DEF SessionsInit
<1>. QED  BY <1>1, <1>2 DEF KeysOK, SendOK, ConsumeOK, ConsumptionsOK, Sending

LEMMA KeysNext == SessionsTyped /\ KeysOK /\ [SessionsNext]_sessionVars => KeysOK'
<1> SUFFICES ASSUME SessionsTyped, KeysOK, [SessionsNext]_sessionVars PROVE KeysOK'
  OBVIOUS
<1>1. /\ request \in [SessionRequests -> RequestState] /\ mailed \in SUBSET ResetKeys
      /\ redis \in [lookup : SUBSET ResetKeys, pointer : ResetKeys \cup {NoValue}]
      /\ consumed \in Seq([key : ResetKeys, seen : Nat])
  BY DEF SessionsTyped, SessionsTypeOK
<1>2. DOMAIN consumed = 1 .. Len(consumed) /\ Len(consumed) \in Nat
  BY <1>1
\* Requests that neither send nor consume a key.
<1>3. ASSUME NEW r \in SessionRequests, NEW q, Go(r, q), q.pc \notin Sending \cup {"delete_keys"},
             redis'.lookup \subseteq redis.lookup, mailed' = mailed, consumed' = consumed
      PROVE  KeysOK'
  <2>1. KeyState(q, mailed, consumed)
    BY <1>3 DEF KeyState, SendOK, ConsumeOK
  <2>. QED  BY <1>3, <2>1, KeysStep
<1>4. ASSUME NEW r \in SessionRequests, End(r), redis' = redis, mailed' = mailed,
             consumed' = consumed
      PROVE  KeysOK'
  BY <1>3, <1>4, IdleTyped DEF End, Sending
<1>5. ASSUME NEW r \in SessionRequests, NEW q \in RequestState, Begin(r, q),
             q.pc \notin Sending \cup {"delete_keys"},
             redis' = redis, mailed' = mailed, consumed' = consumed
      PROVE  KeysOK'
  <2>1. Go(r, [q EXCEPT !.read = past.purges])
    BY <1>5 DEF Begin
  <2>2. [q EXCEPT !.read = past.purges].pc = q.pc
    BY DEF RequestState
  <2>. QED  BY <1>3, <1>5, <2>1, <2>2
\* Requests that never touch a key.
<1>6. ASSUME NEW r \in SessionRequests, Login(r) PROVE KeysOK'
  <2>1. CASE ValidateCredentials(r)
    <3>1. past.saves \in Nat
      BY DEF SessionsTyped, SessionsTypeOK
    <3>. QED  BY <1>5, <2>1, <3>1, StartTyped DEF ValidateCredentials, Idle, Sending
  <2>2. CASE IssueToken(r)
    BY <1>4, <2>2 DEF IssueToken
  <2>. QED  BY <1>6, <2>1, <2>2 DEF Login
<1>7. ASSUME NEW i \in DOMAIN tokens PROVE i \in Nat /\ tokens[i].login \in Nat /\ Len(tokens) \in Nat
  <2>1. tokens \in Seq(TokenRow)
    BY DEF SessionsTyped, SessionsTypeOK
  <2>2. tokens[i] \in TokenRow /\ i \in Nat /\ Len(tokens) \in Nat
    BY <2>1
  <2>. QED  BY <2>2 DEF TokenRow
<1>8. ASSUME NEW r \in SessionRequests, RefreshSession(r) PROVE KeysOK'
  <2>1. ASSUME NEW i \in DOMAIN tokens, LoadTokenToRotate(r, i) PROVE KeysOK'
    <3> DEFINE q == [Idle EXCEPT !.pc = "rotate", !.token = i, !.seen = Len(tokens),
                                 !.login = tokens[i].login]
    <3>1. q \in RequestState
      BY <1>7, StartTyped
    <3>2. q.pc \notin Sending \cup {"delete_keys"}
      BY DEF Idle, Sending
    <3>3. Begin(r, q) /\ redis' = redis /\ mailed' = mailed /\ consumed' = consumed
      BY <2>1 DEF LoadTokenToRotate
    <3> HIDE DEF q
    <3>. QED  BY <1>5, <3>1, <3>2, <3>3
  <2>2. CASE RotateToken(r)
    BY <1>4, <2>2 DEF RotateToken
  <2>. QED  BY <1>8, <2>1, <2>2 DEF RefreshSession
<1>9. ASSUME NEW r \in SessionRequests, Logout(r) PROVE KeysOK'
  <2>1. ASSUME NEW i \in DOMAIN tokens, LoadTokenToRevoke(r, i) PROVE KeysOK'
    <3> DEFINE q == [Idle EXCEPT !.pc = "logout", !.token = i]
    <3>0. i \in Nat
      BY <1>7
    <3>1. q \in RequestState
      BY <3>0, StartTyped
    <3>2. q.pc \notin Sending \cup {"delete_keys"}
      BY DEF Idle, Sending
    <3>3. Begin(r, q) /\ redis' = redis /\ mailed' = mailed /\ consumed' = consumed
      BY <2>1 DEF LoadTokenToRevoke
    <3> HIDE DEF q
    <3>. QED  BY <1>5, <3>1, <3>2, <3>3
  <2>2. CASE SaveRevokedToken(r)
    BY <1>4, <2>2 DEF SaveRevokedToken
  <2>. QED  BY <1>9, <2>1, <2>2 DEF Logout
<1>10. ASSUME NEW r \in SessionRequests, NEW i \in Nat,
              NEW pc \in {"revoke_family", "logout_others", "revoke_all"}, Authorize(r, pc, i)
       PROVE  KeysOK'
  BY <1>5, <1>10, StartTyped DEF Authorize, Idle, Sending
<1>11. ASSUME NEW r \in SessionRequests, RevokeSession(r) \/ LogoutOthers(r) PROVE KeysOK'
  <2>1. CASE RevokeFamilyForUser(r)
    BY <1>4, <2>1 DEF RevokeFamilyForUser
  <2>2. CASE RevokeOtherFamiliesForUser(r)
    BY <1>4, <2>2 DEF RevokeOtherFamiliesForUser
  <2>. QED  BY <1>7, <1>10, <1>11, <2>1, <2>2 DEF RevokeSession, LogoutOthers
<1>12. ASSUME NEW r \in SessionRequests, LogoutAll(r) PROVE KeysOK'
  <2>1. CASE RevokeAllForUser(r)
    BY <1>4, <2>1 DEF RevokeAllForUser
  <2>. QED  BY <1>10, <1>12, <2>1 DEF LogoutAll
<1>13. \A r \in SessionRequests :
         Later(request[r], "revoke_all").pc \notin Sending \cup {"delete_keys"}
  BY <1>1, LaterTyped DEF Sending
<1>24. ASSUME NEW r \in SessionRequests, NEW u, NEW c, SaveUser(r, u, c) PROVE KeysOK'
  <2>1. Go(r, Later(request[r], "revoke_all")) /\ redis' = redis /\ mailed' = mailed
        /\ consumed' = consumed
    BY <1>24 DEF SaveUser, Later
  <2>. QED  BY <1>3, <1>13, <2>1
<1>25. user \in UserRow /\ past.saves \in Nat
  BY DEF SessionsTyped, SessionsTypeOK
<1>14. ASSUME NEW r \in SessionRequests, ChangePassword(r) PROVE KeysOK'
  <2>1. ASSUME NEW p \in Passwords, RequestPasswordChange(r, p) PROVE KeysOK'
    BY <1>5, <2>1, StartTyped DEF RequestPasswordChange, Idle, Sending
  <2>2. CASE LoadUserToSavePassword(r)
    <3>1. /\ Go(r, Loaded(request[r], user, past.saves)) /\ redis' = redis /\ mailed' = mailed
          /\ consumed' = consumed
      BY <2>2 DEF LoadUserToSavePassword, Loaded
    <3>2. Loaded(request[r], user, past.saves).pc \notin Sending \cup {"delete_keys"}
      BY <1>1, <1>25, LoadedTyped DEF Sending
    <3>. QED  BY <1>3, <3>1, <3>2
  <2>. QED  BY <1>14, <1>24, <2>1, <2>2 DEF ChangePassword, SavePassword
<1>15. ASSUME NEW r \in SessionRequests, SetUserActive(r) PROVE KeysOK'
  <2>1. ASSUME NEW b \in BOOLEAN, LoadUserToSetActive(r, b) PROVE KeysOK'
    BY <1>5, <1>25, <2>1, StartTyped DEF LoadUserToSetActive, Idle, Sending
  <2>. QED  BY <1>15, <1>24, <2>1 DEF SetUserActive, SaveActive
<1>16. ASSUME NEW r \in SessionRequests, AssignRole(r) PROVE KeysOK'
  BY <1>5, <1>16, StartTyped DEF AssignRole, Idle, Sending
<1>17. ASSUME NEW r \in SessionRequests, RequestFails(r) PROVE KeysOK'
  BY <1>4, <1>17 DEF RequestFails
\* A key is drawn, set and mailed.
<1>18. ASSUME NEW r \in SessionRequests, ForgotPassword(r) PROVE KeysOK'
  <2>1. ASSUME NEW k \in ResetKeys, ReadResetPointer(r, k) PROVE KeysOK'
    <3> DEFINE q == [Idle EXCEPT !.pc = "delete_lookup", !.key = k, !.old = redis.pointer]
    <3>1. q \in RequestState
      BY <1>1, StartTyped
    <3>2. q.pc = "delete_lookup" /\ q.key = k
      BY DEF Idle
    <3>3. Begin(r, q) /\ redis' = redis /\ mailed' = mailed /\ consumed' = consumed
          /\ k \notin mailed /\ \A s \in SessionRequests : request[s].key # k
      BY <2>1 DEF ReadResetPointer
    <3> HIDE DEF q
    <3> DEFINE b == [q EXCEPT !.read = past.purges]
    <3>4. Go(r, b)
      BY <3>3 DEF Begin
    <3>5. b.pc = "delete_lookup" /\ b.key = k
      BY <3>1, <3>2 DEF RequestState
    <3> HIDE DEF b
    <3>6. KeyState(b, mailed, consumed)
      BY <3>3, <3>5 DEF KeyState, SendOK, ConsumeOK
    <3>. QED  BY <3>3, <3>4, <3>5, <3>6, KeysStep
  <2>2. ASSUME NEW pc \in {"set_lookup", "set_pointer"}, Go(r, Later(request[r], pc)),
               request[r].pc \in Sending,
               redis'.lookup \subseteq redis.lookup \cup {request[r].key},
               mailed' = mailed, consumed' = consumed
        PROVE  KeysOK'
    <3> DEFINE q == Later(request[r], pc)
    <3>1. q.pc = pc /\ q.key = request[r].key
      BY <1>1, LaterTyped
    <3>2. KeyState(q, mailed, consumed)
      BY <2>2, <3>1 DEF KeyState, SendOK, ConsumeOK, KeysOK
    <3> HIDE DEF q
    <3>3. Go(r, q)
      BY <2>2 DEF q
    <3>. QED  BY <2>2, <3>1, <3>2, <3>3, KeysStep
  <2>3. CASE DeleteOldLookup(r)
    <3>1. redis'.lookup = redis.lookup \ {request[r].old}
      BY <1>1, <2>3 DEF DeleteOldLookup
    <3>2. Go(r, Later(request[r], "set_lookup")) /\ request[r].pc \in Sending
          /\ mailed' = mailed /\ consumed' = consumed
      BY <2>3 DEF DeleteOldLookup, Later, At, Sending
    <3>. QED  BY <2>2, <3>1, <3>2
  <2>4. CASE SetLookup(r)
    <3>1. redis'.lookup = redis.lookup \cup {request[r].key}
      BY <1>1, <2>4 DEF SetLookup
    <3>2. Go(r, Later(request[r], "set_pointer")) /\ request[r].pc \in Sending
          /\ mailed' = mailed /\ consumed' = consumed
      BY <2>4 DEF SetLookup, Later, At, Sending
    <3>. QED  BY <2>2, <3>1, <3>2
  <2>5. CASE SetPointerAndMail(r)
    <3>1. /\ request[r].pc \in Sending /\ redis'.lookup = redis.lookup
          /\ mailed' = mailed \cup {request[r].key} /\ consumed' = consumed
      BY <1>1, <2>5 DEF SetPointerAndMail, At, Sending
    <3>2. \A s \in SessionRequests : request'[s] = IF s = r THEN Idle ELSE request[s]
      BY <1>1, <2>5 DEF SetPointerAndMail, End, Go
    <3>3. request'[r].pc = "idle"
      BY <3>2, IdleTyped
    <3>4. ASSUME NEW s \in SessionRequests
          PROVE  SendOK(request'[s], mailed') /\ ConsumeOK(request'[s], mailed', consumed')
      <4>1. CASE s = r
        BY <3>3, <4>1 DEF SendOK, ConsumeOK, Sending
      <4>2. CASE s # r
        BY <3>1, <3>2, <4>2 DEF KeysOK, SendOK, ConsumeOK
      <4>. QED  BY <4>1, <4>2
    <3>5. \A s, t \in SessionRequests :
            s # t /\ request'[s].pc \in Sending /\ request'[t].pc \in Sending
              => request'[s].key # request'[t].key
      BY <3>2, <3>3 DEF KeysOK, Sending
    <3>6. \A i \in DOMAIN consumed' : consumed'[i].key \in mailed' \ redis'.lookup
      BY <3>1 DEF KeysOK
    <3>7. ConsumptionsOK(consumed')
      BY <3>1 DEF KeysOK
    <3>. QED  BY <3>4, <3>5, <3>6, <3>7 DEF KeysOK
  <2>. QED  BY <1>18, <2>1, <2>3, <2>4, <2>5 DEF ForgotPassword
\* A mailed key is read, and consumed.
<1>19. ASSUME NEW r \in SessionRequests, ResetPassword(r) PROVE KeysOK'
  <2>1. ASSUME NEW k \in ResetKeys, NEW p \in Passwords, ReadResetKey(r, k, p) PROVE KeysOK'
    <3> DEFINE q == [Idle EXCEPT !.pc = "delete_keys", !.key = k, !.password = p,
                                 !.seen = Len(consumed)]
    <3>1. q \in RequestState
      BY <1>2, StartTyped
    <3>2. q.pc = "delete_keys" /\ q.key = k /\ q.seen = Len(consumed)
      BY DEF Idle
    <3>3. Begin(r, q) /\ redis' = redis /\ mailed' = mailed /\ consumed' = consumed
          /\ k \in mailed /\ k \in redis.lookup
      BY <2>1 DEF ReadResetKey
    <3> HIDE DEF q
    <3> DEFINE b == [q EXCEPT !.read = past.purges]
    <3>4. Go(r, b)
      BY <3>3 DEF Begin
    <3>5. b.pc = "delete_keys" /\ b.key = k /\ b.seen = Len(consumed)
      BY <3>1, <3>2 DEF RequestState
    <3> HIDE DEF b
    <3>6. \A i \in DOMAIN consumed : consumed[i].key # k
      BY <3>3 DEF KeysOK
    <3>7. KeyState(b, mailed, consumed)
      BY <1>2, <3>3, <3>5, <3>6 DEF KeyState, SendOK, ConsumeOK, Sending
    <3>. QED  BY <3>3, <3>4, <3>5, <3>7, KeysStep DEF Sending
  <2>2. CASE DeleteResetKeys(r)
    <3> DEFINE c == [key |-> request[r].key, seen |-> request[r].seen]
    <3>1. /\ redis'.lookup = redis.lookup \ {request[r].key} /\ mailed' = mailed
          /\ consumed' = Append(consumed, c) /\ request[r].pc = "delete_keys"
      BY <2>2 DEF DeleteResetKeys, At
    <3>2. ConsumeOK(request[r], mailed, consumed)
      BY DEF KeysOK
    <3>3. \A s \in SessionRequests :
            request'[s] = IF s = r THEN Later(request[r], "load_user") ELSE request[s]
      BY <1>1, <2>2 DEF DeleteResetKeys, Go, Later
    <3>4. request'[r].pc = "load_user"
      BY <1>1, <3>3, LaterTyped
    <3>5. c.key = request[r].key /\ c.seen = request[r].seen
          /\ c \in [key : ResetKeys, seen : Nat]
      <4>1. request[r].seen \in Nat /\ request[r].key \in ResetKeys
        BY <1>1, <3>1 DEF SessionsTyped, RequestTyped, RequestState
      <4>. QED  BY <4>1
    <3> HIDE DEF c
    <3>6. /\ DOMAIN consumed' = 1 .. Len(consumed) + 1
          /\ consumed'[Len(consumed) + 1] = c
          /\ \A i \in DOMAIN consumed : consumed'[i] = consumed[i]
      BY <1>1, <3>1, <3>5
    <3>7. request[r].key \in mailed
          /\ \A i \in DOMAIN consumed : consumed[i].key = request[r].key => request[r].seen < i
          /\ request[r].seen <= Len(consumed)
      BY <3>1, <3>2 DEF ConsumeOK
    <3>8. ASSUME NEW s \in SessionRequests
          PROVE  SendOK(request'[s], mailed') /\ ConsumeOK(request'[s], mailed', consumed')
      <4>1. CASE s = r
        BY <3>4, <4>1 DEF SendOK, ConsumeOK, Sending
      <4>2. CASE s # r
        <5>1. SendOK(request[s], mailed) /\ ConsumeOK(request[s], mailed, consumed)
          BY DEF KeysOK
        <5>2. request'[s] = request[s]
          BY <3>3, <4>2
        <5>3. request[s].seen \in Nat /\ Len(consumed') = Len(consumed) + 1
          BY <1>1, <3>1, <3>5 DEF RequestState
        <5>4. SendOK(request[s], mailed')
          BY <3>1, <5>1 DEF SendOK
        <5>5. ConsumeOK(request[s], mailed', consumed')
          BY <1>2, <3>1, <3>6, <5>1, <5>3 DEF ConsumeOK
        <5>. QED  BY <5>2, <5>4, <5>5
      <4>. QED  BY <4>1, <4>2
    <3>9. \A s, t \in SessionRequests :
            s # t /\ request'[s].pc \in Sending /\ request'[t].pc \in Sending
              => request'[s].key # request'[t].key
      BY <3>3, <3>4 DEF KeysOK, Sending
    <3>10. \A i \in DOMAIN consumed' : consumed'[i].key \in mailed' \ redis'.lookup
      BY <1>2, <3>1, <3>5, <3>6, <3>7 DEF KeysOK
    <3>11. ConsumptionsOK(consumed')
      BY <1>2, <3>5, <3>6, <3>7 DEF KeysOK, ConsumptionsOK
    <3>. QED  BY <3>8, <3>9, <3>10, <3>11 DEF KeysOK
  <2>. QED  BY <1>19, <2>1, <2>2 DEF ResetPassword
<1>20. ASSUME redis'.lookup \subseteq redis.lookup, request' = request, mailed' = mailed,
              consumed' = consumed
       PROVE  KeysOK'
  BY <1>20 DEF KeysOK
<1>21. ASSUME NEW i \in DOMAIN tokens, TokenExpires(i) PROVE KeysOK'
  BY <1>20, <1>21 DEF TokenExpires
<1>22. CASE ResetKeysExpire
  BY <1>20, <1>22 DEF ResetKeysExpire
<1>23. CASE UNCHANGED sessionVars
  BY <1>20, <1>23 DEF sessionVars
<1>. QED
  BY <1>6, <1>8, <1>9, <1>11, <1>12, <1>14, <1>15, <1>16, <1>17, <1>18, <1>19, <1>21,
     <1>22, <1>23 DEF SessionsNext

-----------------------------------------------------------------------------
\* The row.

LEMMA RowInit == SessionsInit => RowOK
<1> SUFFICES ASSUME SessionsInit PROVE RowOK
  OBVIOUS
<1>1. \A r \in SessionRequests : request[r].pc = "idle"
  BY IdleTyped DEF SessionsInit
<1>2. tokens = <<>> /\ DOMAIN tokens = {} /\ user = FirstUser /\ asked.user = FirstUser
  BY DEF SessionsInit
<1>. QED  BY <1>1, <1>2 DEF RowOK, AccountStands, LoginsActive, RowRead

\* One request moves on and the row is not saved.
LEMMA RowStep ==
  ASSUME SessionsTyped, RowOK, NEW r \in SessionRequests, NEW q, Go(r, q),
         UNCHANGED userVars, past'.saves = past.saves,
         RowRead(q, user, past.saves), LoginsActive(tokens', user, past.saves)
  PROVE  RowOK'
<1>1. \A s \in SessionRequests : request'[s] = IF s = r THEN q ELSE request[s]
  BY DEF SessionsTyped, SessionsTypeOK, Go
<1>2. \A s \in SessionRequests : RowRead(request'[s], user', past'.saves)
  BY <1>1 DEF RowOK, userVars
<1>3. AccountStands'
  BY DEF RowOK, AccountStands, userVars
<1>. QED  BY <1>2, <1>3 DEF RowOK, userVars

\* The row is saved.
LEMMA RowSaved ==
  ASSUME SessionsTyped, FamiliesOK, RowOK, NEW r \in SessionRequests,
         request[r].pc \in {"save_password", "save_active"},
         NEW c \in Columns, NEW v, SaveUser(r, [request[r].row EXCEPT ![c] = v], c)
  PROVE  RowOK'
<1> DEFINE u == [request[r].row EXCEPT ![c] = v]
<1>1. /\ user \in UserRow /\ request[r].row \in UserRow /\ asked.user \in UserRow
      /\ past \in [saves : Nat, purges : Nat, covered : Nat]
      /\ request \in [SessionRequests -> RequestState]
      /\ asked \in [user : UserRow, lost : SUBSET Columns]
  BY DEF SessionsTyped, SessionsTypeOK, RequestState
<1>2. past.saves \in Nat /\ past'.saves = past.saves + 1 /\ request[r].loaded \in Nat
  BY <1>1 DEF SaveUser, RequestState
<1>3. \A d \in Columns \ {c} : u[d] = request[r].row[d]
  BY <1>1 DEF Columns, FirstUser, UserRow
<1>4. /\ user' = u
      /\ asked'.user = [asked.user EXCEPT ![c] = u[c]]
      /\ asked'.lost = (asked.lost \ {c})
           \cup {d \in Columns \ {c} : u[d] # user[d] /\ request[r].loaded < past.saves}
  BY <1>1 DEF SaveUser
<1> HIDE DEF u
<1>5. asked'.user[c] = u[c] /\ \A d \in Columns \ {c} : asked'.user[d] = asked.user[d]
  BY <1>1, <1>4 DEF Columns, FirstUser, UserRow
<1>6. request[r].loaded < past.saves \/ request[r].row = user
  BY <1>2 DEF RowOK, RowRead
<1>7. AccountStands'
  <2>1. ASSUME NEW d \in Columns PROVE user'[d] = asked'.user[d] \/ d \in asked'.lost
    <3>1. CASE d = c
      BY <1>4, <1>5, <3>1
    <3>2. CASE d # c /\ u[d] = user[d]
      <4>1. user[d] = asked.user[d] \/ d \in asked.lost
        BY DEF RowOK, AccountStands
      <4>. QED  BY <1>4, <1>5, <3>2, <4>1
    <3>3. CASE d # c /\ u[d] # user[d]
      BY <1>3, <1>4, <1>6, <3>3
    <3>. QED  BY <3>1, <3>2, <3>3
  <2>. QED  BY <2>1 DEF AccountStands
<1>8. LoginsActive(tokens, user, past.saves)'
  <2>1. \A i \in DOMAIN tokens : tokens[i].login # past'.saves
    <3>1. ASSUME NEW i \in DOMAIN tokens PROVE tokens[i].login # past'.saves
      <4>1. tokens[i].login <= past.saves
        BY DEF FamiliesOK, TokenOK
      <4>2. tokens[i] \in TokenRow
        BY DEF SessionsTyped, SessionsTypeOK
      <4>. QED  BY <1>2, <4>1, <4>2 DEF TokenRow
    <3>. QED  BY <3>1
  <2>. QED  BY <2>1 DEF LoginsActive, SaveUser
<1>9. ASSUME NEW s \in SessionRequests PROVE RowRead(request[s], user, past.saves)'
  <2>1. CASE s = r
    <3>1. request'[s].pc = "revoke_all"
      BY <1>1, <2>1 DEF SaveUser, Go, RequestState
    <3>. QED  BY <3>1 DEF RowRead
  <2>2. CASE s # r
    <3>1. request'[s] = request[s] /\ request[s].login \in Nat /\ request[s].loaded \in Nat
      BY <1>1, <2>2 DEF SaveUser, Go, RequestState
    <3>2. request[s].pc \in {"issue", "rotate"} => request[s].login <= past.saves
      BY DEF FamiliesOK, IssueOK, RotateOK
    <3>3. request[s].pc \in {"save_password", "save_active"} => request[s].loaded <= past.saves
      BY DEF RowOK, RowRead
    <3>. QED  BY <1>2, <3>1, <3>2, <3>3 DEF RowRead
  <2>. QED  BY <2>1, <2>2
<1>. QED  BY <1>7, <1>8, <1>9 DEF RowOK

LEMMA RowNext ==
  SessionsTyped /\ FamiliesOK /\ RowOK /\ [SessionsNext]_sessionVars => RowOK'
<1> SUFFICES ASSUME SessionsTyped, FamiliesOK, RowOK, [SessionsNext]_sessionVars PROVE RowOK'
  OBVIOUS
<1>1. /\ tokens \in Seq(TokenRow) /\ DOMAIN tokens = 1 .. Len(tokens) /\ Len(tokens) \in Nat
      /\ request \in [SessionRequests -> RequestState] /\ user \in UserRow
      /\ past \in [saves : Nat, purges : Nat, covered : Nat] /\ past.saves \in Nat
      /\ redis.pointer \in ResetKeys \cup {NoValue} /\ Len(consumed) \in Nat
  BY DEF SessionsTyped, SessionsTypeOK
<1>2. LoginsActive(tokens, user, past.saves)
  BY DEF RowOK
<1>3. \A S : LoginsActive(Revoked(S), user, past.saves)
  BY <1>1, <1>2, RevokedShape DEF LoginsActive
<1> DEFINE Readers == {"issue", "rotate", "save_password", "save_active"}
\* Requests that hold nothing of the row.
<1>4. ASSUME NEW r \in SessionRequests, NEW q, Go(r, q), q.pc \notin Readers,
             UNCHANGED userVars, past'.saves = past.saves,
             tokens' = tokens \/ \E S : tokens' = Revoked(S)
      PROVE  RowOK'
  <2>1. RowRead(q, user, past.saves)
    BY <1>4 DEF RowRead
  <2>2. LoginsActive(tokens', user, past.saves)
    BY <1>2, <1>3, <1>4
  <2>. QED  BY <1>4, <2>1, <2>2, RowStep
<1>5. ASSUME NEW r \in SessionRequests, End(r), UNCHANGED userVars, past'.saves = past.saves,
             tokens' = tokens \/ \E S : tokens' = Revoked(S)
      PROVE  RowOK'
  BY <1>4, <1>5, IdleTyped DEF End
\* A request starts.
<1>6. ASSUME NEW r \in SessionRequests, NEW q \in RequestState, Begin(r, q),
             RowRead(q, user, past.saves), UNCHANGED userVars, past' = past, tokens' = tokens
      PROVE  RowOK'
  <2> DEFINE b == [q EXCEPT !.read = past.purges]
  <2>1. Go(r, b)
    BY <1>6 DEF Begin
  <2>2. b.pc = q.pc /\ b.login = q.login /\ b.loaded = q.loaded /\ b.row = q.row
    BY DEF RequestState
  <2> HIDE DEF b
  <2>3. RowRead(b, user, past.saves)
    BY <1>6, <2>2 DEF RowRead
  <2>. QED  BY <1>2, <1>6, <2>1, <2>3, RowStep
<1>7. ASSUME NEW r \in SessionRequests, NEW q \in RequestState, Begin(r, q), q.pc \notin Readers,
             UNCHANGED userVars, past' = past, tokens' = tokens
      PROVE  RowOK'
  <2>1. RowRead(q, user, past.saves)
    BY <1>7 DEF RowRead
  <2>. QED  BY <1>6, <1>7, <2>1
\* A token is issued for a login against the row that r had read.
<1>8. ASSUME NEW r \in SessionRequests, request[r].pc \in {"issue", "rotate"}, End(r),
             UNCHANGED userVars, past' = past,
             NEW toks \in Seq(TokenRow), LoginsActive(toks, user, past.saves),
             NEW f \in Nat, NEW i \in Nat, tokens' = Append(toks, NewToken(f, i, r))
      PROVE  RowOK'
  <2> DEFINE t == NewToken(f, i, r)
  <2>1. t \in TokenRow
    BY NewTokenType DEF SessionsTyped
  <2>2. t.login = request[r].login
    BY DEF NewToken
  <2> HIDE DEF t
  <2>3. t.login = past.saves => user.active
    BY <1>8, <2>2 DEF RowOK, RowRead
  <2>4. LoginsActive(Append(toks, t), user, past.saves)
    BY <1>8, <2>1, <2>3 DEF LoginsActive
  <2>5. RowRead(Idle, user, past.saves)
    BY IdleTyped DEF RowRead
  <2>. QED  BY <1>8, <2>4, <2>5, RowStep DEF End, t
<1>9. ASSUME NEW r \in SessionRequests, Login(r) PROVE RowOK'
  <2>1. CASE ValidateCredentials(r)
    <3> DEFINE q == [Idle EXCEPT !.pc = "issue", !.login = past.saves]
    <3>1. q \in RequestState /\ q.pc = "issue"
      BY <1>1, StartTyped DEF Idle
    <3>2. Begin(r, q) /\ user.active /\ UNCHANGED <<userVars, past, tokens>>
      BY <2>1 DEF ValidateCredentials
    <3> HIDE DEF q
    <3>3. RowRead(q, user, past.saves)
      BY <3>1, <3>2 DEF RowRead
    <3>. QED  BY <1>6, <3>1, <3>2, <3>3
  <2>2. CASE IssueToken(r)
    <3>1. Len(tokens) + 1 \in Nat /\ 0 \in Nat
      BY <1>1
    <3>. QED  BY <1>1, <1>2, <1>8, <2>2, <3>1 DEF IssueToken, At
  <2>. QED  BY <1>9, <2>1, <2>2 DEF Login
<1>10. ASSUME NEW r \in SessionRequests, RefreshSession(r) PROVE RowOK'
  <2>1. ASSUME NEW i \in DOMAIN tokens, LoadTokenToRotate(r, i) PROVE RowOK'
    <3> DEFINE q == [Idle EXCEPT !.pc = "rotate", !.token = i, !.seen = Len(tokens),
                                 !.login = tokens[i].login]
    <3>1. tokens[i] \in TokenRow /\ i \in Nat
      BY <1>1
    <3>2. q \in RequestState
      BY <1>1, <3>1, StartTyped DEF TokenRow
    <3>3. q.pc = "rotate" /\ q.login = tokens[i].login
      BY DEF Idle
    <3>4. Begin(r, q) /\ UNCHANGED <<userVars, past, tokens>>
      BY <2>1 DEF LoadTokenToRotate
    <3> HIDE DEF q
    <3>5. RowRead(q, user, past.saves)
      BY <1>2, <3>3 DEF RowRead, LoginsActive
    <3>. QED  BY <1>6, <3>2, <3>4, <3>5
  <2>2. CASE RotateToken(r)
    <3> DEFINE i == request[r].token
    <3>1. i \in DOMAIN tokens
      BY <2>2 DEF RotateToken, At, FamiliesOK, RotateOK
    <3>2. tokens[i] \in TokenRow /\ i \in Nat
      BY <1>1, <3>1
    <3>3. tokens[i].family \in Nat
      BY <3>2 DEF TokenRow
    <3>4. /\ request[r].pc = "rotate" /\ End(r) /\ UNCHANGED userVars /\ past' = past
          /\ tokens' = Append(Revoked({i}), NewToken(tokens[i].family, i, r))
      BY <2>2 DEF RotateToken, At
    <3>5. Revoked({i}) \in Seq(TokenRow)
      BY <1>1, RevokedShape
    <3> HIDE DEF i
    <3>. QED  BY <1>3, <1>8, <3>2, <3>3, <3>4, <3>5
  <2>. QED  BY <1>10, <2>1, <2>2 DEF RefreshSession
<1>11. ASSUME NEW r \in SessionRequests, Logout(r) PROVE RowOK'
  <2>1. ASSUME NEW i \in DOMAIN tokens, LoadTokenToRevoke(r, i) PROVE RowOK'
    <3> DEFINE q == [Idle EXCEPT !.pc = "logout", !.token = i]
    <3>0. i \in Nat
      BY <1>1
    <3>1. q \in RequestState
      BY <3>0, StartTyped
    <3>2. q.pc = "logout"
      BY DEF Idle
    <3>3. Begin(r, q) /\ UNCHANGED <<userVars, past, tokens>>
      BY <2>1 DEF LoadTokenToRevoke
    <3> HIDE DEF q
    <3>. QED  BY <1>7, <3>1, <3>2, <3>3
  <2>2. CASE SaveRevokedToken(r)
    BY <1>5, <2>2 DEF SaveRevokedToken
  <2>. QED  BY <1>11, <2>1, <2>2 DEF Logout
<1>12. ASSUME NEW r \in SessionRequests, NEW i \in Nat,
              NEW pc \in {"revoke_family", "logout_others", "revoke_all"}, Authorize(r, pc, i)
       PROVE  RowOK'
  <2> DEFINE q == [Idle EXCEPT !.pc = pc, !.token = i]
  <2>1. q \in RequestState
    BY StartTyped
  <2>2. q.pc = pc
    BY DEF Idle
  <2>3. Begin(r, q) /\ UNCHANGED <<userVars, past, tokens>>
    BY <1>12 DEF Authorize
  <2> HIDE DEF q
  <2>. QED  BY <1>7, <2>1, <2>2, <2>3
<1>13. ASSUME NEW r \in SessionRequests, RevokeSession(r) \/ LogoutOthers(r) PROVE RowOK'
  <2>1. CASE RevokeFamilyForUser(r)
    BY <1>5, <2>1 DEF RevokeFamilyForUser
  <2>2. CASE RevokeOtherFamiliesForUser(r)
    BY <1>5, <2>2 DEF RevokeOtherFamiliesForUser
  <2>. QED  BY <1>1, <1>12, <1>13, <2>1, <2>2 DEF RevokeSession, LogoutOthers
<1>14. ASSUME NEW r \in SessionRequests, LogoutAll(r) PROVE RowOK'
  <2>1. CASE RevokeAllForUser(r)
    <3>1. past'.saves = past.saves
      BY <1>1, <2>1 DEF RevokeAllForUser
    <3>. QED  BY <1>5, <2>1, <3>1 DEF RevokeAllForUser
  <2>. QED  BY <1>12, <1>14, <2>1 DEF LogoutAll
\* The requests that save the row.
<1>15. "password" \in Columns /\ "active" \in Columns
  BY DEF Columns, FirstUser
<1>16. ASSUME NEW r \in SessionRequests, ChangePassword(r) PROVE RowOK'
  <2>1. ASSUME NEW p \in Passwords, RequestPasswordChange(r, p) PROVE RowOK'
    BY <1>7, <2>1, StartTyped DEF RequestPasswordChange, Idle
  <2>2. CASE LoadUserToSavePassword(r)
    <3> DEFINE q == Loaded(request[r], user, past.saves)
    <3>1. q.pc = "save_password" /\ q.row = user /\ q.loaded = past.saves
      BY <1>1, LoadedTyped
    <3>2. Go(r, q) /\ UNCHANGED <<userVars, past, tokens>>
      BY <2>2 DEF LoadUserToSavePassword, Loaded
    <3> HIDE DEF q
    <3>3. RowRead(q, user, past.saves)
      BY <1>1, <3>1 DEF RowRead
    <3>. QED  BY <1>2, <3>2, <3>3, RowStep
  <2>3. CASE SavePassword(r)
    BY <1>15, <2>3, RowSaved DEF SavePassword, At
  <2>. QED  BY <1>16, <2>1, <2>2, <2>3 DEF ChangePassword
<1>17. ASSUME NEW r \in SessionRequests, SetUserActive(r) PROVE RowOK'
  <2>1. ASSUME NEW a \in BOOLEAN, LoadUserToSetActive(r, a) PROVE RowOK'
    <3> DEFINE q == [Idle EXCEPT !.pc = "save_active", !.active = a, !.row = user,
                                 !.loaded = past.saves]
    <3>1. q \in RequestState
      BY <1>1, StartTyped
    <3>2. q.pc = "save_active" /\ q.row = user /\ q.loaded = past.saves
      BY DEF Idle
    <3>3. Begin(r, q) /\ UNCHANGED <<userVars, past, tokens>>
      BY <2>1 DEF LoadUserToSetActive
    <3> HIDE DEF q
    <3>4. RowRead(q, user, past.saves)
      BY <1>1, <3>2 DEF RowRead
    <3>. QED  BY <1>6, <3>1, <3>3, <3>4
  <2>2. CASE SaveActive(r)
    BY <1>15, <2>2, RowSaved DEF SaveActive, At
  <2>. QED  BY <1>17, <2>1, <2>2 DEF SetUserActive
<1>18. ASSUME NEW r \in SessionRequests, AssignRole(r) PROVE RowOK'
  BY <1>7, <1>18, StartTyped DEF AssignRole, Idle
<1>19. ASSUME NEW r \in SessionRequests, RequestFails(r) PROVE RowOK'
  BY <1>5, <1>19 DEF RequestFails
<1>20. ASSUME NEW r \in SessionRequests, ForgotPassword(r) PROVE RowOK'
  <2>1. ASSUME NEW k \in ResetKeys, ReadResetPointer(r, k) PROVE RowOK'
    BY <1>1, <1>7, <2>1, StartTyped DEF ReadResetPointer, Idle
  <2>2. CASE DeleteOldLookup(r)
    BY <1>1, <1>4, <2>2, LaterTyped DEF DeleteOldLookup, Later
  <2>3. CASE SetLookup(r)
    BY <1>1, <1>4, <2>3, LaterTyped DEF SetLookup, Later
  <2>4. CASE SetPointerAndMail(r)
    BY <1>5, <2>4 DEF SetPointerAndMail
  <2>. QED  BY <1>20, <2>1, <2>2, <2>3, <2>4 DEF ForgotPassword
<1>21. ASSUME NEW r \in SessionRequests, ResetPassword(r) PROVE RowOK'
  <2>1. ASSUME NEW k \in ResetKeys, NEW p \in Passwords, ReadResetKey(r, k, p) PROVE RowOK'
    BY <1>1, <1>7, <2>1, StartTyped DEF ReadResetKey, Idle
  <2>2. CASE DeleteResetKeys(r)
    BY <1>1, <1>4, <2>2, LaterTyped DEF DeleteResetKeys, Later
  <2>. QED  BY <1>21, <2>1, <2>2 DEF ResetPassword
<1>22. ASSUME UNCHANGED userVars, past' = past, request' = request,
              LoginsActive(tokens', user, past.saves)
       PROVE  RowOK'
  BY <1>22 DEF RowOK, AccountStands, userVars
<1>23. ASSUME NEW i \in DOMAIN tokens, TokenExpires(i) PROVE RowOK'
  <2>1. tokens[i] \in TokenRow
    BY <1>1
  <2>2. \A j \in DOMAIN tokens :
          tokens'[j] = IF j = i THEN [tokens[i] EXCEPT !.expired = TRUE] ELSE tokens[j]
    BY <1>1, <1>23 DEF TokenExpires
  <2>3. \A j \in DOMAIN tokens : tokens'[j].login = tokens[j].login
    BY <2>1, <2>2 DEF TokenRow
  <2>4. DOMAIN tokens' = DOMAIN tokens
    BY <1>1, <1>23 DEF TokenExpires
  <2>5. LoginsActive(tokens', user, past.saves)
    BY <1>2, <2>3, <2>4 DEF LoginsActive
  <2>. QED  BY <1>22, <1>23, <2>5 DEF TokenExpires
<1>24. CASE ResetKeysExpire \/ UNCHANGED sessionVars
  BY <1>2, <1>22, <1>24 DEF ResetKeysExpire, sessionVars
<1>. QED
  BY <1>9, <1>10, <1>11, <1>13, <1>14, <1>16, <1>17, <1>18, <1>19, <1>20, <1>21, <1>23,
     <1>24 DEF SessionsNext

\* The four together are inductive: types need the family of a token that is
\* rotated, the family needs its types, and no login is ahead of the saves.
THEOREM SessionsInvariance ==
  SessionsSpec => [](SessionsTyped /\ FamiliesOK /\ KeysOK /\ RowOK)
<1>1. SessionsInit => SessionsTyped /\ FamiliesOK /\ KeysOK /\ RowOK
  BY SessionsTypedInit, FamiliesInit, KeysInit, RowInit
<1>2. SessionsTyped /\ FamiliesOK /\ KeysOK /\ RowOK /\ [SessionsNext]_sessionVars
        => SessionsTyped' /\ FamiliesOK' /\ KeysOK' /\ RowOK'
  BY SessionsTypedNext, FamiliesNext, KeysNext, RowNext
<1>. QED  BY <1>1, <1>2, PTL DEF SessionsSpec

\* For any requests, passwords, keys and bounds: a session that outlives a change
\* of the password or a disabling of the account, a change that is undone by the
\* save of a row loaded before, and a one-time credential used twice, are the
\* trace of requests that overlapped.
THEOREM SessionsAreExplained == SessionsSpec => []SessionsExplained
BY SessionsInvariance, SessionsImplied, PTL

-----------------------------------------------------------------------------
(***************************************************************************)
(* Registration.  A request about to delete has seen the account pending,  *)
(* a request about to verify has a code that was mailed; a mail was        *)
(* preceded by the profile or was early.  Fewer resends were let through   *)
(* in a window than were counted.                                          *)
(***************************************************************************)
Steps == {"none", "recover", "insert", "save_role", "profile", "store_code",
          "mail_code", "rollback", "delete_roles", "soft_delete", "cooldown",
          "count", "expire", "set_cooldown", "compare", "load_verified",
          "save_verified", "delete_code"}

StepRecord == [pc : Steps, new : BOOLEAN, code : Codes \cup {NoCode}]
Account == [exists : BOOLEAN, role : BOOLEAN, verified : BOOLEAN, deleted : BOOLEAN]
Throttle == [cooldown : BOOLEAN, attempts : Nat, expires : BOOLEAN]
Trace == [cut : BOOLEAN, early : BOOLEAN, undoing : BOOLEAN, late : BOOLEAN,
          orphan : BOOLEAN, granted : Nat]

Undoing == {"delete_roles", "soft_delete"}
Verifying == {"compare", "load_verified", "save_verified"}

RegistrationTyped ==
  /\ account \in Account /\ profile \in BOOLEAN /\ otp \in Codes \cup {NoCode}
  /\ codeMails \in SUBSET Codes /\ resend \in Throttle
  /\ step \in [AccountRequests -> StepRecord] /\ accountCalls \in Nat /\ trace \in Trace

\* What a request relies on.
StepOK(q) ==
  /\ q.pc = "mail_code" => q.code \in Codes
  /\ q.pc \in Undoing => trace.undoing /\ (account.verified => trace.late)
  /\ q.pc \in Verifying => account.exists /\ (profile \/ trace.early)

AccountOK ==
  /\ account.deleted => trace.undoing
  /\ account.verified => account.exists /\ (profile \/ trace.early)
  /\ account.verified /\ account.deleted => trace.late
  /\ codeMails # {} => profile \/ trace.early

RoleOK ==
  account.exists =>
    \/ account.role \/ trace.cut
    \/ trace.undoing /\ (account.verified => trace.late)
    \/ \E r \in AccountRequests : step[r].pc = "save_role"

ThrottleOK ==
  /\ trace.granted <= resend.attempts /\ trace.granted <= ResendMaxAttempts
  /\ resend.attempts > 0 =>
       \/ resend.expires \/ trace.orphan
       \/ \E r \in AccountRequests : step[r].pc = "expire"

RegistrationInv ==
  /\ RegistrationTyped
  /\ \A r \in AccountRequests : StepOK(step[r])
  /\ AccountOK /\ RoleOK /\ ThrottleOK

LEMMA RegistrationTypes == RegistrationTyped => RegistrationTypeOK
BY Zenon DEF RegistrationTyped, RegistrationTypeOK, Account, Throttle, StepRecord, Steps, Trace

LEMMA RegistrationImplied == RegistrationInv => RegistrationKept
BY DEF RegistrationInv, AccountOK, RoleOK, ThrottleOK, RegistrationKept,
       VerifiedAccountsAreComplete, ResendsThrottled, OnStep

-----------------------------------------------------------------------------
\* One request moves and the others stay where they are.
Moves(r, pc, code) ==
  /\ step' \in [AccountRequests -> StepRecord]
  /\ step'[r].pc = pc /\ step'[r].code = code
  /\ \A s \in AccountRequests \ {r} : step'[s] = step[s]

LEMMA MovesTo ==
  ASSUME RegistrationTyped, NEW r \in AccountRequests, NEW pc \in Steps, ToStep(r, pc)
  PROVE  Moves(r, pc, step[r].code)
<1>1. step \in [AccountRequests -> StepRecord]
  BY DEF RegistrationTyped
<1>2. step' = [step EXCEPT ![r] = [step[r] EXCEPT !.pc = pc]]
  BY Zenon DEF ToStep
<1>3. [step[r] EXCEPT !.pc = pc] \in StepRecord /\ [step[r] EXCEPT !.pc = pc].pc = pc
      /\ [step[r] EXCEPT !.pc = pc].code = step[r].code
  BY <1>1 DEF StepRecord
<1>. QED  BY <1>1, <1>2, <1>3 DEF Moves

LEMMA MovesToEnd ==
  ASSUME RegistrationTyped, NEW r \in AccountRequests, Finish(r)
  PROVE  Moves(r, "none", NoCode)
<1>1. NoStep \in StepRecord /\ NoStep.pc = "none" /\ NoStep.code = NoCode
  BY DEF NoStep, StepRecord, Steps
<1>. QED  BY <1>1 DEF RegistrationTyped, Finish, Moves

LEMMA MovesOnCall ==
  ASSUME RegistrationTyped, NEW r \in AccountRequests, NEW pc \in Steps, NEW c \in Codes \cup {NoCode},
         NEW q,
         \/ q = [NoStep EXCEPT !.pc = pc] /\ c = NoCode
         \/ q = [NoStep EXCEPT !.pc = pc, !.code = c],
         Call(r, q)
  PROVE  Moves(r, pc, c) /\ accountCalls' \in Nat /\ step[r].pc = "none"
<1>1. q \in StepRecord /\ q.pc = pc /\ q.code = c
  BY DEF NoStep, StepRecord, Steps
<1>. QED  BY <1>1 DEF RegistrationTyped, Call, Moves, OnStep

\* A request moves on, and neither the account nor what is known of it changes.
LEMMA QuietMove ==
  ASSUME RegistrationInv, NEW r \in AccountRequests, NEW pc, NEW code, Moves(r, pc, code),
         step[r].pc \notin {"save_role", "expire"},
         pc = "mail_code" => code \in Codes,
         pc \in Undoing => step[r].pc \in Undoing,
         pc \in Verifying => step[r].pc \in Verifying \/ (account.exists /\ codeMails # {}),
         UNCHANGED <<account, profile, codeMails, trace>>,
         otp' \in Codes \cup {NoCode}, accountCalls' \in Nat, resend' \in Throttle,
         resend'.attempts = resend.attempts, resend.expires => resend'.expires
  PROVE  RegistrationInv'
<1>1. RegistrationTyped'
  BY DEF Moves, RegistrationInv, RegistrationTyped
<1>2. \A s \in AccountRequests : StepOK(step[s])'
  BY DEF RegistrationInv, Moves, StepOK, AccountOK
<1>3. AccountOK' 
  BY DEF RegistrationInv, AccountOK
<1>4. RoleOK' /\ ThrottleOK'
  BY DEF RegistrationInv, RoleOK, ThrottleOK, Moves
<1>. QED  BY <1>1, <1>2, <1>3, <1>4 DEF RegistrationInv

LEMMA RegistrationInitOK == RegistrationInit => RegistrationInv
<1> SUFFICES ASSUME RegistrationInit PROVE RegistrationInv
  OBVIOUS
<1>1. NoStep \in StepRecord /\ NoStep.pc = "none"
  BY DEF NoStep, StepRecord, Steps
<1>2. RegistrationTyped
  BY <1>1 DEF RegistrationInit, RegistrationTyped, Account, Throttle, Trace
<1>3. \A r \in AccountRequests : StepOK(step[r])
  BY <1>1 DEF RegistrationInit, StepOK, Undoing, Verifying
<1>4. AccountOK /\ RoleOK /\ ThrottleOK
  BY RegistrationAssumption DEF RegistrationInit, AccountOK, RoleOK, ThrottleOK
<1>. QED  BY <1>2, <1>3, <1>4 DEF RegistrationInv

LEMMA RegistrationNextOK ==
  RegistrationInv /\ [RegistrationNext]_registrationVars => RegistrationInv'
<1> SUFFICES ASSUME RegistrationInv, [RegistrationNext]_registrationVars PROVE RegistrationInv'
  OBVIOUS
<1>1. /\ account \in Account /\ profile \in BOOLEAN /\ otp \in Codes \cup {NoCode}
      /\ codeMails \in SUBSET Codes /\ resend \in Throttle
      /\ step \in [AccountRequests -> StepRecord] /\ accountCalls \in Nat /\ trace \in Trace
      /\ RegistrationTyped
  BY DEF RegistrationInv, RegistrationTyped
<1>2. /\ resend.attempts \in Nat /\ trace.granted \in Nat
      /\ \A r \in AccountRequests : step[r].code \in Codes \cup {NoCode}
  BY <1>1 DEF Throttle, Trace, StepRecord
\* A request that only moves on.
<1>3. ASSUME NEW r \in AccountRequests, NEW pc \in Steps \ ({"mail_code"} \cup Undoing \cup Verifying),
             ToStep(r, pc), step[r].pc \notin {"save_role", "expire"},
             UNCHANGED <<account, profile, codeMails, accountCalls, trace>>,
             otp' \in Codes \cup {NoCode}, resend' \in Throttle,
             resend'.attempts = resend.attempts, resend.expires => resend'.expires
      PROVE  RegistrationInv'
  BY <1>1, <1>3, MovesTo, QuietMove
<1>4. ASSUME NEW r \in AccountRequests, Finish(r), step[r].pc \notin {"save_role", "expire"},
             UNCHANGED <<account, profile, codeMails, accountCalls, trace>>,
             otp' \in Codes \cup {NoCode}, resend' = resend
      PROVE  RegistrationInv'
  BY <1>1, <1>4, MovesToEnd, QuietMove DEF Undoing, Verifying
<1>5. ASSUME NEW r \in AccountRequests, AfterFailure(r),
             step[r].pc \in {"profile", "store_code", "mail_code"},
             UNCHANGED <<account, profile, otp, codeMails, resend, accountCalls, trace>>
      PROVE  RegistrationInv'
  <2>1. CASE ToStep(r, "rollback")
    BY <1>1, <1>3, <1>5, <2>1 DEF Steps, Undoing, Verifying
  <2>2. CASE Finish(r)
    BY <1>1, <1>4, <1>5, <2>2
  <2>. QED  BY <1>5, <2>1, <2>2 DEF AfterFailure
\* Register.
<1>6. ASSUME NEW r \in AccountRequests, LookUpEmail(r) PROVE RegistrationInv'
  <2> DEFINE pc == IF account.exists THEN "recover" ELSE "insert"
  <2>1. pc \in Steps /\ pc \notin {"mail_code"} \cup Undoing \cup Verifying
    BY DEF Steps, Undoing, Verifying
  <2>2. Call(r, [NoStep EXCEPT !.pc = pc]) /\ UNCHANGED <<account, profile, otp, codeMails, resend, trace>>
    BY <1>6 DEF LookUpEmail
  <2> HIDE DEF pc
  <2>3. Moves(r, pc, NoCode) /\ accountCalls' \in Nat /\ step[r].pc = "none"
    BY <1>1, <2>1, <2>2, MovesOnCall
  <2>. QED  BY <1>1, <2>1, <2>2, <2>3, QuietMove
<1>7. ASSUME NEW r \in AccountRequests, InsertUser(r) PROVE RegistrationInv'
  <2>1. CASE account.exists
    BY <1>1, <1>4, <1>7, <2>1 DEF InsertUser, OnStep
  <2>2. CASE ~ account.exists
    <3>1. /\ account' \in Account /\ account'.exists /\ account'.verified = account.verified
          /\ account'.deleted = account.deleted
          /\ UNCHANGED <<profile, otp, codeMails, resend, accountCalls, trace>>
          /\ step[r].pc = "insert"
      BY <1>1, <1>7, <2>2 DEF InsertUser, Account, OnStep
    <3>2. Moves(r, "save_role", step[r].code)
      <4> DEFINE q == [[step[r] EXCEPT !.pc = "save_role"] EXCEPT !.new = TRUE]
      <4>1. q \in StepRecord /\ q.pc = "save_role" /\ q.code = step[r].code
        BY <1>1 DEF StepRecord, Steps
      <4>2. step' = [step EXCEPT ![r].pc = "save_role", ![r].new = TRUE]
        BY <1>7, <2>2 DEF InsertUser
      <4>3. step' = [step EXCEPT ![r] = q]
        BY <1>1, <4>2
      <4> HIDE DEF q
      <4>. QED  BY <1>1, <4>1, <4>3 DEF Moves
    <3>3. RegistrationTyped'
      BY <1>1, <3>1, <3>2 DEF RegistrationTyped, Moves
    <3>4. \A s \in AccountRequests : StepOK(step[s])'
      BY <3>1, <3>2 DEF RegistrationInv, StepOK, Moves, Undoing, Verifying
    <3>5. AccountOK' /\ RoleOK' /\ ThrottleOK'
      BY <3>1, <3>2 DEF RegistrationInv, AccountOK, RoleOK, ThrottleOK, Moves
    <3>. QED  BY <3>3, <3>4, <3>5 DEF RegistrationInv
  <2>. QED  BY <2>1, <2>2
<1>8. ASSUME NEW r \in AccountRequests, SaveRole(r) PROVE RegistrationInv'
  <2>1. /\ account' \in Account /\ account'.exists = account.exists /\ account'.role
        /\ account'.verified = account.verified /\ account'.deleted = account.deleted
        /\ UNCHANGED <<profile, otp, codeMails, resend, accountCalls, trace>>
        /\ step[r].pc = "save_role"
    BY <1>1, <1>8 DEF SaveRole, Account, OnStep
  <2>2. Moves(r, "profile", step[r].code)
    BY <1>1, <1>8, MovesTo DEF SaveRole, Steps
  <2>3. RegistrationTyped'
    BY <1>1, <2>1, <2>2 DEF RegistrationTyped, Moves
  <2>4. \A s \in AccountRequests : StepOK(step[s])'
    BY <2>1, <2>2 DEF RegistrationInv, StepOK, Moves, Undoing, Verifying
  <2>5. AccountOK' /\ RoleOK' /\ ThrottleOK'
    BY <2>1, <2>2 DEF RegistrationInv, AccountOK, RoleOK, ThrottleOK, Moves
  <2>. QED  BY <2>3, <2>4, <2>5 DEF RegistrationInv
<1>9. ASSUME NEW r \in AccountRequests, RecoverPending(r) PROVE RegistrationInv'
  BY <1>1, <1>3, <1>4, <1>9 DEF RecoverPending, OnStep, Steps, Undoing, Verifying
<1>10. ASSUME NEW r \in AccountRequests, NEW answered \in BOOLEAN, CreatePendingProfile(r, answered)
       PROVE  RegistrationInv'
  <2>1. PICK pc \in {"store_code", "rollback", "none"}, code \in Codes \cup {NoCode} : Moves(r, pc, code)
    BY <1>1, <1>2, <1>10, MovesTo, MovesToEnd DEF CreatePendingProfile, AfterFailure, Steps
  <2>2. profile' = TRUE /\ UNCHANGED <<account, otp, codeMails, resend, accountCalls, trace>>
        /\ step[r].pc = "profile"
    BY <1>10 DEF CreatePendingProfile, OnStep
  <2>3. RegistrationTyped'
    BY <1>1, <2>1, <2>2 DEF RegistrationTyped, Moves
  <2>4. \A s \in AccountRequests : StepOK(step[s])'
    BY <2>1, <2>2 DEF RegistrationInv, StepOK, Moves, Undoing, Verifying
  <2>5. AccountOK' /\ RoleOK' /\ ThrottleOK'
    BY <2>1, <2>2 DEF RegistrationInv, AccountOK, RoleOK, ThrottleOK, Moves
  <2>. QED  BY <2>3, <2>4, <2>5 DEF RegistrationInv
<1>11. ASSUME NEW r \in AccountRequests, CallFails(r) PROVE RegistrationInv'
  BY <1>5, <1>11 DEF CallFails
<1>12. ASSUME NEW r \in AccountRequests, LoadToRollBack(r) PROVE RegistrationInv'
  <2>1. CASE ~ Pending
    BY <1>1, <1>4, <1>12, <2>1 DEF LoadToRollBack, OnStep
  <2>2. CASE Pending
    <3>1. /\ trace' \in Trace /\ trace'.undoing /\ trace'.cut = trace.cut
          /\ trace'.early = trace.early /\ trace'.late = trace.late
          /\ trace'.orphan = trace.orphan /\ trace'.granted = trace.granted
          /\ UNCHANGED <<account, profile, otp, codeMails, resend, accountCalls>>
          /\ step[r].pc = "rollback"
      BY <1>1, <1>12, <2>2 DEF LoadToRollBack, OnStep, Trace
    <3>2. Moves(r, "delete_roles", step[r].code)
      BY <1>1, <1>12, <2>2, MovesTo DEF LoadToRollBack, Steps
    <3>3. RegistrationTyped'
      BY <1>1, <3>1, <3>2 DEF RegistrationTyped, Moves
    <3>4. \A s \in AccountRequests : StepOK(step[s])'
      BY <2>2, <3>1, <3>2 DEF RegistrationInv, StepOK, Moves, Undoing, Verifying, Pending
    <3>5. AccountOK' /\ RoleOK' /\ ThrottleOK'
      BY <3>1, <3>2 DEF RegistrationInv, AccountOK, RoleOK, ThrottleOK, Moves
    <3>. QED  BY <3>3, <3>4, <3>5 DEF RegistrationInv
  <2>. QED  BY <2>1, <2>2
<1>13. ASSUME NEW r \in AccountRequests, DeleteRoles(r) PROVE RegistrationInv'
  <2>1. /\ account' \in Account /\ account'.exists = account.exists
        /\ account'.verified = account.verified /\ account'.deleted = account.deleted
        /\ UNCHANGED <<profile, otp, codeMails, resend, accountCalls, trace>>
        /\ step[r].pc = "delete_roles"
    BY <1>1, <1>13 DEF DeleteRoles, Account, OnStep
  <2>2. Moves(r, "soft_delete", step[r].code)
    BY <1>1, <1>13, MovesTo DEF DeleteRoles, Steps
  <2>3. RegistrationTyped'
    BY <1>1, <2>1, <2>2 DEF RegistrationTyped, Moves
  <2>4. trace.undoing /\ (account.verified => trace.late)
    BY <2>1 DEF RegistrationInv, StepOK, Undoing
  <2>5. \A s \in AccountRequests : StepOK(step[s])'
    BY <2>1, <2>2, <2>4 DEF RegistrationInv, StepOK, Moves, Undoing, Verifying
  <2>6. AccountOK' /\ RoleOK' /\ ThrottleOK'
    BY <2>1, <2>2, <2>4 DEF RegistrationInv, AccountOK, RoleOK, ThrottleOK, Moves
  <2>. QED  BY <2>3, <2>5, <2>6 DEF RegistrationInv
<1>14. ASSUME NEW r \in AccountRequests, SoftDelete(r) PROVE RegistrationInv'
  <2>1. /\ account' \in Account /\ account'.exists = account.exists /\ account'.deleted
        /\ account'.verified = account.verified /\ account'.role = account.role
        /\ UNCHANGED <<profile, otp, codeMails, resend, accountCalls, trace>>
        /\ step[r].pc = "soft_delete"
    BY <1>1, <1>14 DEF SoftDelete, Account, OnStep
  <2>2. Moves(r, "none", NoCode)
    BY <1>1, <1>14, MovesToEnd DEF SoftDelete
  <2>3. RegistrationTyped'
    BY <1>1, <2>1, <2>2 DEF RegistrationTyped, Moves
  <2>4. trace.undoing /\ (account.verified => trace.late)
    BY <2>1 DEF RegistrationInv, StepOK, Undoing
  <2>5. \A s \in AccountRequests : StepOK(step[s])'
    BY <2>1, <2>2, <2>4 DEF RegistrationInv, StepOK, Moves, Undoing, Verifying
  <2>6. AccountOK' /\ RoleOK' /\ ThrottleOK'
    BY <2>1, <2>2, <2>4 DEF RegistrationInv, AccountOK, RoleOK, ThrottleOK, Moves
  <2>. QED  BY <2>3, <2>5, <2>6 DEF RegistrationInv
\* The code.
<1>15. ASSUME NEW r \in AccountRequests, NEW c \in Codes, StoreCode(r, c) PROVE RegistrationInv'
  <2> DEFINE q == [[step[r] EXCEPT !.pc = "mail_code"] EXCEPT !.code = c]
  <2>1. q \in StepRecord /\ q.pc = "mail_code" /\ q.code = c
    BY <1>1 DEF StepRecord, Steps
  <2>2. step' = [step EXCEPT ![r].pc = "mail_code", ![r].code = c]
    BY <1>15 DEF StoreCode
  <2>3. step' = [step EXCEPT ![r] = q]
    BY <1>1, <2>2
  <2> HIDE DEF q
  <2>4. Moves(r, "mail_code", c)
    BY <1>1, <2>1, <2>3 DEF Moves
  <2>5. step[r].pc = "store_code" /\ otp' = c
        /\ UNCHANGED <<account, profile, codeMails, resend, accountCalls, trace>>
    BY <1>15 DEF StoreCode, OnStep
  <2>. QED  BY <1>1, <2>4, <2>5, QuietMove DEF Undoing, Verifying
<1>16. ASSUME NEW r \in AccountRequests, NEW answered \in BOOLEAN, MailCode(r, answered)
       PROVE  RegistrationInv'
  <2>1. PICK pc \in {"rollback", "none"}, code \in Codes \cup {NoCode} : Moves(r, pc, code)
    BY <1>1, <1>2, <1>16, MovesTo, MovesToEnd DEF MailCode, AfterFailure, Steps
  <2>2. /\ trace' \in Trace /\ trace'.undoing = trace.undoing /\ trace'.cut = trace.cut
        /\ (trace.early \/ ~ profile => trace'.early) /\ trace'.late = trace.late
        /\ trace'.orphan = trace.orphan /\ trace'.granted = trace.granted
        /\ UNCHANGED <<account, profile, otp, resend, accountCalls>>
        /\ codeMails' = codeMails \cup {step[r].code} /\ step[r].pc = "mail_code"
    BY <1>1, <1>16 DEF MailCode, OnStep, Trace
  <2>3. step[r].code \in Codes
    BY <2>2 DEF RegistrationInv, StepOK
  <2>4. RegistrationTyped'
    BY <1>1, <2>1, <2>2, <2>3 DEF RegistrationTyped, Moves
  <2>5. \A s \in AccountRequests : StepOK(step[s])'
    BY <2>1, <2>2 DEF RegistrationInv, StepOK, Moves, Undoing, Verifying
  <2>6. AccountOK' /\ RoleOK' /\ ThrottleOK'
    BY <2>1, <2>2 DEF RegistrationInv, AccountOK, RoleOK, ThrottleOK, Moves
  <2>. QED  BY <2>4, <2>5, <2>6 DEF RegistrationInv
<1>17. ASSUME NEW r \in AccountRequests, SendCode(r) PROVE RegistrationInv'
  BY <1>15, <1>16, <1>17 DEF SendCode
<1>18. ASSUME NEW r \in AccountRequests, Register(r) PROVE RegistrationInv'
  BY <1>6, <1>7, <1>8, <1>9, <1>10, <1>11, <1>12, <1>13, <1>14, <1>18 DEF Register
\* Resend.
<1>19. ASSUME NEW r \in AccountRequests, FindToResend(r) PROVE RegistrationInv'
  <2>1. Moves(r, "cooldown", NoCode) /\ accountCalls' \in Nat /\ step[r].pc = "none"
    BY <1>1, <1>19, MovesOnCall DEF FindToResend, Steps
  <2>2. UNCHANGED <<account, profile, otp, codeMails, resend, trace>>
    BY <1>19 DEF FindToResend
  <2>. QED  BY <1>1, <2>1, <2>2, QuietMove DEF Undoing, Verifying
<1>20. ASSUME NEW r \in AccountRequests, CheckCooldown(r) PROVE RegistrationInv'
  BY <1>1, <1>3, <1>4, <1>20 DEF CheckCooldown, OnStep, Steps, Undoing, Verifying
<1>21. ASSUME NEW r \in AccountRequests, CountAttempt(r) PROVE RegistrationInv'
  <2>1. /\ resend' \in Throttle /\ resend'.attempts = resend.attempts + 1
        /\ resend'.expires = resend.expires
        /\ UNCHANGED <<account, profile, otp, codeMails, accountCalls>> /\ step[r].pc = "count"
    <3>1. resend' = [resend EXCEPT !.attempts = resend.attempts + 1]
      BY <1>21, Zenon DEF CountAttempt
    <3>. QED  BY <1>1, <1>2, <1>21, <3>1 DEF CountAttempt, OnStep, Throttle
  <2>2. PICK pc \in {"expire", "set_cooldown", "none"}, code \in Codes \cup {NoCode} :
          /\ Moves(r, pc, code)
          /\ resend.attempts = 0 => pc = "expire"
    <3>1. 1 <= ResendMaxAttempts
      BY RegistrationAssumption
    <3>2. CASE resend'.attempts <= ResendMaxAttempts /\ resend.attempts = 0
      BY <1>1, <1>2, <1>21, <3>2, MovesTo DEF CountAttempt, Steps
    <3>3. CASE resend'.attempts <= ResendMaxAttempts /\ resend.attempts # 0
      BY <1>1, <1>2, <1>21, <3>3, MovesTo DEF CountAttempt, Steps
    <3>4. CASE ~ (resend'.attempts <= ResendMaxAttempts)
      BY <1>1, <1>21, <2>1, <3>1, <3>4, MovesToEnd DEF CountAttempt
    <3>. QED  BY <3>2, <3>3, <3>4
  <2>3. /\ trace' \in Trace /\ trace'.undoing = trace.undoing /\ trace'.cut = trace.cut
        /\ trace'.early = trace.early /\ trace'.late = trace.late /\ trace'.orphan = trace.orphan
        /\ trace'.granted \in Nat
        /\ \/ trace'.granted = trace.granted
           \/ trace'.granted = trace.granted + 1 /\ resend'.attempts <= ResendMaxAttempts
    <3>1. CASE trace' = trace
      BY <1>1, <1>2, <3>1
    <3>2. CASE trace' = [trace EXCEPT !.granted = trace.granted + 1]
               /\ resend'.attempts <= ResendMaxAttempts
      BY <1>1, <1>2, <3>2 DEF Trace
    <3>3. \/ trace' = trace
          \/ trace' = [trace EXCEPT !.granted = trace.granted + 1]
             /\ resend'.attempts <= ResendMaxAttempts
      BY <1>21, Zenon DEF CountAttempt
    <3>. QED  BY <3>1, <3>2, <3>3
  <2>4. RegistrationTyped'
    BY <1>1, <2>1, <2>2, <2>3 DEF RegistrationTyped, Moves
  <2>5. \A s \in AccountRequests : StepOK(step[s])'
    BY <2>1, <2>2, <2>3 DEF RegistrationInv, StepOK, Moves, Undoing, Verifying
  <2>6. AccountOK' /\ RoleOK'
    BY <2>1, <2>2, <2>3 DEF RegistrationInv, AccountOK, RoleOK, Moves
  <2>7. trace'.granted <= resend'.attempts /\ trace'.granted <= ResendMaxAttempts
    BY <1>2, <2>1, <2>3, RegistrationAssumption DEF RegistrationInv, ThrottleOK
  <2>8. \/ resend'.expires \/ trace'.orphan
        \/ \E s \in AccountRequests : step'[s].pc = "expire"
    <3>1. CASE resend.attempts = 0
      BY <2>2, <3>1 DEF Moves
    <3>2. CASE resend.attempts # 0
      BY <1>2, <2>1, <2>2, <2>3, <3>2 DEF RegistrationInv, ThrottleOK, Moves
    <3>. QED  BY <3>1, <3>2
  <2>. QED  BY <2>4, <2>5, <2>6, <2>7, <2>8 DEF RegistrationInv, ThrottleOK
<1>22. ASSUME NEW r \in AccountRequests, ExpireAttempts(r) PROVE RegistrationInv'
  <2>1. /\ resend' \in Throttle /\ resend'.attempts = resend.attempts
        /\ (resend.attempts > 0 => resend'.expires)
        /\ UNCHANGED <<account, profile, otp, codeMails, accountCalls, trace>>
        /\ step[r].pc = "expire"
    BY <1>1, <1>22 DEF ExpireAttempts, OnStep, Throttle
  <2>2. Moves(r, "set_cooldown", step[r].code)
    BY <1>1, <1>22, MovesTo DEF ExpireAttempts, Steps
  <2>3. RegistrationTyped'
    BY <1>1, <2>1, <2>2 DEF RegistrationTyped, Moves
  <2>4. \A s \in AccountRequests : StepOK(step[s])'
    BY <2>1, <2>2 DEF RegistrationInv, StepOK, Moves, Undoing, Verifying
  <2>5. AccountOK' /\ RoleOK' /\ ThrottleOK'
    BY <2>1, <2>2 DEF RegistrationInv, AccountOK, RoleOK, ThrottleOK, Moves
  <2>. QED  BY <2>3, <2>4, <2>5 DEF RegistrationInv
<1>23. ASSUME NEW r \in AccountRequests, SetCooldown(r) PROVE RegistrationInv'
  <2>1. /\ resend' \in Throttle /\ resend'.attempts = resend.attempts
        /\ resend'.expires = resend.expires
    BY <1>1, <1>23 DEF SetCooldown, Throttle
  <2>. QED  BY <1>1, <1>3, <1>23, <2>1 DEF SetCooldown, OnStep, Steps, Undoing, Verifying
<1>24. ASSUME NEW r \in AccountRequests, ResendCode(r) PROVE RegistrationInv'
  BY <1>19, <1>20, <1>21, <1>22, <1>23, <1>24 DEF ResendCode, AssertResendAllowed
\* Verify.
<1>25. ASSUME NEW r \in AccountRequests, NEW c \in Codes, LoadToVerify(r, c) PROVE RegistrationInv'
  <2>1. Moves(r, "compare", c) /\ accountCalls' \in Nat /\ step[r].pc = "none"
    BY <1>1, <1>25, MovesOnCall DEF LoadToVerify, Steps
  <2>2. /\ UNCHANGED <<account, profile, otp, codeMails, resend, trace>>
        /\ account.exists /\ codeMails # {}
    BY <1>25 DEF LoadToVerify, Pending
  <2>. QED  BY <1>1, <2>1, <2>2, QuietMove DEF Undoing, Verifying
<1>26. ASSUME NEW r \in AccountRequests, NEW pc \in Steps \ ({"mail_code"} \cup Undoing),
              ToStep(r, pc), step[r].pc \in Verifying,
              UNCHANGED <<account, profile, otp, codeMails, resend, accountCalls, trace>>
       PROVE  RegistrationInv'
  BY <1>1, <1>26, MovesTo, QuietMove DEF Verifying
<1>27. ASSUME NEW r \in AccountRequests, CompareCode(r) PROVE RegistrationInv'
  BY <1>1, <1>4, <1>26, <1>27 DEF CompareCode, OnStep, Steps, Undoing, Verifying
<1>28. ASSUME NEW r \in AccountRequests, LoadToMarkVerified(r) PROVE RegistrationInv'
  BY <1>1, <1>4, <1>26, <1>28 DEF LoadToMarkVerified, OnStep, Steps, Undoing, Verifying
<1>29. ASSUME NEW r \in AccountRequests, SaveVerified(r) PROVE RegistrationInv'
  <2>1. /\ account' \in Account /\ account'.exists = account.exists /\ account'.verified
        /\ account'.role = account.role /\ account'.deleted = account.deleted
        /\ UNCHANGED <<profile, otp, codeMails, resend, accountCalls>>
        /\ step[r].pc = "save_verified"
    BY <1>1, <1>29 DEF SaveVerified, Account, OnStep
  <2>2. Moves(r, "delete_code", step[r].code)
    BY <1>1, <1>29, MovesTo DEF SaveVerified, Steps
  <2>3. /\ trace' \in Trace /\ trace'.undoing = trace.undoing /\ trace'.cut = trace.cut
        /\ trace'.early = trace.early /\ trace'.orphan = trace.orphan
        /\ trace'.granted = trace.granted
        /\ trace.late \/ (trace.undoing /\ ~ account.verified) => trace'.late
    BY <1>1, <1>29 DEF SaveVerified, Trace
  <2>4. account.exists /\ (profile \/ trace.early)
    BY <2>1 DEF RegistrationInv, StepOK, Verifying
  <2>5. RegistrationTyped'
    BY <1>1, <2>1, <2>2, <2>3 DEF RegistrationTyped, Moves
  <2>6. \A s \in AccountRequests : StepOK(step[s])'
    BY <2>1, <2>2, <2>3 DEF RegistrationInv, StepOK, Moves, Undoing, Verifying
  <2>7. AccountOK' /\ ThrottleOK'
    BY <2>1, <2>2, <2>3, <2>4 DEF RegistrationInv, AccountOK, ThrottleOK, Moves
  <2>8. RoleOK'
    BY <2>1, <2>2, <2>3, <2>4 DEF RegistrationInv, RoleOK, Moves
  <2>. QED  BY <2>5, <2>6, <2>7, <2>8 DEF RegistrationInv
<1>30. ASSUME NEW r \in AccountRequests, DeleteCode(r) PROVE RegistrationInv'
  BY <1>1, <1>4, <1>30 DEF DeleteCode, OnStep
<1>31. ASSUME NEW r \in AccountRequests, VerifyEmail(r) PROVE RegistrationInv'
  BY <1>25, <1>27, <1>28, <1>29, <1>30, <1>31 DEF VerifyEmail
\* A request that stops where it stands, and what expires.
<1>32. ASSUME NEW r \in AccountRequests, AccountRequestStops(r) PROVE RegistrationInv'
  <2>1. /\ trace' \in Trace /\ trace'.undoing = trace.undoing /\ trace'.early = trace.early
        /\ trace'.late = trace.late /\ trace'.granted = trace.granted
        /\ (trace.cut \/ step[r].pc = "save_role" => trace'.cut)
        /\ (trace.orphan \/ step[r].pc = "expire" => trace'.orphan)
        /\ UNCHANGED <<account, profile, otp, codeMails, resend, accountCalls>>
    BY <1>1, <1>32 DEF AccountRequestStops, OnStep, Trace
  <2>2. Moves(r, "none", NoCode)
    BY <1>1, <1>32, MovesToEnd DEF AccountRequestStops
  <2>3. RegistrationTyped'
    BY <1>1, <2>1, <2>2 DEF RegistrationTyped, Moves
  <2>4. \A s \in AccountRequests : StepOK(step[s])'
    BY <2>1, <2>2 DEF RegistrationInv, StepOK, Moves, Undoing, Verifying
  <2>5. AccountOK'
    BY <2>1 DEF RegistrationInv, AccountOK
  <2>6. RoleOK' /\ ThrottleOK'
    BY <2>1, <2>2 DEF RegistrationInv, RoleOK, ThrottleOK, Moves
  <2>. QED  BY <2>3, <2>4, <2>5, <2>6 DEF RegistrationInv
<1>33. ASSUME otp' \in Codes \cup {NoCode}, resend' \in Throttle,
              resend'.attempts = resend.attempts, resend'.expires = resend.expires,
              UNCHANGED <<account, profile, codeMails, step, accountCalls, trace>>
       PROVE  RegistrationInv'
  BY <1>1, <1>33 DEF RegistrationInv, RegistrationTyped, StepOK, AccountOK, RoleOK, ThrottleOK
<1>34. CASE CodeExpires
  BY <1>1, <1>33, <1>34 DEF CodeExpires
<1>35. CASE CooldownExpires
  BY <1>1, <1>33, <1>35 DEF CooldownExpires, Throttle
<1>36. CASE AttemptsExpire
  <2>1. /\ resend' \in Throttle /\ resend'.attempts = 0 /\ trace' \in Trace
        /\ trace'.undoing = trace.undoing /\ trace'.early = trace.early
        /\ trace'.late = trace.late /\ trace'.granted = 0 /\ trace'.cut = trace.cut
        /\ UNCHANGED <<account, profile, otp, codeMails, step, accountCalls>>
    BY <1>1, <1>36 DEF AttemptsExpire, Throttle, Trace
  <2>2. RegistrationTyped'
    BY <1>1, <2>1 DEF RegistrationTyped
  <2>3. \A s \in AccountRequests : StepOK(step[s])'
    BY <2>1 DEF RegistrationInv, StepOK
  <2>4. AccountOK' /\ RoleOK'
    BY <2>1 DEF RegistrationInv, AccountOK, RoleOK
  <2>5. ThrottleOK'
    BY <2>1, RegistrationAssumption DEF ThrottleOK
  <2>. QED  BY <2>2, <2>3, <2>4, <2>5 DEF RegistrationInv
<1>37. CASE UNCHANGED registrationVars
  BY <1>1, <1>33, <1>37 DEF registrationVars
<1>. QED
  BY <1>17, <1>18, <1>24, <1>31, <1>32, <1>34, <1>35, <1>36, <1>37 DEF RegistrationNext

\* For any requests, codes and limits: what a verified account lacks is the
\* trace of a roll-back, a stop or an early mail, and a window lets no more
\* resends through than its limit and ends unless its first resend stopped.
THEOREM RegistrationIsKept == RegistrationSpec => []RegistrationKept
BY RegistrationInitOK, RegistrationNextOK, RegistrationImplied, PTL DEF RegistrationSpec

-----------------------------------------------------------------------------
(***************************************************************************)
(* The composition.  A step of the whole is a step of the part that runs   *)
(* and leaves the variables of the others alone, so that each part behaves *)
(* in it as its own specification says.                                    *)
(***************************************************************************)
LEMMA AccountsStep ==
  [AccountsNext]_accountsVars
    => /\ [SessionsNext]_sessionVars /\ [RegistrationNext]_registrationVars
       /\ [AccessRolesNext]_roleVars /\ [AccessTokensNext]_tokenVars
       /\ [UserReplicasNext]_replicaVars /\ [UserSettingsNext]_settingVars
BY Zenon DEF AccountsNext, accountsVars

\* Whatever runs beside it, each component keeps to its specification, and so to
\* every theorem above.
THEOREM AccountsImplementsParts ==
  AccountsSpec => /\ SessionsSpec /\ RegistrationSpec /\ AccessRolesSpec
                  /\ AccessTokensSpec /\ UserReplicasSpec /\ UserSettingsSpec
<1>1. AccountsInit => /\ SessionsInit /\ RegistrationInit /\ AccessRolesInit
                      /\ AccessTokensInit /\ UserReplicasInit /\ UserSettingsInit
  BY DEF AccountsInit
<1>. QED  BY <1>1, AccountsStep, PTL DEF AccountsSpec, SessionsSpec, RegistrationSpec,
               AccessRolesSpec, AccessTokensSpec, UserReplicasSpec, UserSettingsSpec

\* The types of all parts hold in the composition, whichever of them runs.
THEOREM AccountsTypeCorrect == AccountsSpec => []AccountsTypeOK
<1>1. SessionsTypeOK /\ RegistrationTypeOK /\ AccessRolesTypeOK /\ AccessTokensTypeOK
        /\ UserReplicasTypeOK /\ UserSettingsTypeOK => AccountsTypeOK
  BY Zenon DEF AccountsTypeOK
<1>2. /\ SessionsTyped => SessionsTypeOK
      /\ RegistrationInv => RegistrationTypeOK
      /\ RolesInv => AccessRolesTypeOK
      /\ TokensInv => AccessTokensTypeOK
      /\ UserReplicasInv => UserReplicasTypeOK
      /\ SettingsInv => UserSettingsTypeOK
  <2>1. RegistrationInv => RegistrationTypeOK
    BY RegistrationTypes DEF RegistrationInv
  <2>2. SessionsTyped => SessionsTypeOK
    BY DEF SessionsTyped
  <2>3. RolesInv => AccessRolesTypeOK
    BY DEF RolesInv
  <2>4. TokensInv => AccessTokensTypeOK
    BY DEF TokensInv
  <2>5. UserReplicasInv => UserReplicasTypeOK
    BY DEF UserReplicasInv
  <2>6. SettingsInv => UserSettingsTypeOK
    BY DEF SettingsInv
  <2>. QED  BY <2>1, <2>2, <2>3, <2>4, <2>5, <2>6
<1>3. RegistrationSpec => []RegistrationInv
  BY RegistrationInitOK, RegistrationNextOK, PTL DEF RegistrationSpec
<1>. QED  BY <1>1, <1>2, <1>3, AccountsImplementsParts, SessionsInvariance, RolesInvariance,
               TokensInvariance, UserReplicasInvariance, SettingsInvariance, PTL
=============================================================================
