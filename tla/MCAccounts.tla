----------------------------- MODULE MCAccounts -----------------------------
(***************************************************************************)
(* What becomes of an account: its components of the auth and user service *)
(* checked in one run: they share no state, so a behaviour is one of one   *)
(* of them, named by `part`, while the variables of the others keep their  *)
(* initial values.                                                         *)
(***************************************************************************)
EXTENDS Sessions, Registration, AccessRoles, AccessTokens, UserReplicas,
        UserSettings, TLC

CONSTANTS a1, a2, x1, x2, x3, y1, y2, here

\* Executions of handlers and guards; the codes drawn; passwords, reset keys, roles
\* and settings.
MCPair == {a1, a2}
MCTriple == {x1, x2, x3}
MCKeys == {y1, y2}
MCOne == {here}
MCRoleNames == {"user", "editor"}
AccountSymmetry == Permutations(MCPair) \cup Permutations(MCTriple)

\* A service of each kind.
MCRedis == {"workspace"}
MCMemory == {"task"}
MCPlain == {"user"}
MCAdmin == {"dlq"}
MCCacheTtl == [s \in {"workspace", "task"} |-> 1]

\* Services meet in the auth service's answers only, whoever asked for them: a
\* behaviour presents the token to services of one kind.
MCAskedIn == [tokens_redis |-> MCRedis, tokens_memory |-> MCMemory,
              tokens_plain |-> MCPlain, tokens_admin |-> MCAdmin]
MCTokenParts == DOMAIN MCAskedIn

VARIABLE part

AccountsInit ==
  /\ part \in {"sessions", "registration", "roles", "replicas", "settings"}
             \cup MCTokenParts
  /\ SessionsInit /\ RegistrationInit /\ AccessRolesInit /\ AccessTokensInit
  /\ UserReplicasInit /\ UserSettingsInit
  /\ part # "settings" => settingKind = "status"

AccountsNext ==
  \/ /\ part = "sessions" /\ SessionsNext
     /\ UNCHANGED <<part, registrationVars, roleVars, tokenVars, replicaVars,
                    settingVars>>
  \/ /\ part = "registration" /\ RegistrationNext
     /\ UNCHANGED <<part, sessionVars, roleVars, tokenVars, replicaVars,
                    settingVars>>
  \/ /\ part = "roles" /\ AccessRolesNext
     /\ UNCHANGED <<part, sessionVars, registrationVars, tokenVars,
                    replicaVars, settingVars>>
  \/ /\ part \in MCTokenParts /\ AccessTokensNext
     /\ \A v \in Verifications :
          guard'[v].pc # "none" => guard'[v].site \in MCAskedIn[part]
     /\ UNCHANGED <<part, sessionVars, registrationVars, roleVars, replicaVars,
                    settingVars>>
  \/ /\ part = "replicas" /\ UserReplicasNext
     /\ UNCHANGED <<part, sessionVars, registrationVars, roleVars, tokenVars,
                    settingVars>>
  \/ /\ part = "settings" /\ UserSettingsNext
     /\ UNCHANGED <<part, sessionVars, registrationVars, roleVars, tokenVars,
                    replicaVars>>

accountsVars ==
  <<part, sessionVars, registrationVars, roleVars, tokenVars, replicaVars,
    settingVars>>

AccountsSpec == AccountsInit /\ [][AccountsNext]_accountsVars

\* The types of the component that runs, the others being as they were initially:
\* only values their code can produce are reached.
AccountsTypeOK ==
  /\ part = "sessions" => SessionsTypeOK
  /\ part = "registration" => RegistrationTypeOK
  /\ part = "roles" => AccessRolesTypeOK
  /\ part \in MCTokenParts => AccessTokensTypeOK
  /\ part = "replicas" => UserReplicasTypeOK
  /\ part = "settings" => UserSettingsTypeOK
=============================================================================
