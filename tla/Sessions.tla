------------------------------- MODULE Sessions -------------------------------
(***************************************************************************)
(* Sign-in sessions of one verified account of the auth service: refresh    *)
(* tokens that rotate within a family, the requests that revoke them, and  *)
(* the password reset that is mailed as a one-time key held in Redis.      *)
(*                                                                         *)
(* Every database or Redis call of a request is a step, so another         *)
(* request can run between any two of them.  A rotation is one transaction *)
(* (READ COMMITTED, no row lock): what it read may be stale when it        *)
(* commits, and what it wrote before it throws is rolled back.             *)
(*                                                                         *)
(* A password and the active flag are columns of one row, which a request  *)
(* loads, changes in one column and saves: save() writes each column that  *)
(* differs from what is stored by then, the others as they were loaded.    *)
(***************************************************************************)
EXTENDS Naturals, Sequences

CONSTANTS
  SessionRequests,   \* executions of the HTTP handlers that may overlap
  Passwords,
  FirstPassword,
  ResetKeys,         \* random keys a "forgot password" request can draw
  NoValue,
  MaxTokens,         \* bound on the refresh tokens issued
  MaxSessionCalls    \* bound on the requests that start

ASSUME SessionsAssumption ==
  /\ FirstPassword \in Passwords
  /\ NoValue \notin ResetKeys
  /\ NoValue \notin Passwords

VARIABLES
  user,          \* [password, active]: the row of the account
  tokens,        \* the refresh_tokens table, oldest first
  redis,         \* [lookup, pointer]: the keys password-reset:lookup:* and :user:*
  mailed,        \* reset keys handed to the e-mail outbox
  request,       \* what each handler execution has read and where it stands
  sessionCalls,  \* requests started so far
  past,          \* history: [saves, purges, covered]: saves of the row, times all
                 \* tokens were revoked, saves of the row before the last of those
  asked,         \* history: [user, lost]: each column as last asked for; the columns
                 \* written back since, from a row loaded before an earlier save
  consumed       \* history: consumptions of reset keys, in order

\* The row with its history.
userVars == <<user, asked>>
sessionVars ==
  <<userVars, tokens, redis, mailed, request, sessionCalls, past, consumed>>

FirstUser == [password |-> FirstPassword, active |-> TRUE]
Columns == DOMAIN FirstUser

Idle == [pc |-> "idle", token |-> 0, password |-> NoValue, key |-> NoValue,
         old |-> NoValue, active |-> TRUE, row |-> FirstUser, loaded |-> 0,
         seen |-> 0, read |-> 0, login |-> 0]

SessionsInit ==
  /\ user = FirstUser
  /\ tokens = <<>>
  /\ redis = [lookup |-> {}, pointer |-> NoValue]
  /\ mailed = {}
  /\ request = [r \in SessionRequests |-> Idle]
  /\ sessionCalls = 0
  /\ past = [saves |-> 0, purges |-> 0, covered |-> 0]
  /\ asked = [user |-> FirstUser, lost |-> {}]
  /\ consumed = <<>>

-----------------------------------------------------------------------------
(* Steps of a request.                                                     *)

Go(r, read) == request' = [request EXCEPT ![r] = read]
End(r) == Go(r, Idle)
At(r, pc) == request[r].pc = pc

\* A request arrives and its first read lets it go on: what it read is kept,
\* and (history) the point of the account's past at which it read.
Begin(r, read) ==
  /\ At(r, "idle")
  /\ sessionCalls < MaxSessionCalls
  /\ sessionCalls' = sessionCalls + 1
  /\ Go(r, [read EXCEPT !.read = past.purges])

Live(i) == ~tokens[i].revoked

\* The row of refresh_tokens that request r inserts. History: `seen` tokens
\* existed and `read` purges had happened when r read, `born` now; `login` is
\* the number of saves of the row when the login of the family was validated.
NewToken(family, parent, r) ==
  [family |-> family, parent |-> parent, revoked |-> FALSE, expired |-> FALSE,
   seen |-> request[r].seen, read |-> request[r].read, born |-> past.purges,
   login |-> request[r].login]

Revoked(S) ==
  [i \in DOMAIN tokens |-> [tokens[i] EXCEPT !.revoked = @ \/ i \in S]]

-----------------------------------------------------------------------------
(* Login.                                                                  *)

\* validateCredentials and assertCanLogin read the row once.
ValidateCredentials(r) ==
  \E p \in Passwords :
    /\ p = user.password
    /\ user.active
    /\ Begin(r, [Idle EXCEPT !.pc = "issue", !.login = past.saves])
    /\ UNCHANGED <<userVars, tokens, redis, mailed, past, consumed>>

\* issue: a token of a family of its own.
IssueToken(r) ==
  /\ At(r, "issue")
  /\ Len(tokens) < MaxTokens
  /\ tokens' = Append(tokens, NewToken(Len(tokens) + 1, 0, r))
  /\ End(r)
  /\ UNCHANGED <<userVars, redis, mailed, sessionCalls, past, consumed>>

-----------------------------------------------------------------------------
(* Refresh.                                                                *)

\* rotate reads the token. A token already revoked or replaced makes it revoke
\* the family and throw, and an expired one makes it mark the token and throw;
\* the transaction rolls both writes back, so only the usable token leads on.
LoadTokenToRotate(r, i) ==
  /\ ~tokens[i].expired
  /\ ~tokens[i].revoked
  /\ Begin(r, [Idle EXCEPT !.pc = "rotate", !.token = i, !.seen = Len(tokens),
                           !.login = tokens[i].login])
  /\ UNCHANGED <<userVars, tokens, redis, mailed, past, consumed>>

\* The insert of the successor and the update of the token commit together.
RotateToken(r) ==
  LET i == request[r].token IN
  /\ At(r, "rotate")
  /\ Len(tokens) < MaxTokens
  /\ tokens' = Append(Revoked({i}), NewToken(tokens[i].family, i, r))
  /\ End(r)
  /\ UNCHANGED <<userVars, redis, mailed, sessionCalls, past, consumed>>

TokenExpires(i) ==
  /\ ~tokens[i].expired
  /\ tokens' = [tokens EXCEPT ![i].expired = TRUE]
  /\ UNCHANGED <<userVars, redis, mailed, request, sessionCalls, past, consumed>>

-----------------------------------------------------------------------------
(* Log out, revoke one session, log out the others, log out everywhere.    *)

\* revokeToken loads the row; a revoked one ends the request.
LoadTokenToRevoke(r, i) ==
  /\ ~tokens[i].revoked
  /\ Begin(r, [Idle EXCEPT !.pc = "logout", !.token = i])
  /\ UNCHANGED <<userVars, tokens, redis, mailed, past, consumed>>

SaveRevokedToken(r) ==
  /\ At(r, "logout")
  /\ tokens' = Revoked({request[r].token})
  /\ End(r)
  /\ UNCHANGED <<userVars, redis, mailed, sessionCalls, past, consumed>>

\* resolveVerifiedUserContext: the access token names an active account. For
\* logout-others the refresh token of the caller is read here as well.
Authorize(r, pc, i) ==
  /\ user.active
  /\ Begin(r, [Idle EXCEPT !.pc = pc, !.token = i])
  /\ UNCHANGED <<userVars, tokens, redis, mailed, past, consumed>>

\* One UPDATE over a family ...
RevokeFamilyForUser(r) ==
  /\ At(r, "revoke_family")
  /\ tokens' = Revoked({j \in DOMAIN tokens :
                          tokens[j].family = tokens[request[r].token].family})
  /\ End(r)
  /\ UNCHANGED <<userVars, redis, mailed, sessionCalls, past, consumed>>

\* ... over every other family ...
RevokeOtherFamiliesForUser(r) ==
  /\ At(r, "logout_others")
  /\ tokens' = Revoked({j \in DOMAIN tokens :
                          tokens[j].family # tokens[request[r].token].family})
  /\ End(r)
  /\ UNCHANGED <<userVars, redis, mailed, sessionCalls, past, consumed>>

\* Variant with a bug: only the first token of each family is revoked.
RevokeFirstTokensOfUser(r) ==
  /\ At(r, "revoke_all")
  /\ tokens' = Revoked({j \in DOMAIN tokens : tokens[j].parent = 0})
  /\ past' = [past EXCEPT !.purges = @ + 1, !.covered = past.saves]
  /\ End(r)
  /\ UNCHANGED <<userVars, redis, mailed, sessionCalls, consumed>>

\* ... or over all tokens of the account.
RevokeAllForUser(r) ==
  /\ At(r, "revoke_all")
  /\ tokens' = Revoked(DOMAIN tokens)
  /\ past' = [past EXCEPT !.purges = @ + 1, !.covered = past.saves]
  /\ End(r)
  /\ UNCHANGED <<userVars, redis, mailed, sessionCalls, consumed>>

-----------------------------------------------------------------------------
(* Change password; an admin disables or enables the account.              *)

\* changePassword, for an active account, as resetPassword below ...
RequestPasswordChange(r, p) ==
  /\ user.active
  /\ Begin(r, [Idle EXCEPT !.pc = "load_user", !.password = p])
  /\ UNCHANGED <<userVars, tokens, redis, mailed, past, consumed>>

\* ... loads the row to hash the new password, and to verify the current one: a
\* wrong one ends the request, as a failing call does.
LoadUserToSavePassword(r) ==
  /\ At(r, "load_user")
  /\ Go(r, [request[r] EXCEPT !.pc = "save_password", !.row = user, !.loaded = past.saves])
  /\ UNCHANGED <<userVars, tokens, redis, mailed, sessionCalls, past, consumed>>

\* History: the save asks for one column and writes back the others.
SaveUser(r, saved, column) ==
  /\ user' = saved
  /\ past' = [past EXCEPT !.saves = @ + 1]
  /\ asked' = [user |-> [asked.user EXCEPT ![column] = saved[column]],
               lost |-> (asked.lost \ {column})
                           \cup {c \in Columns \ {column} :
                                   saved[c] # user[c] /\ request[r].loaded < past.saves}]
  /\ Go(r, [request[r] EXCEPT !.pc = "revoke_all"])
  /\ UNCHANGED <<tokens, redis, mailed, sessionCalls, consumed>>

SavePassword(r) ==
  /\ At(r, "save_password")
  /\ SaveUser(r, [request[r].row EXCEPT !.password = request[r].password], "password")

\* setUserActive loads the row, saves it, and then revokes.
LoadUserToSetActive(r, active) ==
  /\ Begin(r, [Idle EXCEPT !.pc = "save_active", !.active = active, !.row = user,
                           !.loaded = past.saves])
  /\ UNCHANGED <<userVars, tokens, redis, mailed, past, consumed>>

SaveActive(r) ==
  /\ At(r, "save_active")
  /\ SaveUser(r, [request[r].row EXCEPT !.active = request[r].active], "active")

\* assignRole upserts the role, then revokes: the roles are in
\* the access tokens of every session.
AssignRole(r) ==
  /\ Begin(r, [Idle EXCEPT !.pc = "revoke_all"])
  /\ UNCHANGED <<userVars, tokens, redis, mailed, past, consumed>>

-----------------------------------------------------------------------------
(* Forgotten password.                                                     *)

\* send draws a fresh random key and reads the pointer to an older one.
ReadResetPointer(r, k) ==
  /\ k \notin mailed
  /\ \A q \in SessionRequests : request[q].key # k
  /\ Begin(r, [Idle EXCEPT !.pc = "delete_lookup", !.key = k, !.old = redis.pointer])
  /\ UNCHANGED <<userVars, tokens, redis, mailed, past, consumed>>

\* Deletes what the pointer named when it was read; nothing if it was not set.
DeleteOldLookup(r) ==
  /\ At(r, "delete_lookup")
  /\ redis' = [redis EXCEPT !.lookup = @ \ {request[r].old}]
  /\ Go(r, [request[r] EXCEPT !.pc = "set_lookup"])
  /\ UNCHANGED <<userVars, tokens, mailed, sessionCalls, past, consumed>>

SetLookup(r) ==
  /\ At(r, "set_lookup")
  /\ redis' = [redis EXCEPT !.lookup = @ \cup {request[r].key}]
  /\ Go(r, [request[r] EXCEPT !.pc = "set_pointer"])
  /\ UNCHANGED <<userVars, tokens, mailed, sessionCalls, past, consumed>>

\* The e-mail is enqueued last; a mailed key is one the user may type in.
SetPointerAndMail(r) ==
  /\ At(r, "set_pointer")
  /\ redis' = [redis EXCEPT !.pointer = request[r].key]
  /\ mailed' = mailed \cup {request[r].key}
  /\ End(r)
  /\ UNCHANGED <<userVars, tokens, sessionCalls, past, consumed>>

\* consumeToken reads the lookup key ...
ReadResetKey(r, k, p) ==
  /\ k \in mailed \cap redis.lookup
  /\ Begin(r, [Idle EXCEPT !.pc = "delete_keys", !.key = k, !.password = p,
                           !.seen = Len(consumed)])
  /\ UNCHANGED <<userVars, tokens, redis, mailed, past, consumed>>

\* ... and deletes it with the account's pointer, whatever that names by now.
DeleteResetKeys(r) ==
  /\ At(r, "delete_keys")
  /\ redis' = [lookup |-> redis.lookup \ {request[r].key}, pointer |-> NoValue]
  /\ consumed' = Append(consumed, [key |-> request[r].key, seen |-> request[r].seen])
  /\ Go(r, [request[r] EXCEPT !.pc = "load_user"])
  /\ UNCHANGED <<userVars, tokens, mailed, sessionCalls, past>>

\* The two keys carry the same time to live, the pointer is set last.
ResetKeysExpire ==
  /\ redis.lookup # {} \/ redis.pointer # NoValue
  /\ redis' = [lookup |-> {}, pointer |-> NoValue]
  /\ UNCHANGED <<userVars, tokens, mailed, request, sessionCalls, past, consumed>>

-----------------------------------------------------------------------------
\* A database or Redis call fails, or the process stops: the request ends
\* where it stands and nothing undoes the steps it took.
RequestFails(r) ==
  /\ ~At(r, "idle")
  /\ End(r)
  /\ UNCHANGED <<userVars, tokens, redis, mailed, sessionCalls, past, consumed>>

(* The use cases: who starts with what, and the steps that follow.         *)

Login(r) == ValidateCredentials(r) \/ IssueToken(r)

RefreshSession(r) == (\E i \in DOMAIN tokens : LoadTokenToRotate(r, i)) \/ RotateToken(r)

Logout(r) == (\E i \in DOMAIN tokens : LoadTokenToRevoke(r, i)) \/ SaveRevokedToken(r)

RevokeSession(r) ==
  (\E i \in DOMAIN tokens : Authorize(r, "revoke_family", i)) \/ RevokeFamilyForUser(r)

LogoutOthers(r) ==
  (\E i \in DOMAIN tokens : Authorize(r, "logout_others", i)) \/ RevokeOtherFamiliesForUser(r)

LogoutAll(r) == Authorize(r, "revoke_all", 0) \/ RevokeAllForUser(r)

\* These go on with RevokeAllForUser ...
ChangePassword(r) ==
  \/ \E p \in Passwords : RequestPasswordChange(r, p)
  \/ LoadUserToSavePassword(r) \/ SavePassword(r)

SetUserActive(r) == (\E active \in BOOLEAN : LoadUserToSetActive(r, active)) \/ SaveActive(r)

\* ... and this one with LoadUserToSavePassword and SavePassword before it.
ResetPassword(r) ==
  (\E k \in ResetKeys, p \in Passwords : ReadResetKey(r, k, p)) \/ DeleteResetKeys(r)

ForgotPassword(r) ==
  \/ \E k \in ResetKeys : ReadResetPointer(r, k)
  \/ DeleteOldLookup(r) \/ SetLookup(r) \/ SetPointerAndMail(r)

SessionsNext ==
  \/ \E r \in SessionRequests :
       \/ Login(r) \/ RefreshSession(r) \/ Logout(r) \/ RevokeSession(r)
       \/ LogoutOthers(r) \/ LogoutAll(r) \/ ChangePassword(r) \/ SetUserActive(r)
       \/ AssignRole(r) \/ ForgotPassword(r) \/ ResetPassword(r) \/ RequestFails(r)
  \/ \E i \in DOMAIN tokens : TokenExpires(i)
  \/ ResetKeysExpire

SessionsSpec == SessionsInit /\ [][SessionsNext]_sessionVars

-----------------------------------------------------------------------------
(* What sessions promise.                                                  *)

TokenRow == [family : Nat, parent : Nat, revoked : BOOLEAN, expired : BOOLEAN,
             seen : Nat, read : Nat, born : Nat, login : Nat]

UserRow == [password : Passwords, active : BOOLEAN]

RequestState == [
  pc : {"idle", "issue", "rotate", "logout", "revoke_family", "logout_others",
        "revoke_all", "load_user", "save_password", "save_active", "delete_lookup",
        "set_lookup", "set_pointer", "delete_keys"},
  token : Nat, password : Passwords \cup {NoValue}, key : ResetKeys \cup {NoValue},
  old : ResetKeys \cup {NoValue}, active : BOOLEAN, row : UserRow, loaded : Nat,
  seen : Nat, read : Nat, login : Nat]

\* Types of the account's rows, keys and requests.
SessionsTypeOK ==
  /\ user \in UserRow
  /\ tokens \in Seq(TokenRow)
  /\ redis \in [lookup : SUBSET ResetKeys, pointer : ResetKeys \cup {NoValue}]
  /\ mailed \in SUBSET ResetKeys
  /\ request \in [SessionRequests -> RequestState]
  /\ sessionCalls \in Nat
  /\ past \in [saves : Nat, purges : Nat, covered : Nat]
  /\ asked \in [user : UserRow, lost : SUBSET Columns]
  /\ consumed \in Seq([key : ResetKeys, seen : Nat])

\* The request that inserted token i read before, and wrote after, a revocation
\* of all tokens.
Straddles(i) == tokens[i].read < tokens[i].born

\* A session outlives a completed change of the account (a password changed or
\* reset, the account disabled or enabled, and its revocation of all tokens run as
\* well) only through a login or rotation that was in flight across that
\* revocation: every other live token belongs to a family whose login was validated
\* against the row now stored, and so to an account that is active.
SavesEndSessions ==
  past.covered = past.saves =>
    \A i \in DOMAIN tokens : Live(i) =>
      \/ tokens[i].login = past.saves /\ user.active
      \/ \E j \in DOMAIN tokens : tokens[j].family = tokens[i].family /\ Straddles(j)

\* A password changed, and an account disabled or enabled, stays so until it is asked
\* otherwise, unless a request that had loaded the row before an earlier save wrote
\* the column back with its own: a lost update needs an overlap.
AccountStands == \A c \in Columns : user[c] = asked.user[c] \/ c \in asked.lost

\* One-time credentials are used again only by requests that overlap: when a
\* token has two successors, or a mailed reset key was consumed twice, the
\* later request had read it before the earlier one wrote. A token presented
\* after its rotation never gets a second successor.
ReuseOnlyByOverlap ==
  /\ \A i, j \in DOMAIN tokens :
       i < j /\ tokens[i].parent = tokens[j].parent /\ tokens[i].parent # 0
         => tokens[j].seen < i
  /\ \A i, j \in DOMAIN consumed :
       i < j /\ consumed[i].key = consumed[j].key => consumed[j].seen < i

\* No session, no one-time credential and no stored password is good for more than
\* the races allow: all of the above.
SessionsExplained == SavesEndSessions /\ AccountStands /\ ReuseOnlyByOverlap
=============================================================================
