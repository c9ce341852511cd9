----------------------------- MODULE Registration -----------------------------
(***************************************************************************)
(* Registration of one e-mail address with the auth service: the account   *)
(* and its role, the profile it asks the user service for, the one-time    *)
(* code that is kept in Redis and mailed, the throttled resending of the   *)
(* code, and the roll-back of a registration that failed half-way.         *)
(*                                                                         *)
(* None of it runs in one transaction: every call to PostgreSQL, Redis or  *)
(* the user service is a step, and a request can fail after any of them.   *)
(***************************************************************************)
EXTENDS Naturals

CONSTANTS
  AccountRequests,   \* executions of register, resend and verify that may overlap
  Codes,             \* one-time codes; those drawn differ from each other
  NoCode,
  ResendMaxAttempts, \* EMAIL_VERIFICATION resendMaxAttempts
  MaxAccountCalls    \* bound on the requests that start

ASSUME RegistrationAssumption ==
  /\ NoCode \notin Codes
  /\ ResendMaxAttempts \in Nat \ {0}

VARIABLES
  account,       \* [exists, role, verified, deleted]: the row of users and its role
  profile,       \* the user service has the account's profile
  otp,           \* the code Redis keeps for the account
  codeMails,     \* codes handed to the e-mail outbox
  resend,        \* [cooldown, attempts, expires]: the keys that throttle resending
  step,          \* what each request does next: [pc, new, code]
  accountCalls,  \* requests started so far
  trace          \* history: [cut, early, undoing, late, orphan, granted]: the registration
                 \* ended between row and role; a code was mailed before there
                 \* was a profile; a roll-back had seen a pending account; it was
                 \* verified after that; a resend ended between count and expiry;
                 \* resends let through in this window

registrationVars ==
  <<account, profile, otp, codeMails, resend, step, accountCalls, trace>>

NoStep == [pc |-> "none", new |-> FALSE, code |-> NoCode]

RegistrationInit ==
  /\ account = [exists |-> FALSE, role |-> FALSE, verified |-> FALSE, deleted |-> FALSE]
  /\ profile = FALSE
  /\ otp = NoCode
  /\ codeMails = {}
  /\ resend = [cooldown |-> FALSE, attempts |-> 0, expires |-> FALSE]
  /\ step = [r \in AccountRequests |-> NoStep]
  /\ accountCalls = 0
  /\ trace = [cut |-> FALSE, early |-> FALSE, undoing |-> FALSE, late |-> FALSE,
              orphan |-> FALSE, granted |-> 0]

-----------------------------------------------------------------------------
OnStep(r, pc) == step[r].pc = pc
ToStep(r, pc) == step' = [step EXCEPT ![r].pc = pc]
Finish(r) == step' = [step EXCEPT ![r] = NoStep]

Call(r, next) ==
  /\ OnStep(r, "none")
  /\ accountCalls < MaxAccountCalls
  /\ accountCalls' = accountCalls + 1
  /\ step' = [step EXCEPT ![r] = next]

Pending == account.exists /\ ~account.deleted /\ ~account.verified

-----------------------------------------------------------------------------
(* Register.                                                               *)

\* The look-up before the insert sees soft-deleted rows too; a row found leads
\* to the recovery of a pending registration.
LookUpEmail(r) ==
  /\ Call(r, [NoStep EXCEPT !.pc = IF account.exists THEN "recover" ELSE "insert"])
  /\ UNCHANGED <<account, profile, otp, codeMails, resend, trace>>

\* The unique e-mail lets one of two inserts through; the other one fails with
\* an error of the database, which is not the conflict that leads to recovery.
InsertUser(r) ==
  /\ OnStep(r, "insert")
  /\ \/ /\ ~account.exists
        /\ account' = [account EXCEPT !.exists = TRUE]
        /\ step' = [step EXCEPT ![r].pc = "save_role", ![r].new = TRUE]
     \/ /\ account.exists
        /\ Finish(r)
        /\ UNCHANGED account
  /\ UNCHANGED <<profile, otp, codeMails, resend, accountCalls, trace>>

SaveRole(r) ==
  /\ OnStep(r, "save_role")
  /\ account' = [account EXCEPT !.role = TRUE]
  /\ ToStep(r, "profile")
  /\ UNCHANGED <<profile, otp, codeMails, resend, accountCalls, trace>>

\* findUserByEmail: only a pending account is recovered.
RecoverPending(r) ==
  /\ OnStep(r, "recover")
  /\ IF Pending THEN ToStep(r, "profile") ELSE Finish(r)
  /\ UNCHANGED <<account, profile, otp, codeMails, resend, accountCalls, trace>>

\* A call inside the try block that throws: the request that created the
\* account goes on to roll it back, any other ends.
AfterFailure(r) == IF step[r].new THEN ToStep(r, "rollback") ELSE Finish(r)

\* The gRPC call; it may have been executed although its answer is late.
CreatePendingProfile(r, answered) ==
  /\ OnStep(r, "profile")
  /\ profile' = TRUE
  /\ IF answered THEN ToStep(r, "store_code") ELSE AfterFailure(r)
  /\ UNCHANGED <<account, otp, codeMails, resend, accountCalls, trace>>

\* Variant with a bug: the code is not handed on to the e-mail.
StoreCodeOnly(r, c) ==
  /\ OnStep(r, "store_code")
  /\ c \notin codeMails
  /\ otp' = c
  /\ ToStep(r, "mail_code")
  /\ UNCHANGED <<account, profile, codeMails, resend, accountCalls, trace>>

\* send: the code in Redis first ...
StoreCode(r, c) ==
  /\ OnStep(r, "store_code")
  /\ c \notin codeMails
  /\ \A q \in AccountRequests : step[q].code # c
  /\ otp' = c
  /\ step' = [step EXCEPT ![r].pc = "mail_code", ![r].code = c]
  /\ UNCHANGED <<account, profile, codeMails, resend, accountCalls, trace>>

\* ... then the e-mail with it in the outbox, whose commit may go unanswered.
MailCode(r, answered) ==
  /\ OnStep(r, "mail_code")
  /\ codeMails' = codeMails \cup {step[r].code}
  /\ trace' = [trace EXCEPT !.early = @ \/ ~profile]
  /\ IF answered THEN Finish(r) ELSE AfterFailure(r)
  /\ UNCHANGED <<account, profile, otp, resend, accountCalls>>

CallFails(r) ==
  /\ step[r].pc \in {"profile", "store_code", "mail_code"}
  /\ AfterFailure(r)
  /\ UNCHANGED <<account, profile, otp, codeMails, resend, accountCalls, trace>>

\* Variant with a bug: the roll-back does not look whether the account is pending.
LoadToRollBackAny(r) ==
  /\ OnStep(r, "rollback")
  /\ ToStep(r, "delete_roles")
  /\ trace' = [trace EXCEPT !.undoing = Pending]
  /\ UNCHANGED <<account, profile, otp, codeMails, resend, accountCalls>>

\* rollbackNewRegistration keeps an account that was verified meanwhile.
LoadToRollBack(r) ==
  /\ OnStep(r, "rollback")
  /\ IF Pending
       THEN ToStep(r, "delete_roles") /\ trace' = [trace EXCEPT !.undoing = TRUE]
       ELSE Finish(r) /\ UNCHANGED trace
  /\ UNCHANGED <<account, profile, otp, codeMails, resend, accountCalls>>

DeleteRoles(r) ==
  /\ OnStep(r, "delete_roles")
  /\ account' = [account EXCEPT !.role = FALSE]
  /\ ToStep(r, "soft_delete")
  /\ UNCHANGED <<profile, otp, codeMails, resend, accountCalls, trace>>

SoftDelete(r) ==
  /\ OnStep(r, "soft_delete")
  /\ account' = [account EXCEPT !.deleted = TRUE]
  /\ Finish(r)
  /\ UNCHANGED <<profile, otp, codeMails, resend, accountCalls, trace>>

-----------------------------------------------------------------------------
(* Resend.                                                                 *)

FindToResend(r) ==
  /\ Pending
  /\ Call(r, [NoStep EXCEPT !.pc = "cooldown"])
  /\ UNCHANGED <<account, profile, otp, codeMails, resend, trace>>

CheckCooldown(r) ==
  /\ OnStep(r, "cooldown")
  /\ IF resend.cooldown THEN Finish(r) ELSE ToStep(r, "count")
  /\ UNCHANGED <<account, profile, otp, codeMails, resend, accountCalls, trace>>

\* INCR returns the new count; only the first of a window sets the expiry.
CountAttempt(r) ==
  /\ OnStep(r, "count")
  /\ resend' = [resend EXCEPT !.attempts = @ + 1]
  /\ IF resend'.attempts <= ResendMaxAttempts
       THEN /\ ToStep(r, IF resend.attempts = 0 THEN "expire" ELSE "set_cooldown")
            /\ trace' = [trace EXCEPT !.granted = @ + 1]
       ELSE Finish(r) /\ UNCHANGED trace
  /\ UNCHANGED <<account, profile, otp, codeMails, accountCalls>>

ExpireAttempts(r) ==
  /\ OnStep(r, "expire")
  /\ resend' = [resend EXCEPT !.expires = @ \/ resend.attempts > 0]
  /\ ToStep(r, "set_cooldown")
  /\ UNCHANGED <<account, profile, otp, codeMails, accountCalls, trace>>

SetCooldown(r) ==
  /\ OnStep(r, "set_cooldown")
  /\ resend' = [resend EXCEPT !.cooldown = TRUE]
  /\ ToStep(r, "store_code")
  /\ UNCHANGED <<account, profile, otp, codeMails, accountCalls, trace>>

-----------------------------------------------------------------------------
(* Verify.                                                                 *)

\* A code that was mailed is typed in; an account verified already is answered
\* without a look at the code.
LoadToVerify(r, c) ==
  /\ Pending
  /\ c \in codeMails
  /\ Call(r, [NoStep EXCEPT !.pc = "compare", !.code = c])
  /\ UNCHANGED <<account, profile, otp, codeMails, resend, trace>>

CompareCode(r) ==
  /\ OnStep(r, "compare")
  /\ IF otp = step[r].code THEN ToStep(r, "load_verified") ELSE Finish(r)
  /\ UNCHANGED <<account, profile, otp, codeMails, resend, accountCalls, trace>>

\* markEmailVerified loads the row once more ...
LoadToMarkVerified(r) ==
  /\ OnStep(r, "load_verified")
  /\ IF account.deleted THEN Finish(r)
     ELSE ToStep(r, IF account.verified THEN "delete_code" ELSE "save_verified")
  /\ UNCHANGED <<account, profile, otp, codeMails, resend, accountCalls, trace>>

\* ... and updates it by its id.
SaveVerified(r) ==
  /\ OnStep(r, "save_verified")
  /\ account' = [account EXCEPT !.verified = TRUE]
  /\ trace' = [trace EXCEPT !.late = @ \/ (trace.undoing /\ ~account.verified)]
  /\ ToStep(r, "delete_code")
  /\ UNCHANGED <<profile, otp, codeMails, resend, accountCalls>>

DeleteCode(r) ==
  /\ OnStep(r, "delete_code")
  /\ otp' = NoCode
  /\ Finish(r)
  /\ UNCHANGED <<account, profile, codeMails, resend, accountCalls, trace>>

-----------------------------------------------------------------------------
(* What happens around the requests.                                       *)

\* The process stops, or a call outside the try block fails: nothing is undone.
AccountRequestStops(r) ==
  /\ ~OnStep(r, "none")
  /\ trace' = [trace EXCEPT !.cut = @ \/ OnStep(r, "save_role"),
                            !.orphan = @ \/ OnStep(r, "expire")]
  /\ Finish(r)
  /\ UNCHANGED <<account, profile, otp, codeMails, resend, accountCalls>>

CodeExpires ==
  /\ otp # NoCode
  /\ otp' = NoCode
  /\ UNCHANGED <<account, profile, codeMails, resend, step, accountCalls, trace>>

CooldownExpires ==
  /\ resend.cooldown
  /\ resend' = [resend EXCEPT !.cooldown = FALSE]
  /\ UNCHANGED <<account, profile, otp, codeMails, step, accountCalls, trace>>

\* A window ends when the key of its attempts expires.
AttemptsExpire ==
  /\ resend.expires
  /\ resend' = [resend EXCEPT !.attempts = 0, !.expires = FALSE]
  /\ trace' = [trace EXCEPT !.granted = 0]
  /\ UNCHANGED <<account, profile, otp, codeMails, step, accountCalls>>

\* The use cases and the services they share.
SendCode(r) ==
  \/ \E c \in Codes : StoreCode(r, c)
  \/ \E answered \in BOOLEAN : MailCode(r, answered)

Register(r) ==
  \/ LookUpEmail(r) \/ InsertUser(r) \/ SaveRole(r) \/ RecoverPending(r)
  \/ \E answered \in BOOLEAN : CreatePendingProfile(r, answered)
  \/ CallFails(r) \/ LoadToRollBack(r) \/ DeleteRoles(r) \/ SoftDelete(r)

AssertResendAllowed(r) ==
  CheckCooldown(r) \/ CountAttempt(r) \/ ExpireAttempts(r) \/ SetCooldown(r)

ResendCode(r) == FindToResend(r) \/ AssertResendAllowed(r)

VerifyEmail(r) ==
  \/ \E c \in Codes : LoadToVerify(r, c)
  \/ CompareCode(r) \/ LoadToMarkVerified(r) \/ SaveVerified(r) \/ DeleteCode(r)

RegistrationNext ==
  \/ \E r \in AccountRequests :
       Register(r) \/ SendCode(r) \/ ResendCode(r) \/ VerifyEmail(r) \/ AccountRequestStops(r)
  \/ CodeExpires \/ CooldownExpires \/ AttemptsExpire

RegistrationSpec == RegistrationInit /\ [][RegistrationNext]_registrationVars

-----------------------------------------------------------------------------
(* What registration promises.                                             *)

RegistrationTypeOK ==
  /\ account \in [exists : BOOLEAN, role : BOOLEAN, verified : BOOLEAN, deleted : BOOLEAN]
  /\ profile \in BOOLEAN
  /\ otp \in Codes \cup {NoCode}
  /\ codeMails \in SUBSET Codes
  /\ resend \in [cooldown : BOOLEAN, attempts : Nat, expires : BOOLEAN]
  /\ step \in [AccountRequests -> [
       pc : {"none", "recover", "insert", "save_role", "profile", "store_code",
             "mail_code", "rollback", "delete_roles", "soft_delete", "cooldown",
             "count", "expire", "set_cooldown", "compare", "load_verified",
             "save_verified", "delete_code"},
       new : BOOLEAN, code : Codes \cup {NoCode}]]
  /\ accountCalls \in Nat
  /\ trace \in [cut : BOOLEAN, early : BOOLEAN, undoing : BOOLEAN, late : BOOLEAN,
                orphan : BOOLEAN, granted : Nat]

\* What a verified account may lack, and why: its row is soft-deleted only when
\* it was verified after a roll-back had found it pending; it lacks its role
\* only for the same reason or because the registration is, or was cut short,
\* between the row and the role; and it lacks a profile only when a code was mailed
\* (by a resend) before the profile was made.
VerifiedAccountsAreComplete ==
  account.verified =>
    /\ account.deleted => trace.late
    /\ \/ account.role \/ trace.late \/ trace.cut
       \/ \E r \in AccountRequests : OnStep(r, "save_role")
    /\ profile \/ trace.early

\* However resends interleave, the limit counts all of a window: at most
\* ResendMaxAttempts get through. And a window ends: its count has an expiry, or
\* is about to get one, unless the request that opened it stopped right there.
ResendsThrottled ==
  /\ trace.granted <= ResendMaxAttempts
  /\ resend.attempts > 0 =>
       \/ resend.expires \/ trace.orphan
       \/ \E r \in AccountRequests : OnStep(r, "expire")

\* "Unverified accounts can recover via register with the same email": unless
\* the address belongs to a verified account, register either inserts a row or
\* recovers the one there is.
EmailStaysRegistrable ==
  ~account.verified => ~account.exists \/ Pending

\* What registration and verification promise together: nobody verifies an
\* account that is half registered, and mailed codes stay within their limit.
RegistrationKept == VerifiedAccountsAreComplete /\ ResendsThrottled
=============================================================================
