----------------------------- MODULE AccessTokens -----------------------------
(***************************************************************************)
(* One access token of one account, presented to the services that guard    *)
(* their endpoints with it.  A service asks the auth service over gRPC and  *)
(* may keep the answer: the workspace service in Redis, each pod of the     *)
(* task service in memory, the user and notification services not at all;   *)
(* the analytics and DLQ services always ask in full.  The auth service     *)
(* keeps its own answers in Redis.  Nothing removes an entry when the       *)
(* account is disabled: entries end with their time to live.                *)
(*                                                                         *)
(* Time is a number of ticks.  A verification takes at most MaxDelay.       *)
(***************************************************************************)
EXTENDS Naturals, FiniteSetsExt

CONSTANTS
  RedisSites,    \* the workspace service: its pods share a cache
  MemorySites,   \* the pods of the task service, each with its own
  PlainSites,    \* the user and notification services
  AdminSites,    \* the analytics and DLQ services
  CacheTtl,      \* of the sites with a cache, in ticks
  LiteTtl,       \* auth.verifyLiteCache.maxTtlSeconds
  TokenEnd,      \* the claim exp of the token
  Verifications, \* guard executions that may overlap
  MaxDelay,      \* bound on the duration of a guard execution
  MaxTime        \* bound on the clock

CachedSites == RedisSites \cup MemorySites
Sites == CachedSites \cup PlainSites \cup AdminSites

ASSUME AccessTokensAssumption ==
  /\ Sites # {}
  /\ CacheTtl \in [CachedSites -> Nat \ {0}]
  /\ LiteTtl \in Nat \ {0} /\ TokenEnd \in Nat
  /\ MaxDelay \in Nat /\ MaxTime \in Nat

VARIABLES
  now,
  enabled,       \* the account is active
  offSince,      \* history: when it ceased to be, 0 while it is
  liteUntil,     \* end of the auth service's entry; over when not after `now`
  siteUntil,     \* end of each site's entry
  guard          \* the verifications under way, see Asking

tokenVars == <<now, enabled, offSince, liteUntil, siteUntil, guard>>

NoGuard == [pc |-> "none", site |-> CHOOSE s \in Sites : TRUE, full |-> FALSE,
            begun |-> 0, off |-> FALSE, said |-> "nothing", waiting |-> FALSE]

AccessTokensInit ==
  /\ now = 0
  /\ enabled = TRUE
  /\ offSince = 0
  /\ liteUntil = 0
  /\ siteUntil = [s \in CachedSites |-> 0]
  /\ guard = [v \in Verifications |-> NoGuard]

-----------------------------------------------------------------------------
\* A verification asks the lite or the full method; `said` is what the auth service
\* answers, `waiting` that the service has not given up. History: `off`, the account
\* was off at some time since `begun`.
GuardAt(v, pc) == guard[v].pc = pc
GuardTo(v, pc) == guard' = [guard EXCEPT ![v].pc = pc]
GuardEnds(v) == guard' = [guard EXCEPT ![v] = NoGuard]
Says(v, said) ==
  guard' = [guard EXCEPT ![v] = IF @.waiting THEN [@ EXCEPT !.pc = "answer", !.said = said]
                               ELSE NoGuard]

Asking(site, pc, full) ==
  [pc |-> pc, site |-> site, full |-> full, begun |-> now, off |-> ~enabled,
   said |-> "nothing", waiting |-> TRUE]

clockVars == <<now, enabled, offSince>>
cacheVars == <<liteUntil, siteUntil>>

\* AuthGuard, verifyAccessTokenLite: an entry that is not over lets the request in
\* without further steps. Without one the workspace service, for which an error of
\* Redis is no entry ...
MissCachedIdentity(v, s, readable) ==
  /\ GuardAt(v, "none")
  /\ ~readable \/ now >= siteUntil[s]
  /\ guard' = [guard EXCEPT ![v] = Asking(s, "ask", FALSE)]
  /\ UNCHANGED <<clockVars, cacheVars>>

\* ... and a pod of the task service ask the auth service ...
MissInPod(v, s) ==
  /\ GuardAt(v, "none")
  /\ now >= siteUntil[s]
  /\ guard' = [guard EXCEPT ![v] = Asking(s, "ask", FALSE)]
  /\ UNCHANGED <<clockVars, cacheVars>>

\* ... and the user and notification services always do.
VerifyLite(v, s) ==
  /\ GuardAt(v, "none")
  /\ guard' = [guard EXCEPT ![v] = Asking(s, "ask", FALSE)]
  /\ UNCHANGED <<clockVars, cacheVars>>

\* PlatformAdminGuard, verifyAccessToken: no cache on either side. The services with
\* a cache do what the plain ones do.
VerifyInFull(v, s) ==
  /\ GuardAt(v, "none")
  /\ guard' = [guard EXCEPT ![v] = Asking(s, "check", TRUE)]
  /\ UNCHANGED <<clockVars, cacheVars>>

-----------------------------------------------------------------------------
\* The auth service looks for its own entry, without a look at the token; an error
\* of Redis counts as no entry ...
ReadLiteCache(v, readable) ==
  /\ GuardAt(v, "ask")
  /\ IF readable /\ now < liteUntil THEN Says(v, "yes") ELSE GuardTo(v, "check")
  /\ UNCHANGED <<clockVars, cacheVars>>

\* ... or verifies the token and loads the account; the database may fail. The full
\* method looks for the profile, too, and goes on without.
VerifyAndLoadUser(v, fails) ==
  /\ GuardAt(v, "check")
  /\ CASE now >= TokenEnd -> Says(v, "no")
       [] now < TokenEnd /\ fails -> Says(v, "fault")
       [] now < TokenEnd /\ ~fails /\ ~enabled -> Says(v, "no")
       [] now < TokenEnd /\ ~fails /\ enabled ->
            IF guard[v].full THEN Says(v, "yes") ELSE GuardTo(v, "write")
  /\ UNCHANGED <<clockVars, cacheVars>>

\* Variant with a bug: an entry takes the whole time to live.
WriteLiteCacheInFull(v, done) ==
  /\ GuardAt(v, "write")
  /\ liteUntil' = IF done THEN now + LiteTtl ELSE liteUntil
  /\ Says(v, "yes")
  /\ UNCHANGED <<clockVars, siteUntil>>

\* Its entry ends with the token at the latest. An error of Redis is passed over.
WriteLiteCache(v, done) ==
  /\ GuardAt(v, "write")
  /\ liteUntil' = IF done /\ now < TokenEnd THEN Min({now + LiteTtl, TokenEnd})
                  ELSE liteUntil
  /\ Says(v, "yes")
  /\ UNCHANGED <<clockVars, siteUntil>>

-----------------------------------------------------------------------------
\* The service gives up waiting and answers 503; the auth service goes on.
GrpcTimesOut(v) ==
  /\ guard[v].waiting /\ ~GuardAt(v, "keep")
  /\ guard' = [guard EXCEPT ![v] =
       IF @.pc = "answer" THEN NoGuard ELSE [@ EXCEPT !.waiting = FALSE]]
  /\ UNCHANGED <<clockVars, cacheVars>>

\* What becomes of the request: UNAUTHENTICATED is answered with 401 and every other
\* error with 503 ...
Verdict(said) == CASE said = "yes" -> "in"
                   [] said = "no" -> "refused"
                   [] said = "fault" -> "unavailable"

\* ... by the analytics and DLQ services both with 503.
AdminVerdict(said) == IF said = "yes" THEN "in" ELSE "unavailable"

\* A positive answer of the lite method is kept: in Redis for a time of its own,
\* before the request goes on, ...
TakeAnswer(v) ==
  LET g == guard[v] IN
  /\ GuardAt(v, "answer") /\ g.site \in RedisSites \cup PlainSites
  /\ IF g.site \in RedisSites /\ Verdict(g.said) = "in"
       THEN GuardTo(v, "keep") ELSE GuardEnds(v)
  /\ UNCHANGED <<clockVars, cacheVars>>

SetCachedIdentity(v, done) ==
  LET s == guard[v].site IN
  /\ GuardAt(v, "keep")
  /\ siteUntil' = IF done THEN [siteUntil EXCEPT ![s] = now + CacheTtl[s]]
                  ELSE siteUntil
  /\ GuardEnds(v)
  /\ UNCHANGED <<clockVars, liteUntil>>

\* ... in the pod's map at once. The end of the token shortens neither.
TakeAnswerInPod(v) ==
  LET g == guard[v] IN
  /\ GuardAt(v, "answer") /\ g.site \in MemorySites
  /\ siteUntil' = IF Verdict(g.said) = "in"
                    THEN [siteUntil EXCEPT ![g.site] = now + CacheTtl[g.site]]
                    ELSE siteUntil
  /\ GuardEnds(v)
  /\ UNCHANGED <<clockVars, liteUntil>>

\* The services of the administrators keep nothing.
TakeAnswerForAdmin(v) ==
  /\ GuardAt(v, "answer") /\ guard[v].site \in AdminSites
  /\ GuardEnds(v)
  /\ UNCHANGED <<clockVars, cacheVars>>

-----------------------------------------------------------------------------
\* setUserActive of the admin API: no cache is told.
SwitchAccount(active) ==
  /\ enabled # active
  /\ enabled' = active
  /\ offSince' = IF active THEN 0 ELSE now
  /\ guard' = [v \in Verifications |->
       IF active \/ GuardAt(v, "none") THEN guard[v]
       ELSE [guard[v] EXCEPT !.off = TRUE]]
  /\ UNCHANGED <<now, cacheVars>>

\* The pod's map is full and its oldest entry makes room; the pod restarts.
EvictEntry(s) ==
  /\ now < siteUntil[s]
  /\ siteUntil' = [siteUntil EXCEPT ![s] = 0]
  /\ UNCHANGED <<clockVars, liteUntil, guard>>

\* Entries end. No verification is in progress for longer than MaxDelay.
Left(until) == IF now + 1 < until THEN until ELSE 0

Tick ==
  /\ now < MaxTime
  /\ \A v \in Verifications : ~GuardAt(v, "none") => now < guard[v].begun + MaxDelay
  /\ now' = now + 1
  /\ liteUntil' = Left(liteUntil)
  /\ siteUntil' = [s \in CachedSites |-> Left(siteUntil[s])]
  /\ UNCHANGED <<enabled, offSince, guard>>

AccessTokensNext ==
  \/ \E v \in Verifications :
       \/ \E s \in MemorySites : MissInPod(v, s)
       \/ \E s \in PlainSites : VerifyLite(v, s)
       \/ \E s \in PlainSites \cup AdminSites : VerifyInFull(v, s)
       \/ \E b \in BOOLEAN :
            \/ \E s \in RedisSites : MissCachedIdentity(v, s, b)
            \/ ReadLiteCache(v, b) \/ VerifyAndLoadUser(v, b)
            \/ WriteLiteCache(v, b) \/ SetCachedIdentity(v, b)
       \/ GrpcTimesOut(v) \/ TakeAnswer(v) \/ TakeAnswerInPod(v)
       \/ TakeAnswerForAdmin(v)
  \/ \E s \in MemorySites : EvictEntry(s)
  \/ \E active \in BOOLEAN : SwitchAccount(active)
  \/ Tick

AccessTokensSpec == AccessTokensInit /\ [][AccessTokensNext]_tokenVars

-----------------------------------------------------------------------------
Guarding ==
  [pc : {"none", "ask", "check", "write", "answer", "keep"},
   site : Sites, full : BOOLEAN, begun : Nat, off : BOOLEAN,
   said : {"nothing", "yes", "no", "fault"}, waiting : BOOLEAN]

AccessTokensTypeOK ==
  /\ now \in Nat
  /\ enabled \in BOOLEAN
  /\ offSince \in Nat
  /\ liteUntil \in Nat
  /\ siteUntil \in [CachedSites -> Nat]
  /\ guard \in [Verifications -> Guarding]

\* The account has been off for at most so long, the token expired for less.
OffFor(ticks) == enabled \/ now <= offSince + ticks
ExpiredFor(ticks) == now < TokenEnd + ticks

\* What may hide behind a site's entry, and behind an answer that is waited for: the
\* entries of the caches and the verifications that filled them. An entry is good
\* for the last time a tick before it ends.
CacheInTime(s) ==
  now < siteUntil[s] => /\ OffFor(LiteTtl - 1 + CacheTtl[s] - 1 + 2 * MaxDelay)
                        /\ ExpiredFor(CacheTtl[s] - 1 + MaxDelay)
AnswerInTime(g) ==
  /\ OffFor(IF g.full THEN MaxDelay ELSE LiteTtl - 1 + 2 * MaxDelay)
  /\ ExpiredFor(MaxDelay)

\* The token had expired, or the account was off at some time of the verification.
CauseToRefuse(g) == now >= TokenEnd \/ g.off

\* However entries are handed on between the two caches, a disabled account gets
\* in for no longer than both times to live and two verifications, an expired
\* token for no longer than the site's time to live and one verification, and
\* with a verification in full only when it was under way at that moment; and
\* 401 is answered for no other reason, no outage included.
VerdictsFounded ==
  /\ \A s \in CachedSites : CacheInTime(s)
  /\ \A v \in Verifications : guard[v].said # "nothing" =>
       LET g == guard[v]
           verdict == IF g.site \in AdminSites THEN AdminVerdict(g.said)
                      ELSE Verdict(g.said) IN
       /\ verdict = "in" => AnswerInTime(g)
       /\ verdict = "refused" => CauseToRefuse(g)
=============================================================================
