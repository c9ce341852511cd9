----------------------------- MODULE Idempotency -----------------------------
(***************************************************************************)
(* One value of the Idempotency-Key header as one user sends it with       *)
(* requests that create or assign something: look for a stored answer,     *)
(* execute, store the answer.  The workspace and the task service each     *)
(* have their own version, which differ in what becomes of an expired      *)
(* record: the first deletes it, the second looks past it.                 *)
(***************************************************************************)
EXTENDS Naturals, Sequences

CONSTANTS
  KeyRequests,       \* requests that may overlap
  MaxKeyCalls        \* bound on the requests that start

Services == {"workspace", "task"}

VARIABLES
  service,       \* which of the two versions this is
  record,        \* "none", "valid" or "expired": the row of the key (nothing prunes it)
  keyed,         \* [pc, seen, stale] of each request
  keyCalls,
  executions,    \* history: of each execution, what its request had seen (below)
  stores,        \* history: answers stored, or found to be stored already
  lapses         \* history: records that expired, or were deleted as expired

keyVars == <<service, record, keyed, keyCalls, executions, stores, lapses>>

\* `seen`: stores when the request looked; `stale`: there had been a lapse.
Unkeyed == [pc |-> "none", seen |-> 0, stale |-> FALSE]

IdempotencyInit ==
  /\ service \in Services
  /\ record = "none"
  /\ keyed = [r \in KeyRequests |-> Unkeyed]
  /\ keyCalls = 0
  /\ executions = <<>>
  /\ stores = 0
  /\ lapses = 0

-----------------------------------------------------------------------------
Keyed(r, pc) == keyed[r].pc = pc
KeyedTo(r, pc) == keyed' = [keyed EXCEPT ![r].pc = pc]
Reply(r) == keyed' = [keyed EXCEPT ![r] = Unkeyed]

\* Variant with a bug: a stored answer does not end the request.
FindCachedAndGoOn(r) ==
  /\ Keyed(r, "none") /\ keyCalls < MaxKeyCalls
  /\ keyCalls' = keyCalls + 1
  /\ keyed' = [keyed EXCEPT ![r] =
       [pc |-> IF record # "none" /\ service = "workspace" THEN "delete" ELSE "execute",
        seen |-> stores, stale |-> lapses > 0]]
  /\ UNCHANGED <<service, record, executions, stores, lapses>>

\* findCached: a valid record is the answer, and the request is over.
FindCached(r) ==
  /\ Keyed(r, "none") /\ keyCalls < MaxKeyCalls
  /\ keyCalls' = keyCalls + 1
  /\ IF record = "valid" THEN UNCHANGED keyed
     ELSE keyed' = [keyed EXCEPT ![r] =
            [pc |-> IF record = "expired" /\ service = "workspace"
                      THEN "delete" ELSE "execute",
             seen |-> stores, stale |-> lapses > 0]]
  /\ UNCHANGED <<service, record, executions, stores, lapses>>

\* The delete names user and key: it also takes a record stored meanwhile. Its
\* failure is logged and swallowed.
DeleteExpired(r, done) ==
  /\ Keyed(r, "delete")
  /\ record' = IF done THEN "none" ELSE record
  /\ lapses' = lapses + (IF done /\ record = "valid" THEN 1 ELSE 0)
  /\ KeyedTo(r, "execute")
  /\ UNCHANGED <<service, keyCalls, executions, stores>>

\* The use case commits; a refusal is not stored and ends the request.
Execute(r) ==
  /\ Keyed(r, "execute")
  /\ executions' = Append(executions, [seen |-> keyed[r].seen, stale |-> keyed[r].stale])
  /\ KeyedTo(r, "store")
  /\ UNCHANGED <<service, record, keyCalls, stores, lapses>>

\* store: the unique index of user and key makes a second record a success,
\* expired or not. The task service never replaces an expired one.
StoreAnswer(r) ==
  /\ Keyed(r, "store")
  /\ record' = IF record = "none" THEN "valid" ELSE record
  /\ stores' = stores + 1
  /\ Reply(r)
  /\ UNCHANGED <<service, keyCalls, executions, lapses>>

KeyedRequestFails(r) ==
  /\ ~Keyed(r, "none")
  /\ Reply(r)
  /\ UNCHANGED <<service, record, keyCalls, executions, stores, lapses>>

RecordExpires ==
  /\ record = "valid"
  /\ record' = "expired"
  /\ lapses' = lapses + 1
  /\ UNCHANGED <<service, keyed, keyCalls, executions, stores>>

IdempotencyNext ==
  \/ \E r \in KeyRequests :
       \/ FindCached(r) \/ Execute(r) \/ StoreAnswer(r) \/ KeyedRequestFails(r)
       \/ \E done \in BOOLEAN : DeleteExpired(r, done)
  \/ RecordExpires

IdempotencySpec == IdempotencyInit /\ [][IdempotencyNext]_keyVars

-----------------------------------------------------------------------------
IdempotencyTypeOK ==
  /\ service \in Services
  /\ record \in {"none", "valid", "expired"}
  /\ keyed \in [KeyRequests -> [pc : {"none", "delete", "execute", "store"},
                                seen : Nat, stale : BOOLEAN]]
  /\ keyCalls \in Nat
  /\ executions \in Seq([seen : Nat, stale : BOOLEAN])
  /\ stores \in Nat
  /\ lapses \in Nat

\* A request with a key is executed again only when its record had lapsed, or
\* when no earlier answer was stored yet as it looked: requests that overlap,
\* and those that follow one that failed between executing and storing.
RepeatsExplained ==
  \A i \in DOMAIN executions : executions[i].seen > 0 => executions[i].stale
=============================================================================
