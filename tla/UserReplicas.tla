----------------------------- MODULE UserReplicas -----------------------------
(***************************************************************************)
(* The profile of one user on its way from the user service to the copies  *)
(* other services keep: the row in PostgreSQL, the copy in Redis that      *)
(* readers fill, the two Kafka topics fed from the outbox, and the replica *)
(* a consuming service keeps (the task and the notification service hold   *)
(* one each, with the same code).                                          *)
(*                                                                         *)
(* A copy is the number of the revision it was taken from, 0 for none.  A  *)
(* revision is one of the full name, which every message carries.  (An     *)
(* optional field that its owner clears is left out of the update message  *)
(* and stays in the replica as it was.)                                    *)
(* Deduplication of messages is the subject of EventConsumer; here a       *)
(* message is applied, repeated, lost or parked, as it allows.             *)
(***************************************************************************)
EXTENDS Naturals, Sequences

CONSTANTS
  Edits,          \* executions of the handlers that write the profile
  Lookups,        \* executions that read it, for the cache or for a replica
  MaxReplicaCalls \* bound on the executions that start and the messages lost or
                  \* parked, together

ASSUME UserReplicasAssumption == MaxReplicaCalls \in Nat

VARIABLES
  row,        \* [rev, deleted]: the row of profiles; rev 0 when there is none
  locked,     \* an open transaction has updated the row
  cached,     \* [rev, raced]: the copy in Redis; history: `raced` says that it
              \* was stored, or was left in place, across a write
  edit,       \* [pc, kind, read] of each writer
  lookup,     \* [pc, for, copy] of each reader
  topics,     \* user_registered and user_profile_updated: messages not consumed
  parked,     \* messages in the dead-letter topics
  replica,    \* the revision the consuming service shows
  replicaCalls,  \* executions started, messages lost or parked so far
  followed    \* history: [published, erased, reviver, astray]: last revision
              \* published; revision that anonymized the row; what the edit that
              \* undid this had read; whether the replica may be off: see ReplicaCatchesUp

replicaVars ==
  <<row, locked, cached, edit, lookup, topics, parked, replica, replicaCalls, followed>>

Topics == {"registered", "updated"}
NoEdit == [pc |-> "none", kind |-> "update", read |-> 0]
NoLookup == [pc |-> "none", for |-> "cache", copy |-> 0]
NothingCached == [rev |-> 0, raced |-> FALSE]

UserReplicasInit ==
  /\ row = [rev |-> 0, deleted |-> FALSE]
  /\ locked = FALSE
  /\ cached = NothingCached
  /\ edit = [e \in Edits |-> NoEdit]
  /\ lookup = [l \in Lookups |-> NoLookup]
  /\ topics = [t \in Topics |-> <<>>]
  /\ parked = {}
  /\ replica = 0
  /\ replicaCalls = 0
  /\ followed = [published |-> 0, erased |-> 0, reviver |-> 0, astray |-> FALSE]

EditAt(e, pc) == edit[e].pc = pc
EditTo(e, pc) == edit' = [edit EXCEPT ![e].pc = pc]

AnotherCall ==
  /\ replicaCalls < MaxReplicaCalls
  /\ replicaCalls' = replicaCalls + 1

\* findOne passes over a soft-deleted row.
Found == IF row.deleted THEN 0 ELSE row.rev

-----------------------------------------------------------------------------
(* Writers.                                                                *)

\* updateProfile and anonymize answer 404 without a row, upsertPending
\* (registration, or its repetition) goes on and will insert one.
LoadProfile(e, kind) ==
  /\ EditAt(e, "none")
  /\ AnotherCall
  /\ kind # "register" => Found # 0
  /\ edit' = [edit EXCEPT ![e] = [pc |-> "save", kind |-> kind, read |-> Found]]
  /\ UNCHANGED <<row, locked, cached, lookup, topics, parked, replica, followed>>

\* save inside the transaction holds the row until it commits. An insert of a
\* user_id that has a row by now, deleted or not, violates its unique index.
SaveInTransaction(e) ==
  /\ EditAt(e, "save") /\ edit[e].kind # "anonymize"
  /\ ~locked
  /\ IF edit[e].read = 0 /\ row.rev # 0
       THEN EditTo(e, "none") /\ UNCHANGED locked
       ELSE EditTo(e, "uncache") /\ locked' = TRUE
  /\ UNCHANGED <<row, cached, lookup, topics, parked, replica, replicaCalls, followed>>

\* The cached copy is deleted next; an error of Redis is logged and swallowed.
Uncached(done) == IF done THEN NothingCached ELSE [cached EXCEPT !.raced = TRUE]

DeleteCachedProfile(e, done) ==
  /\ EditAt(e, "uncache")
  /\ cached' = Uncached(done)
  /\ EditTo(e, "commit")
  /\ UNCHANGED <<row, locked, lookup, topics, parked, replica, replicaCalls, followed>>

\* The commit publishes the row and, through the outbox, the event. The saved
\* entity has the deleted_at it was read with, none, and that is written too.
CommitProfile(e) ==
  LET rev == row.rev + 1
      topic == IF edit[e].kind = "register" THEN "registered" ELSE "updated"
  IN
  /\ EditAt(e, "commit")
  /\ row' = [rev |-> rev, deleted |-> FALSE]
  /\ locked' = FALSE
  /\ topics' = [topics EXCEPT ![topic] = Append(@, rev)]
  /\ followed' = [followed EXCEPT !.published = rev,
                    !.reviver = IF row.deleted THEN edit[e].read ELSE @]
  /\ EditTo(e, "none")
  /\ UNCHANGED <<cached, lookup, parked, replica, replicaCalls>>

\* anonymize saves without a transaction and publishes nothing ...
Anonymize(e) ==
  /\ EditAt(e, "save") /\ edit[e].kind = "anonymize"
  /\ ~locked
  /\ row' = [rev |-> row.rev + 1, deleted |-> TRUE]
  /\ followed' = [followed EXCEPT !.erased = row'.rev]
  /\ EditTo(e, "uncache_saved")
  /\ UNCHANGED <<locked, cached, lookup, topics, parked, replica, replicaCalls>>

\* ... and deletes the cached copy afterwards.
DeleteCachedAfterSave(e, done) ==
  /\ EditAt(e, "uncache_saved")
  /\ cached' = Uncached(done)
  /\ EditTo(e, "none")
  /\ UNCHANGED <<row, locked, lookup, topics, parked, replica, replicaCalls, followed>>

\* An error or a crash rolls the transaction back; what was done to the cache,
\* or was committed without deleting the cached copy, stays.
EditFails(e) ==
  /\ ~EditAt(e, "none")
  /\ locked' = (locked /\ edit[e].pc \notin {"uncache", "commit"})
  /\ cached' = IF EditAt(e, "uncache_saved") THEN Uncached(FALSE) ELSE cached
  /\ EditTo(e, "none")
  /\ UNCHANGED <<row, lookup, topics, parked, replica, replicaCalls, followed>>

-----------------------------------------------------------------------------
(* Readers.                                                                *)

\* A reader that misses the cache reads the row and will store what it found.
\* A service that has no replica of the user asks for one (the HTTP fallback)
\* and is answered in the same way, or from the cache.
StartLookup(l, for) ==
  /\ lookup[l].pc = "none"
  /\ AnotherCall
  /\ for = "replica" => replica = 0
  /\ \/ /\ cached.rev # 0 /\ for = "replica"
        /\ lookup' = [lookup EXCEPT ![l] =
                        [pc |-> "upsert", for |-> for, copy |-> cached.rev]]
     \/ /\ cached.rev = 0 /\ Found # 0
        /\ lookup' = [lookup EXCEPT ![l] =
                        [pc |-> "fill", for |-> for, copy |-> row.rev]]
  /\ UNCHANGED <<row, locked, cached, edit, topics, parked, replica, followed>>

\* Stored without a look at what happened since the row was read.
FillCache(l) ==
  /\ lookup[l].pc = "fill"
  /\ cached' = [rev |-> lookup[l].copy,
                raced |-> \/ lookup[l].copy # row.rev
                          \/ \E e \in Edits : EditAt(e, "commit")]
  /\ lookup' = [lookup EXCEPT
       ![l] = IF @.for = "replica" THEN [@ EXCEPT !.pc = "upsert"] ELSE NoLookup]
  /\ UNCHANGED <<row, locked, edit, topics, parked, replica, replicaCalls, followed>>

UpsertLookedUp(l) ==
  /\ lookup[l].pc = "upsert"
  /\ replica' = lookup[l].copy
  /\ followed' = [followed EXCEPT
       !.astray = @ \/ lookup[l].copy # row.rev]
  /\ lookup' = [lookup EXCEPT ![l] = NoLookup]
  /\ UNCHANGED <<row, locked, cached, edit, topics, parked, replicaCalls>>

LookupFails(l) ==
  /\ lookup[l].pc # "none"
  /\ lookup' = [lookup EXCEPT ![l] = NoLookup]
  /\ UNCHANGED <<row, locked, cached, edit, topics, parked, replica, replicaCalls, followed>>

CachedProfileExpires ==
  /\ cached.rev # 0
  /\ cached' = NothingCached
  /\ UNCHANGED <<row, locked, edit, lookup, topics, parked, replica, replicaCalls, followed>>

-----------------------------------------------------------------------------
(* The consumer of a service that keeps a replica.                         *)

\* Variant with a bug: user_registered leaves a replica alone that is there.
AppliedOnce(t, rev) == IF t = "registered" /\ replica # 0 THEN replica ELSE rev

\* user_registered upserts the replica; user_profile_updated changes one that
\* is there. Neither looks at the age of the message or of the replica.
Applied(t, rev) == IF t = "updated" /\ replica = 0 THEN 0 ELSE rev

\* A message is consumed although an older one waits in the other topic.
Crosses(t) ==
  \E u \in Topics \ {t} : topics[u] # <<>> /\ Head(topics[u]) < Head(topics[t])

\* A crash before the offset is committed delivers the message again, and if
\* its claim has run out by then it is applied again.
ConsumeProfileEvent(t, committed) ==
  /\ topics[t] # <<>>
  /\ replica' = Applied(t, Head(topics[t]))
  /\ topics' = IF committed THEN [topics EXCEPT ![t] = Tail(@)] ELSE topics
  /\ followed' = [followed EXCEPT !.astray = @ \/ Crosses(t)]
  /\ UNCHANGED <<row, locked, cached, edit, lookup, parked, replicaCalls>>

\* A crash right after the claim: the redelivered message is taken for a
\* processed one (see EventConsumer).
LoseProfileEvent(t) ==
  /\ topics[t] # <<>>
  /\ AnotherCall
  /\ topics' = [topics EXCEPT ![t] = Tail(@)]
  /\ followed' = [followed EXCEPT !.astray = TRUE]
  /\ UNCHANGED <<row, locked, cached, edit, lookup, parked, replica>>

\* All attempts fail: dead letter; an admin may publish it again later.
ParkProfileEvent(t) ==
  /\ topics[t] # <<>>
  /\ AnotherCall
  /\ topics' = [topics EXCEPT ![t] = Tail(@)]
  /\ parked' = parked \cup {<<t, Head(topics[t])>>}
  /\ UNCHANGED <<row, locked, cached, edit, lookup, replica, followed>>

ReplayProfileEvent(m) ==
  /\ parked' = parked \ {m}
  /\ topics' = [topics EXCEPT ![m[1]] = Append(@, m[2])]
  /\ followed' = [followed EXCEPT !.astray = TRUE]
  /\ UNCHANGED <<row, locked, cached, edit, lookup, replica, replicaCalls>>

UserReplicasNext ==
  \/ \E e \in Edits :
       \/ \E kind \in {"register", "update", "anonymize"} : LoadProfile(e, kind)
       \/ SaveInTransaction(e) \/ CommitProfile(e) \/ Anonymize(e) \/ EditFails(e)
       \/ \E done \in BOOLEAN :
            DeleteCachedProfile(e, done) \/ DeleteCachedAfterSave(e, done)
  \/ \E l \in Lookups :
       \/ \E for \in {"cache", "replica"} : StartLookup(l, for)
       \/ FillCache(l) \/ UpsertLookedUp(l) \/ LookupFails(l)
  \/ CachedProfileExpires
  \/ \E t \in Topics :
       \/ \E committed \in BOOLEAN : ConsumeProfileEvent(t, committed)
       \/ LoseProfileEvent(t) \/ ParkProfileEvent(t)
  \/ \E m \in parked : ReplayProfileEvent(m)

UserReplicasSpec == UserReplicasInit /\ [][UserReplicasNext]_replicaVars

-----------------------------------------------------------------------------
(* What holds of the copies.                                               *)

ProfileEdit == [pc : {"none", "save", "uncache", "commit", "uncache_saved"},
                kind : {"register", "update", "anonymize"}, read : Nat]
ProfileLookup == [pc : {"none", "fill", "upsert"}, for : {"cache", "replica"}, copy : Nat]
FollowedProfile == [published : Nat, erased : Nat, reviver : Nat, astray : BOOLEAN]

UserReplicasTypeOK ==
  /\ row \in [rev : Nat, deleted : BOOLEAN]
  /\ locked \in BOOLEAN
  /\ cached \in [rev : Nat, raced : BOOLEAN]
  /\ edit \in [Edits -> ProfileEdit]
  /\ lookup \in [Lookups -> ProfileLookup]
  /\ topics \in [Topics -> Seq(Nat)]
  /\ parked \in SUBSET (Topics \X Nat)
  /\ replica \in Nat
  /\ replicaCalls \in Nat
  /\ followed \in FollowedProfile

\* Between writes the cached copy is the row, unless a reader stored it across
\* a write (also one that had deleted the copy and was yet to commit) or a
\* writer failed to delete it.
CacheStaleOnlyByRace ==
  (\A e \in Edits : ~EditAt(e, "uncache_saved")) =>
    \/ cached.rev = 0
    \/ cached.rev = row.rev /\ ~row.deleted
    \/ cached.raced

\* When nothing is on its way, the replica shows the last revision published,
\* unless a message was lost, parked, replayed or overtaken by one of the
\* other topic, or the HTTP fallback brought an older copy.
ReplicaCatchesUp ==
  (topics = [t \in Topics |-> <<>>] /\ parked = {} /\ ~followed.astray)
    => replica = followed.published

\* A profile that was anonymized shows its owner's data again only by an edit
\* that had read it before: none that starts afterwards revives it.
ErasureUndoneOnlyByOverlap ==
  followed.erased # 0 /\ ~row.deleted => followed.reviver < followed.erased

\* What the profile and its two copies show is explained: the cached one, the
\* replica, and data that were erased.
CopiesExplained ==
  CacheStaleOnlyByRace /\ ReplicaCatchesUp /\ ErasureUndoneOnlyByOverlap
=============================================================================
