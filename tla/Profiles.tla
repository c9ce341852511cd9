------------------------------ MODULE Profiles ------------------------------
(***************************************************************************)
(* The rows of `profiles` in the user service, and the messages that       *)
(* announce them: a profile made for a registration, with a username taken *)
(* from the full name, edits of one's own profile, and the erasure by an   *)
(* admin.  Handlers load an entity, change it and save it in a transaction *)
(* that also enqueues the message.  TypeORM's save reads the row again and *)
(* writes the columns in which the entity differs from what it read; the   *)
(* message has the whole entity.                                           *)
(*                                                                         *)
(* All full names lead to the same base of a username, so that people      *)
(* compete for them.  The caches of a profile are in UserReplicas.         *)
(***************************************************************************)
EXTENDS Naturals

CONSTANTS
  Persons,         \* user ids of the auth service
  NoPerson,
  FullNames,
  Wiped,           \* 'Deleted user'
  ProfileRequests, \* executions of handlers
  Suffixes,        \* usernames tried, base and base-2, ... (100)
  MaxProfileCalls  \* bound on the executions that start

ASSUME ProfilesAssumption ==
  NoPerson \notin Persons /\ Wiped \notin FullNames /\ Suffixes \in Nat \ {0} /\ MaxProfileCalls \in Nat

VARIABLES
  profiles,     \* of each person: [there, name, full, gone], as committed
  execution,    \* of each request: [pc, kind, who, entity, new, seen, tried, met];
                \* history: `met`, usernames committed since it looked for one
  announcement, \* the entity in the last message about each person
  acrossCommit, \* history: the last writer of a row read it, in save, before another
                \* committed, and wrote after
  profileCalls

profileVars == <<profiles, execution, announcement, acrossCommit, profileCalls>>

NoUsername == <<"none">>
Numbered(k) == <<"base", k>>
FromId(u) == <<"own", u>>
DeletedName(u) == <<"deleted", u>>
Usernames ==
  {NoUsername} \cup {Numbered(k) : k \in 1..Suffixes}
    \cup {FromId(u) : u \in Persons} \cup {DeletedName(u) : u \in Persons}

NoProfile == [there |-> FALSE, name |-> NoUsername, full |-> Wiped, gone |-> FALSE]
NoExecution ==
  [pc |-> "none", kind |-> "edit", who |-> NoPerson, entity |-> NoProfile, new |-> FALSE,
   seen |-> NoProfile, tried |-> 0, met |-> {}]

ProfilesInit ==
  /\ profiles = [u \in Persons |-> NoProfile]
  /\ execution = [r \in ProfileRequests |-> NoExecution]
  /\ announcement = [u \in Persons |-> NoProfile]
  /\ acrossCommit = [u \in Persons |-> FALSE]
  /\ profileCalls = 0

-----------------------------------------------------------------------------
(* Handlers load the entity.                                               *)

\* findOne and findByUsername pass over rows with deleted_at.
Shown(u) == profiles[u].there /\ ~profiles[u].gone

Load(r, u, kind, entity, new, pc) ==
  /\ execution[r].pc = "none" /\ profileCalls < MaxProfileCalls
  /\ profileCalls' = profileCalls + 1
  /\ execution' = [execution EXCEPT ![r] =
       [NoExecution EXCEPT !.pc = pc, !.kind = kind, !.who = u, !.entity = entity,
                           !.new = new]]
  /\ UNCHANGED <<profiles, announcement, acrossCommit>>

\* A registration, or its repetition, which only looks for a username if the
\* profile has none.
LoadToUpsertPending(r, u, full) ==
  IF Shown(u)
    THEN Load(r, u, "create", [profiles[u] EXCEPT !.full = full], FALSE,
              IF profiles[u].name = NoUsername THEN "resolve" ELSE "select")
    ELSE Load(r, u, "create",
              [there |-> TRUE, name |-> NoUsername, full |-> full, gone |-> FALSE], TRUE,
              "resolve")

LoadToUpdateProfile(r, u) ==
  /\ Shown(u)
  /\ \/ \E full \in FullNames :
          Load(r, u, "edit", [profiles[u] EXCEPT !.full = full], FALSE, "select")
     \/ \E name \in {NoUsername} \cup {Numbered(k) : k \in 1..Suffixes} :
          Load(r, u, "edit", [profiles[u] EXCEPT !.name = name], FALSE, "select")

LoadToAnonymize(r, u) ==
  /\ Shown(u)
  /\ Load(r, u, "erase",
          [there |-> TRUE, name |-> DeletedName(u), full |-> Wiped, gone |-> TRUE], FALSE,
          "select")

-----------------------------------------------------------------------------
(* ... look for a username ...                                             *)

Taken(r, name) ==
  \E u \in Persons \ {execution[r].who} : Shown(u) /\ profiles[u].name = name

\* Variant with a bug: the first candidate is taken as it is.
UntriedUsername(r) ==
  /\ execution[r].pc = "resolve"
  /\ execution' = [execution EXCEPT ![r] =
       [@ EXCEPT !.pc = "select", !.met = {}, !.entity.name = Numbered(1)]]
  /\ UNCHANGED <<profiles, announcement, acrossCommit, profileCalls>>

\* One turn of the loop: a query of its own, outside the transaction. After the
\* last candidate the username is made from the user id, and not looked up.
ResolveAvailableUsername(r) ==
  LET k == execution[r].tried + 1 IN
  /\ execution[r].pc = "resolve"
  /\ execution' = [execution EXCEPT ![r] =
       IF ~Taken(r, Numbered(k))
         THEN [@ EXCEPT !.pc = "select", !.met = {}, !.entity.name = Numbered(k)]
         ELSE IF k < Suffixes
           THEN [@ EXCEPT !.tried = k]
           ELSE [@ EXCEPT !.pc = "select", !.entity.name = FromId(execution[r].who)]]
  /\ UNCHANGED <<profiles, announcement, acrossCommit, profileCalls>>

-----------------------------------------------------------------------------
(* ... and save it.                                                        *)

\* save reads the row by its id, also an erased one.
SelectToSave(r) ==
  /\ execution[r].pc = "select"
  /\ execution' = [execution EXCEPT ![r] =
       [@ EXCEPT !.pc = "write",
                 !.seen = IF execution[r].new THEN NoProfile ELSE profiles[execution[r].who]]]
  /\ UNCHANGED <<profiles, announcement, acrossCommit, profileCalls>>

\* What the row becomes: the columns that differ from what save read.
Saved(r) ==
  LET e == execution[r] IN
  [c \in DOMAIN e.entity |->
     IF e.entity[c] # e.seen[c] THEN e.entity[c] ELSE profiles[e.who][c]]

Writes(r) == execution[r].entity # execution[r].seen
WritesName(r) == Saved(r).name # profiles[execution[r].who].name

\* An open transaction holds the row, or the username, this one is about to write.
HeldBy(r, holder) ==
  /\ execution[holder].pc = "commit"
  /\ \/ Writes(r) /\ Writes(holder) /\ execution[holder].who = execution[r].who
     \/ WritesName(r) /\ Saved(r).name # NoUsername /\ Saved(holder).name = Saved(r).name

\* user_id and username are unique among all rows, erased ones too.
Violates(r) ==
  \/ execution[r].new /\ profiles[execution[r].who].there
  \/ /\ WritesName(r) /\ Saved(r).name # NoUsername
     /\ \E u \in Persons \ {execution[r].who} : profiles[u].name = Saved(r).name

WriteProfile(r) ==
  /\ execution[r].pc = "write"
  /\ ~ \E holder \in ProfileRequests \ {r} : HeldBy(r, holder)
  /\ execution' = [execution EXCEPT ![r].pc = IF Violates(r) THEN "refused" ELSE "commit"]
  /\ UNCHANGED <<profiles, announcement, acrossCommit, profileCalls>>

\* The row and its message become visible together; an erasure has no message.
CommitProfile(r) ==
  LET u == execution[r].who
      row == Saved(r)
  IN
  /\ execution[r].pc = "commit"
  /\ profiles' = [profiles EXCEPT ![u] = row]
  /\ announcement' = [announcement EXCEPT
       ![u] = IF execution[r].kind = "erase" THEN @ ELSE execution[r].entity]
  /\ acrossCommit' = [acrossCommit EXCEPT
       ![u] = ~execution[r].new /\ execution[r].seen # profiles[u]]
  /\ execution' = [s \in ProfileRequests |->
       IF s = r THEN NoExecution
         ELSE [execution[s] EXCEPT !.met =
                 IF execution[s].pc = "none" THEN @ ELSE @ \cup {row.name}]]
  /\ UNCHANGED profileCalls

\* The error of the database becomes INTERNAL, and 503 in the auth service.
AnswerError(r) ==
  /\ execution[r].pc = "refused"
  /\ execution' = [execution EXCEPT ![r] = NoExecution]
  /\ UNCHANGED <<profiles, announcement, acrossCommit, profileCalls>>

\* A failing call, or a stop, rolls back what is open.
RequestRollsBack(r) ==
  /\ execution[r].pc \notin {"none", "refused"}
  /\ execution' = [execution EXCEPT ![r] = NoExecution]
  /\ UNCHANGED <<profiles, announcement, acrossCommit, profileCalls>>

ProfilesNext ==
  \E r \in ProfileRequests :
    \/ \E u \in Persons :
         \/ \E full \in FullNames : LoadToUpsertPending(r, u, full)
         \/ LoadToUpdateProfile(r, u) \/ LoadToAnonymize(r, u)
    \/ ResolveAvailableUsername(r) \/ SelectToSave(r) \/ WriteProfile(r)
    \/ CommitProfile(r) \/ AnswerError(r) \/ RequestRollsBack(r)

ProfilesSpec == ProfilesInit /\ [][ProfilesNext]_profileVars

-----------------------------------------------------------------------------
ProfileRow == [there : BOOLEAN, name : Usernames, full : FullNames \cup {Wiped},
               gone : BOOLEAN]

\* Rows, entities and executions have the shapes above.
ProfilesTypeOK ==
  /\ profiles \in [Persons -> ProfileRow]
  /\ execution \in [ProfileRequests ->
       [pc : {"none", "resolve", "select", "write", "commit", "refused"},
        kind : {"create", "edit", "erase"}, who : Persons \cup {NoPerson}, entity : ProfileRow,
        new : BOOLEAN, seen : ProfileRow, tried : 0..Suffixes, met : SUBSET Usernames]]
  /\ announcement \in [Persons -> ProfileRow]
  /\ acrossCommit \in [Persons -> BOOLEAN]
  /\ profileCalls \in 0..MaxProfileCalls

\* What the other services were told last is what the row says, and an erased row
\* has nothing of its owner left, unless its last writer read it before another
\* one committed and wrote it after.
AnnouncedAsStored ==
  \A u \in Persons : profiles[u].there /\ ~acrossCommit[u] =>
    IF profiles[u].gone
      THEN profiles[u].name = DeletedName(u) /\ profiles[u].full = Wiped
      ELSE announcement[u] = profiles[u]

\* No two rows have one username. A profile that cannot be made as its turn to be
\* written comes lost its username to a request that committed after it had looked,
\* or runs into a row it could not find: its owner's, erased or made meanwhile, or
\* an erased row that an edit has given a username back.
RefusedOnlyByRace ==
  /\ \A u, v \in Persons :
       u # v /\ profiles[u].name = profiles[v].name => profiles[u].name = NoUsername
  /\ \A r \in ProfileRequests :
       execution[r].pc = "write" /\ execution[r].kind = "create" /\ Violates(r) =>
         \/ execution[r].entity.name \in execution[r].met
         \/ \E u \in Persons : /\ profiles[u].gone /\ acrossCommit[u]
                              /\ profiles[u].name = execution[r].entity.name
         \/ execution[r].new /\ profiles[execution[r].who].there

\* Both, however creations, edits and erasures overlap.
ProfilesKept == AnnouncedAsStored /\ RefusedOnlyByRace
=============================================================================
