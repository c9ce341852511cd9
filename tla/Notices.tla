------------------------------ MODULE Notices ------------------------------
(***************************************************************************)
(* Telling people of an invitation to, or the deletion of, a workspace.    *)
(* Four services take part, and what they know of a person arrives at      *)
(* different times: the auth service has the account, the user service     *)
(* announces its profile on one topic group, the workspace service asks    *)
(* the auth service whom it invites and announces the invitation on        *)
(* another, and the notification service consumes both groups              *)
(* independently: an invitation without a recipient is addressed with      *)
(* whatever replica of the user there is by then, or passed over.          *)
(*                                                                         *)
(* One pod of the notification service; that several share a group, and    *)
(* the realtime push, are the subject of EventConsumer.                    *)
(***************************************************************************)
EXTENDS Naturals, Sequences

CONSTANTS
  People,          \* each with an address of their own
  Nobody,
  NoticeIds,       \* eventId of the messages of the workspace service
  NoticeAttempts,  \* maxRetries + 1
  MaxProfileNews,  \* bound on the messages of the user service
  MaxMishaps       \* bound on the calls that fail or time out, and restarts

ASSUME NoticesAssumption ==
  /\ Nobody \notin People
  /\ NoticeAttempts \in Nat \ {0}
  /\ MaxProfileNews \in Nat /\ MaxMishaps \in Nat

VARIABLES
  standing,    \* of each account: none, live, or gone (rolled back)
  news,        \* messages of the user service, in order: [who, kind]
  asked,       \* [pc, who, to] for each notice: whom it concerns, recipientId
  announced,   \* messages of the workspace service, in order: notices
  group,       \* [state, fresh, from, at, pc, attempt, slot] of each consumer group:
               \* fresh as long as it has no offset; from: the first one it had
  command,     \* [pc, to] of CreateNotificationCommand, by notice and slot
  claims,      \* processed_events: none, held, lapsed or done
  notices,     \* the person who has a notification of the event, or Nobody
  replicas,    \* of each person: none, placeholder (an address made up from the id), known
  looking,     \* people the user service is being asked for
  deadLetters,      \* offsets published to the dead-letter topic, by group
  mishaps,     \* so far
  passedOver   \* history: [refused, unknownAt, overwritten] for each notice: a claim
               \* was refused while another command held it; the news consumed when
               \* no recipient was found, plus one (0: one was found), and whether
               \* a look-up had overwritten the address by then

noticeVars ==
  <<standing, news, asked, announced, group, command, claims, notices, replicas,
    looking, deadLetters, mishaps, passedOver>>

Groups == {"users", "workspaces"}
CommandSlots == 1..NoticeAttempts
NoCommand == [pc |-> "off", to |-> Nobody]
StoppedGroup ==
  [state |-> "starting", fresh |-> TRUE, from |-> 0, at |-> 0,
   pc |-> "poll", attempt |-> 0, slot |-> 0]

NoticesInit ==
  /\ standing = [p \in People |-> "none"]
  /\ news = <<>> /\ announced = <<>>
  /\ asked = [i \in NoticeIds |-> [pc |-> "none", who |-> Nobody, to |-> Nobody]]
  /\ group = [g \in Groups |-> StoppedGroup]
  /\ command = [i \in NoticeIds |-> [k \in CommandSlots |-> NoCommand]]
  /\ claims = [i \in NoticeIds |-> "none"]
  /\ notices = [i \in NoticeIds |-> Nobody]
  /\ replicas = [p \in People |-> "none"] /\ looking = {}
  /\ deadLetters = [g \in Groups |-> {}]
  /\ mishaps = 0
  /\ passedOver = [i \in NoticeIds |-> [refused |-> FALSE, unknownAt |-> 0, overwritten |-> FALSE]]

Mishap == mishaps < MaxMishaps /\ mishaps' = mishaps + 1

-----------------------------------------------------------------------------
(* The auth and the user service.                                          *)

\* findUserByEmail passes over soft-deleted rows.
FoundAccount(p) == standing[p] = "live"

OpenAccount(p) ==
  /\ standing[p] = "none"
  /\ standing' = [standing EXCEPT ![p] = "live"]
  /\ UNCHANGED <<news, asked, announced, group, command, claims, notices, replicas,
                 looking, deadLetters, mishaps, passedOver>>

\* A registration that failed half-way; its profile may be there all the same.
RollBack(p) ==
  /\ standing[p] = "live"
  /\ standing' = [standing EXCEPT ![p] = "gone"]
  /\ Mishap
  /\ UNCHANGED <<news, asked, announced, group, command, claims, notices, replicas,
                 looking, deadLetters, passedOver>>

HasProfile(p) == \E n \in DOMAIN news : news[n].who = p

\* The profile commits with its event: user_registered for a registration (a
\* repetition too), user_profile_updated for an edit.
Publish(p, kind) ==
  /\ Len(news) < MaxProfileNews
  /\ IF kind = "registered" THEN standing[p] # "none" ELSE HasProfile(p)
  /\ news' = Append(news, [who |-> p, kind |-> kind])
  /\ UNCHANGED <<standing, asked, announced, group, command, claims, notices, replicas,
                 looking, deadLetters, mishaps, passedOver>>

-----------------------------------------------------------------------------
(* The workspace service.                                                  *)

\* An auth service that cannot be reached in time, or answers with an error,
\* counts as one without the account.
LookUpAccount(i, p, answered) ==
  /\ asked[i].pc = "none"
  /\ IF answered THEN UNCHANGED mishaps ELSE Mishap
  /\ asked' = [asked EXCEPT ![i] =
       [pc |-> "create", who |-> p,
        to |-> IF answered /\ FoundAccount(p) THEN p ELSE Nobody]]
  /\ UNCHANGED <<standing, news, announced, group, command, claims, notices, replicas,
                 looking, deadLetters, passedOver>>

\* The invitation and its outbox row, in one transaction.
CreateAndPublishInvited(i) ==
  /\ asked[i].pc = "create"
  /\ asked' = [asked EXCEPT ![i].pc = "sent"]
  /\ announced' = Append(announced, i)
  /\ UNCHANGED <<standing, news, group, command, claims, notices, replicas, looking,
                 deadLetters, mishaps, passedOver>>

\* workspace_deleted names the one who deleted it; nobody else is told.
PublishDeleted(i, p) ==
  /\ asked[i].pc = "none" /\ FoundAccount(p)
  /\ asked' = [asked EXCEPT ![i] = [pc |-> "sent", who |-> p, to |-> p]]
  /\ announced' = Append(announced, i)
  /\ UNCHANGED <<standing, news, group, command, claims, notices, replicas, looking,
                 deadLetters, mishaps, passedOver>>

-----------------------------------------------------------------------------
(* The consumer groups of the notification service.                        *)

Topic(g) == IF g = "users" THEN news ELSE announced
Doing(g, pc) == group[g].state = "running" /\ group[g].pc = pc
Current(g) == Topic(g)[group[g].at + 1]

\* Subscribed with fromBeginning: false: a group without a committed offset
\* starts behind what its topics hold by then.
StartGroup(g) ==
  /\ group[g].state = "starting"
  /\ LET from == IF group[g].fresh THEN Len(Topic(g)) ELSE group[g].from
         at == IF group[g].fresh THEN from ELSE group[g].at
     IN group' = [group EXCEPT ![g] = [@ EXCEPT !.state = "running", !.fresh = FALSE,
                                               !.from = from, !.at = at]]
  /\ UNCHANGED <<standing, news, asked, announced, command, claims, notices, replicas,
                 looking, deadLetters, mishaps, passedOver>>

\* After the last attempt to connect the service goes on without the consumer.
GiveUpStarting(g) ==
  /\ group[g].state = "starting"
  /\ Mishap
  /\ group' = [group EXCEPT ![g].state = "given_up"]
  /\ UNCHANGED <<standing, news, asked, announced, command, claims, notices, replicas,
                 looking, deadLetters, passedOver>>

\* The pod is restarted: commands in progress end where they are, claims stay,
\* and the last offset of a group may not have been committed yet.
Repeatable(g) == {group[g].at} \cup ({group[g].at - 1} \cap group[g].from..group[g].at)

RestartPod ==
  /\ Mishap
  /\ \E users \in Repeatable("users"), workspaces \in Repeatable("workspaces") :
       group' = [g \in Groups |->
         [group[g] EXCEPT !.state = "starting", !.pc = "poll", !.attempt = 0, !.slot = 0,
                          !.at = IF g = "users" THEN users ELSE workspaces]]
  /\ command' = [i \in NoticeIds |-> [k \in CommandSlots |-> NoCommand]]
  /\ looking' = {}
  /\ UNCHANGED <<standing, news, asked, announced, claims, notices, replicas, deadLetters,
                 passedOver>>

\* What eachMessage does after an attempt: try again, or turn to the dead letter.
Retried(g) ==
  IF group[g].attempt < NoticeAttempts
    THEN [group[g] EXCEPT !.pc = "handle", !.attempt = @ + 1, !.slot = 0]
    ELSE [group[g] EXCEPT !.pc = "park", !.slot = 0]

Done(g) == [group[g] EXCEPT !.pc = "poll", !.at = @ + 1, !.attempt = 0, !.slot = 0]

TakeMessage(g) ==
  /\ Doing(g, "poll") /\ group[g].at < Len(Topic(g))
  /\ group' = [group EXCEPT ![g].pc = "handle", ![g].attempt = 1]
  /\ UNCHANGED <<standing, news, asked, announced, command, claims, notices, replicas,
                 looking, deadLetters, mishaps, passedOver>>

\* A store the handler calls itself fails: the claim, the replica, the look-up.
HandlerFails(g) ==
  /\ Doing(g, "handle")
  /\ Mishap
  /\ group' = [group EXCEPT ![g] = Retried(g)]
  /\ UNCHANGED <<standing, news, asked, announced, command, claims, notices, replicas,
                 looking, deadLetters, passedOver>>

Park(g) ==
  /\ Doing(g, "park")
  /\ deadLetters' = [deadLetters EXCEPT ![g] = @ \cup {group[g].at + 1}]
  /\ group' = [group EXCEPT ![g] = Done(g)]
  /\ UNCHANGED <<standing, news, asked, announced, command, claims, notices, looking,
                 replicas, mishaps, passedOver>>

\* Rethrown: the message is fetched again, all attempts anew.
ParkFails(g) ==
  /\ Doing(g, "park")
  /\ Mishap
  /\ group' = [group EXCEPT ![g].pc = "poll"]
  /\ UNCHANGED <<standing, news, asked, announced, command, claims, notices, replicas,
                 looking, deadLetters, passedOver>>

-----------------------------------------------------------------------------
(* The group of user_registered and user_profile_updated. Neither message  *)
(* carries an eventId, so no claim is made.                                *)

\* CreateUserReplicaHandler inserts or overwrites an active replica.
HandleUserRegistered ==
  /\ Doing("users", "handle") /\ Current("users").kind = "registered"
  /\ replicas' = [replicas EXCEPT ![Current("users").who] = "known"]
  /\ group' = [group EXCEPT !["users"] = Done("users")]
  /\ UNCHANGED <<standing, news, asked, announced, command, claims, notices, looking,
                 deadLetters, mishaps, passedOver>>

\* SyncUserReplicaHandler changes a replica there is and makes none.
HandleUserProfileUpdated ==
  /\ Doing("users", "handle") /\ Current("users").kind = "updated"
  /\ group' = [group EXCEPT !["users"] = Done("users")]
  /\ UNCHANGED <<standing, news, asked, announced, command, claims, notices, replicas,
                 looking, deadLetters, mishaps, passedOver>>

\* Listing notifications asks the user service for actors it has no replica of, and
\* stores the answer later, with an address made up from the id: the user service
\* does not know a person's own.
AskForActor(p) ==
  /\ HasProfile(p) /\ replicas[p] = "none" /\ p \notin looking
  /\ looking' = looking \cup {p}
  /\ UNCHANGED <<standing, news, asked, announced, group, command, claims, notices,
                 replicas, deadLetters, mishaps, passedOver>>

StoreActor(p) ==
  /\ p \in looking
  /\ looking' = looking \ {p}
  /\ replicas' = [replicas EXCEPT ![p] = "placeholder"]
  /\ UNCHANGED <<standing, news, asked, announced, group, command, claims, notices,
                 deadLetters, mishaps, passedOver>>

-----------------------------------------------------------------------------
(* The group of workspace_invited and workspace_deleted.                   *)

\* Variant with a bug: the replicas are not looked at.
NamedRecipient(i) == asked[i].to

\* The recipient in the message, or else the active replica with the address.
Recipient(i) ==
  IF asked[i].to = Nobody /\ asked[i].who \in People /\ replicas[asked[i].who] = "known"
    THEN asked[i].who ELSE asked[i].to

\* Without a recipient the message is passed over, and nothing comes back to it
\* when the person registers.
HandleNotice(k) ==
  LET i == Current("workspaces") IN
  /\ Doing("workspaces", "handle")
  /\ IF Recipient(i) = Nobody
       THEN /\ group' = [group EXCEPT !["workspaces"] = Done("workspaces")]
            /\ passedOver' = [passedOver EXCEPT ![i].unknownAt = group["users"].at + 1,
                 ![i].overwritten = replicas[asked[i].who] = "placeholder"]
            /\ UNCHANGED command
       ELSE /\ command[i][k] = NoCommand
            /\ command' = [command EXCEPT ![i][k] = [pc |-> "claim", to |-> Recipient(i)]]
            /\ group' = [group EXCEPT !["workspaces"] = [@ EXCEPT !.pc = "await", !.slot = k]]
            /\ UNCHANGED passedOver
  /\ UNCHANGED <<standing, news, asked, announced, claims, notices, replicas, looking,
                 deadLetters, mishaps>>

\* withCommandTimeout: the attempt has failed, the command goes on.
CommandTimesOut ==
  /\ Doing("workspaces", "await")
  /\ Mishap
  /\ group' = [group EXCEPT !["workspaces"] = Retried("workspaces")]
  /\ UNCHANGED <<standing, news, asked, announced, command, claims, notices, replicas,
                 looking, deadLetters, passedOver>>

\* The message waits for this command.
Awaits(i, k) ==
  Doing("workspaces", "await") /\ Current("workspaces") = i /\ group["workspaces"].slot = k

CommandTo(i, k, pc) == command' = [command EXCEPT ![i][k].pc = pc] /\ UNCHANGED group

CommandEnds(i, k, well) ==
  /\ command' = [command EXCEPT ![i][k] = NoCommand]
  /\ group' = IF ~Awaits(i, k) THEN group
                ELSE [group EXCEPT !["workspaces"] =
                        IF well THEN Done("workspaces") ELSE Retried("workspaces")]

\* A claim another command holds, or a processed event: "already processed".
TryClaim(i, k) ==
  /\ command[i][k].pc = "claim"
  /\ IF claims[i] \in {"none", "lapsed"}
       THEN claims' = [claims EXCEPT ![i] = "held"] /\ CommandTo(i, k, "store")
            /\ UNCHANGED passedOver
       ELSE CommandEnds(i, k, TRUE) /\ UNCHANGED claims
            /\ passedOver' = [passedOver EXCEPT ![i].refused = @ \/ claims[i] = "held"]
  /\ UNCHANGED <<standing, news, asked, announced, notices, replicas, looking,
                 deadLetters, mishaps>>

\* createForEventAsync: the eventId is unique among notifications.
StoreNotice(i, k) ==
  /\ command[i][k].pc = "store"
  /\ notices' = [notices EXCEPT ![i] = IF @ = Nobody THEN command[i][k].to ELSE @]
  /\ CommandTo(i, k, "mark")
  /\ UNCHANGED <<standing, news, asked, announced, claims, replicas, looking,
                 deadLetters, mishaps, passedOver>>

MarkNotice(i, k) ==
  /\ command[i][k].pc = "mark"
  /\ claims' = [claims EXCEPT ![i] = IF @ = "none" THEN @ ELSE "done"]
  /\ CommandEnds(i, k, TRUE)
  /\ UNCHANGED <<standing, news, asked, announced, notices, replicas, looking,
                 deadLetters, mishaps, passedOver>>

\* The claim itself fails outside the try; what fails inside releases the claim.
CommandFails(i, k) ==
  /\ command[i][k].pc \in {"claim", "store", "mark"}
  /\ Mishap
  /\ IF command[i][k].pc = "claim" THEN CommandEnds(i, k, FALSE) ELSE CommandTo(i, k, "release")
  /\ UNCHANGED <<standing, news, asked, announced, claims, notices, replicas, looking,
                 deadLetters, passedOver>>

\* releaseClaim deletes the row unless it says processed.
ReleaseNotice(i, k) ==
  /\ command[i][k].pc = "release"
  /\ claims' = [claims EXCEPT ![i] = IF @ = "done" THEN @ ELSE "none"]
  /\ CommandEnds(i, k, FALSE)
  /\ UNCHANGED <<standing, news, asked, announced, notices, replicas, looking,
                 deadLetters, mishaps, passedOver>>

\* The time to live of a claim passes.
ClaimLapses(i) ==
  /\ claims[i] = "held"
  /\ claims' = [claims EXCEPT ![i] = "lapsed"]
  /\ UNCHANGED <<standing, news, asked, announced, group, command, notices, replicas,
                 looking, deadLetters, mishaps, passedOver>>

-----------------------------------------------------------------------------
NoticesNext ==
  \/ \E p \in People :
       \/ OpenAccount(p) \/ RollBack(p) \/ AskForActor(p) \/ StoreActor(p)
       \/ \E kind \in {"registered", "updated"} : Publish(p, kind)
       \/ \E i \in NoticeIds, answered \in BOOLEAN : LookUpAccount(i, p, answered)
       \/ \E i \in NoticeIds : PublishDeleted(i, p)
  \/ \E g \in Groups :
       \/ StartGroup(g) \/ GiveUpStarting(g)
       \/ TakeMessage(g) \/ HandlerFails(g) \/ Park(g) \/ ParkFails(g)
  \/ RestartPod \/ HandleUserRegistered \/ HandleUserProfileUpdated \/ CommandTimesOut
  \/ \E k \in CommandSlots : HandleNotice(k)
  \/ \E i \in NoticeIds :
       \/ CreateAndPublishInvited(i) \/ ClaimLapses(i)
       \/ \E k \in CommandSlots :
            \/ TryClaim(i, k) \/ StoreNotice(i, k) \/ MarkNotice(i, k)
            \/ CommandFails(i, k) \/ ReleaseNotice(i, k)

NoticesSpec == NoticesInit /\ [][NoticesNext]_noticeVars

-----------------------------------------------------------------------------
GroupState ==
  [state : {"starting", "running", "given_up"}, fresh : BOOLEAN, from : Nat, at : Nat,
   pc : {"poll", "handle", "await", "park"}, attempt : 0..NoticeAttempts,
   slot : {0} \cup CommandSlots]

\* Standing, messages, consumers, commands and stores have the shapes above; an
\* offset is one of its topic.
NoticesTypeOK ==
  /\ standing \in [People -> {"none", "live", "gone"}]
  /\ news \in Seq([who : People, kind : {"registered", "updated"}])
  /\ asked \in [NoticeIds -> [pc : {"none", "create", "sent"}, who : People \cup {Nobody},
                              to : People \cup {Nobody}]]
  /\ announced \in Seq(NoticeIds)
  /\ group \in [Groups -> GroupState]
  /\ \A g \in Groups : group[g].from <= group[g].at /\ group[g].at <= Len(Topic(g))
  /\ command \in [NoticeIds -> [CommandSlots ->
       [pc : {"off", "claim", "store", "mark", "release"}, to : People \cup {Nobody}]]]
  /\ claims \in [NoticeIds -> {"none", "held", "lapsed", "done"}]
  /\ notices \in [NoticeIds -> People \cup {Nobody}]
  /\ replicas \in [People -> {"none", "placeholder", "known"}] /\ looking \subseteq People
  /\ deadLetters \in [Groups -> SUBSET (Nat \ {0})]
  /\ mishaps \in 0..MaxMishaps
  /\ passedOver \in [NoticeIds -> [refused : BOOLEAN, unknownAt : Nat, overwritten : BOOLEAN]]

\* The messages a group has been through and not put aside.
Handled(g) == {n \in DOMAIN Topic(g) : group[g].from < n /\ n <= group[g].at} \ deadLetters[g]

\* Nobody is told who is not the person concerned. A message the group of the
\* workspace service has been through has told its person, unless a claim was
\* refused while another command held it (which then failed, or ended with its
\* pod), or no recipient was known: then the auth service had not named one, and
\* every registration of the person the notification service had consumed by then
\* had been put aside, or a look-up had written over its address.
NoticesExplained ==
  /\ \A i \in NoticeIds : notices[i] \in {asked[i].who, Nobody}
  /\ \A n \in Handled("workspaces") :
       LET i == announced[n] IN
       \/ notices[i] = asked[i].who
       \/ passedOver[i].refused
       \/ /\ passedOver[i].unknownAt > 0
          /\ asked[i].to = Nobody
          /\ \/ passedOver[i].overwritten
             \/ ~ \E m \in Handled("users") :
                    m < passedOver[i].unknownAt
                    /\ news[m] = [who |-> asked[i].who, kind |-> "registered"]
=============================================================================
