-------------------------- MODULE MCWorkspaceMembers --------------------------
(***************************************************************************)
(* Small instances of WorkspaceMembers, of Notices, the notifications its  *)
(* invitations and its deletion lead to, and of Profiles, whose messages   *)
(* say who can be notified.  A behaviour is one of them (`part`): what     *)
(* Notices needs of an invitation or a profile is that it was committed    *)
(* with its message, which is one action in each.                          *)
(***************************************************************************)
EXTENDS WorkspaceMembers, Notices, Profiles, TLC

CONSTANTS   \* model values
  olga, alan, root, invite1, invite2, request1, request2, person1, person2, notice1

\* An owner, a user who may be invited twice, a platform admin.
MCUsers == {olga, alan, root}
MCAdmins == {root}
MCInvites == {invite1, invite2}
MCInvitee == [i \in MCInvites |-> alan]
MCRequests == {request1, request2}

\* Two people with two full names, and a notice for one of them.  The parts
\* share model values, so that few permutations serve all of them.
MCPersons == {person1, person2}
MCFullNames == MCRequests
MCPeople == MCInvites
MCNoticeIds == {notice1}

MCSymmetry == Permutations(MCRequests) \cup Permutations(MCInvites)

VARIABLE part

MembersInit ==
  /\ part \in {"members", "notices", "profiles"}
  /\ Init /\ NoticesInit /\ ProfilesInit

MembersNext ==
  \/ part = "members" /\ Next /\ UNCHANGED <<part, noticeVars, profileVars>>
  \/ part = "notices" /\ NoticesNext /\ UNCHANGED <<part, vars, profileVars>>
  \/ part = "profiles" /\ ProfilesNext /\ UNCHANGED <<part, vars, noticeVars>>

MembersSpec == MembersInit /\ [][MembersNext]_<<part, vars, noticeVars, profileVars>>

\* The types of the module that runs; the others keep their initial state.
MembersTypeOK ==
  /\ part = "members" => TypeOK
  /\ part = "notices" => NoticesTypeOK
  /\ part = "profiles" => ProfilesTypeOK
=============================================================================
