-------------------------- MODULE WorkspaceDirectory --------------------------
(***************************************************************************)
(* One workspace as the workspace service finds it: its row, one project,   *)
(* an owner and a member, and the two caches in Redis: the workspace by its *)
(* id and the list of workspaces of each user.  Who may become a member and *)
(* what is announced about it is the matter of WorkspaceMembers.            *)
(*                                                                         *)
(* The ORM saves an object it loaded earlier: it writes every column that   *)
(* differs from the stored row, the marks of a deletion included.           *)
(***************************************************************************)
EXTENDS Naturals

CONSTANTS
  Visits,            \* use-case executions that may overlap
  MaxVisits,         \* bound on those that start
  NotKept            \* what Redis answers for a key it does not have

ASSUME WorkspaceDirectoryAssumption == NotKept \notin Nat

People == {"owner", "member"}

VARIABLES
  space,         \* [state, name]: "none", "live" or "deleted"; names are numbered
  members,       \* users with a row in workspace_members
  managers,      \* those whose row says manager; the owner's says owner
  project,       \* "none", "live" or "deleted"
  byId,          \* the cached workspace: its name, or NotKept
  listed,        \* the cached list of each user: [kept, has]
  visit,         \* [pc, user, name, has, early] of each execution; `has` is what a list
                 \* will show, or whether the role to be given is manager
  visits,        \* executions that started so far
  tale           \* history: [over, space, project, raised, byId, listed]: the workspace
                 \* was deleted; a row, a project, the role of a manager was then
                 \* written by an execution older than that; why a cache may be
                 \* wrong (below)

directoryVars == <<space, members, managers, project, byId, listed, visit, visits, tale>>

NoVisit == [pc |-> "none", user |-> "owner", name |-> 0, has |-> FALSE, early |-> FALSE]
NoList == [kept |-> FALSE, has |-> FALSE]

WorkspaceDirectoryInit ==
  /\ space = [state |-> "none", name |-> 0]
  /\ members = {} /\ managers = {}
  /\ project = "none"
  /\ byId = NotKept
  /\ listed = [u \in People |-> NoList]
  /\ visit = [v \in Visits |-> NoVisit]
  /\ visits = 0
  /\ tale = [over |-> FALSE, space |-> FALSE, project |-> FALSE, raised |-> FALSE,
             byId |-> FALSE, listed |-> {}]

-----------------------------------------------------------------------------
Visiting(v, pc) == visit[v].pc = pc
VisitTo(v, pc) == visit' = [visit EXCEPT ![v].pc = pc]
VisitEnds(v) == visit' = [visit EXCEPT ![v] = NoVisit]

\* `early`: it started before the workspace was deleted.
Visit(v, next) ==
  /\ Visiting(v, "none")
  /\ visits < MaxVisits
  /\ visits' = visits + 1
  /\ visit' = [visit EXCEPT ![v] = [next EXCEPT !.early = ~tale.over]]

-----------------------------------------------------------------------------
(* Reading through the caches; a failing cache counts as an empty one.      *)

\* findById, also as other use cases call it.
FindById(v) ==
  /\ space.state = "live"
  /\ Visit(v, [NoVisit EXCEPT !.pc = "set_workspace", !.name = space.name])
  /\ UNCHANGED <<space, members, managers, project, byId, listed, tale>>

SetWorkspace(v) ==
  /\ Visiting(v, "set_workspace")
  /\ byId' = visit[v].name
  /\ tale' = [tale EXCEPT !.byId = space # [state |-> "live", name |-> visit[v].name]]
  /\ VisitEnds(v)
  /\ UNCHANGED <<space, members, managers, project, listed, visits>>

FindByMember(v, u) ==
  /\ Visit(v, [NoVisit EXCEPT !.pc = "set_list", !.user = u,
                              !.has = u \in members /\ space.state = "live"])
  /\ UNCHANGED <<space, members, managers, project, byId, listed, tale>>

\* What it stores may be out of date by now.
SetList(v) ==
  LET u == visit[v].user IN
  /\ Visiting(v, "set_list")
  /\ listed' = [listed EXCEPT ![u] = [kept |-> TRUE, has |-> visit[v].has]]
  /\ tale' = [tale EXCEPT !.listed =
       IF visit[v].has = (u \in members /\ space.state = "live") THEN @ \ {u} ELSE @ \cup {u}]
  /\ VisitEnds(v)
  /\ UNCHANGED <<space, members, managers, project, byId, visits>>

-----------------------------------------------------------------------------
(* Create, rename and delete the workspace.                                 *)

\* createWithOwner drops the list inside its transaction, before it commits.
CreateWithOwner(v) ==
  /\ space.state = "none"
  /\ Visit(v, [NoVisit EXCEPT !.pc = "commit"])
  /\ listed' = [listed EXCEPT !["owner"] = NoList]
  /\ UNCHANGED <<space, members, managers, project, byId, tale>>

CommitCreation(v) ==
  /\ Visiting(v, "commit")
  /\ IF space.state = "none"
       THEN /\ space' = [space EXCEPT !.state = "live"]
            /\ members' = {"owner"} /\ managers' = {}
            /\ tale' = [tale EXCEPT !.listed = IF listed["owner"].kept THEN @ \cup {"owner"} ELSE @]
       ELSE UNCHANGED <<space, members, managers, tale>>
  /\ VisitEnds(v)
  /\ UNCHANGED <<project, byId, listed, visits>>

\* UpdateWorkspaceUseCase checks the owner and looks for the workspace, maybe in
\* the cache; update loads the row.
LoadToUpdate(v) ==
  /\ "owner" \in members
  /\ space.state = "live"
  /\ Visit(v, [NoVisit EXCEPT !.pc = "save_workspace"])
  /\ UNCHANGED <<space, members, managers, project, byId, listed, tale>>

SaveWorkspace(v) ==
  /\ Visiting(v, "save_workspace")
  /\ space' = [state |-> "live", name |-> space.name + 1]
  /\ tale' = [tale EXCEPT !.space = @ \/ (space.state = "deleted" /\ visit[v].early)]
  /\ VisitTo(v, "delete_workspace")
  /\ UNCHANGED <<members, managers, project, byId, listed, visits>>

\* The owner or an admin deletes; the transaction looks for the row itself.
CheckToDelete(v) ==
  /\ space.state = "live"
  /\ Visit(v, [NoVisit EXCEPT !.pc = "soft_delete"])
  /\ UNCHANGED <<space, members, managers, project, byId, listed, tale>>

\* No list is dropped: each goes on showing the workspace until it expires.
SoftDeleteWorkspace(v) ==
  /\ Visiting(v, "soft_delete")
  /\ space.state = "live"
  /\ space' = [space EXCEPT !.state = "deleted"]
  /\ project' = IF project = "live" THEN "deleted" ELSE project
  /\ members' = {} /\ managers' = {}
  /\ tale' = [tale EXCEPT !.over = TRUE, !.listed = People]
  /\ VisitTo(v, "delete_workspace")
  /\ UNCHANGED <<byId, listed, visits>>

\* Variant with a bug: the entry of a deleted workspace is kept.
DeleteFromCacheIfLive(v, done) ==
  /\ Visiting(v, "delete_workspace")
  /\ byId' = IF done /\ ~tale.over THEN NotKept ELSE byId
  /\ tale' = [tale EXCEPT !.byId = ~done /\ byId # NotKept]
  /\ VisitEnds(v)
  /\ UNCHANGED <<space, members, managers, project, listed, visits>>

\* deleteWorkspace of the cache, after either commit; an error is passed over.
DeleteFromCache(v, done) ==
  /\ Visiting(v, "delete_workspace")
  /\ byId' = IF done THEN NotKept ELSE byId
  /\ tale' = [tale EXCEPT !.byId = ~done /\ byId # NotKept]
  /\ VisitEnds(v)
  /\ UNCHANGED <<space, members, managers, project, listed, visits>>

-----------------------------------------------------------------------------
(* Projects: a membership and its role are checked, the workspace is not.   *)

\* Anybody who may: the owner, or a manager.
SomebodyManages == \E u \in members : u = "owner" \/ u \in managers

CheckToCreateProject(v) ==
  /\ SomebodyManages
  /\ project = "none"
  /\ Visit(v, [NoVisit EXCEPT !.pc = "create_project"])
  /\ UNCHANGED <<space, members, managers, project, byId, listed, tale>>

CreateProject(v) ==
  /\ Visiting(v, "create_project")
  /\ IF project = "none"
       THEN /\ project' = "live"
            /\ tale' = [tale EXCEPT !.project = @ \/ (tale.over /\ visit[v].early)]
       ELSE UNCHANGED <<project, tale>>
  /\ VisitEnds(v)
  /\ UNCHANGED <<space, members, managers, byId, listed, visits>>

\* update and softDelete of the project repository load the row ...
LoadProjectTo(v, pc) ==
  /\ SomebodyManages
  /\ project = "live"
  /\ Visit(v, [NoVisit EXCEPT !.pc = pc])
  /\ UNCHANGED <<space, members, managers, project, byId, listed, tale>>

\* ... and save it with is_deleted as they loaded, or set, it.
SaveProject(v) ==
  /\ Visiting(v, "update_project")
  /\ project' = "live"
  /\ tale' = [tale EXCEPT !.project = @ \/ (tale.over /\ visit[v].early)]
  /\ VisitEnds(v)
  /\ UNCHANGED <<space, members, managers, byId, listed, visits>>

SaveDeletedProject(v) ==
  /\ Visiting(v, "delete_project")
  /\ project' = "deleted"
  /\ VisitEnds(v)
  /\ UNCHANGED <<space, members, managers, byId, listed, visits, tale>>

-----------------------------------------------------------------------------
(* The member comes and goes, and is given a role.                          *)

\* UpdateMemberRoleUseCase: only the owner may, and the member is there.
CheckToSetRole(v, manager) ==
  /\ People \subseteq members
  /\ Visit(v, [NoVisit EXCEPT !.pc = "set_role", !.has = manager])
  /\ UNCHANGED <<space, members, managers, project, byId, listed, tale>>

\* The UPDATE finds the member's row whatever became of the workspace, a row of a
\* later membership too; without one it throws.
SetRole(v) ==
  /\ Visiting(v, "set_role")
  /\ "member" \in members
  /\ managers' = IF visit[v].has THEN managers \cup {"member"} ELSE managers \ {"member"}
  /\ tale' = [tale EXCEPT !.raised = @ \/ (tale.over /\ visit[v].early /\ visit[v].has)]
  /\ VisitEnds(v)
  /\ UNCHANGED <<space, members, project, byId, listed, visits>>

\* acceptAndJoinWorkspace makes a plain member; it drops no list and does not look at
\* the workspace.
AcceptAndJoin ==
  /\ space.state # "none"
  /\ "member" \notin members
  /\ members' = members \cup {"member"}
  /\ tale' = [tale EXCEPT !.listed = IF listed["member"].kept THEN @ \cup {"member"} ELSE @]
  /\ UNCHANGED <<space, managers, project, byId, listed, visit, visits>>

RemoveByWorkspaceAndUser(v) ==
  /\ "member" \in members
  /\ Visit(v, [NoVisit EXCEPT !.pc = "delete_list"])
  /\ members' = members \ {"member"} /\ managers' = managers \ {"member"}
  /\ UNCHANGED <<space, project, byId, listed, tale>>

DeleteList(v, done) ==
  /\ Visiting(v, "delete_list")
  /\ listed' = IF done THEN [listed EXCEPT !["member"] = NoList] ELSE listed
  /\ tale' = [tale EXCEPT !.listed =
       IF done THEN @ \ {"member"}
       ELSE IF listed["member"].kept THEN @ \cup {"member"} ELSE @]
  /\ VisitEnds(v)
  /\ UNCHANGED <<space, members, managers, project, byId, visits>>

-----------------------------------------------------------------------------
WorkspaceKeyExpires ==
  /\ byId # NotKept
  /\ byId' = NotKept
  /\ tale' = [tale EXCEPT !.byId = FALSE]
  /\ UNCHANGED <<space, members, managers, project, listed, visit, visits>>

ListKeyExpires(u) ==
  /\ listed[u].kept
  /\ listed' = [listed EXCEPT ![u] = NoList]
  /\ tale' = [tale EXCEPT !.listed = @ \ {u}]
  /\ UNCHANGED <<space, members, managers, project, byId, visit, visits>>

\* The process stops, or a call to PostgreSQL fails; a removal that has not
\* reached its list leaves it as it is.
VisitStops(v) ==
  /\ ~Visiting(v, "none")
  /\ tale' = [tale EXCEPT
       !.byId = @ \/ (Visiting(v, "delete_workspace") /\ byId # NotKept),
       !.listed = IF Visiting(v, "delete_list") /\ listed["member"].kept
                    THEN @ \cup {"member"} ELSE @]
  /\ VisitEnds(v)
  /\ UNCHANGED <<space, members, managers, project, byId, listed, visits>>

WorkspaceDirectoryNext ==
  \/ \E v \in Visits :
       \/ FindById(v) \/ SetWorkspace(v) \/ SetList(v)
       \/ CreateWithOwner(v) \/ CommitCreation(v)
       \/ LoadToUpdate(v) \/ SaveWorkspace(v)
       \/ CheckToDelete(v) \/ SoftDeleteWorkspace(v)
       \/ CheckToCreateProject(v) \/ CreateProject(v)
       \/ SaveProject(v) \/ SaveDeletedProject(v)
       \/ RemoveByWorkspaceAndUser(v) \/ SetRole(v) \/ VisitStops(v)
       \/ \E manager \in BOOLEAN : CheckToSetRole(v, manager)
       \/ \E u \in People : FindByMember(v, u)
       \/ \E pc \in {"update_project", "delete_project"} : LoadProjectTo(v, pc)
       \/ \E done \in BOOLEAN : DeleteFromCache(v, done) \/ DeleteList(v, done)
  \/ AcceptAndJoin
  \/ WorkspaceKeyExpires
  \/ \E u \in People : ListKeyExpires(u)

WorkspaceDirectorySpec ==
  WorkspaceDirectoryInit /\ [][WorkspaceDirectoryNext]_directoryVars

-----------------------------------------------------------------------------
WorkspaceDirectoryTypeOK ==
  /\ space \in [state : {"none", "live", "deleted"}, name : Nat]
  /\ members \in SUBSET People /\ managers \in SUBSET (members \ {"owner"})
  /\ project \in {"none", "live", "deleted"}
  /\ byId \in Nat \cup {NotKept}
  /\ listed \in [People -> [kept : BOOLEAN, has : BOOLEAN]]
  /\ visit \in [Visits -> [
       pc : {"none", "set_workspace", "set_list", "commit", "save_workspace",
             "soft_delete", "delete_workspace", "create_project", "update_project",
             "delete_project", "delete_list", "set_role"},
       user : People, name : Nat, has : BOOLEAN, early : BOOLEAN]]
  /\ visits \in Nat
  /\ tale \in [over : BOOLEAN, space : BOOLEAN, project : BOOLEAN, raised : BOOLEAN,
               byId : BOOLEAN, listed : SUBSET People]

\* A deletion is final but for executions it overlaps: the row, or a project of a
\* deleted workspace, is live again only when an execution that started before the
\* deletion committed wrote it afterwards, or made a manager of a member who joined
\* the deleted workspace. Nobody else who comes later passes the checks.
DeletionIsFinal ==
  tale.over =>
    /\ space.state = "live" => tale.space
    /\ project = "live" => tale.project \/ tale.raised

\* With no invalidation under way, the cached workspace is the stored one, unless
\* a reader stored what it had read before a change, or an invalidation failed.
\* A cached list shows a removed member the workspace only for such a reason, or
\* because the workspace itself was deleted.
CachesExplained ==
  /\ (\A v \in Visits : ~Visiting(v, "delete_workspace")) =>
       byId = NotKept \/ space = [state |-> "live", name |-> byId] \/ tale.byId
  /\ (\A v \in Visits : ~Visiting(v, "delete_list")) =>
       ~listed["member"].has \/ "member" \in members \cup tale.listed

\* What a deleted workspace and a renamed one still show is accounted for.
DirectoryKept == DeletionIsFinal /\ CachesExplained
=============================================================================
