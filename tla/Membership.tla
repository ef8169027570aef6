---------------------------- MODULE Membership ----------------------------
(***************************************************************************)
(* Who belongs where: the member tables of one organization and its teams   *)
(* (internal/organization) and of one of its workspaces                     *)
(* (internal/workspace).                                                    *)
(*                                                                          *)
(* A request checks its caller's role, sometimes checks its target too, and *)
(* then writes one row.  The checks and the write are separate database     *)
(* calls, so what was checked may no longer hold when the row is written.   *)
(* A request that stops half way, because the server dies, is one that      *)
(* takes no further step.                                                   *)
(***************************************************************************)
EXTENDS Naturals

CONSTANTS
    Requests,   \* the requests served, one goroutine each
    Users,      \* the users
    Founder,    \* the user who created the organization
    Teams,      \* the names of its teams
    None,       \* no row
    MaxFaults   \* bound on failing publishes

VARIABLES
    org,        \* org_members: user -> role
    workspace,  \* whether the workspace has been created
    member,     \* workspace_members: user -> role
    teams,      \* the teams
    teamMember, \* team_members: pairs of a team and a user
    at,         \* where each request is
    job,        \* what each request was asked to do
    announced,  \* the membership events that reached the broker
    ever,       \* history: who ever belonged to the organization, to the
                \* workspace, and who was ever its lore keeper
    joined,     \* history: who ever belonged to which team
    faults

mvars == <<org, workspace, member, teams, teamMember, at, job, announced, ever, joined, faults>>

-----------------------------------------------------------------------------
Role == {"owner", "admin", "member"}

WorkspaceRole == {"lore_keeper", "participant"}

ASSUME MembershipAssumption ==
    /\ Founder \in Users
    /\ None \notin Role \cup WorkspaceRole
    /\ MaxFaults \in Nat

TeamRow == Teams \X Users

OrgJob ==
    [op : {"orgAdd", "orgRole"}, caller : Users, user : Users, role : Role]
      \cup [op : {"orgRemove"}, caller : Users, user : Users]

TeamJob ==
    [op : {"team"}, caller : Users, team : Teams]
      \cup [op : {"teamAdd", "teamRemove"}, caller : Users, user : Users, team : Teams]

WorkspaceJob ==
    [op : {"create", "join", "leave"}, caller : Users]
      \cup [op : {"add", "remove"}, caller : Users, user : Users]
      \cup [op : {"role"}, caller : Users, user : Users, role : WorkspaceRole]

Job == OrgJob \cup TeamJob \cup WorkspaceJob

Phase == {"new", "allowed", "vetted", "announcing", "ok", "error"}

Event == [type : {"org.member.added", "org.member.removed", "org.member.role_changed",
                  "workspace.created", "workspace.member.joined", "workspace.member.left"},
          user : Users]
           \cup [type : {"team.created"}, team : Teams]
           \cup [type : {"team.member.added", "team.member.removed"}, team : Teams, user : Users]

(* CreateOrg, one transaction, made the founder its owner; since then       *)
(* members may have been added, and the founder may have created the        *)
(* workspace, which others may have joined.                                 *)
Init ==
    /\ org \in [Users -> {"owner", "member", None}]
    /\ \A u \in Users : org[u] = "owner" <=> u = Founder
    /\ workspace \in BOOLEAN
    /\ member \in [Users -> WorkspaceRole \cup {None}]
    /\ member[Founder] = IF workspace THEN "lore_keeper" ELSE None
    /\ \A u \in Users : member[u] # None => workspace /\ org[u] # None
    /\ teams = {}
    /\ teamMember = {}
    /\ at = [r \in Requests |-> "new"]
    /\ job = [r \in Requests |-> None]
    /\ announced = {}
    /\ ever = [org |-> {u \in Users : org[u] # None},
               workspace |-> {u \in Users : member[u] # None},
               keeper |-> {u \in Users : member[u] = "lore_keeper"}]
    /\ joined = {}
    /\ faults = 0

(* A request that has ended forgets what it was asked to do. *)
Goto(r, phase) ==
    /\ at' = [at EXCEPT ![r] = phase]
    /\ job' = [job EXCEPT ![r] = IF phase \in {"ok", "error"} THEN None ELSE @]

RoleSatisfiesAdmin(u) == org[u] \in {"owner", "admin"}

(* Mutant of Authorized: belonging is enough where a role is required. *)
AuthorizedByBelonging(j) ==
    CASE j.op \in {"add", "remove", "role"} -> member[j.caller] # None
      [] j.op = "leave"                      -> TRUE
      [] j.op = "join"                       -> workspace /\ org[j.caller] # None
      [] OTHER                               -> org[j.caller] # None

(* The first check of each handler: requireRole, requireLoreKeeper, or the  *)
(* caller's membership of the organization.  Leaving needs none.            *)
Authorized(j) ==
    CASE j.op \in {"orgAdd", "orgRemove", "orgRole"} -> RoleSatisfiesAdmin(j.caller)
      [] j.op \in {"team", "teamAdd", "teamRemove"}  -> RoleSatisfiesAdmin(j.caller)
      [] j.op \in {"add", "remove", "role"}          -> member[j.caller] = "lore_keeper"
      [] j.op = "create"                             -> org[j.caller] # None
      [] j.op = "join"                               -> workspace /\ org[j.caller] # None
      [] j.op = "leave"                              -> TRUE

Authorize(r) ==
    /\ at[r] = "new"
    /\ \/ \E j \in Job :
            /\ Authorized(j)
            /\ at' = [at EXCEPT ![r] = "allowed"]
            /\ job' = [job EXCEPT ![r] = j]
       \/ (\E j \in Job : ~Authorized(j)) /\ Goto(r, "error")
    /\ UNCHANGED <<org, workspace, member, teams, teamMember, announced, ever, joined, faults>>

(* Mutant of Acceptable: anybody can be added. *)
AcceptableStranger(j) ==
    CASE j.op = "add"     -> TRUE
      [] j.op = "role"    -> member[j.user] \notin {None, j.role}
      [] j.op = "orgRole" -> org[j.user] \notin {None, j.role}

(* The second check: AddMember looks its target up in the organization, the *)
(* role changes read the row they change and refuse the role it has.        *)
Acceptable(j) ==
    CASE j.op = "add"     -> org[j.user] # None
      [] j.op = "role"    -> member[j.user] \notin {None, j.role}
      [] j.op = "orgRole" -> org[j.user] \notin {None, j.role}

Vet(r) ==
    /\ at[r] = "allowed"
    /\ job[r].op \in {"add", "role", "orgRole"}
    /\ Goto(r, IF Acceptable(job[r]) THEN "vetted" ELSE "error")
    /\ UNCHANGED <<org, workspace, member, teams, teamMember, announced, ever, joined, faults>>

-----------------------------------------------------------------------------
(* The writes.  An INSERT conflicts with an existing row, an UPDATE or a    *)
(* DELETE of no row is an error: in both cases nothing changes.             *)

Conflict(r) ==
    /\ Goto(r, "error")
    /\ UNCHANGED <<org, member, teams, teamMember, ever, joined>>

SetOrg(u, role) ==
    /\ org' = [org EXCEPT ![u] = role]
    /\ ever' = [ever EXCEPT !.org = IF role = None THEN @ ELSE @ \cup {u}]
    /\ UNCHANGED <<member, teams, teamMember, joined>>

SetMember(u, role) ==
    /\ member' = [member EXCEPT ![u] = role]
    /\ ever' = [ever EXCEPT !.workspace = IF role = None THEN @ ELSE @ \cup {u},
                            !.keeper = IF role = "lore_keeper" THEN @ \cup {u} ELSE @]
    /\ UNCHANGED <<org, teams, teamMember, joined>>

SetTeams(names, rows) ==
    /\ teams' = names
    /\ teamMember' = rows
    /\ joined' = joined \cup rows
    /\ UNCHANGED <<org, member, ever>>

AddOrgMember(r) ==
    /\ at[r] = "allowed"
    /\ job[r].op = "orgAdd"
    /\ IF org[job[r].user] = None
       THEN SetOrg(job[r].user, job[r].role) /\ Goto(r, "announcing")
       ELSE Conflict(r)
    /\ UNCHANGED <<workspace, announced, faults>>

(* Nothing is done about the member's workspaces. *)
RemoveOrgMember(r) ==
    /\ at[r] = "allowed"
    /\ job[r].op = "orgRemove"
    /\ IF org[job[r].user] # None
       THEN SetOrg(job[r].user, None) /\ Goto(r, "announcing")
       ELSE Conflict(r)
    /\ UNCHANGED <<workspace, announced, faults>>

UpdateMemberRole(r) ==
    /\ at[r] = "vetted"
    /\ job[r].op = "orgRole"
    /\ IF org[job[r].user] # None
       THEN SetOrg(job[r].user, job[r].role) /\ Goto(r, "announcing")
       ELSE Conflict(r)
    /\ UNCHANGED <<workspace, announced, faults>>

(* The workspace and its lore keeper, in one transaction. *)
CreateWorkspace(r) ==
    /\ at[r] = "allowed"
    /\ job[r].op = "create"
    /\ ~workspace
    /\ workspace' = TRUE
    /\ SetMember(job[r].caller, "lore_keeper")
    /\ Goto(r, "announcing")
    /\ UNCHANGED <<announced, faults>>

JoinWorkspace(r) ==
    /\ at[r] = "allowed"
    /\ job[r].op = "join"
    /\ IF member[job[r].caller] = None
       THEN SetMember(job[r].caller, "participant") /\ Goto(r, "announcing")
       ELSE Conflict(r)
    /\ UNCHANGED <<workspace, announced, faults>>

LeaveWorkspace(r) ==
    /\ at[r] = "allowed"
    /\ job[r].op = "leave"
    /\ IF member[job[r].caller] # None
       THEN SetMember(job[r].caller, None) /\ Goto(r, "announcing")
       ELSE Conflict(r)
    /\ UNCHANGED <<workspace, announced, faults>>

AddMember(r) ==
    /\ at[r] = "vetted"
    /\ job[r].op = "add"
    /\ IF member[job[r].user] = None
       THEN SetMember(job[r].user, "participant") /\ Goto(r, "announcing")
       ELSE Conflict(r)
    /\ UNCHANGED <<workspace, announced, faults>>

RemoveMember(r) ==
    /\ at[r] = "allowed"
    /\ job[r].op = "remove"
    /\ IF member[job[r].user] # None
       THEN SetMember(job[r].user, None) /\ Goto(r, "announcing")
       ELSE Conflict(r)
    /\ UNCHANGED <<workspace, announced, faults>>

(* Mutant of UpdateRole: an upsert. *)
UpsertRole(r) ==
    /\ at[r] = "vetted"
    /\ job[r].op = "role"
    /\ SetMember(job[r].user, job[r].role)
    /\ Goto(r, "ok")
    /\ UNCHANGED <<workspace, announced, faults>>

(* A changed role is not announced. *)
UpdateRole(r) ==
    /\ at[r] = "vetted"
    /\ job[r].op = "role"
    /\ IF member[job[r].user] # None
       THEN SetMember(job[r].user, job[r].role) /\ Goto(r, "ok")
       ELSE Conflict(r)
    /\ UNCHANGED <<workspace, announced, faults>>

(* The name of a team is unique in its organization. *)
CreateTeam(r) ==
    /\ at[r] = "allowed"
    /\ job[r].op = "team"
    /\ IF job[r].team \notin teams
       THEN SetTeams(teams \cup {job[r].team}, teamMember) /\ Goto(r, "announcing")
       ELSE Conflict(r)
    /\ UNCHANGED <<workspace, announced, faults>>

(* The row refers to a team.  Nobody asks whether the user belongs to the   *)
(* organization.                                                            *)
AddTeamMember(r) ==
    /\ at[r] = "allowed"
    /\ job[r].op = "teamAdd"
    /\ LET new == <<job[r].team, job[r].user>>
       IN  IF job[r].team \in teams /\ new \notin teamMember
           THEN SetTeams(teams, teamMember \cup {new}) /\ Goto(r, "announcing")
           ELSE Conflict(r)
    /\ UNCHANGED <<workspace, announced, faults>>

RemoveTeamMember(r) ==
    /\ at[r] = "allowed"
    /\ job[r].op = "teamRemove"
    /\ LET old == <<job[r].team, job[r].user>>
       IN  IF old \in teamMember
           THEN SetTeams(teams, teamMember \ {old}) /\ Goto(r, "announcing")
           ELSE Conflict(r)
    /\ UNCHANGED <<workspace, announced, faults>>

(* Fire-and-forget publishing of what the request did. *)
EventOf(j) ==
    CASE j.op = "orgAdd"    -> [type |-> "org.member.added", user |-> j.user]
      [] j.op = "orgRemove" -> [type |-> "org.member.removed", user |-> j.user]
      [] j.op = "orgRole"   -> [type |-> "org.member.role_changed", user |-> j.user]
      [] j.op = "create"    -> [type |-> "workspace.created", user |-> j.caller]
      [] j.op = "join"      -> [type |-> "workspace.member.joined", user |-> j.caller]
      [] j.op = "add"       -> [type |-> "workspace.member.joined", user |-> j.user]
      [] j.op = "leave"     -> [type |-> "workspace.member.left", user |-> j.caller]
      [] j.op = "remove"    -> [type |-> "workspace.member.left", user |-> j.user]
      [] j.op = "team"      -> [type |-> "team.created", team |-> j.team]
      [] j.op = "teamAdd"   -> [type |-> "team.member.added", team |-> j.team, user |-> j.user]
      [] j.op = "teamRemove" ->
            [type |-> "team.member.removed", team |-> j.team, user |-> j.user]

Announce(r) ==
    /\ at[r] = "announcing"
    /\ \/ announced' = announced \cup {EventOf(job[r])} /\ UNCHANGED faults
       \/ faults < MaxFaults /\ faults' = faults + 1 /\ UNCHANGED announced
    /\ Goto(r, "ok")
    /\ UNCHANGED <<org, workspace, member, teams, teamMember, ever, joined>>

MembershipStep(r) ==
    \/ Authorize(r) \/ Vet(r) \/ Announce(r)
    \/ AddOrgMember(r) \/ RemoveOrgMember(r) \/ UpdateMemberRole(r)
    \/ CreateWorkspace(r) \/ JoinWorkspace(r) \/ LeaveWorkspace(r)
    \/ AddMember(r) \/ RemoveMember(r) \/ UpdateRole(r)
    \/ CreateTeam(r) \/ AddTeamMember(r) \/ RemoveTeamMember(r)

Next == \E r \in Requests : MembershipStep(r)

Spec == Init /\ [][Next]_mvars

-----------------------------------------------------------------------------
(* Type correctness: the values each variable ranges over. *)
TypeOK ==
    /\ org \in [Users -> Role \cup {None}]
    /\ workspace \in BOOLEAN
    /\ member \in [Users -> WorkspaceRole \cup {None}]
    /\ teams \in SUBSET Teams
    /\ teamMember \in SUBSET TeamRow
    /\ at \in [Requests -> Phase]
    /\ job \in [Requests -> Job \cup {None}]
    /\ announced \in SUBSET Event
    /\ ever \in [org : SUBSET Users, workspace : SUBSET Users, keeper : SUBSET Users]
    /\ joined \in SUBSET TeamRow
    /\ faults \in Nat

(* However the checks and writes of several requests interleave, nobody     *)
(* enters the workspace without having been in the organization, and nobody *)
(* enters the organization or its workspace before the transaction that     *)
(* creates it.                                                              *)
EntryThroughOrg ==
    /\ ever.workspace \subseteq ever.org
    /\ ever.workspace # {} => workspace

(* A row that is deleted while somebody changes its role stays deleted: who *)
(* is outside comes in by creating, joining or being added, nothing else.   *)
RemovalIsNotUndone ==
    [][\A u \in Users :
        (member[u] = None /\ member'[u] # None) =>
            \E r \in Requests :
                at[r] # at'[r] /\ job[r].op \in {"create", "join", "add"}]_mvars

(* Authority descends: a participant becomes lore keeper only at the hands  *)
(* of somebody who was lore keeper at some time before.                     *)
KeeperMadeByKeeper ==
    [][\A u \in Users :
        (member[u] = "participant" /\ member'[u] = "lore_keeper") =>
            \E r \in Requests : at[r] # at'[r] /\ job[r].caller \in ever.keeper]_mvars

(* Subscribers hear of a member or a team only when the row has been        *)
(* written, and of a departure only of somebody who was there.              *)
EventsTruthful ==
    \A e \in announced :
        /\ e.type \in {"workspace.member.joined", "workspace.member.left", "workspace.created"}
              => e.user \in ever.workspace
        /\ e.type \in {"org.member.added", "org.member.removed", "org.member.role_changed"}
              => e.user \in ever.org
        /\ e.type = "team.created" => e.team \in teams
        /\ e.type \in {"team.member.added", "team.member.removed"}
              => <<e.team, e.user>> \in joined

(* Who belongs, and what others are told about it, rests on stored rows.    *)
MembershipSound == EntryThroughOrg /\ EventsTruthful
=============================================================================
