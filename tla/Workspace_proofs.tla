-------------------------- MODULE Workspace_proofs --------------------------
(* Theorems about Membership and Workspace, for every set of requests,      *)
(* edits, users and teams.                                                  *)
EXTENDS Workspace, TLAPS

-----------------------------------------------------------------------------
(* Membership.                                                              *)

(* What a request in progress was asked to do. *)
RequestOK ==
    \A r \in Requests :
        /\ at[r] \in {"allowed", "vetted", "announcing"} => job[r] \in Job
        /\ at[r] = "vetted" => job[r].op \in {"add", "role", "orgRole"}
        /\ at[r] = "announcing" => job[r].op # "role"

(* The history contains the present, and what a request has checked was     *)
(* true at some time.                                                       *)
EverOK ==
    \A u \in Users :
        /\ org[u] # None => u \in ever.org
        /\ member[u] # None => u \in ever.workspace
        /\ member[u] = "lore_keeper" => u \in ever.keeper

TeamsOK == teamMember \subseteq joined

CheckedOK ==
    \A r \in Requests :
        /\ at[r] = "allowed" =>
            /\ job[r].op \in {"create", "join"} => job[r].caller \in ever.org
            /\ job[r].op \in {"join", "add"} => workspace
            /\ job[r].op \in {"add", "remove", "role"} => job[r].caller \in ever.keeper
        /\ at[r] = "vetted" =>
            /\ job[r].op = "add" => workspace /\ job[r].user \in ever.org
            /\ job[r].op \in {"add", "role"} => job[r].caller \in ever.keeper

(* What a request is about to announce has happened. *)
WrittenOK ==
    \A r \in Requests :
        at[r] = "announcing" =>
            /\ job[r].op \in {"orgAdd", "orgRemove", "orgRole"} => job[r].user \in ever.org
            /\ job[r].op \in {"create", "join", "leave"} => job[r].caller \in ever.workspace
            /\ job[r].op \in {"add", "remove"} => job[r].user \in ever.workspace
            /\ job[r].op = "team" => job[r].team \in teams
            /\ job[r].op \in {"teamAdd", "teamRemove"} => <<job[r].team, job[r].user>> \in joined

TypeInv == TypeOK /\ RequestOK

BelongingInv ==
    /\ TypeInv
    /\ EverOK
    /\ TeamsOK
    /\ CheckedOK
    /\ WrittenOK
    /\ EntryThroughOrg
    /\ EventsTruthful

-----------------------------------------------------------------------------
LEMMA InitBelongingInv == Init => BelongingInv
  <1> SUFFICES ASSUME Init PROVE BelongingInv
    OBVIOUS
  <1>. USE MembershipAssumption DEF Init
  <1>1. TypeOK
    <2>1. org \in [Users -> Role \cup {None}]
      BY DEF Role
    <2>2. ever \in [org : SUBSET Users, workspace : SUBSET Users, keeper : SUBSET Users]
      OBVIOUS
    <2>. QED  BY <2>1, <2>2 DEF TypeOK, Phase
  <1>2. RequestOK /\ CheckedOK /\ WrittenOK
    BY DEF RequestOK, CheckedOK, WrittenOK
  <1>3. EverOK
    BY DEF EverOK, WorkspaceRole
  <1>4. TeamsOK /\ EntryThroughOrg /\ EventsTruthful
    BY DEF TeamsOK, EntryThroughOrg, EventsTruthful
  <1>. QED  BY <1>1, <1>2, <1>3, <1>4 DEF BelongingInv, TypeInv

(* The two ways in which a row is written, and what they do to the history. *)
LEMMA SetOrgKeeps ==
    ASSUME TypeOK, EverOK, NEW u \in Users, NEW role \in Role \cup {None}, SetOrg(u, role)
    PROVE  /\ org' \in [Users -> Role \cup {None}]
           /\ ever' = [org |-> IF role = None THEN ever.org ELSE ever.org \cup {u},
                       workspace |-> ever.workspace,
                       keeper |-> ever.keeper]
           /\ UNCHANGED <<member, teams, teamMember, joined>>
           /\ EverOK'
  BY DEF SetOrg, TypeOK, EverOK

LEMMA SetMemberKeeps ==
    ASSUME TypeOK, EverOK, NEW u \in Users, NEW role \in WorkspaceRole \cup {None},
           SetMember(u, role)
    PROVE  /\ member' = [member EXCEPT ![u] = role]
           /\ member' \in [Users -> WorkspaceRole \cup {None}]
           /\ ever' = [org |-> ever.org,
                       workspace |-> IF role = None THEN ever.workspace
                                                    ELSE ever.workspace \cup {u},
                       keeper |-> IF role = "lore_keeper" THEN ever.keeper \cup {u}
                                                          ELSE ever.keeper]
           /\ UNCHANGED <<org, teams, teamMember, joined>>
           /\ EverOK'
  BY MembershipAssumption DEF SetMember, TypeOK, EverOK, WorkspaceRole

(* The end of a write: the request moves on, the history has grown. *)
LEMMA WriteKeeps ==
    ASSUME BelongingInv, NEW r \in Requests, NEW p \in {"announcing", "ok", "error"},
           at[r] \in {"allowed", "vetted"},
           at' = [at EXCEPT ![r] = p],
           job' = [job EXCEPT ![r] = IF p \in {"ok", "error"} THEN None ELSE @],
           UNCHANGED <<announced, faults>>,
           org' \in [Users -> Role \cup {None}],
           member' \in [Users -> WorkspaceRole \cup {None}],
           workspace' \in BOOLEAN, workspace => workspace',
           ever' \in [org : SUBSET Users, workspace : SUBSET Users, keeper : SUBSET Users],
           ever.org \subseteq ever'.org,
           ever.workspace \subseteq ever'.workspace,
           ever.keeper \subseteq ever'.keeper,
           teams' \in SUBSET Teams, teams \subseteq teams',
           teamMember' \in SUBSET TeamRow,
           joined' \in SUBSET TeamRow, joined \subseteq joined',
           EverOK', TeamsOK', EntryThroughOrg',
           p = "announcing" =>
             /\ job[r].op # "role"
             /\ job[r].op \in {"orgAdd", "orgRemove", "orgRole"} => job[r].user \in ever'.org
             /\ job[r].op \in {"create", "join", "leave"} => job[r].caller \in ever'.workspace
             /\ job[r].op \in {"add", "remove"} => job[r].user \in ever'.workspace
             /\ job[r].op = "team" => job[r].team \in teams'
             /\ job[r].op \in {"teamAdd", "teamRemove"} => <<job[r].team, job[r].user>> \in joined'
    PROVE  BelongingInv'
  <1>. USE DEF BelongingInv, TypeInv
  <1>1. TypeOK'
    BY DEF TypeOK, Phase
  <1>2. RequestOK'
    BY DEF RequestOK, TypeOK
  <1>3. CheckedOK'
    BY DEF CheckedOK, TypeOK
  <1>4. WrittenOK'
    BY DEF WrittenOK, TypeOK
  <1>5. EventsTruthful'
    BY DEF EventsTruthful
  <1>. QED  BY <1>1, <1>2, <1>3, <1>4, <1>5

(* A write that changes no row keeps everything. *)
LEMMA ConflictKeeps ==
    ASSUME BelongingInv, NEW r \in Requests, at[r] \in {"allowed", "vetted"},
           Conflict(r), UNCHANGED <<workspace, announced, faults>>
    PROVE  BelongingInv'
  <1>. /\ UNCHANGED <<org, workspace, member, teams, teamMember, ever, joined>>
       /\ at' = [at EXCEPT ![r] = "error"]
       /\ job' = [job EXCEPT ![r] = None]
    BY DEF Conflict, Goto
  <1>. USE DEF BelongingInv, TypeInv
  <1>1. TypeOK'
    BY DEF TypeOK, Phase
  <1>2. RequestOK' /\ CheckedOK' /\ WrittenOK'
    BY DEF RequestOK, CheckedOK, WrittenOK, TypeOK
  <1>3. EverOK' /\ TeamsOK' /\ EntryThroughOrg' /\ EventsTruthful'
    BY DEF EverOK, TeamsOK, EntryThroughOrg, EventsTruthful
  <1>. QED  BY <1>1, <1>2, <1>3

(* Every step keeps the invariant. *)
LEMMA NextBelongingInv == BelongingInv /\ [Next]_mvars => BelongingInv'
  <1> SUFFICES ASSUME BelongingInv, [Next]_mvars PROVE BelongingInv'
    OBVIOUS
  <1>. USE DEF BelongingInv, TypeInv
  <1>. /\ TypeOK /\ RequestOK /\ EverOK /\ TeamsOK /\ CheckedOK /\ WrittenOK
       /\ EntryThroughOrg /\ EventsTruthful
    OBVIOUS
  <1>1. ASSUME NEW r \in Requests, Authorize(r) PROVE BelongingInv'
    <2>. UNCHANGED <<org, workspace, member, teams, teamMember, announced, ever, joined, faults>>
      BY <1>1 DEF Authorize
    <2>1. EverOK' /\ TeamsOK' /\ EntryThroughOrg' /\ EventsTruthful'
      BY DEF EverOK, TeamsOK, EntryThroughOrg, EventsTruthful
    <2>2. ASSUME NEW j \in Job, Authorized(j),
                 at' = [at EXCEPT ![r] = "allowed"], job' = [job EXCEPT ![r] = j]
          PROVE  BelongingInv'
      <3>1. TypeOK' /\ RequestOK' /\ WrittenOK'
        BY <2>2 DEF TypeOK, RequestOK, WrittenOK, Phase
      <3>2. /\ j.op \in {"create", "join"} => j.caller \in ever.org
            /\ j.op \in {"join", "add"} => workspace
            /\ j.op \in {"add", "remove", "role"} => j.caller \in ever.keeper
        BY <2>2, MembershipAssumption
           DEF Authorized, Job, OrgJob, TeamJob, WorkspaceJob, EverOK, EntryThroughOrg, TypeOK,
               WorkspaceRole
      <3>3. CheckedOK'
        BY <2>2, <3>2 DEF CheckedOK, TypeOK
      <3>. QED  BY <2>1, <3>1, <3>3
    <2>3. CASE Goto(r, "error")
      <3>1. TypeOK' /\ RequestOK' /\ WrittenOK' /\ CheckedOK'
        BY <2>3 DEF Goto, TypeOK, RequestOK, WrittenOK, CheckedOK, Phase
      <3>. QED  BY <2>1, <3>1
    <2>. QED  BY <1>1, <2>2, <2>3 DEF Authorize
  <1>2. ASSUME NEW r \in Requests, Vet(r) PROVE BelongingInv'
    <2>. /\ at[r] = "allowed"
         /\ job[r].op \in {"add", "role", "orgRole"}
         /\ at' = [at EXCEPT ![r] = IF Acceptable(job[r]) THEN "vetted" ELSE "error"]
         /\ job' = [job EXCEPT ![r] = IF Acceptable(job[r]) THEN @ ELSE None]
         /\ UNCHANGED <<org, workspace, member, teams, teamMember, announced, ever, joined, faults>>
      BY <1>2 DEF Vet, Goto
    <2>1. TypeOK' /\ RequestOK'
      BY DEF TypeOK, RequestOK, Phase
    <2>2. EverOK' /\ TeamsOK' /\ WrittenOK' /\ EntryThroughOrg' /\ EventsTruthful'
      BY DEF TypeOK, EverOK, TeamsOK, WrittenOK, EntryThroughOrg, EventsTruthful
    <2>3. CheckedOK'
      <3>1. Acceptable(job[r]) /\ job[r].op = "add" => job[r].user \in ever.org
        BY DEF Acceptable, RequestOK, Job, OrgJob, TeamJob, WorkspaceJob, EverOK
      <3>. QED  BY <3>1 DEF CheckedOK, TypeOK
    <2>. QED  BY <2>1, <2>2, <2>3
  <1>3. ASSUME NEW r \in Requests, AddOrgMember(r) PROVE BelongingInv'
    <2>1. job[r].op = "orgAdd" /\ job[r].user \in Users /\ job[r].role \in Role
      BY <1>3 DEF AddOrgMember, RequestOK, Job, OrgJob, TeamJob, WorkspaceJob
    <2>2. CASE Conflict(r)
      BY <1>3, <2>2, ConflictKeeps DEF AddOrgMember
    <2>3. CASE SetOrg(job[r].user, job[r].role) /\ Goto(r, "announcing") /\ org[job[r].user] = None
      <3>1. /\ org' \in [Users -> Role \cup {None}]
            /\ ever' = [org |-> IF job[r].role = None THEN ever.org
                                                    ELSE ever.org \cup {job[r].user},
                       workspace |-> ever.workspace,
                       keeper |-> ever.keeper]
            /\ UNCHANGED <<member, teams, teamMember, joined>>
            /\ EverOK'
        BY <2>1, <2>3, SetOrgKeeps
      <3>2. job[r].user \in ever'.org
        BY <2>1, <2>3, <3>1, MembershipAssumption DEF EverOK, Role
      <3>3. EntryThroughOrg'
        BY <1>3, <3>1 DEF AddOrgMember, EntryThroughOrg
      <3>. QED  BY <1>3, <2>1, <2>3, <3>1, <3>2, <3>3, WriteKeeps
                   DEF AddOrgMember, Goto, TypeOK, TeamsOK
    <2>. QED  BY <1>3, <2>2, <2>3 DEF AddOrgMember
  <1>4. ASSUME NEW r \in Requests, RemoveOrgMember(r) PROVE BelongingInv'
    <2>1. job[r].op = "orgRemove" /\ job[r].user \in Users
      BY <1>4 DEF RemoveOrgMember, RequestOK, Job, OrgJob, TeamJob, WorkspaceJob
    <2>2. CASE Conflict(r)
      BY <1>4, <2>2, ConflictKeeps DEF RemoveOrgMember
    <2>3. CASE SetOrg(job[r].user, None) /\ Goto(r, "announcing") /\ org[job[r].user] # None
      <3>1. /\ org' \in [Users -> Role \cup {None}]
            /\ ever' = [org |-> IF None = None THEN ever.org ELSE ever.org \cup {job[r].user},
                       workspace |-> ever.workspace,
                       keeper |-> ever.keeper]
            /\ UNCHANGED <<member, teams, teamMember, joined>>
            /\ EverOK'
        BY <2>1, <2>3, SetOrgKeeps
      <3>2. job[r].user \in ever'.org
        BY <2>1, <2>3, <3>1, MembershipAssumption DEF EverOK, Role
      <3>3. EntryThroughOrg'
        BY <1>4, <3>1 DEF RemoveOrgMember, EntryThroughOrg
      <3>. QED  BY <1>4, <2>1, <2>3, <3>1, <3>2, <3>3, WriteKeeps
                   DEF RemoveOrgMember, Goto, TypeOK, TeamsOK
    <2>. QED  BY <1>4, <2>2, <2>3 DEF RemoveOrgMember
  <1>5. ASSUME NEW r \in Requests, UpdateMemberRole(r) PROVE BelongingInv'
    <2>1. job[r].op = "orgRole" /\ job[r].user \in Users /\ job[r].role \in Role
      BY <1>5 DEF UpdateMemberRole, RequestOK, Job, OrgJob, TeamJob, WorkspaceJob
    <2>2. CASE Conflict(r)
      BY <1>5, <2>2, ConflictKeeps DEF UpdateMemberRole
    <2>3. CASE SetOrg(job[r].user, job[r].role) /\ Goto(r, "announcing") /\ org[job[r].user] # None
      <3>1. /\ org' \in [Users -> Role \cup {None}]
            /\ ever' = [org |-> IF job[r].role = None THEN ever.org
                                                    ELSE ever.org \cup {job[r].user},
                       workspace |-> ever.workspace,
                       keeper |-> ever.keeper]
            /\ UNCHANGED <<member, teams, teamMember, joined>>
            /\ EverOK'
        BY <2>1, <2>3, SetOrgKeeps
      <3>2. job[r].user \in ever'.org
        BY <2>1, <2>3, <3>1, MembershipAssumption DEF EverOK, Role
      <3>3. EntryThroughOrg'
        BY <1>5, <3>1 DEF UpdateMemberRole, EntryThroughOrg
      <3>. QED  BY <1>5, <2>1, <2>3, <3>1, <3>2, <3>3, WriteKeeps
                   DEF UpdateMemberRole, Goto, TypeOK, TeamsOK
    <2>. QED  BY <1>5, <2>2, <2>3 DEF UpdateMemberRole
  <1>6. ASSUME NEW r \in Requests, CreateWorkspace(r) PROVE BelongingInv'
    <2>1. job[r].op = "create" /\ job[r].caller \in Users
      BY <1>6 DEF CreateWorkspace, RequestOK, Job, OrgJob, TeamJob, WorkspaceJob
    <2>3. CASE SetMember(job[r].caller, "lore_keeper") /\ Goto(r, "announcing")
      <3>1. /\ member' \in [Users -> WorkspaceRole \cup {None}]
            /\ ever' = [org |-> ever.org,
                       workspace |-> IF "lore_keeper" = None THEN ever.workspace
                                     ELSE ever.workspace \cup {job[r].caller},
                       keeper |-> IF "lore_keeper" = "lore_keeper"
                                  THEN ever.keeper \cup {job[r].caller}
                                  ELSE ever.keeper]
            /\ UNCHANGED <<org, teams, teamMember, joined>>
            /\ EverOK'
        BY <2>1, <2>3, SetMemberKeeps DEF WorkspaceRole
      <3>2. job[r].caller \in ever'.workspace
        BY <1>6, <2>1, <2>3, <3>1, MembershipAssumption
           DEF CreateWorkspace, EverOK, WorkspaceRole
      <3>3. EntryThroughOrg'
        BY <1>6, <2>1, <3>1, <3>2 DEF CreateWorkspace, EntryThroughOrg, CheckedOK, EverOK
      <3>4. ever' \in [org : SUBSET Users, workspace : SUBSET Users, keeper : SUBSET Users]
        BY <2>1, <3>1 DEF TypeOK
      <3>5. workspace' \in BOOLEAN /\ (workspace => workspace')
        BY <1>6 DEF CreateWorkspace, TypeOK
      <3>. QED  BY <1>6, <2>1, <2>3, <3>1, <3>2, <3>3, <3>4, <3>5, WriteKeeps
                   DEF CreateWorkspace, Goto, TypeOK, TeamsOK
    <2>. QED  BY <1>6, <2>3 DEF CreateWorkspace
  <1>7. ASSUME NEW r \in Requests, JoinWorkspace(r) PROVE BelongingInv'
    <2>1. job[r].op = "join" /\ job[r].caller \in Users
      BY <1>7 DEF JoinWorkspace, RequestOK, Job, OrgJob, TeamJob, WorkspaceJob
    <2>2. CASE Conflict(r)
      BY <1>7, <2>2, ConflictKeeps DEF JoinWorkspace
    <2>3. CASE SetMember(job[r].caller, "participant") /\ Goto(r, "announcing")
      <3>1. /\ member' \in [Users -> WorkspaceRole \cup {None}]
            /\ ever' = [org |-> ever.org,
                       workspace |-> IF "participant" = None THEN ever.workspace
                                     ELSE ever.workspace \cup {job[r].caller},
                       keeper |-> IF "participant" = "lore_keeper"
                                  THEN ever.keeper \cup {job[r].caller}
                                  ELSE ever.keeper]
            /\ UNCHANGED <<org, teams, teamMember, joined>>
            /\ EverOK'
        BY <2>1, <2>3, SetMemberKeeps DEF WorkspaceRole
      <3>2. job[r].caller \in ever'.workspace
        BY <1>7, <2>1, <2>3, <3>1, MembershipAssumption
           DEF JoinWorkspace, EverOK, WorkspaceRole
      <3>3. EntryThroughOrg'
        BY <1>7, <2>1, <3>1, <3>2 DEF JoinWorkspace, EntryThroughOrg, CheckedOK, EverOK
      <3>4. ever' \in [org : SUBSET Users, workspace : SUBSET Users, keeper : SUBSET Users]
        BY <2>1, <3>1 DEF TypeOK
      <3>5. workspace' \in BOOLEAN /\ (workspace => workspace')
        BY <1>7 DEF JoinWorkspace, TypeOK
      <3>. QED  BY <1>7, <2>1, <2>3, <3>1, <3>2, <3>3, <3>4, <3>5, WriteKeeps
                   DEF JoinWorkspace, Goto, TypeOK, TeamsOK
    <2>. QED  BY <1>7, <2>2, <2>3 DEF JoinWorkspace
  <1>8. ASSUME NEW r \in Requests, LeaveWorkspace(r) PROVE BelongingInv'
    <2>1. job[r].op = "leave" /\ job[r].caller \in Users
      BY <1>8 DEF LeaveWorkspace, RequestOK, Job, OrgJob, TeamJob, WorkspaceJob
    <2>2. CASE Conflict(r)
      BY <1>8, <2>2, ConflictKeeps DEF LeaveWorkspace
    <2>3. CASE SetMember(job[r].caller, None) /\ Goto(r, "announcing")
               /\ member[job[r].caller] # None
      <3>1. /\ member' \in [Users -> WorkspaceRole \cup {None}]
            /\ ever' = [org |-> ever.org,
                       workspace |-> IF None = None THEN ever.workspace
                                     ELSE ever.workspace \cup {job[r].caller},
                       keeper |-> IF None = "lore_keeper" THEN ever.keeper \cup {job[r].caller}
                                  ELSE ever.keeper]
            /\ UNCHANGED <<org, teams, teamMember, joined>>
            /\ EverOK'
        BY <2>1, <2>3, SetMemberKeeps DEF WorkspaceRole
      <3>2. job[r].caller \in ever'.workspace
        BY <1>8, <2>1, <2>3, <3>1, MembershipAssumption
           DEF LeaveWorkspace, EverOK, WorkspaceRole
      <3>3. EntryThroughOrg'
        BY <1>8, <2>1, <3>1, <3>2 DEF LeaveWorkspace, EntryThroughOrg, CheckedOK, EverOK
      <3>4. ever' \in [org : SUBSET Users, workspace : SUBSET Users, keeper : SUBSET Users]
        BY <2>1, <3>1 DEF TypeOK
      <3>5. workspace' \in BOOLEAN /\ (workspace => workspace')
        BY <1>8 DEF LeaveWorkspace, TypeOK
      <3>. QED  BY <1>8, <2>1, <2>3, <3>1, <3>2, <3>3, <3>4, <3>5, WriteKeeps
                   DEF LeaveWorkspace, Goto, TypeOK, TeamsOK
    <2>. QED  BY <1>8, <2>2, <2>3 DEF LeaveWorkspace
  <1>9. ASSUME NEW r \in Requests, AddMember(r) PROVE BelongingInv'
    <2>1. job[r].op = "add" /\ job[r].user \in Users
      BY <1>9 DEF AddMember, RequestOK, Job, OrgJob, TeamJob, WorkspaceJob
    <2>2. CASE Conflict(r)
      BY <1>9, <2>2, ConflictKeeps DEF AddMember
    <2>3. CASE SetMember(job[r].user, "participant") /\ Goto(r, "announcing")
      <3>1. /\ member' \in [Users -> WorkspaceRole \cup {None}]
            /\ ever' = [org |-> ever.org,
                       workspace |-> IF "participant" = None THEN ever.workspace
                                     ELSE ever.workspace \cup {job[r].user},
                       keeper |-> IF "participant" = "lore_keeper"
                                  THEN ever.keeper \cup {job[r].user}
                                  ELSE ever.keeper]
            /\ UNCHANGED <<org, teams, teamMember, joined>>
            /\ EverOK'
        BY <2>1, <2>3, SetMemberKeeps DEF WorkspaceRole
      <3>2. job[r].user \in ever'.workspace
        BY <1>9, <2>1, <2>3, <3>1, MembershipAssumption DEF AddMember, EverOK, WorkspaceRole
      <3>3. EntryThroughOrg'
        BY <1>9, <2>1, <3>1, <3>2 DEF AddMember, EntryThroughOrg, CheckedOK, EverOK
      <3>4. ever' \in [org : SUBSET Users, workspace : SUBSET Users, keeper : SUBSET Users]
        BY <2>1, <3>1 DEF TypeOK
      <3>5. workspace' \in BOOLEAN /\ (workspace => workspace')
        BY <1>9 DEF AddMember, TypeOK
      <3>. QED  BY <1>9, <2>1, <2>3, <3>1, <3>2, <3>3, <3>4, <3>5, WriteKeeps
                   DEF AddMember, Goto, TypeOK, TeamsOK
    <2>. QED  BY <1>9, <2>2, <2>3 DEF AddMember
  <1>10. ASSUME NEW r \in Requests, RemoveMember(r) PROVE BelongingInv'
    <2>1. job[r].op = "remove" /\ job[r].user \in Users
      BY <1>10 DEF RemoveMember, RequestOK, Job, OrgJob, TeamJob, WorkspaceJob
    <2>2. CASE Conflict(r)
      BY <1>10, <2>2, ConflictKeeps DEF RemoveMember
    <2>3. CASE SetMember(job[r].user, None) /\ Goto(r, "announcing") /\ member[job[r].user] # None
      <3>1. /\ member' \in [Users -> WorkspaceRole \cup {None}]
            /\ ever' = [org |-> ever.org,
                       workspace |-> IF None = None THEN ever.workspace
                                     ELSE ever.workspace \cup {job[r].user},
                       keeper |-> IF None = "lore_keeper" THEN ever.keeper \cup {job[r].user}
                                  ELSE ever.keeper]
            /\ UNCHANGED <<org, teams, teamMember, joined>>
            /\ EverOK'
        BY <2>1, <2>3, SetMemberKeeps DEF WorkspaceRole
      <3>2. job[r].user \in ever'.workspace
        BY <1>10, <2>1, <2>3, <3>1, MembershipAssumption
           DEF RemoveMember, EverOK, WorkspaceRole
      <3>3. EntryThroughOrg'
        BY <1>10, <2>1, <3>1, <3>2 DEF RemoveMember, EntryThroughOrg, CheckedOK, EverOK
      <3>4. ever' \in [org : SUBSET Users, workspace : SUBSET Users, keeper : SUBSET Users]
        BY <2>1, <3>1 DEF TypeOK
      <3>5. workspace' \in BOOLEAN /\ (workspace => workspace')
        BY <1>10 DEF RemoveMember, TypeOK
      <3>. QED  BY <1>10, <2>1, <2>3, <3>1, <3>2, <3>3, <3>4, <3>5, WriteKeeps
                   DEF RemoveMember, Goto, TypeOK, TeamsOK
    <2>. QED  BY <1>10, <2>2, <2>3 DEF RemoveMember
  <1>11. ASSUME NEW r \in Requests, UpdateRole(r) PROVE BelongingInv'
    <2>1. job[r].op = "role" /\ job[r].user \in Users /\ job[r].role \in WorkspaceRole
      BY <1>11 DEF UpdateRole, RequestOK, Job, OrgJob, TeamJob, WorkspaceJob
    <2>2. CASE Conflict(r)
      BY <1>11, <2>2, ConflictKeeps DEF UpdateRole
    <2>3. CASE SetMember(job[r].user, job[r].role) /\ Goto(r, "ok") /\ member[job[r].user] # None
      <3>1. /\ member' \in [Users -> WorkspaceRole \cup {None}]
            /\ ever' = [org |-> ever.org,
                       workspace |-> IF job[r].role = None THEN ever.workspace
                                     ELSE ever.workspace \cup {job[r].user},
                       keeper |-> IF job[r].role = "lore_keeper" THEN ever.keeper \cup {job[r].user}
                                  ELSE ever.keeper]
            /\ UNCHANGED <<org, teams, teamMember, joined>>
            /\ EverOK'
        BY <2>1, <2>3, SetMemberKeeps DEF WorkspaceRole
      <3>2. job[r].user \in ever'.workspace
        BY <1>11, <2>1, <2>3, <3>1, MembershipAssumption
           DEF UpdateRole, EverOK, WorkspaceRole
      <3>3. EntryThroughOrg'
        BY <1>11, <2>1, <2>3, <3>1, <3>2 DEF UpdateRole, EntryThroughOrg, CheckedOK, EverOK
      <3>4. ever' \in [org : SUBSET Users, workspace : SUBSET Users, keeper : SUBSET Users]
        BY <2>1, <3>1 DEF TypeOK
      <3>5. workspace' \in BOOLEAN /\ (workspace => workspace')
        BY <1>11 DEF UpdateRole, TypeOK
      <3>. QED  BY <1>11, <2>1, <2>3, <3>1, <3>2, <3>3, <3>4, <3>5, WriteKeeps
                   DEF UpdateRole, Goto, TypeOK, TeamsOK
    <2>. QED  BY <1>11, <2>2, <2>3 DEF UpdateRole
  <1>12. ASSUME NEW r \in Requests, CreateTeam(r) PROVE BelongingInv'
    <2>1. job[r].op = "team" /\ job[r].team \in Teams
      BY <1>12 DEF CreateTeam, RequestOK, Job, OrgJob, TeamJob, WorkspaceJob
    <2>2. UNCHANGED <<org, workspace, member, announced, ever, faults>>
      BY <1>12 DEF CreateTeam, SetTeams, Conflict
    <2>3. EverOK' /\ EntryThroughOrg'
      BY <2>2 DEF EverOK, EntryThroughOrg
    <2>4. CASE Conflict(r)
      BY <1>12, <2>4, ConflictKeeps DEF CreateTeam
    <2>5. CASE ~Conflict(r)
      <3>1. /\ at[r] = "allowed" /\ at' = [at EXCEPT ![r] = "announcing"]
            /\ job' = [job EXCEPT ![r] = IF "announcing" \in {"ok", "error"} THEN None ELSE @]
            /\ SetTeams(teams \cup {job[r].team}, teamMember)
        BY <1>12, <2>5 DEF CreateTeam, Goto
      <3>2. /\ teams' \in SUBSET Teams /\ teams \subseteq teams'
            /\ teamMember' \in SUBSET TeamRow
            /\ joined' \in SUBSET TeamRow /\ joined \subseteq joined'
            /\ TeamsOK'
        BY <2>1, <3>1 DEF SetTeams, TypeOK, TeamsOK
      <3>3. /\ job[r].op = "team" => job[r].team \in teams'
            /\ job[r].op \in {"teamAdd", "teamRemove"} =>
                  <<job[r].team, job[r].user>> \in joined'
        BY <2>1, <3>1 DEF SetTeams, TeamsOK
      <3>. QED  BY <2>1, <2>2, <2>3, <3>1, <3>2, <3>3, WriteKeeps DEF TypeOK
    <2>. QED  BY <2>4, <2>5
  <1>13. ASSUME NEW r \in Requests, AddTeamMember(r) PROVE BelongingInv'
    <2>1. /\ job[r].op = "teamAdd"
          /\ <<job[r].team, job[r].user>> \in TeamRow
      BY <1>13 DEF AddTeamMember, RequestOK, Job, OrgJob, TeamJob, WorkspaceJob,
                     TeamRow
    <2>2. UNCHANGED <<org, workspace, member, announced, ever, faults>>
      BY <1>13 DEF AddTeamMember, SetTeams, Conflict
    <2>3. EverOK' /\ EntryThroughOrg'
      BY <2>2 DEF EverOK, EntryThroughOrg
    <2>4. CASE Conflict(r)
      BY <1>13, <2>4, ConflictKeeps DEF AddTeamMember
    <2>5. CASE ~Conflict(r)
      <3>1. /\ at[r] = "allowed" /\ at' = [at EXCEPT ![r] = "announcing"]
            /\ job' = [job EXCEPT ![r] = IF "announcing" \in {"ok", "error"} THEN None ELSE @]
            /\ SetTeams(teams, teamMember \cup {<<job[r].team, job[r].user>>})
        BY <1>13, <2>5 DEF AddTeamMember, Goto
      <3>2. /\ teams' \in SUBSET Teams /\ teams \subseteq teams'
            /\ teamMember' \in SUBSET TeamRow
            /\ joined' \in SUBSET TeamRow /\ joined \subseteq joined'
            /\ TeamsOK'
        BY <2>1, <3>1 DEF SetTeams, TypeOK, TeamsOK
      <3>3. /\ job[r].op = "team" => job[r].team \in teams'
            /\ job[r].op \in {"teamAdd", "teamRemove"} =>
                  <<job[r].team, job[r].user>> \in joined'
        BY <2>1, <3>1 DEF SetTeams, TeamsOK
      <3>. QED  BY <2>1, <2>2, <2>3, <3>1, <3>2, <3>3, WriteKeeps DEF TypeOK
    <2>. QED  BY <2>4, <2>5
  <1>14. ASSUME NEW r \in Requests, RemoveTeamMember(r) PROVE BelongingInv'
    <2>1. /\ job[r].op = "teamRemove"
          /\ <<job[r].team, job[r].user>> \in TeamRow
      BY <1>14 DEF RemoveTeamMember, RequestOK, Job, OrgJob, TeamJob, WorkspaceJob,
                     TeamRow
    <2>2. UNCHANGED <<org, workspace, member, announced, ever, faults>>
      BY <1>14 DEF RemoveTeamMember, SetTeams, Conflict
    <2>3. EverOK' /\ EntryThroughOrg'
      BY <2>2 DEF EverOK, EntryThroughOrg
    <2>4. CASE Conflict(r)
      BY <1>14, <2>4, ConflictKeeps DEF RemoveTeamMember
    <2>5. CASE ~Conflict(r)
      <3>1. /\ at[r] = "allowed" /\ at' = [at EXCEPT ![r] = "announcing"]
            /\ job' = [job EXCEPT ![r] = IF "announcing" \in {"ok", "error"} THEN None ELSE @]
            /\ <<job[r].team, job[r].user>> \in teamMember
            /\ SetTeams(teams, teamMember \ {<<job[r].team, job[r].user>>})
        BY <1>14, <2>5 DEF RemoveTeamMember, Goto
      <3>2. /\ teams' \in SUBSET Teams /\ teams \subseteq teams'
            /\ teamMember' \in SUBSET TeamRow
            /\ joined' \in SUBSET TeamRow /\ joined \subseteq joined'
            /\ TeamsOK'
        BY <2>1, <3>1 DEF SetTeams, TypeOK, TeamsOK
      <3>3. /\ job[r].op = "team" => job[r].team \in teams'
            /\ job[r].op \in {"teamAdd", "teamRemove"} =>
                  <<job[r].team, job[r].user>> \in joined'
        BY <2>1, <3>1 DEF SetTeams, TeamsOK
      <3>. QED  BY <2>1, <2>2, <2>3, <3>1, <3>2, <3>3, WriteKeeps DEF TypeOK
    <2>. QED  BY <2>4, <2>5
  <1>15. ASSUME NEW r \in Requests, Announce(r) PROVE BelongingInv'
    <2>. /\ at[r] = "announcing"
         /\ at' = [at EXCEPT ![r] = "ok"]
         /\ job' = [job EXCEPT ![r] = None]
         /\ UNCHANGED <<org, workspace, member, teams, teamMember, ever, joined>>
         /\ faults' \in Nat
         /\ announced' \in {announced, announced \cup {EventOf(job[r])}}
      BY <1>15 DEF Announce, Goto, TypeOK
    <2>1. EventOf(job[r]) \in Event
      BY DEF EventOf, Event, RequestOK, Job, OrgJob, TeamJob, WorkspaceJob
    <2>2. TypeOK' /\ RequestOK'
      BY <2>1 DEF TypeOK, RequestOK, Phase
    <2>3. EverOK' /\ TeamsOK' /\ CheckedOK' /\ WrittenOK' /\ EntryThroughOrg'
      BY DEF TypeOK, EverOK, TeamsOK, CheckedOK, WrittenOK, EntryThroughOrg
    <2>4. EventsTruthful'
      <3>1. LET e == EventOf(job[r])
            IN  /\ e.type \in {"workspace.member.joined", "workspace.member.left",
                               "workspace.created"} => e.user \in ever.workspace
                /\ e.type \in {"org.member.added", "org.member.removed",
                               "org.member.role_changed"} => e.user \in ever.org
                /\ e.type = "team.created" => e.team \in teams
                /\ e.type \in {"team.member.added", "team.member.removed"} =>
                      <<e.team, e.user>> \in joined
        BY DEF EventOf, RequestOK, Job, OrgJob, TeamJob, WorkspaceJob, WrittenOK
      <3>. QED  BY <3>1 DEF EventsTruthful
    <2>. QED  BY <2>2, <2>3, <2>4
  <1>16. CASE UNCHANGED mvars
    BY <1>16
       DEF mvars, TypeOK, RequestOK, EverOK, TeamsOK, CheckedOK, WrittenOK, EntryThroughOrg,
                 EventsTruthful
  <1>. QED
    BY <1>1, <1>2, <1>3, <1>4, <1>5, <1>6, <1>7, <1>8, <1>9, <1>10, <1>11, <1>12, <1>13, <1>14,
       <1>15, <1>16
    DEF Next, MembershipStep

-----------------------------------------------------------------------------
(* Every variable keeps to its type. *)
THEOREM MembersTypeCorrect == Spec => []TypeOK
  <1>1. BelongingInv => TypeOK
    BY DEF TypeInv, BelongingInv
  <1>. QED  BY InitBelongingInv, NextBelongingInv, <1>1, PTL DEF Spec

(* Nobody enters the workspace who was never in the organization, and       *)
(* nobody at all before it is created, however checks and writes            *)
(* interleave.                                                              *)
THEOREM EnteredThroughOrg == Spec => []EntryThroughOrg
  <1>1. BelongingInv => EntryThroughOrg
    BY DEF BelongingInv
  <1>. QED  BY InitBelongingInv, NextBelongingInv, <1>1, PTL DEF Spec

(* Every event that reaches the broker tells of a row that was written. *)
THEOREM EventsTellTheTruth == Spec => []EventsTruthful
  <1>1. BelongingInv => EventsTruthful
    BY DEF BelongingInv
  <1>. QED  BY InitBelongingInv, NextBelongingInv, <1>1, PTL DEF Spec

(* Entry into the workspace and all events rest on rows that were stored. *)
THEOREM MembershipIsSound == Spec => []MembershipSound
  BY EnteredThroughOrg, EventsTellTheTruth, PTL DEF MembershipSound

(* How a membership of the workspace may change in one step. *)
MemberStep(u) ==
    \/ member'[u] = member[u]
    \/ member'[u] = None
    \/ \E r \in Requests :
        /\ at[r] # at'[r]
        /\ \/ job[r].op \in {"join", "add"} /\ member'[u] = "participant"
           \/ job[r].op = "create" /\ member[u] = None
           \/ job[r].op = "role" /\ member[u] # None /\ job[r].caller \in ever.keeper

LEMMA NextMemberStep ==
    ASSUME BelongingInv, Next, NEW u \in Users
    PROVE  MemberStep(u)
  <1>. TypeOK /\ RequestOK /\ EverOK /\ CheckedOK /\ EntryThroughOrg
    BY DEF BelongingInv, TypeInv
  <1>. PICK r \in Requests : MembershipStep(r)
    BY DEF Next
  <1>1. CASE UNCHANGED member
    BY <1>1 DEF MemberStep
  <1>2. CASE CreateWorkspace(r)
    <2>1. member[u] = None
      BY <1>2 DEF CreateWorkspace, EverOK, EntryThroughOrg
    <2>. QED  BY <1>2, <2>1 DEF CreateWorkspace, Goto, TypeOK, MemberStep
  <1>3. CASE (JoinWorkspace(r) \/ AddMember(r)) /\ ~UNCHANGED member
    <2>1. PICK v : SetMember(v, "participant") /\ Goto(r, "announcing")
      BY <1>3 DEF JoinWorkspace, AddMember, Conflict
    <2>. QED  BY <1>3, <2>1
              DEF JoinWorkspace, AddMember, SetMember, Goto, TypeOK, MemberStep
  <1>4. CASE (LeaveWorkspace(r) \/ RemoveMember(r)) /\ ~UNCHANGED member
    BY <1>4 DEF LeaveWorkspace, RemoveMember, Conflict, SetMember, TypeOK, MemberStep
  <1>5. CASE UpdateRole(r)
    <2>1. job[r].caller \in ever.keeper
      BY <1>5 DEF UpdateRole, CheckedOK
    <2>2. at[r] # at'[r]
      BY <1>5 DEF UpdateRole, Goto, Conflict, TypeOK
    <2>. QED  BY <1>5, <2>1, <2>2 DEF UpdateRole, Conflict, SetMember, TypeOK, MemberStep
  <1>6. ASSUME \/ Authorize(r) \/ Vet(r) \/ Announce(r)
               \/ AddOrgMember(r) \/ RemoveOrgMember(r) \/ UpdateMemberRole(r)
               \/ CreateTeam(r) \/ AddTeamMember(r) \/ RemoveTeamMember(r)
        PROVE  UNCHANGED member
    BY <1>6 DEF Authorize, Vet, Announce, AddOrgMember, RemoveOrgMember, UpdateMemberRole,
                CreateTeam, AddTeamMember, RemoveTeamMember, SetOrg, SetTeams, Conflict
  <1>. QED  BY <1>1, <1>2, <1>3, <1>4, <1>5, <1>6 DEF MembershipStep

(* A membership that was deleted is not brought back by a change of role    *)
(* that had read it before.                                                 *)
THEOREM RemovalStays == Spec => RemovalIsNotUndone
  <1>1. BelongingInv /\ [Next]_mvars =>
          [\A u \in Users :
            (member[u] = None /\ member'[u] # None) =>
                \E r \in Requests :
                    at[r] # at'[r] /\ job[r].op \in {"create", "join", "add"}]_mvars
    BY NextMemberStep DEF MemberStep
  <1>. QED  BY InitBelongingInv, NextBelongingInv, <1>1, PTL DEF Spec, RemovalIsNotUndone

(* Whoever makes a participant a lore keeper was one, even though the role  *)
(* was checked some calls earlier.                                          *)
THEOREM KeepersMakeKeepers == Spec => KeeperMadeByKeeper
  <1>1. BelongingInv /\ [Next]_mvars =>
          [\A u \in Users :
            (member[u] = "participant" /\ member'[u] = "lore_keeper") =>
                \E r \in Requests : at[r] # at'[r] /\ job[r].caller \in ever.keeper]_mvars
    BY NextMemberStep, MembershipAssumption DEF MemberStep, WorkspaceRole
  <1>. QED  BY InitBelongingInv, NextBelongingInv, <1>1, PTL DEF Spec, KeeperMadeByKeeper

-----------------------------------------------------------------------------
(* Workspace. *)

(* A keeper setting and its change, a row and its change. *)
LEMMA NewWorkspaceType ==
    ASSUME NEW t \in Texts
    PROVE  NewWorkspace(t) \in Row /\ NewWorkspace(t).phase = 0
  BY DEF NewWorkspace, Row, Phases, Keeper, LoreKeeperMode

LEMMA ChangedType ==
    ASSUME NEW e \in Edits, edit[e] \in Edit, copy[e] \in Row
    PROVE  /\ Changed(e) \in Row
           /\ edit[e].op = "phase" => Changed(e).phase = edit[e].target
           /\ edit[e].op # "phase" => Changed(e).phase = copy[e].phase
  BY DEF Changed, Edit, Row, SetLoreKeeper, Keeper, LoreKeeperMode

-----------------------------------------------------------------------------
RowOK ==
    /\ workspace <=> row # None
    /\ row = None => reached = {}
    /\ row # None => row.phase \in reached
    /\ \A p \in reached : 0 .. p \subseteq reached

(* What an edit in progress holds: its caller was a lore keeper, its copy   *)
(* was the row at some time.                                                *)
EditOK ==
    \A e \in Edits :
        /\ stage[e] \in {"allowed", "found", "announcing"} =>
             row # None /\ edit[e] \in Edit /\ edit[e].caller \in ever.keeper
        /\ stage[e] \in {"found", "announcing"} =>
             copy[e] \in Row /\ copy[e].phase \in reached
        /\ stage[e] = "announcing" /\ edit[e].op = "phase" =>
             edit[e].target = copy[e].phase + 1 /\ edit[e].target \in reached

ReportedOK ==
    \A t \in reported : t[2] = t[1] + 1 /\ t[1] \in reached /\ t[2] \in reached

SettingsInv ==
    /\ BelongingInv
    /\ EditsTypeOK
    /\ RowOK
    /\ EditOK
    /\ ReportedOK

LEMMA InitSettingsInv == WInit => SettingsInv
  <1> SUFFICES ASSUME WInit PROVE SettingsInv
    OBVIOUS
  <1>. BelongingInv
    BY InitBelongingInv DEF WInit
  <1>. USE DEF WInit, Init, EInit
  <1>1. /\ workspace => row \in Row /\ row # None /\ row.phase = 0 /\ reached = {0}
        /\ ~workspace => row = None /\ reached = {}
    BY NewWorkspaceType, WorkspaceAssumption
  <1>2. EditsTypeOK
    <2>1. row \in Row \cup {None} /\ reached \in SUBSET Phases
      BY <1>1 DEF Phases
    <2>. QED  BY <2>1 DEF EditsTypeOK, Stage
  <1>3. RowOK
    BY <1>1 DEF RowOK
  <1>. QED  BY <1>2, <1>3 DEF SettingsInv, EditOK, ReportedOK

(* The part of a step that belongs to Membership. *)
LEMMA HistoryGrows ==
    ASSUME BelongingInv, NEW r \in Requests, MembershipStep(r)
    PROVE  /\ ever.keeper \subseteq ever'.keeper
           /\ workspace' # workspace => ~workspace /\ workspace' = TRUE
  <1>. TypeOK /\ RequestOK
    BY DEF BelongingInv, TypeInv
  <1>1. CASE Authorize(r) \/ Vet(r) \/ Announce(r)
    BY <1>1 DEF Authorize, Vet, Announce
  <1>2. CASE AddOrgMember(r) \/ RemoveOrgMember(r) \/ UpdateMemberRole(r)
    BY <1>2 DEF AddOrgMember, RemoveOrgMember, UpdateMemberRole, SetOrg, Conflict, TypeOK
  <1>3. CASE CreateWorkspace(r)
    BY <1>3 DEF CreateWorkspace, SetMember, TypeOK
  <1>4. CASE \/ JoinWorkspace(r) \/ LeaveWorkspace(r) \/ AddMember(r)
             \/ RemoveMember(r) \/ UpdateRole(r)
    <2>1. ASSUME NEW u, NEW role, SetMember(u, role)
          PROVE  ever.keeper \subseteq ever'.keeper
      BY <2>1 DEF SetMember, TypeOK
    <2>2. \/ UNCHANGED ever
          \/ \E u, role : SetMember(u, role)
      BY <1>4 DEF JoinWorkspace, LeaveWorkspace, AddMember, RemoveMember, UpdateRole, Conflict
    <2>3. UNCHANGED workspace
      BY <1>4 DEF JoinWorkspace, LeaveWorkspace, AddMember, RemoveMember, UpdateRole
    <2>. QED  BY <2>1, <2>2, <2>3
  <1>5. CASE CreateTeam(r) \/ AddTeamMember(r) \/ RemoveTeamMember(r)
    BY <1>5 DEF CreateTeam, AddTeamMember, RemoveTeamMember, SetTeams, Conflict
  <1>. QED  BY <1>1, <1>2, <1>3, <1>4, <1>5 DEF MembershipStep

LEMMA NextSettingsInv == SettingsInv /\ [WNext]_vars => SettingsInv'
  <1> SUFFICES ASSUME SettingsInv, [WNext]_vars PROVE SettingsInv'
    OBVIOUS
  <1>. BelongingInv /\ EditsTypeOK /\ RowOK /\ EditOK /\ ReportedOK
    BY DEF SettingsInv
  <1>1. BelongingInv'
    <2>. DEFINE bvars == <<org, workspace, member, teams, teamMember, at, job, announced, ever,
                           joined>>
    <2>1. CASE [Next]_mvars
      BY <2>1, NextBelongingInv
    <2>2. CASE UNCHANGED bvars /\ faults' \in Nat
      BY <2>2 DEF BelongingInv, TypeInv, TypeOK, RequestOK, EverOK, TeamsOK, CheckedOK, WrittenOK,
                  EntryThroughOrg, EventsTruthful
    <2>3. ASSUME NEW e \in Edits, EditStep(e)
          PROVE  \/ UNCHANGED mvars
                 \/ /\ UNCHANGED bvars
                    /\ faults' \in {faults, faults + 1}
      BY <2>3 DEF EditStep, RequireLoreKeeper, FindByID, Refuse, Update, AnnounceEdit
    <2>4. faults \in Nat
      BY DEF BelongingInv, TypeInv, TypeOK
    <2>. QED  BY <2>1, <2>2, <2>3, <2>4 DEF WNext, Next, vars
  <1>2. ASSUME NEW r \in Requests, MembershipStep(r),
               IF workspace' # workspace THEN CreateRow ELSE UNCHANGED <<row, reached>>,
               UNCHANGED <<stage, edit, copy, reported, overwritten>>
        PROVE  SettingsInv'
    <2>1. /\ ever.keeper \subseteq ever'.keeper
          /\ workspace' # workspace => ~workspace /\ workspace' = TRUE
      BY <1>2, HistoryGrows
    <2>2. CASE workspace' = workspace
      BY <1>1, <1>2, <2>1, <2>2
      DEF SettingsInv, EditsTypeOK, RowOK, EditOK, ReportedOK
    <2>3. CASE workspace' # workspace
      <3>1. PICK t \in Texts : row' = NewWorkspace(t) /\ reached' = {0}
        BY <1>2, <2>3 DEF CreateRow
      <3>2. row' \in Row /\ row'.phase = 0 /\ row' # None
        BY <3>1, NewWorkspaceType, WorkspaceAssumption
      <3>3. row = None /\ reached = {}
        BY <2>1, <2>3 DEF RowOK
      <3>4. EditsTypeOK'
        BY <1>2, <3>1, <3>2 DEF EditsTypeOK, Phases
      <3>5. RowOK'
        BY <2>1, <2>3, <3>1, <3>2 DEF RowOK
      <3>6. EditOK' /\ ReportedOK'
        BY <1>2, <3>3 DEF EditOK, ReportedOK
      <3>. QED  BY <1>1, <3>4, <3>5, <3>6 DEF SettingsInv
    <2>. QED  BY <2>2, <2>3
  <1>3. ASSUME NEW e \in Edits, RequireLoreKeeper(e) PROVE SettingsInv'
    <2>. UNCHANGED <<mvars, row, reported, reached, overwritten>>
      BY <1>3 DEF RequireLoreKeeper
    <2>1. RowOK' /\ ReportedOK'
      BY DEF RowOK, ReportedOK, mvars
    <2>2. ASSUME NEW j \in Edit, member[j.caller] = "lore_keeper",
                 edit' = [edit EXCEPT ![e] = j], stage' = [stage EXCEPT ![e] = "allowed"],
                 UNCHANGED copy
          PROVE  SettingsInv'
      <3>1. j.caller \in Users
        BY DEF Edit
      <3>2. row # None /\ j.caller \in ever.keeper
        BY <2>2, <3>1, MembershipAssumption
        DEF BelongingInv, EverOK, EntryThroughOrg, RowOK, WorkspaceRole
      <3>3. EditsTypeOK' /\ EditOK'
        BY <2>2, <3>2 DEF EditsTypeOK, EditOK, Stage, mvars
      <3>. QED  BY <1>1, <2>1, <3>3 DEF SettingsInv
    <2>3. CASE ToStage(e, "error")
      <3>1. EditsTypeOK' /\ EditOK'
        BY <2>3 DEF ToStage, EditsTypeOK, EditOK, Stage, mvars
      <3>. QED  BY <1>1, <2>1, <3>1 DEF SettingsInv
    <2>. QED  BY <1>3, <2>2, <2>3 DEF RequireLoreKeeper
  <1>4. ASSUME NEW e \in Edits, FindByID(e) PROVE SettingsInv'
    BY <1>1, <1>4
    DEF FindByID, ToStage, SettingsInv, EditsTypeOK, RowOK, EditOK, ReportedOK, Stage, mvars
  <1>5. ASSUME NEW e \in Edits, Refuse(e) PROVE SettingsInv'
    BY <1>1, <1>5
    DEF Refuse, ToStage, SettingsInv, EditsTypeOK, RowOK, EditOK, ReportedOK, Stage, mvars
  <1>6. ASSUME NEW e \in Edits, Update(e) PROVE SettingsInv'
    <2>. /\ stage[e] = "found" /\ ~Refused(e)
         /\ row' = Changed(e)
         /\ reached' = reached \cup {Changed(e).phase}
         /\ stage' = [stage EXCEPT ![e] = IF edit[e].op \in {"phase", "keeper"}
                                          THEN "announcing" ELSE "ok"]
         /\ edit' = [edit EXCEPT ![e] = IF edit[e].op \in {"phase", "keeper"} THEN @ ELSE None]
         /\ copy' = [copy EXCEPT ![e] = IF edit[e].op \in {"phase", "keeper"} THEN @ ELSE None]
         /\ overwritten' = (overwritten \/ row # copy[e])
         /\ UNCHANGED <<mvars, reported>>
      BY <1>6 DEF Update, ToStage
    <2>1. /\ edit[e] \in Edit /\ copy[e] \in Row
          /\ copy[e].phase \in reached
      BY DEF EditOK
    <2>2. /\ Changed(e) \in Row
          /\ edit[e].op = "phase" => Changed(e).phase = edit[e].target
          /\ edit[e].op # "phase" => Changed(e).phase = copy[e].phase
      BY <2>1, ChangedType
    <2>3. edit[e].op = "phase" => edit[e].target = copy[e].phase + 1
      BY DEF Refused, CanTransitionTo
    <2>4. copy[e].phase \in Nat
      BY <2>1 DEF Row, Phases
    <2>5. row' # None
      BY <2>2, WorkspaceAssumption
    <2>6. EditsTypeOK'
      BY <2>2 DEF EditsTypeOK, Stage, Row
    <2>7. RowOK'
      <3>1. \A p \in reached' : 0 .. p \subseteq reached'
        <4>1. Changed(e).phase \in {copy[e].phase, copy[e].phase + 1}
          BY <2>2, <2>3
        <4>2. 0 .. copy[e].phase \subseteq reached
          BY <2>1 DEF RowOK
        <4>. QED  BY <2>4, <4>1, <4>2 DEF RowOK
      <3>. QED  BY <2>5, <3>1 DEF RowOK, EditOK, mvars
    <2>8. EditOK' /\ ReportedOK'
      BY <2>1, <2>2, <2>3, <2>5 DEF EditOK, EditsTypeOK, ReportedOK, mvars
    <2>. QED  BY <1>1, <2>6, <2>7, <2>8 DEF SettingsInv
  <1>7. ASSUME NEW e \in Edits, AnnounceEdit(e) PROVE SettingsInv'
    <2>. /\ stage[e] = "announcing"
         /\ stage' = [stage EXCEPT ![e] = "ok"]
         /\ reported' = reported \/ (/\ edit[e].op = "phase"
                                     /\ reported' = reported \cup
                                          {<<copy[e].phase, edit[e].target>>})
         /\ edit' = [edit EXCEPT ![e] = None] /\ copy' = [copy EXCEPT ![e] = None]
         /\ UNCHANGED <<workspace, ever, row, reached, overwritten>>
      BY <1>7 DEF AnnounceEdit, ToStage
    <2>1. edit[e] \in Edit /\ copy[e] \in Row
      BY DEF EditOK
    <2>2. /\ copy[e].phase \in Phases
          /\ edit[e].op = "phase" => edit[e].target \in Phases
      BY <2>1 DEF Edit, Row
    <2>3. EditsTypeOK' /\ RowOK'
      BY <2>2 DEF EditsTypeOK, RowOK, Stage
    <2>4. EditOK' /\ ReportedOK'
      BY DEF EditOK, ReportedOK, EditsTypeOK
    <2>. QED  BY <1>1, <2>3, <2>4 DEF SettingsInv
  <1>8. CASE UNCHANGED vars
    BY <1>1, <1>8
    DEF vars, mvars, evars, SettingsInv, EditsTypeOK, RowOK, EditOK, ReportedOK
  <1>. QED
    BY <1>2, <1>3, <1>4, <1>5, <1>6, <1>7, <1>8 DEF WNext, EditStep

-----------------------------------------------------------------------------
(* Every variable keeps to its type. *)
THEOREM SettingsTypeCorrect == WSpec => []EditsTypeOK
  <1>1. SettingsInv => EditsTypeOK
    BY DEF SettingsInv
  <1>. QED  BY InitSettingsInv, NextSettingsInv, <1>1, PTL DEF WSpec

(* Edits overwrite one another, and yet a workspace has been in every phase *)
(* before its own, and every reported transition led to the next phase.     *)
THEOREM EveryPhaseInTurn == WSpec => []NoPhaseSkipped
  <1>1. SettingsInv => NoPhaseSkipped
    BY DEF SettingsInv, RowOK, ReportedOK, NoPhaseSkipped
  <1>. QED  BY InitSettingsInv, NextSettingsInv, <1>1, PTL DEF WSpec

(* Nobody who was never a lore keeper changes a setting, however the check, *)
(* the write and changes of membership interleave.                          *)
THEOREM KeepersEdit == WSpec => EditedByKeeper
  <1>1. ASSUME SettingsInv, WNext, row # None, row' # row
        PROVE  \E e \in Edits : stage[e] # stage'[e] /\ edit[e].caller \in ever.keeper
    <2>1. ASSUME NEW r \in Requests, MembershipStep(r),
                 IF workspace' # workspace THEN CreateRow ELSE UNCHANGED <<row, reached>>
          PROVE  FALSE
      BY <1>1, <2>1, HistoryGrows DEF SettingsInv, RowOK
    <2>2. PICK e \in Edits : EditStep(e)
      BY <1>1, <2>1 DEF WNext
    <2>3. Update(e)
      BY <1>1, <2>2 DEF EditStep, RequireLoreKeeper, FindByID, Refuse, AnnounceEdit
    <2>. QED  BY <1>1, <2>3 DEF Update, ToStage, SettingsInv, EditsTypeOK, EditOK
  <1>2. SettingsInv /\ [WNext]_vars =>
          [(row # None /\ row' # row) =>
            \E e \in Edits : stage[e] # stage'[e] /\ edit[e].caller \in ever.keeper]_vars
    BY <1>1
  <1>. QED  BY InitSettingsInv, NextSettingsInv, <1>2, PTL DEF WSpec, EditedByKeeper

-----------------------------------------------------------------------------
(* The settings as WorkspacePromise sees them, before and after a change.   *)
LEMMA UpdateKeepsPromise ==
    ASSUME SettingsInv, NEW e \in Edits, Update(e), ~overwritten'
    PROVE  Promise!Next
  <1>1. row = copy[e] /\ UNCHANGED overwritten /\ row' = Changed(e)
    BY DEF Update, SettingsInv, EditsTypeOK
  <1>2. edit[e] \in Edit /\ copy[e] \in Row
    BY DEF Update, SettingsInv, EditOK
  <1>3. row \in Row /\ row' \in Row /\ row # None /\ row' # None
    BY <1>1, <1>2, ChangedType, WorkspaceAssumption
  <1>4. row.phase # None /\ row.phase \in 0 .. 3
    BY <1>3, WorkspaceAssumption DEF Row, Phases
  <1>5. CASE edit[e].op = "phase"
    <2>1. row' = [row EXCEPT !.phase = edit[e].target]
      BY <1>1, <1>5 DEF Changed
    <2>2. edit[e].target = row.phase + 1 /\ edit[e].target \in 0 .. 3
      BY <1>1, <1>2, <1>5 DEF Update, Refused, CanTransitionTo, Edit, Phases
    <2>3. /\ row'.phase = row.phase + 1 /\ row.phase < 3
          /\ row'.keeper = row.keeper /\ row'.details = row.details
          /\ row'.configuration = row.configuration
      BY <1>3, <1>4, <2>1, <2>2 DEF Row
    <2>. QED  BY <1>1, <1>3, <1>4, <2>3 DEF Promise!Next, Promise!Advance
  <1>6. CASE edit[e].op # "phase"
    <2>1. edit[e].op \in {"keeper", "details", "configuration"}
      BY <1>2, <1>6 DEF Edit
    <2>2. \/ /\ row'.phase = row.phase /\ row'.details = row.details
             /\ row'.configuration = row.configuration
          \/ /\ row'.phase = row.phase /\ row'.keeper = row.keeper
             /\ row'.configuration = row.configuration
          \/ /\ row'.phase = row.phase /\ row'.keeper = row.keeper
             /\ row'.details = row.details
      BY <1>1, <1>3, <2>1 DEF Changed, Row
    <2>. QED  BY <1>1, <1>3, <1>4, <2>2 DEF Promise!Next, Promise!ChangeOne
  <1>. QED  BY <1>5, <1>6

(* Until an edit replaces a row it has not read, the settings of Workspace  *)
(* implement WorkspacePromise: every step is one of its steps or none.      *)
THEOREM SettingsKeepPromise == WSpec => KeepsPromise
  <1>1. WInit => Promise!Init
    BY NewWorkspaceType, WorkspaceAssumption DEF WInit, Init, EInit, Promise!Init
  <1>2. ASSUME SettingsInv, [WNext]_vars
        PROVE  [Promise!Next]_<<Promise!settings, overwritten>>
    <2>1. ASSUME NEW r \in Requests, MembershipStep(r),
                 IF workspace' # workspace THEN CreateRow ELSE UNCHANGED <<row, reached>>,
                 UNCHANGED overwritten
          PROVE  Promise!Next \/ UNCHANGED <<row, overwritten>>
      <3>1. CASE workspace' # workspace
        <4>1. row = None
          BY <1>2, <2>1, <3>1, HistoryGrows DEF SettingsInv, RowOK
        <4>2. PICK t \in Texts : row' = NewWorkspace(t)
          BY <2>1, <3>1 DEF CreateRow
        <4>3. row' # None /\ row'.phase = 0
          BY <4>2, NewWorkspaceType, WorkspaceAssumption
        <4>. QED  BY <2>1, <4>1, <4>3 DEF Promise!Next, Promise!Create
      <3>. QED  BY <2>1, <3>1
    <2>2. ASSUME NEW e \in Edits, EditStep(e)
          PROVE  Promise!Next \/ UNCHANGED <<row, overwritten>>
      <3>1. CASE Update(e) /\ ~overwritten'
        BY <1>2, <3>1, UpdateKeepsPromise
      <3>2. CASE overwritten'
        BY <3>2 DEF Promise!Next
      <3>. QED
        BY <2>2, <3>1, <3>2 DEF EditStep, RequireLoreKeeper, FindByID, Refuse, AnnounceEdit
    <2>3. Promise!Next \/ UNCHANGED <<row, overwritten>>
      BY <1>2, <2>1, <2>2 DEF WNext, vars, evars
    <2>. QED  BY <2>3 DEF Promise!settings
  <1>. QED
    BY InitSettingsInv, NextSettingsInv, <1>1, <1>2, PTL
    DEF WSpec, KeepsPromise, Promise!Spec
=============================================================================
