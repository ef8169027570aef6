----------------------------- MODULE Workspace -----------------------------
(***************************************************************************)
(* The settings of a workspace: internal/workspace, on top of the members   *)
(* of Membership.                                                           *)
(*                                                                          *)
(* An edit checks that its caller is a lore keeper, reads the row of the    *)
(* workspace, changes one setting of the copy and writes the whole row      *)
(* back: three database calls, between which other edits and changes of     *)
(* membership may come.                                                     *)
(***************************************************************************)
EXTENDS Membership, FiniteSets

CONSTANTS
    Edits,   \* the requests that change a setting
    Texts,   \* names, descriptions and configurations
    MaxTaken \* bound on the requests and edits that are taken

VARIABLES
    row,        \* the row of the workspace
    stage,      \* where each edit is
    edit,       \* what each edit was asked to do
    copy,       \* the copy of the row an edit works on
    reported,   \* the phase transitions that reached the broker
    reached,    \* history: the phases the stored row has been in
    overwritten \* history: whether an edit replaced a row it had not read

evars == <<row, stage, edit, copy, reported, reached, overwritten>>
vars == <<mvars, evars>>

-----------------------------------------------------------------------------
(* floor, understory, canopy, emergent *)
Phases == 0 .. 3

(* Mutant of CanTransitionTo: any later phase. *)
CanSkipTo(current, target) == target > current

CanTransitionTo(current, target) == target = current + 1

LoreKeeperMode == {"human", "ai", "hybrid"}

(* id is the user named lore keeper; human mode starts without one. *)
Keeper == [mode : LoreKeeperMode, id : Users \cup {None}]

Row == [phase : Phases, keeper : Keeper, details : Texts, configuration : Texts]

ASSUME WorkspaceAssumption ==
    /\ None \notin Row \cup Users \cup Phases
    /\ MaxTaken \in Nat

NewWorkspace(text) ==
    [phase |-> 0, keeper |-> [mode |-> "human", id |-> None],
     details |-> text, configuration |-> text]

Edit == [op : {"phase"}, caller : Users, target : Phases]
          \cup [op : {"keeper"}, caller : Users, mode : LoreKeeperMode, user : Users]
          \cup [op : {"details", "configuration"}, caller : Users, text : Texts]

Stage == {"new", "allowed", "found", "announcing", "ok", "error"}

EInit ==
    /\ row \in IF workspace THEN {NewWorkspace(t) : t \in Texts} ELSE {None}
    /\ stage = [e \in Edits |-> "new"]
    /\ edit = [e \in Edits |-> None]
    /\ copy = [e \in Edits |-> None]
    /\ reported = {}
    /\ reached = IF workspace THEN {0} ELSE {}
    /\ overwritten = FALSE

(* An edit that has ended forgets what it was asked to do, and its copy. *)
ToStage(e, s) ==
    /\ stage' = [stage EXCEPT ![e] = s]
    /\ edit' = [edit EXCEPT ![e] = IF s \in {"ok", "error"} THEN None ELSE @]
    /\ copy' = [copy EXCEPT ![e] = IF s \in {"ok", "error"} THEN None ELSE @]

(* The transaction of CreateWorkspace also inserts the row. *)
CreateRow == row' \in {NewWorkspace(t) : t \in Texts} /\ reached' = {0}

RequireLoreKeeper(e) ==
    /\ stage[e] = "new"
    /\ \/ \E j \in Edit :
            /\ member[j.caller] = "lore_keeper"
            /\ edit' = [edit EXCEPT ![e] = j]
            /\ stage' = [stage EXCEPT ![e] = "allowed"]
            /\ UNCHANGED copy
       \/ (\E u \in Users : member[u] # "lore_keeper") /\ ToStage(e, "error")
    /\ UNCHANGED <<mvars, row, reported, reached, overwritten>>

FindByID(e) ==
    /\ stage[e] = "allowed"
    /\ copy' = [copy EXCEPT ![e] = row]
    /\ stage' = [stage EXCEPT ![e] = "found"]
    /\ UNCHANGED <<mvars, row, edit, reported, reached, overwritten>>

(* The change the domain makes to the copy, and when it refuses. *)
SetLoreKeeper(mode, u) == [mode |-> mode, id |-> IF mode = "ai" THEN None ELSE u]

Refused(e) ==
    \/ edit[e].op = "phase" /\ ~CanTransitionTo(copy[e].phase, edit[e].target)
    \/ edit[e].op = "details" /\ edit[e].text = copy[e].details

(* Mutant of Changed: a new phase comes with a default configuration. *)
ChangedResets(e) ==
    IF edit[e].op = "phase"
    THEN [copy[e] EXCEPT !.phase = edit[e].target,
                         !.configuration = CHOOSE t \in Texts : t # copy[e].configuration]
    ELSE copy[e]

Changed(e) ==
    CASE edit[e].op = "phase"         -> [copy[e] EXCEPT !.phase = edit[e].target]
      [] edit[e].op = "keeper"        -> [copy[e] EXCEPT !.keeper =
                                            SetLoreKeeper(edit[e].mode, edit[e].user)]
      [] edit[e].op = "details"       -> [copy[e] EXCEPT !.details = edit[e].text]
      [] edit[e].op = "configuration" -> [copy[e] EXCEPT !.configuration = edit[e].text]

Refuse(e) ==
    /\ stage[e] = "found"
    /\ Refused(e)
    /\ ToStage(e, "error")
    /\ UNCHANGED <<mvars, row, reported, reached, overwritten>>

(* TransitionPhase, UpdateConfig, UpdateDetails and UpdateConfiguration;    *)
(* the first two go on to publish what they did.                            *)
Update(e) ==
    /\ stage[e] = "found"
    /\ ~Refused(e)
    /\ row' = Changed(e)
    /\ reached' = reached \cup {Changed(e).phase}
    /\ overwritten' = (overwritten \/ row # copy[e])
    /\ ToStage(e, IF edit[e].op \in {"phase", "keeper"} THEN "announcing" ELSE "ok")
    /\ UNCHANGED <<mvars, reported>>

(* workspace.phase.transitioned and workspace.config.updated *)
AnnounceEdit(e) ==
    /\ stage[e] = "announcing"
    /\ \/ /\ reported' = IF edit[e].op = "phase"
                         THEN reported \cup {<<copy[e].phase, edit[e].target>>}
                         ELSE reported
          /\ UNCHANGED faults
       \/ faults < MaxFaults /\ faults' = faults + 1 /\ UNCHANGED reported
    /\ ToStage(e, "ok")
    /\ UNCHANGED <<org, workspace, member, teams, teamMember, at, job, announced, ever, joined>>
    /\ UNCHANGED <<row, reached, overwritten>>

EditStep(e) ==
    \/ RequireLoreKeeper(e) \/ FindByID(e) \/ Refuse(e)
    \/ Update(e) \/ AnnounceEdit(e)

WInit == Init /\ EInit

MayTake ==
    Cardinality({r \in Requests : at[r] # "new"})
      + Cardinality({e \in Edits : stage[e] # "new"}) < MaxTaken

WNext ==
    \/ \E r \in Requests :
        /\ at[r] = "new" => MayTake
        /\ MembershipStep(r)
        /\ IF workspace' # workspace THEN CreateRow ELSE UNCHANGED <<row, reached>>
        /\ UNCHANGED <<stage, edit, copy, reported, overwritten>>
    \/ \E e \in Edits : (stage[e] = "new" => MayTake) /\ EditStep(e)

WSpec == WInit /\ [][WNext]_vars

-----------------------------------------------------------------------------
(* Type correctness of the settings and the edits. *)
EditsTypeOK ==
    /\ row \in Row \cup {None}
    /\ stage \in [Edits -> Stage]
    /\ edit \in [Edits -> Edit \cup {None}]
    /\ copy \in [Edits -> Row \cup {None}]
    /\ reported \in SUBSET (Phases \X Phases)
    /\ reached \in SUBSET Phases
    /\ overwritten \in BOOLEAN

(* No phase is skipped: although edits overwrite one another, a workspace   *)
(* has been in every phase before the one it is in, and every transition    *)
(* that subscribers hear of led from one phase to the next, both of which   *)
(* the stored row was in.                                                   *)
NoPhaseSkipped ==
    /\ row # None => row.phase \in reached
    /\ \A p \in reached : 0 .. p \subseteq reached
    /\ \A t \in reported : t[2] = t[1] + 1 /\ t[1] \in reached /\ t[2] \in reached

(* The settings change only for callers who were lore keepers, though       *)
(* possibly no longer are.                                                  *)
EditedByKeeper ==
    [][(row # None /\ row' # row) =>
            \E e \in Edits : stage[e] # stage'[e] /\ edit[e].caller \in ever.keeper]_vars

(* Edits change one setting each and never undo another, and the phase      *)
(* moves forward ("never backward"), until an edit replaces a row that has  *)
(* changed since it read it.                                                *)
Promise == INSTANCE WorkspacePromise WITH
    LastPhase     <- 3,
    phase         <- IF row = None THEN None ELSE row.phase,
    keeper        <- IF row = None THEN None ELSE row.keeper,
    details       <- IF row = None THEN None ELSE row.details,
    configuration <- IF row = None THEN None ELSE row.configuration,
    void          <- overwritten

KeepsPromise == Promise!Spec
=============================================================================
