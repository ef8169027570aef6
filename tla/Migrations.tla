----------------------------- MODULE Migrations -----------------------------
(***************************************************************************)
(* The schemas of the database: cmd/migrate and pkg/database/migration.go.  *)
(*                                                                          *)
(* A migrator goes through the schemas of the bounded contexts in order.    *)
(* In each it reads once which versions are recorded, and then applies the  *)
(* files of the others, each in a transaction that also records it.  It     *)
(* ends at the first error; whoever started it may start it again.  Nothing *)
(* keeps two migrators from running at the same time.  A file may be one    *)
(* that the database never accepts.                                         *)
(***************************************************************************)
EXTENDS Naturals, Sequences

CONSTANTS
    Migrators,  \* processes of cmd/migrate
    FileCount,  \* for each schema, in the order of RunAll, its migration files;
                \* they are numbered in the order of their names
    Doubtful,   \* the files that the database may refuse
    MaxAborts   \* bound on failing calls and killed migrators

VARIABLES
    recorded,   \* the rows of the schema_migrations tables: pairs of a schema
                \* and a version
    effects,    \* what files have done: the schema it happened in, the schema
                \* whose file it was, its version
    mstage,     \* where each migrator is
    turn,       \* the schema it is at
    pos,        \* the file it is at
    applied,    \* the versions it found recorded
    searchPath, \* the first schema on the path of its transaction
    refused,    \* the files that the database refuses, whenever they are tried
    aborts

gvars == <<recorded, effects, mstage, turn, pos, applied, searchPath, refused, aborts>>

-----------------------------------------------------------------------------
Schemas == 1 .. Len(FileCount)

ASSUME MigrationsAssumption ==
    /\ FileCount \in Seq(Nat)
    /\ Len(FileCount) > 0
    /\ MaxAborts \in Nat

File == UNION {{s} \X (1 .. FileCount[s]) : s \in Schemas}

MigratorStage == {"off", "schema", "files", "begun", "executed", "written", "done", "failed"}

(* The schemas are made by the first migrator. *)
GInit ==
    /\ recorded = {}
    /\ effects = {}
    /\ mstage = [m \in Migrators |-> "off"]
    /\ turn = [m \in Migrators |-> 1]
    /\ pos = [m \in Migrators |-> 1]
    /\ applied = [m \in Migrators |-> {}]
    /\ searchPath = [m \in Migrators |-> 1]
    /\ refused \in SUBSET (Doubtful \cap File)
    /\ aborts = 0

Current(m) == <<turn[m], pos[m]>>

Reach(m, s) == mstage' = [mstage EXCEPT ![m] = s]

(* A migrator that has ended forgets everything; its transaction is rolled  *)
(* back.                                                                    *)
End(m, s) ==
    /\ Reach(m, s)
    /\ turn' = [turn EXCEPT ![m] = 1]
    /\ pos' = [pos EXCEPT ![m] = 1]
    /\ applied' = [applied EXCEPT ![m] = {}]
    /\ searchPath' = [searchPath EXCEPT ![m] = 1]

RunAll(m) ==
    /\ mstage[m] \in {"off", "failed"}
    /\ Reach(m, "schema")
    /\ UNCHANGED <<recorded, effects, turn, pos, applied, searchPath, refused, aborts>>

(* Mutant of OpenSchema: what is recorded is not read. *)
OpenSchemaUnread(m) ==
    /\ mstage[m] = "schema"
    /\ applied' = [applied EXCEPT ![m] = {}]
    /\ pos' = [pos EXCEPT ![m] = 1]
    /\ Reach(m, "files")
    /\ UNCHANGED <<recorded, effects, turn, searchPath, refused, aborts>>

(* ensureSchema and ensureTable, which do nothing the second time, then     *)
(* appliedVersions and readMigrations.                                      *)
OpenSchema(m) ==
    /\ mstage[m] = "schema"
    /\ applied' = [applied EXCEPT ![m] = {v \in 1 .. FileCount[turn[m]] :
                                            <<turn[m], v>> \in recorded}]
    /\ pos' = [pos EXCEPT ![m] = 1]
    /\ Reach(m, "files")
    /\ UNCHANGED <<recorded, effects, turn, searchPath, refused, aborts>>

SkipFile(m) ==
    /\ mstage[m] = "files"
    /\ pos[m] \in applied[m]
    /\ pos' = [pos EXCEPT ![m] = @ + 1]
    /\ UNCHANGED <<recorded, effects, mstage, turn, applied, searchPath, refused, aborts>>

NextSchema(m) ==
    /\ mstage[m] = "files"
    /\ pos[m] > FileCount[turn[m]]
    /\ IF turn[m] < Len(FileCount)
       THEN /\ turn' = [turn EXCEPT ![m] = @ + 1]
            /\ pos' = [pos EXCEPT ![m] = 1]
            /\ applied' = [applied EXCEPT ![m] = {}]
            /\ Reach(m, "schema")
            /\ UNCHANGED searchPath
       ELSE End(m, "done")
    /\ UNCHANGED <<recorded, effects, refused, aborts>>

Begin(m) ==
    /\ mstage[m] = "files"
    /\ pos[m] <= FileCount[turn[m]]
    /\ pos[m] \notin applied[m]
    /\ searchPath' = [searchPath EXCEPT ![m] = turn[m]]
    /\ Reach(m, "begun")
    /\ UNCHANGED <<recorded, effects, turn, pos, applied, refused, aborts>>

(* The statements of the file.  All of them create or alter something, so   *)
(* they wait for another transaction that has done the same, and fail when  *)
(* it has been done.  003_add_leaf_search.sql of exploration fails always:  *)
(* its generated column calls array_to_string, which is not immutable.      *)
Execute(m) ==
    /\ mstage[m] = "begun"
    /\ \A o \in Migrators : mstage[o] \in {"executed", "written"} => Current(o) # Current(m)
    /\ IF \/ \E e \in effects : e[1] = searchPath[m] /\ <<e[2], e[3]>> = Current(m)
          \/ Current(m) \in refused
       THEN End(m, "failed")
       ELSE Reach(m, "executed") /\ UNCHANGED <<turn, pos, applied, searchPath>>
    /\ UNCHANGED <<recorded, effects, refused, aborts>>

(* The version is the primary key. *)
Record(m) ==
    /\ mstage[m] = "executed"
    /\ IF Current(m) \in recorded
       THEN End(m, "failed")
       ELSE Reach(m, "written") /\ UNCHANGED <<turn, pos, applied, searchPath>>
    /\ UNCHANGED <<recorded, effects, refused, aborts>>

CommitFile(m) ==
    /\ recorded' = recorded \cup {Current(m)}
    /\ effects' = effects \cup {<<searchPath[m], turn[m], pos[m]>>}

Commit(m) ==
    /\ mstage[m] = "written"
    /\ CommitFile(m)
    /\ pos' = [pos EXCEPT ![m] = @ + 1]
    /\ Reach(m, "files")
    /\ UNCHANGED <<turn, applied, searchPath, refused, aborts>>

(* Mutant of Abort: a file that failed is left for the next time. *)
AbortFileOnly(m) ==
    /\ mstage[m] \in {"begun", "executed", "written"}
    /\ aborts < MaxAborts
    /\ aborts' = aborts + 1
    /\ pos' = [pos EXCEPT ![m] = @ + 1]
    /\ Reach(m, "files")
    /\ UNCHANGED <<recorded, effects, turn, applied, searchPath, refused>>

(* A call fails, or the process is killed; the commit may have been done    *)
(* although nobody heard of it.                                             *)
Abort(m) ==
    /\ mstage[m] \in {"schema", "files", "begun", "executed", "written"}
    /\ aborts < MaxAborts
    /\ aborts' = aborts + 1
    /\ End(m, "failed")
    /\ UNCHANGED refused
    /\ \/ UNCHANGED <<recorded, effects>>
       \/ mstage[m] = "written" /\ CommitFile(m)

MigratorStep(m) ==
    \/ RunAll(m) \/ OpenSchema(m) \/ SkipFile(m) \/ NextSchema(m)
    \/ Begin(m) \/ Execute(m) \/ Record(m) \/ Commit(m)

MigrationStep == \E m \in Migrators : MigratorStep(m) \/ Abort(m)

MSpec == GInit /\ [][MigrationStep]_gvars

(* Migrators go on, and are started again until one has ended well.         *)
MFairSpec == MSpec /\ \A m \in Migrators : WF_gvars(MigratorStep(m))

-----------------------------------------------------------------------------
(* Type correctness: the values each variable ranges over. *)
MigrationsTypeOK ==
    /\ recorded \in SUBSET File
    /\ effects \in SUBSET (Schemas \X Schemas \X Nat)
    /\ mstage \in [Migrators -> MigratorStage]
    /\ turn \in [Migrators -> Schemas]
    /\ pos \in [Migrators -> Nat \ {0}]
    /\ applied \in [Migrators -> SUBSET Nat]
    /\ searchPath \in [Migrators -> Schemas]
    /\ refused \in SUBSET File
    /\ aborts \in 0 .. MaxAborts

(* f comes before g when all schemas are migrated in order. *)
Before(f, g) == f[1] < g[1] \/ (f[1] = g[1] /\ f[2] < g[2])

(* However many migrators run at once, and wherever they are stopped: a     *)
(* version is recorded exactly when its file has taken effect, once and in  *)
(* the schema of its own context; no file takes effect before the files it  *)
(* follows, in its schema and in the schemas ahead; and where a migrator    *)
(* ended well nothing is missing.                                           *)
VersionsTruthful == effects = {<<f[1], f[1], f[2]>> : f \in recorded}

MigratedInOrder ==
    /\ \A g \in recorded : \A f \in File : Before(f, g) => f \in recorded
    /\ \A m \in Migrators : mstage[m] = "done" => File \subseteq recorded

MigrationsSound == VersionsTruthful /\ MigratedInOrder

(* Until it is done, an interrupted migration is taken up again.  It comes  *)
(* to an end with every file applied, or with exactly those that come       *)
(* before the first one the database refuses, however often it is started.  *)
Applicable == {f \in File : \A g \in refused : Before(f, g)}

MigrationsFinish == <>[](recorded = Applicable)
=============================================================================
