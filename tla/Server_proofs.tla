---------------------------- MODULE Server_proofs ----------------------------
(* Theorems about Server, for every number of requests, keys and subjects,  *)
(* and about Migrations, for every number of migrators and files.           *)
EXTENDS Server, Migrations, TLAPS

-----------------------------------------------------------------------------
(* The migrations. *)

LEMMA FileForm ==
    /\ \A s, v : <<s, v>> \in File <=> s \in Schemas /\ v \in 1 .. FileCount[s]
    /\ \A f \in File : f = <<f[1], f[2]>> /\ f[1] \in Schemas /\ f[2] \in 1 .. FileCount[f[1]]
  BY DEF File

LEMMA CountsAreNumbers == Len(FileCount) \in Nat /\ \A s \in Schemas : FileCount[s] \in Nat
  BY MigrationsAssumption DEF Schemas

Working(m) == mstage[m] \in {"schema", "files", "begun", "executed", "written"}

Holds(m) == mstage[m] \in {"executed", "written"}

(* Whatever a migrator has passed is recorded. *)
PassedOK ==
    \A m \in Migrators : Working(m) =>
        /\ \A f \in File : f[1] < turn[m] => f \in recorded
        /\ mstage[m] # "schema" =>
             \A v \in 1 .. FileCount[turn[m]] :
                 v < pos[m] \/ v \in applied[m] => <<turn[m], v>> \in recorded

(* The file a migrator works on. *)
CurrentOK ==
    \A m \in Migrators :
        /\ mstage[m] \in {"files", "begun", "executed", "written"} =>
             applied[m] \subseteq 1 .. FileCount[turn[m]]
        /\ mstage[m] \in {"begun", "executed", "written"} =>
             pos[m] <= FileCount[turn[m]] /\ searchPath[m] = turn[m]
        /\ Holds(m) => Current(m) \notin recorded
        /\ ~Working(m) => turn[m] = 1

LocksOK ==
    \A m, o \in Migrators : m # o /\ Holds(m) /\ Holds(o) => Current(m) # Current(o)

MigrationsInv ==
    /\ MigrationsTypeOK
    /\ MigrationsSound
    /\ PassedOK
    /\ CurrentOK
    /\ LocksOK

LEMMA InitMigrationsInv == GInit => MigrationsInv
  BY MigrationsAssumption
  DEF GInit, MigrationsInv, MigrationsTypeOK, MigrationsSound, VersionsTruthful,
      MigratedInOrder, PassedOK, CurrentOK, LocksOK, Working, Holds, MigratorStage, Schemas

(* A migrator that ends holds nothing and has passed nothing. *)
LEMMA EndKeeps ==
    ASSUME MigrationsInv, NEW m \in Migrators, NEW s \in {"done", "failed"}, End(m, s)
    PROVE  /\ mstage' \in [Migrators -> MigratorStage]
           /\ turn' \in [Migrators -> Schemas]
           /\ pos' \in [Migrators -> Nat \ {0}]
           /\ applied' \in [Migrators -> SUBSET Nat]
           /\ searchPath' \in [Migrators -> Schemas]
           /\ mstage'[m] = s /\ turn'[m] = 1
           /\ \A o \in Migrators \ {m} :
                  /\ mstage'[o] = mstage[o]
                  /\ turn'[o] = turn[o] /\ pos'[o] = pos[o]
                  /\ applied'[o] = applied[o] /\ searchPath'[o] = searchPath[o]
  BY CountsAreNumbers, MigrationsAssumption
  DEF MigrationsInv, MigrationsTypeOK, End, Reach, MigratorStage, Schemas

LEMMA EndInv ==
    ASSUME MigrationsInv, NEW m \in Migrators, NEW s \in {"done", "failed"}, End(m, s),
           UNCHANGED <<recorded, effects, refused>>, aborts' \in 0 .. MaxAborts,
           s = "done" => File \subseteq recorded
    PROVE  MigrationsInv'
  <1>. DEFINE Others == \A o \in Migrators \ {m} :
                  /\ mstage'[o] = mstage[o]
                  /\ turn'[o] = turn[o] /\ pos'[o] = pos[o]
                  /\ applied'[o] = applied[o] /\ searchPath'[o] = searchPath[o]
  <1>1. Others /\ mstage'[m] = s /\ turn'[m] = 1
    BY EndKeeps
  <1>. HIDE DEF Others
  <1>2. MigrationsTypeOK'
    BY EndKeeps DEF MigrationsInv, MigrationsTypeOK, File, Schemas
  <1>3. MigrationsSound'
    BY <1>1 DEF Others, MigrationsInv, MigrationsSound, VersionsTruthful, MigratedInOrder
  <1>4. PassedOK'
    BY <1>1 DEF Others, MigrationsInv, PassedOK, Working
  <1>5. CurrentOK'
    BY <1>1 DEF Others, MigrationsInv, CurrentOK, Working, Holds, Current
  <1>6. LocksOK'
    BY <1>1 DEF Others, MigrationsInv, LocksOK, Holds, Current
  <1>. QED  BY <1>2, <1>3, <1>4, <1>5, <1>6 DEF MigrationsInv

LEMMA OpenSchemaInv ==
    ASSUME MigrationsInv, NEW m \in Migrators, OpenSchema(m)
    PROVE  MigrationsInv'
  <1>. USE DEF OpenSchema, Reach
  <1>0. MigrationsTypeOK
    BY DEF MigrationsInv
  <1>1. MigrationsTypeOK'
    BY <1>0, CountsAreNumbers DEF MigrationsTypeOK, MigratorStage
  <1>2. MigrationsSound'
    BY <1>0 DEF MigrationsTypeOK, MigrationsInv, MigrationsSound, VersionsTruthful, MigratedInOrder
  <1>3. PassedOK'
    BY <1>0, CountsAreNumbers DEF MigrationsTypeOK, MigrationsInv, PassedOK, Working
  <1>4. CurrentOK'
    BY <1>0 DEF MigrationsTypeOK, MigrationsInv, CurrentOK, Working, Holds, Current
  <1>5. LocksOK'
    BY <1>0 DEF MigrationsTypeOK, MigrationsInv, LocksOK, Holds, Current
  <1>. QED  BY <1>1, <1>2, <1>3, <1>4, <1>5 DEF MigrationsInv

LEMMA SkipFileInv ==
    ASSUME MigrationsInv, NEW m \in Migrators, SkipFile(m)
    PROVE  MigrationsInv'
  <1>. USE DEF SkipFile
  <1>0. MigrationsTypeOK
    BY DEF MigrationsInv
  <1>1. MigrationsTypeOK'
    BY <1>0 DEF MigrationsTypeOK
  <1>2. MigrationsSound'
    BY <1>0 DEF MigrationsTypeOK, MigrationsInv, MigrationsSound, VersionsTruthful, MigratedInOrder
  <1>3. PassedOK'
    BY <1>0, CountsAreNumbers DEF MigrationsTypeOK, MigrationsInv, PassedOK, Working
  <1>4. CurrentOK'
    BY <1>0 DEF MigrationsTypeOK, MigrationsInv, CurrentOK, Working, Holds, Current
  <1>5. LocksOK'
    BY <1>0 DEF MigrationsTypeOK, MigrationsInv, LocksOK, Holds, Current
  <1>. QED  BY <1>1, <1>2, <1>3, <1>4, <1>5 DEF MigrationsInv

(* A migrator that leaves a schema has passed all of its files. *)
LEMMA SchemaPassed ==
    ASSUME MigrationsInv, NEW m \in Migrators, mstage[m] = "files", pos[m] > FileCount[turn[m]]
    PROVE  \A f \in File : f[1] <= turn[m] => f \in recorded
  <1>. SUFFICES ASSUME NEW f \in File, f[1] <= turn[m] PROVE f \in recorded
    OBVIOUS
  <1>0. turn[m] \in Schemas /\ pos[m] \in Nat
    BY DEF MigrationsInv, MigrationsTypeOK
  <1>1. f = <<f[1], f[2]>> /\ f[1] \in Schemas /\ f[2] \in 1 .. FileCount[f[1]]
    BY FileForm
  <1>2. CASE f[1] < turn[m]
    BY <1>2 DEF MigrationsInv, PassedOK, Working
  <1>3. CASE f[1] = turn[m]
    <2>1. f[2] < pos[m]
      BY <1>0, <1>1, <1>3, CountsAreNumbers
    <2>2. <<turn[m], f[2]>> \in recorded
      BY <2>1, <1>1, <1>3 DEF MigrationsInv, PassedOK, Working
    <2>. QED  BY <2>2, <1>1, <1>3
  <1>. QED  BY <1>0, <1>1, <1>2, <1>3, CountsAreNumbers DEF Schemas

LEMMA NextSchemaInv ==
    ASSUME MigrationsInv, NEW m \in Migrators, NextSchema(m)
    PROVE  MigrationsInv'
  <1>0. MigrationsTypeOK /\ turn[m] \in Schemas
    BY DEF MigrationsInv, MigrationsTypeOK
  <1>1. \A f \in File : f[1] <= turn[m] => f \in recorded
    BY SchemaPassed DEF NextSchema
  <1>2. CASE turn[m] < Len(FileCount)
    <2>. USE <1>2 DEF NextSchema, Reach
    <2>1. MigrationsTypeOK'
      <3>1. turn[m] + 1 \in Schemas
        BY <1>0, CountsAreNumbers DEF Schemas
      <3>2. turn' \in [Migrators -> Schemas]
        BY <3>1, <1>0 DEF MigrationsTypeOK
      <3>3. mstage' \in [Migrators -> MigratorStage]
        BY <1>0 DEF MigrationsTypeOK, MigratorStage
      <3>4. pos' \in [Migrators -> Nat \ {0}]
        BY <1>0 DEF MigrationsTypeOK
      <3>5. applied' \in [Migrators -> SUBSET Nat]
        BY <1>0 DEF MigrationsTypeOK
      <3>. QED  BY <3>2, <3>3, <3>4, <3>5, <1>0 DEF MigrationsTypeOK
    <2>2. MigrationsSound'
      BY <1>0 DEF MigrationsTypeOK, MigrationsInv, MigrationsSound, VersionsTruthful, MigratedInOrder
    <2>3. PassedOK'
      <3>1. \A f \in File : f[1] < turn[m] + 1 => f \in recorded
        BY <1>0, <1>1, FileForm, CountsAreNumbers DEF Schemas
      <3>. QED  BY <3>1, <1>0 DEF MigrationsTypeOK, MigrationsInv, PassedOK, Working
    <2>4. CurrentOK'
      BY <1>0 DEF MigrationsTypeOK, MigrationsInv, CurrentOK, Working, Holds, Current
    <2>5. LocksOK'
      BY <1>0 DEF MigrationsTypeOK, MigrationsInv, LocksOK, Holds, Current
    <2>. QED  BY <2>1, <2>2, <2>3, <2>4, <2>5 DEF MigrationsInv
  <1>3. CASE ~(turn[m] < Len(FileCount))
    <2>1. File \subseteq recorded
      BY <1>0, <1>1, <1>3, FileForm, CountsAreNumbers DEF Schemas
    <2>2. End(m, "done") /\ UNCHANGED <<recorded, effects, refused, aborts>>
      BY <1>3 DEF NextSchema
    <2>3. aborts' \in 0 .. MaxAborts
      BY <2>2, <1>0 DEF MigrationsTypeOK
    <2>. QED  BY <2>1, <2>2, <2>3, EndInv
  <1>. QED  BY <1>2, <1>3

LEMMA BeginInv ==
    ASSUME MigrationsInv, NEW m \in Migrators, RunAll(m) \/ Begin(m)
    PROVE  MigrationsInv'
  <1>. USE DEF RunAll, Begin, Reach
  <1>0. MigrationsTypeOK
    BY DEF MigrationsInv
  <1>1. MigrationsTypeOK'
    BY <1>0 DEF MigrationsTypeOK, MigratorStage
  <1>2. MigrationsSound'
    BY <1>0 DEF MigrationsTypeOK, MigrationsInv, MigrationsSound, VersionsTruthful, MigratedInOrder
  <1>3. PassedOK'
    <2>1. CASE RunAll(m)
      <3>1. turn[m] = 1 /\ turn' = turn
        BY <2>1 DEF MigrationsInv, CurrentOK, Working
      <3>2. \A f \in File : ~(f[1] < 1)
        BY FileForm, CountsAreNumbers DEF Schemas
      <3>. QED  BY <2>1, <3>1, <3>2, <1>0 DEF MigrationsTypeOK, MigrationsInv, PassedOK, Working
    <2>2. CASE Begin(m)
      BY <2>2, <1>0 DEF MigrationsTypeOK, MigrationsInv, PassedOK, Working
    <2>. QED  BY <2>1, <2>2
  <1>4. CurrentOK'
    BY <1>0 DEF MigrationsTypeOK, MigrationsInv, CurrentOK, Working, Holds, Current
  <1>5. LocksOK'
    BY <1>0 DEF MigrationsTypeOK, MigrationsInv, LocksOK, Holds, Current
  <1>. QED  BY <1>1, <1>2, <1>3, <1>4, <1>5 DEF MigrationsInv

(* Execute and Record, when they do not end the migrator. *)
LEMMA HoldInv ==
    ASSUME MigrationsInv, NEW m \in Migrators, NEW s \in {"executed", "written"},
           mstage[m] \in {"begun", "executed"}, Reach(m, s), Current(m) \notin recorded,
           \A o \in Migrators \ {m} : Holds(o) => Current(o) # Current(m),
           UNCHANGED <<recorded, effects, turn, pos, applied, searchPath, refused, aborts>>
    PROVE  MigrationsInv'
  <1>. USE DEF Reach
  <1>0. MigrationsTypeOK
    BY DEF MigrationsInv
  <1>1. MigrationsTypeOK'
    BY <1>0 DEF MigrationsTypeOK, MigratorStage
  <1>2. MigrationsSound'
    BY <1>0 DEF MigrationsTypeOK, MigrationsInv, MigrationsSound, VersionsTruthful, MigratedInOrder
  <1>3. PassedOK'
    BY <1>0 DEF MigrationsTypeOK, MigrationsInv, PassedOK, Working
  <1>4. CurrentOK'
    BY <1>0 DEF MigrationsTypeOK, MigrationsInv, CurrentOK, Working, Holds, Current
  <1>5. LocksOK'
    BY <1>0 DEF MigrationsTypeOK, MigrationsInv, LocksOK, Holds, Current
  <1>. QED  BY <1>1, <1>2, <1>3, <1>4, <1>5 DEF MigrationsInv

LEMMA ExecuteInv ==
    ASSUME MigrationsInv, NEW m \in Migrators, Execute(m)
    PROVE  MigrationsInv'
  <1>. DEFINE done ==
                \/ \E e \in effects : e[1] = searchPath[m] /\ <<e[2], e[3]>> = Current(m)
                \/ Current(m) \in refused
  <1>1. UNCHANGED <<recorded, effects, refused, aborts>> /\ aborts' \in 0 .. MaxAborts
    BY DEF Execute, MigrationsInv, MigrationsTypeOK
  <1>2. CASE done
    <2>1. End(m, "failed")
      BY <1>2 DEF Execute
    <2>. QED  BY <2>1, <1>1, EndInv
  <1>3. CASE ~done
    <2>1. Current(m) \notin recorded
      <3>1. SUFFICES ASSUME Current(m) \in recorded PROVE done
        BY <1>3
      <3>2. <<turn[m], turn[m], pos[m]>> \in effects
        BY <3>1 DEF MigrationsInv, MigrationsSound, VersionsTruthful, Current
      <3>3. searchPath[m] = turn[m]
        BY DEF Execute, MigrationsInv, CurrentOK
      <3>. QED  BY <3>2, <3>3 DEF Current
    <2>2. /\ Reach(m, "executed")
          /\ UNCHANGED <<recorded, effects, turn, pos, applied, searchPath, refused, aborts>>
      BY <1>3 DEF Execute
    <2>3. \A o \in Migrators \ {m} : Holds(o) => Current(o) # Current(m)
      BY DEF Execute, Holds
    <2>4. mstage[m] \in {"begun", "executed"}
      BY DEF Execute
    <2>. QED  BY <2>1, <2>2, <2>3, <2>4, HoldInv
  <1>. QED  BY <1>2, <1>3

LEMMA RecordInv ==
    ASSUME MigrationsInv, NEW m \in Migrators, Record(m)
    PROVE  MigrationsInv'
  <1>1. Holds(m) /\ Current(m) \notin recorded
    BY DEF Record, Holds, MigrationsInv, CurrentOK
  <1>2. \A o \in Migrators \ {m} : Holds(o) => Current(o) # Current(m)
    BY <1>1 DEF MigrationsInv, LocksOK
  <1>3. /\ Reach(m, "written")
        /\ UNCHANGED <<recorded, effects, turn, pos, applied, searchPath, refused, aborts>>
    BY <1>1 DEF Record
  <1>4. mstage[m] \in {"begun", "executed"}
    BY DEF Record
  <1>. QED  BY <1>1, <1>2, <1>3, <1>4, HoldInv

(* A file is committed after all that come before it. *)
LEMMA CommitFileSound ==
    ASSUME MigrationsInv, NEW m \in Migrators, mstage[m] = "written", CommitFile(m),
           \A o \in Migrators \ {m} : mstage'[o] = mstage[o],
           mstage'[m] # "done"
    PROVE  /\ recorded' \in SUBSET File
           /\ effects' \in SUBSET (Schemas \X Schemas \X Nat)
           /\ recorded \subseteq recorded'
           /\ MigrationsSound'
  <1>0. /\ turn[m] \in Schemas /\ pos[m] \in Nat \ {0} /\ searchPath[m] = turn[m]
        /\ pos[m] <= FileCount[turn[m]]
    BY DEF MigrationsInv, MigrationsTypeOK, CurrentOK
  <1>1. Current(m) \in File
    BY <1>0, FileForm, CountsAreNumbers DEF Current
  <1>2. recorded' = recorded \cup {Current(m)}
    BY DEF CommitFile
  <1>3. effects' = effects \cup {<<turn[m], turn[m], pos[m]>>}
    BY <1>0 DEF CommitFile
  <1>4. VersionsTruthful'
    <2>. DEFINE Of(f) == <<f[1], f[1], f[2]>>
    <2>1. effects = {Of(f) : f \in recorded}
      BY DEF VersionsTruthful, MigrationsInv, MigrationsSound
    <2>2. Of(Current(m)) = <<turn[m], turn[m], pos[m]>>
      BY DEF Current
    <2>. HIDE DEF Of
    <2>3. effects' = {Of(f) : f \in recorded'}
      BY <1>2, <1>3, <2>1, <2>2
    <2>. USE DEF Of
    <2>. QED  BY <2>3 DEF VersionsTruthful
  <1>5. ASSUME NEW g \in recorded', NEW f \in File, Before(f, g)
        PROVE  f \in recorded'
    <2>1. CASE g \in recorded
      BY <2>1, <1>2, <1>5 DEF MigrationsInv, MigrationsSound, MigratedInOrder
    <2>2. CASE g = Current(m)
      <3>1. f[1] < turn[m] \/ (f[1] = turn[m] /\ f[2] < pos[m])
        BY <2>2, <1>5 DEF Before, Current
      <3>2. f = <<f[1], f[2]>> /\ f[2] \in 1 .. FileCount[f[1]]
        BY FileForm
      <3>3. CASE f[1] < turn[m]
        BY <3>3, <1>2 DEF MigrationsInv, PassedOK, Working
      <3>4. CASE f[1] = turn[m] /\ f[2] < pos[m]
        <4>1. <<turn[m], f[2]>> \in recorded
          BY <3>2, <3>4 DEF MigrationsInv, PassedOK, Working
        <4>. QED  BY <4>1, <3>2, <3>4, <1>2
      <3>. QED  BY <3>1, <3>3, <3>4
    <2>. QED  BY <2>1, <2>2, <1>2
  <1>6. MigratedInOrder'
    <2>1. ASSUME NEW o \in Migrators, mstage'[o] = "done" PROVE File \subseteq recorded'
      BY <2>1, <1>2 DEF MigratedInOrder, MigrationsInv, MigrationsSound
    <2>2. File' = File
      BY DEF File, Schemas
    <2>. QED  BY <1>5, <2>1, <2>2 DEF MigratedInOrder, Before
  <1>7. recorded' \in SUBSET File
    BY <1>1, <1>2 DEF MigrationsInv, MigrationsTypeOK
  <1>8. effects' \in SUBSET (Schemas \X Schemas \X Nat)
    BY <1>0, <1>3 DEF MigrationsInv, MigrationsTypeOK
  <1>. QED  BY <1>2, <1>4, <1>6, <1>7, <1>8 DEF MigrationsSound

LEMMA CommitInv ==
    ASSUME MigrationsInv, NEW m \in Migrators, Commit(m)
    PROVE  MigrationsInv'
  <1>. USE DEF Commit, Reach
  <1>0. MigrationsTypeOK /\ turn[m] \in Schemas /\ pos[m] \in Nat \ {0}
    BY DEF MigrationsInv, MigrationsTypeOK
  <1>1. mstage' \in [Migrators -> MigratorStage] /\ mstage'[m] = "files"
    BY <1>0 DEF MigrationsTypeOK, MigratorStage
  <1>2. pos' \in [Migrators -> Nat \ {0}] /\ pos'[m] = pos[m] + 1
    BY <1>0 DEF MigrationsTypeOK
  <1>3. \A o \in Migrators \ {m} : mstage'[o] = mstage[o] /\ pos'[o] = pos[o]
    BY <1>0 DEF MigrationsTypeOK
  <1>4. /\ recorded' \in SUBSET File
        /\ effects' \in SUBSET (Schemas \X Schemas \X Nat)
        /\ recorded \subseteq recorded'
        /\ MigrationsSound'
    BY <1>1, <1>3, CommitFileSound
  <1>5. recorded' = recorded \cup {Current(m)}
    BY DEF CommitFile
  <1>6. MigrationsTypeOK'
    BY <1>0, <1>1, <1>2, <1>4 DEF MigrationsTypeOK, File, Schemas
  <1>7. PassedOK'
    <2>1. ASSUME NEW o \in Migrators \ {m}, Working(o)'
          PROVE  /\ \A f \in File : f[1] < turn[o] => f \in recorded'
                 /\ mstage[o] # "schema" =>
                      \A v \in 1 .. FileCount[turn[o]] :
                          v < pos[o] \/ v \in applied[o] => <<turn[o], v>> \in recorded'
      BY <2>1, <1>3, <1>4 DEF MigrationsInv, PassedOK, Working
    <2>2. \A f \in File : f[1] < turn[m] => f \in recorded'
      BY <1>4 DEF MigrationsInv, PassedOK, Working
    <2>3. ASSUME NEW v \in 1 .. FileCount[turn[m]], v < pos[m] + 1 \/ v \in applied[m]
          PROVE  <<turn[m], v>> \in recorded'
      <3>1. v < pos[m] \/ v = pos[m] \/ v \in applied[m]
        BY <2>3, <1>0, CountsAreNumbers
      <3>. QED  BY <3>1, <1>4, <1>5 DEF MigrationsInv, PassedOK, Working, Current
    <2>. QED  BY <2>1, <2>2, <2>3, <1>1, <1>2, <1>3 DEF PassedOK, Working, File, Schemas
  <1>8. CurrentOK'
    <2>1. ASSUME NEW o \in Migrators \ {m}, Holds(o)
          PROVE  Current(o) \notin recorded'
      <3>1. Holds(m)
        BY DEF Holds
      <3>2. Current(o) # Current(m)
        BY <2>1, <3>1 DEF MigrationsInv, LocksOK
      <3>. QED  BY <2>1, <3>2, <1>5 DEF MigrationsInv, CurrentOK
    <2>. QED  BY <2>1, <1>1, <1>2, <1>3 DEF MigrationsInv, CurrentOK, Working, Holds, Current
  <1>9. LocksOK'
    BY <1>1, <1>3 DEF MigrationsInv, LocksOK, Holds, Current
  <1>. QED  BY <1>4, <1>6, <1>7, <1>8, <1>9 DEF MigrationsInv

(* The commit of a migrator that is killed may have been done: the others   *)
(* go on as after Commit.                                                   *)
LEMMA AbortInv ==
    ASSUME MigrationsInv, NEW m \in Migrators, Abort(m)
    PROVE  MigrationsInv'
  <1>0. MigrationsTypeOK /\ End(m, "failed") /\ aborts' \in 0 .. MaxAborts
    BY MigrationsAssumption DEF MigrationsInv, MigrationsTypeOK, Abort
  <1>1. CASE UNCHANGED <<recorded, effects>>
    BY <1>0, <1>1, EndInv DEF Abort
  <1>2. CASE mstage[m] = "written" /\ CommitFile(m)
    <2>1. /\ mstage'[m] = "failed" /\ turn'[m] = 1
          /\ \A o \in Migrators \ {m} :
                /\ mstage'[o] = mstage[o]
                /\ turn'[o] = turn[o] /\ pos'[o] = pos[o]
                /\ applied'[o] = applied[o] /\ searchPath'[o] = searchPath[o]
      BY <1>0, EndKeeps
    <2>2. /\ recorded' \in SUBSET File
          /\ effects' \in SUBSET (Schemas \X Schemas \X Nat)
          /\ recorded \subseteq recorded'
          /\ MigrationsSound'
      BY <1>2, <2>1, CommitFileSound
    <2>3. recorded' = recorded \cup {Current(m)}
      BY <1>2 DEF CommitFile
    <2>4. MigrationsTypeOK'
      BY <1>0, <2>2, EndKeeps DEF MigrationsTypeOK, File, Schemas, Abort
    <2>5. PassedOK'
      BY <2>1, <2>2 DEF MigrationsInv, PassedOK, Working, File, Schemas
    <2>6. CurrentOK'
      <3>1. ASSUME NEW o \in Migrators \ {m}, Holds(o)
            PROVE  Current(o) \notin recorded'
        <4>1. Holds(m)
          BY <1>2 DEF Holds
        <4>2. Current(o) # Current(m)
          BY <3>1, <4>1 DEF MigrationsInv, LocksOK
        <4>. QED  BY <3>1, <4>2, <2>3 DEF MigrationsInv, CurrentOK
      <3>. QED  BY <3>1, <2>1 DEF MigrationsInv, CurrentOK, Working, Holds, Current
    <2>7. LocksOK'
      BY <2>1 DEF MigrationsInv, LocksOK, Holds, Current
    <2>. QED  BY <2>2, <2>4, <2>5, <2>6, <2>7 DEF MigrationsInv
  <1>. QED  BY <1>1, <1>2 DEF Abort

LEMMA NextMigrationsInv ==
    ASSUME MigrationsInv, MigrationStep \/ UNCHANGED gvars
    PROVE  MigrationsInv'
  <1>1. CASE UNCHANGED gvars
    BY <1>1 DEF gvars, MigrationsInv, MigrationsTypeOK, MigrationsSound, VersionsTruthful,
                MigratedInOrder, Before, PassedOK, CurrentOK, LocksOK, Working, Holds, Current,
                File, Schemas
  <1>2. ASSUME NEW m \in Migrators, MigratorStep(m) \/ Abort(m)
        PROVE  MigrationsInv'
    BY <1>2, BeginInv, OpenSchemaInv, SkipFileInv, NextSchemaInv, ExecuteInv, RecordInv,
       CommitInv, AbortInv DEF MigratorStep
  <1>. QED  BY <1>1, <1>2 DEF MigrationStep

(* However many migrators overlap, and wherever they are stopped,           *)
(* MigrationsInv holds.                                                     *)
LEMMA MigrationsInvariance == MSpec => []MigrationsInv
  BY InitMigrationsInv, NextMigrationsInv, PTL DEF MSpec

-----------------------------------------------------------------------------
(* The keys. *)

AtOK == at \in [Requests -> RequestStage]

(* A request that is assured finds its key whichever document is stored. *)
AssuredOK ==
    \A r \in assured :
        /\ at[r] \in {"validating", "fetching", "fetched", "stored"}
        /\ token[r] \in published
        /\ \A q \in Requests : at[q] = "fetched" => token[r] \in doc[q]
        /\ at[r] = "stored" => token[r] \in keys

(* A key that is gone is in no document, and in the copy only while that is *)
(* too old to be looked at.                                                 *)
GoneOK ==
    /\ published \cap retired = {}
    /\ gone \subseteq retired
    /\ \A k \in gone :
          /\ \A r \in Requests : at[r] = "fetched" => k \notin doc[r]
          /\ k \in keys => stale /\ \A r \in Requests : at[r] = "stored" => token[r] # k

KeysInv == AtOK /\ KeysTypeOK /\ AssuredOK /\ GoneOK

LEMMA InitKeysInv == KInit => KeysInv
  BY TokenKeysAssumption
  DEF KInit, KeysInv, AtOK, RequestStage, KeysTypeOK, AssuredOK, GoneOK

LEMMA ProviderStepKeys ==
    ASSUME KeysInv, ProviderStep
    PROVE  KeysInv'
  <1>. USE DEF KeysInv, AtOK, KeysTypeOK
  <1>1. ASSUME NEW k \in Keys, Publish(k) PROVE KeysInv'
    BY <1>1 DEF Publish, AssuredOK, GoneOK
  <1>2. ASSUME NEW k \in Keys, Retire(k) PROVE KeysInv'
    BY <1>2 DEF Retire, AssuredOK, GoneOK
  <1>3. CASE Expire
    BY <1>3 DEF Expire, Lapsed, Holding, AssuredOK, GoneOK
  <1>. QED  BY <1>1, <1>2, <1>3 DEF ProviderStep

LEMMA ArriveKeys ==
    ASSUME KeysInv, NEW r \in Requests, PresentNothing(r) \/ \E k \in Keys : Present(r, k)
    PROVE  KeysInv'
  <1>. USE DEF KeysInv, AtOK, KeysTypeOK, RequestStage, ToStep
  <1>1. CASE PresentNothing(r)
    BY <1>1 DEF PresentNothing, Refuse, AssuredOK, GoneOK
  <1>2. ASSUME NEW k \in Keys, Present(r, k) PROVE KeysInv'
    <2>1. AtOK' /\ KeysTypeOK'
      BY <1>2 DEF Present
    <2>2. AssuredOK'
      BY <1>2 DEF Present, AssuredOK
    <2>3. GoneOK'
      BY <1>2 DEF Present, GoneOK
    <2>. QED  BY <2>1, <2>2, <2>3
  <1>. QED  BY <1>1, <1>2

LEMMA ValidateKeys ==
    ASSUME KeysInv, NEW r \in Requests, Validate(r)
    PROVE  KeysInv'
  <1>. USE DEF KeysInv, AtOK, KeysTypeOK, RequestStage, ToStep
  <1>1. CASE GetKey(r) \/ LookUpAgain(r)
    <2>1. AtOK' /\ KeysTypeOK'
      BY <1>1 DEF GetKey, LookUpAgain, Verify, Unknown
    <2>2. AssuredOK'
      BY <1>1 DEF GetKey, LookUpAgain, Verify, Unknown, AssuredOK
    <2>3. GoneOK'
      BY <1>1 DEF GetKey, LookUpAgain, Verify, Unknown, GoneOK
    <2>. QED  BY <2>1, <2>2, <2>3
  <1>2. CASE FetchKeys(r)
    BY <1>2 DEF FetchKeys, AssuredOK, GoneOK
  <1>3. CASE FetchFails(r)
    BY <1>3, TokenKeysAssumption DEF FetchFails, Refuse, AssuredOK, GoneOK
  <1>4. CASE StoreKeys(r)
    BY <1>4 DEF StoreKeys, AssuredOK, GoneOK
  <1>. QED  BY <1>1, <1>2, <1>3, <1>4 DEF Validate

(* What a step of an admitted request does to where it is. *)
LEMMA WorkMoves ==
    ASSUME NEW r \in Requests, Work(r), AtOK, KeysTypeOK
    PROVE  /\ at[r] \in {"admitted", "decoded", "missing", "found"}
           /\ \E s \in {"decoded", "missing", "found", "watching", "ended"} :
                 at' = [at EXCEPT ![r] = s]
           /\ faults' \in 0 .. MaxFaults
           /\ UNCHANGED <<published, retired, keys, stale, token, doc, assured, gone, tables, svars>>
  <1>0. CASE UNCHANGED <<at, faults>> /\ AtDatabase(r)
    <2>1. at[r] \in {"decoded", "missing", "found"} /\ at' = [at EXCEPT ![r] = at[r]]
      BY <1>0 DEF AtDatabase, AtOK
    <2>. QED  BY <1>0, <2>1 DEF Work, KeysTypeOK
  <1>1. CASE AccountStep(r) /\ UNCHANGED faults
    BY <1>1 DEF AccountStep, FindByExternalID, CreateUser, UpdateUser, SetLLMConfig,
                DeleteLLMConfig, Answer, Fail, Finish, ToStep, Work, KeysTypeOK
  <1>2. CASE (Decode(r) \/ ServeConn(r)) /\ UNCHANGED faults
    BY <1>2 DEF Decode, ServeConn, ToStep, Work, KeysTypeOK
  <1>3. CASE CallFails(r) /\ faults' \in {faults, faults + 1} /\ (faults' # faults => faults < MaxFaults)
    BY <1>3, TokenKeysAssumption DEF CallFails, AtDatabase, Fail, Finish, ToStep, Work, KeysTypeOK
  <1>. QED  BY <1>0, <1>1, <1>2, <1>3 DEF Work, Acquire, Query

LEMMA WorkKeys ==
    ASSUME KeysInv, NEW r \in Requests, Work(r)
    PROVE  KeysInv'
  <1>1. PICK s \in {"decoded", "missing", "found", "watching", "ended"} :
            at' = [at EXCEPT ![r] = s]
    BY WorkMoves DEF KeysInv
  <1>2. /\ at[r] \in {"admitted", "decoded", "missing", "found"}
        /\ faults' \in 0 .. MaxFaults
        /\ UNCHANGED <<published, retired, keys, stale, token, doc, assured, gone>>
    BY WorkMoves DEF KeysInv
  <1>. QED  BY <1>1, <1>2 DEF KeysInv, AtOK, RequestStage, KeysTypeOK, AssuredOK, GoneOK

LEMMA ExitKeys ==
    ASSUME KeysInv, Exit
    PROVE  KeysInv'
  BY DEF KeysInv, Exit, Active, AtOK, RequestStage, KeysTypeOK, AssuredOK, GoneOK


-----------------------------------------------------------------------------
(* The accounts. *)

(* A request knows its task until it ends, and a row it copied is still     *)
(* there, under the same id.                                                *)
JobOK ==
    \A r \in Requests :
        /\ at[r] \in {"decoded", "missing", "found"} => job[r] \in Operation
        /\ at[r] = "missing" => job[r].op = "register"
        /\ at[r] = "found" =>
             /\ job[r].op = "profile"
             /\ copy[r] \in User
             /\ Row(r) # None /\ Row(r).id = copy[r].id

AccountsInv == AtOK /\ AccountsTypeOK /\ JobOK /\ OneUserPerSubject

LEMMA OperationFields ==
    /\ \A j \in Operation : j # None /\ j.subject \in Subjects
    /\ \A j \in Operation : j.op = "register" => j.name \in Texts
    /\ \A j \in Operation : j.op = "profile" =>
          j.name \in Texts \cup {None} /\ j.avatar \in Texts \cup {None}
    /\ \A u \in User : u # None
  BY AccountsAssumption DEF Operation

LEMMA InitAccountsInv == KInit /\ UInit => AccountsInv
  BY DEF KInit, UInit, AccountsInv, AtOK, RequestStage, AccountsTypeOK, JobOK, OneUserPerSubject

(* A request that changes neither table nor answers. *)
LEMMA MoveAccounts ==
    ASSUME AccountsInv, NEW r \in Requests, NEW s \in RequestStage,
           at' = [at EXCEPT ![r] = s], s \notin {"decoded", "missing", "found"},
           UNCHANGED <<users, configs, told>>,
           job' \in [Requests -> Operation \cup {None}],
           copy' \in [Requests -> User \cup {None}],
           \A q \in Requests \ {r} : job'[q] = job[q] /\ copy'[q] = copy[q]
    PROVE  AccountsInv'
  <1>1. \A q \in Requests \ {r} : at'[q] = at[q]
    BY DEF AccountsInv, AtOK
  <1>2. at'[r] = s
    BY DEF AccountsInv, AtOK
  <1>3. AtOK' /\ AccountsTypeOK' /\ OneUserPerSubject'
    BY DEF AccountsInv, AtOK, AccountsTypeOK, OneUserPerSubject
  <1>4. JobOK'
    BY <1>1, <1>2 DEF AccountsInv, JobOK, Row
  <1>. QED  BY <1>3, <1>4 DEF AccountsInv

LEMMA FailAccounts ==
    ASSUME AccountsInv, NEW r \in Requests, Fail(r) \/ Finish(r), UNCHANGED <<users, configs, told>>
    PROVE  AccountsInv'
  <1>1. /\ at' = [at EXCEPT ![r] = "ended"]
        /\ job' = [job EXCEPT ![r] = None]
        /\ copy' = [copy EXCEPT ![r] = None]
    BY DEF Fail, Finish, ToStep
  <1>2. /\ job' \in [Requests -> Operation \cup {None}]
        /\ copy' \in [Requests -> User \cup {None}]
        /\ \A q \in Requests \ {r} : job'[q] = job[q] /\ copy'[q] = copy[q]
    BY <1>1 DEF AccountsInv, AccountsTypeOK
  <1>3. "ended" \in RequestStage
    BY DEF RequestStage
  <1>. QED  BY <1>1, <1>2, <1>3, MoveAccounts

(* Requests on their way through TokenKeys have no task yet. *)
LEMMA TokenAccounts ==
    ASSUME AccountsInv, NEW r \in Requests,
           Validate(r) \/ PresentNothing(r) \/ (\E k \in Keys : Present(r, k)),
           UNCHANGED uvars
    PROVE  AccountsInv'
  <1>1. \/ UNCHANGED at
        \/ \E s \in {"validating", "fetching", "fetched", "stored", "unknown", "admitted", "ended"} :
              at' = [at EXCEPT ![r] = s]
    BY DEF Validate, GetKey, FetchKeys, FetchFails, StoreKeys, LookUpAgain, Verify, Refuse,
           Unknown, PresentNothing, Present, ToStep
  <1>2. CASE UNCHANGED at
    BY <1>2 DEF AccountsInv, AtOK, AccountsTypeOK, JobOK, Row, OneUserPerSubject, uvars
  <1>3. ASSUME NEW s \in {"validating", "fetching", "fetched", "stored", "unknown", "admitted", "ended"},
               at' = [at EXCEPT ![r] = s]
        PROVE  AccountsInv'
    <2>1. s \in RequestStage /\ s \notin {"decoded", "missing", "found"}
      BY DEF RequestStage
    <2>2. UNCHANGED <<users, configs, told, job, copy>>
      BY DEF uvars
    <2>. QED  BY <1>3, <2>1, <2>2, MoveAccounts DEF AccountsInv, AccountsTypeOK
  <1>. QED  BY <1>1, <1>2, <1>3

LEMMA FindAccounts ==
    ASSUME AccountsInv, NEW r \in Requests, FindByExternalID(r)
    PROVE  AccountsInv'
  <1>. USE DEF FindByExternalID, ToStep
  <1>0. AtOK /\ AccountsTypeOK /\ JobOK /\ OneUserPerSubject /\ job[r] \in Operation
    BY DEF AccountsInv, JobOK
  <1>1. Row(r) \in User \cup {None} /\ job[r].subject \in Subjects
    BY <1>0, OperationFields DEF Row, AccountsTypeOK
  <1>2. CASE job[r].op = "register" /\ Row(r) = None /\ ToStep(r, "missing")
             /\ UNCHANGED <<job, copy, told>>
    <2>1. at' = [at EXCEPT ![r] = "missing"] /\ UNCHANGED <<users, configs, job, copy, told>>
      BY <1>2
    <2>2. AtOK' /\ AccountsTypeOK' /\ OneUserPerSubject'
      BY <1>0, <2>1 DEF AtOK, RequestStage, AccountsTypeOK, OneUserPerSubject
    <2>3. JobOK'
      BY <1>0, <1>2, <2>1 DEF AtOK, JobOK, Row
    <2>. QED  BY <2>2, <2>3 DEF AccountsInv
  <1>3. CASE job[r].op = "profile" /\ Row(r) # None /\ ToStep(r, "found")
             /\ copy' = [copy EXCEPT ![r] = Row(r)] /\ UNCHANGED <<job, told>>
    <2>1. at' = [at EXCEPT ![r] = "found"] /\ UNCHANGED <<users, configs, job, told>>
      BY <1>3
    <2>2. AtOK' /\ OneUserPerSubject'
      BY <1>0, <2>1 DEF AtOK, RequestStage, OneUserPerSubject
    <2>3. AccountsTypeOK'
      BY <1>0, <1>1, <1>3, <2>1 DEF AccountsTypeOK
    <2>4. copy'[r] = Row(r) /\ \A q \in Requests \ {r} : copy'[q] = copy[q]
      BY <1>0, <1>3 DEF AccountsTypeOK
    <2>5. JobOK'
      BY <1>0, <1>1, <1>3, <2>1, <2>4 DEF AtOK, JobOK, Row
    <2>. QED  BY <2>2, <2>3, <2>5 DEF AccountsInv
  <1>4. CASE Row(r) # None /\ Answer(r, Row(r).id)
    <2>1. /\ at' = [at EXCEPT ![r] = "ended"]
          /\ job' = [job EXCEPT ![r] = None]
          /\ copy' = [copy EXCEPT ![r] = None]
          /\ told' = told \cup {<<job[r].subject, Row(r).id>>}
          /\ UNCHANGED <<users, configs>>
      BY <1>4 DEF Answer, Finish
    <2>2. Row(r).id \in Requests
      BY <1>1, <1>4 DEF User
    <2>3. AtOK'
      BY <1>0, <2>1 DEF AtOK, RequestStage
    <2>4. AccountsTypeOK'
      BY <1>0, <1>1, <2>1, <2>2 DEF AccountsTypeOK
    <2>5. OneUserPerSubject'
      BY <1>0, <1>4, <2>1 DEF OneUserPerSubject, Row
    <2>6. JobOK'
      BY <1>0, <2>1 DEF AtOK, AccountsTypeOK, JobOK, Row
    <2>. QED  BY <2>3, <2>4, <2>5, <2>6 DEF AccountsInv
  <1>5. CASE Fail(r) /\ UNCHANGED <<users, configs>>
    BY <1>5, FailAccounts DEF Fail
  <1>. QED  BY <1>2, <1>3, <1>4, <1>5

LEMMA CreateAccounts ==
    ASSUME AccountsInv, NEW r \in Requests, CreateUser(r)
    PROVE  AccountsInv'
  <1>. USE DEF CreateUser
  <1>0. /\ AtOK /\ AccountsTypeOK /\ JobOK /\ OneUserPerSubject
        /\ job[r] \in Operation /\ job[r].op = "register"
    BY DEF AccountsInv, JobOK
  <1>1. job[r].subject \in Subjects /\ NewUser(r) \in User /\ NewUser(r).id = r /\ NewUser(r) # None
    BY <1>0, OperationFields DEF NewUser, User
  <1>2. CASE Row(r) # None
    BY <1>2, FailAccounts DEF Fail
  <1>3. CASE Row(r) = None
    <2>1. /\ at' = [at EXCEPT ![r] = "ended"]
          /\ job' = [job EXCEPT ![r] = None]
          /\ copy' = [copy EXCEPT ![r] = None]
          /\ told' = told \cup {<<job[r].subject, r>>}
          /\ users' = [users EXCEPT ![job[r].subject] = NewUser(r)]
          /\ UNCHANGED configs
      BY <1>3 DEF Answer, Finish, ToStep
    <2>2. AtOK'
      BY <1>0, <2>1 DEF AtOK, RequestStage
    <2>3. AccountsTypeOK'
      <3>1. users' \in [Subjects -> User \cup {None}]
        BY <1>0, <1>1, <2>1 DEF AccountsTypeOK
      <3>. QED  BY <3>1, <1>0, <1>1, <2>1 DEF AccountsTypeOK
    <2>4. /\ users'[job[r].subject] = NewUser(r)
          /\ \A t \in Subjects \ {job[r].subject} : users'[t] = users[t]
      BY <1>0, <1>1, <2>1 DEF AccountsTypeOK
    <2>5. OneUserPerSubject'
      <3>1. ASSUME NEW t \in told PROVE users'[t[1]] # None /\ users'[t[1]].id = t[2]
        <4>1. t[1] \in Subjects /\ t[1] # job[r].subject
          BY <1>0, <1>3 DEF AccountsTypeOK, OneUserPerSubject, Row
        <4>. QED  BY <4>1, <2>4, <1>0 DEF OneUserPerSubject
      <3>. QED  BY <3>1, <2>1, <2>4, <1>1 DEF OneUserPerSubject
    <2>6. JobOK'
      <3>. SUFFICES ASSUME NEW q \in Requests \ {r}
                    PROVE  /\ at[q] \in {"decoded", "missing", "found"} => job[q] \in Operation
                           /\ at[q] = "missing" => job[q].op = "register"
                           /\ at[q] = "found" =>
                                /\ job[q].op = "profile"
                                /\ copy[q] \in User
                                /\ Row(q)' # None /\ Row(q)'.id = copy[q].id
        BY <1>0, <2>1 DEF AtOK, AccountsTypeOK, JobOK, Row
      <3>1. at[q] = "found" => job[q].subject \in Subjects /\ job[q].subject # job[r].subject
        BY <1>0, <1>3, OperationFields DEF JobOK, Row
      <3>2. job'[q] = job[q]
        BY <1>0, <2>1 DEF AccountsTypeOK
      <3>. QED  BY <1>0, <2>4, <3>1, <3>2 DEF JobOK, Row
    <2>. QED  BY <2>2, <2>3, <2>5, <2>6 DEF AccountsInv
  <1>. QED  BY <1>2, <1>3


(* A row that is written back keeps its id. *)
LEMMA UpdateAccounts ==
    ASSUME AccountsInv, NEW r \in Requests, UpdateUser(r)
    PROVE  AccountsInv'
  <1>. USE DEF UpdateUser
  <1>0. /\ AtOK /\ AccountsTypeOK /\ JobOK /\ OneUserPerSubject
        /\ job[r] \in Operation /\ job[r].op = "profile" /\ copy[r] \in User
        /\ Row(r) # None /\ Row(r).id = copy[r].id
    BY DEF AccountsInv, JobOK
  <1>1. UpdateProfile(r) \in User /\ UpdateProfile(r).id = copy[r].id /\ UpdateProfile(r) # None
    <2>1. UpdateProfile(r) \in User /\ UpdateProfile(r).id = copy[r].id
      BY <1>0, OperationFields DEF UpdateProfile, User
    <2>. QED  BY <2>1, OperationFields
  <1>2. CASE UpdateProfile(r) = copy[r]
    BY <1>2, FailAccounts DEF Fail
  <1>3. CASE UpdateProfile(r) # copy[r]
    <2>. DEFINE Mine(s) == users[s] # None /\ users[s].id = copy[r].id
    <2>1. /\ at' = [at EXCEPT ![r] = "ended"]
          /\ job' = [job EXCEPT ![r] = None]
          /\ copy' = [copy EXCEPT ![r] = None]
          /\ told' = told \cup {<<job[r].subject, copy[r].id>>}
          /\ users' = [s \in Subjects |-> IF Mine(s) THEN UpdateProfile(r) ELSE users[s]]
          /\ UNCHANGED configs
      BY <1>3 DEF Answer, Finish, ToStep
    <2>2. AtOK'
      BY <1>0, <2>1 DEF AtOK, RequestStage
    <2>3. copy[r].id \in Requests /\ job[r].subject \in Subjects
      BY <1>0, OperationFields DEF User
    <2>4. AccountsTypeOK'
      <3>1. users' \in [Subjects -> User \cup {None}]
        BY <1>0, <1>1, <2>1 DEF AccountsTypeOK
      <3>. QED  BY <3>1, <1>0, <2>1, <2>3 DEF AccountsTypeOK
    <2>5. \A s \in Subjects :
              users[s] # None => users'[s] # None /\ users'[s].id = users[s].id
      BY <1>1, <2>1
    <2>6. OneUserPerSubject'
      <3>1. users'[job[r].subject] # None /\ users'[job[r].subject].id = copy[r].id
        BY <1>0, <2>3, <2>5 DEF Row
      <3>2. ASSUME NEW t \in told PROVE users'[t[1]] # None /\ users'[t[1]].id = t[2]
        BY <1>0, <2>5 DEF AccountsTypeOK, OneUserPerSubject
      <3>. QED  BY <3>1, <3>2, <2>1 DEF OneUserPerSubject
    <2>7. JobOK'
      <3>. HIDE DEF Mine
      <3>1. ASSUME NEW q \in Requests \ {r}
            PROVE  at'[q] = at[q] /\ job'[q] = job[q] /\ copy'[q] = copy[q]
        BY <1>0, <2>1 DEF AtOK, AccountsTypeOK
      <3>2. ASSUME NEW q \in Requests \ {r}, at[q] = "found"
            PROVE  Row(q)' # None /\ Row(q)'.id = copy[q].id
        <4>1. job[q].subject \in Subjects /\ Row(q) # None /\ Row(q).id = copy[q].id
          BY <1>0, <3>2, OperationFields DEF JobOK
        <4>. QED  BY <4>1, <3>1, <2>5 DEF Row
      <3>3. at'[r] = "ended"
        BY <1>0, <2>1 DEF AtOK
      <3>. QED  BY <1>0, <3>1, <3>2, <3>3 DEF JobOK
    <2>. QED  BY <2>2, <2>4, <2>6, <2>7 DEF AccountsInv
  <1>. QED  BY <1>2, <1>3

LEMMA ConfigAccounts ==
    ASSUME AccountsInv, NEW r \in Requests, SetLLMConfig(r) \/ DeleteLLMConfig(r)
    PROVE  AccountsInv'
  <1>0. AtOK /\ AccountsTypeOK /\ JobOK /\ OneUserPerSubject /\ job[r].subject \in Subjects
    BY OperationFields DEF AccountsInv, JobOK, SetLLMConfig, DeleteLLMConfig
  <1>1. /\ at' = [at EXCEPT ![r] = "ended"]
        /\ job' = [job EXCEPT ![r] = None]
        /\ copy' = [copy EXCEPT ![r] = None]
        /\ UNCHANGED <<users, told>>
    BY DEF SetLLMConfig, DeleteLLMConfig, Finish, ToStep
  <1>2. configs' \in SUBSET Subjects
    BY <1>0 DEF SetLLMConfig, DeleteLLMConfig, AccountsTypeOK
  <1>3. AtOK' /\ AccountsTypeOK' /\ OneUserPerSubject'
    BY <1>0, <1>1, <1>2 DEF AtOK, RequestStage, AccountsTypeOK, OneUserPerSubject
  <1>4. JobOK'
    BY <1>0, <1>1 DEF AtOK, AccountsTypeOK, JobOK, Row
  <1>. QED  BY <1>3, <1>4 DEF AccountsInv

LEMMA DecodeAccounts ==
    ASSUME AccountsInv, NEW r \in Requests, Decode(r) \/ ServeConn(r)
    PROVE  AccountsInv'
  <1>0. AtOK /\ AccountsTypeOK /\ JobOK
    BY DEF AccountsInv
  <1>1. ASSUME NEW j \in Operation, at' = [at EXCEPT ![r] = "decoded"],
               job' = [job EXCEPT ![r] = j], UNCHANGED <<users, configs, copy, told>>
        PROVE  AccountsInv'
    <2>1. AtOK' /\ AccountsTypeOK' /\ OneUserPerSubject'
      BY <1>0, <1>1 DEF AtOK, RequestStage, AccountsTypeOK, OneUserPerSubject, AccountsInv
    <2>2. JobOK'
      BY <1>0, <1>1 DEF AtOK, AccountsTypeOK, JobOK, Row
    <2>. QED  BY <2>1, <2>2 DEF AccountsInv
  <1>2. ASSUME NEW s \in {"ended", "watching"}, at' = [at EXCEPT ![r] = s],
               UNCHANGED <<users, configs, copy, told>>,
               job' = job \/ job' = [job EXCEPT ![r] = None]
        PROVE  AccountsInv'
    <2>1. s \in RequestStage /\ s \notin {"decoded", "missing", "found"}
      BY DEF RequestStage
    <2>2. job' \in [Requests -> Operation \cup {None}] /\ copy' \in [Requests -> User \cup {None}]
      BY <1>0, <1>2 DEF AccountsTypeOK
    <2>3. \A q \in Requests \ {r} : job'[q] = job[q] /\ copy'[q] = copy[q]
      BY <1>0, <1>2 DEF AccountsTypeOK
    <2>. QED  BY <1>2, <2>1, <2>2, <2>3, MoveAccounts
  <1>. QED  BY <1>1, <1>2 DEF Decode, ServeConn, ToStep

LEMMA WorkAccounts ==
    ASSUME AccountsInv, NEW r \in Requests, Work(r)
    PROVE  AccountsInv'
  <1>1. CASE UNCHANGED <<at, uvars>>
    BY <1>1 DEF AccountsInv, AtOK, AccountsTypeOK, JobOK, Row, OneUserPerSubject, uvars
  <1>2. CASE CallFails(r)
    BY <1>2, FailAccounts DEF CallFails, Fail
  <1>3. CASE AccountStep(r)
    BY <1>3, FindAccounts, CreateAccounts, UpdateAccounts, ConfigAccounts DEF AccountStep
  <1>4. CASE Decode(r) \/ ServeConn(r)
    BY <1>4, DecodeAccounts
  <1>. QED  BY <1>1, <1>2, <1>3, <1>4 DEF Work, Acquire, Query

LEMMA ExitAccounts ==
    ASSUME AccountsInv, Exit
    PROVE  AccountsInv'
  <1>1. AtOK' /\ AccountsTypeOK' /\ OneUserPerSubject'
    BY DEF AccountsInv, Exit, AtOK, RequestStage, AccountsTypeOK, OneUserPerSubject
  <1>2. JobOK'
    BY DEF AccountsInv, Exit, Active, AtOK, JobOK
  <1>. QED  BY <1>1, <1>2 DEF AccountsInv

-----------------------------------------------------------------------------
(* The process. *)

(* Who holds a connection is in the middle of a call. *)
ProcessOK ==
    /\ server \in {"serving", "draining"} => open = Len(Resources)
    /\ server \in {"closing", "emptying"} => open > 0
    /\ server \in {"down", "starting"} => \A r \in Requests : ~Active(r)
    /\ server \in {"closing", "emptying"} /\ ~timedOut => \A r \in Requests : ~Active(r)
    /\ \A r \in holding : AtDatabase(r)

ProcessInv == ServerTypeOK /\ ProcessOK

LEMMA FourResources == Len(Resources) = 4 /\ Len(Resources)' = 4
  BY DEF Resources

LEMMA InitProcessInv == SInit => ProcessInv
  <1> SUFFICES ASSUME SInit PROVE ProcessInv
    OBVIOUS
  <1>1. open \in 0 .. Len(Resources) /\ starts \in Nat
    BY FourResources DEF SInit
  <1>2. ServerTypeOK
    BY <1>1 DEF SInit, KInit, ServerTypeOK, RequestStage, ServerStage
  <1>3. ProcessOK
    BY DEF SInit, KInit, ProcessOK, Active
  <1>. QED  BY <1>2, <1>3 DEF ProcessInv

LEMMA HoldersAreActive == \A r \in Requests : AtDatabase(r) => Active(r)
  BY DEF AtDatabase, Active

(* The requests move, the process does not. *)
LEMMA RequestProcess ==
    ASSUME ProcessInv, NEW r \in Requests, server = "serving" \/ Active(r),
           at' \in [Requests -> RequestStage],
           \A q \in Requests \ {r} : at'[q] = at[q] /\ job'[q] = job[q],
           holding' \subseteq holding \cup {r},
           r \in holding' => AtDatabase(r)',
           UNCHANGED <<svars, tables>>
    PROVE  ProcessInv'
  <1>1. ServerTypeOK'
    BY FourResources DEF ProcessInv, ServerTypeOK, svars
  <1>2. server \notin {"down", "starting"} /\ (server \in {"closing", "emptying"} => timedOut)
    BY DEF ProcessInv, ServerTypeOK, ServerStage, ProcessOK
  <1>3. \A q \in holding' : AtDatabase(q)'
    BY DEF ProcessInv, ServerTypeOK, ProcessOK, AtDatabase
  <1>4. ProcessOK'
    BY <1>2, <1>3, FourResources DEF ProcessInv, ProcessOK, svars
  <1>. QED  BY <1>1, <1>4 DEF ProcessInv

(* A request on its way through TokenKeys makes no call of the database. *)
LEMMA TokenProcess ==
    ASSUME ProcessInv, NEW r \in Requests, server = "serving" \/ Active(r),
           Validate(r) \/ PresentNothing(r) \/ (\E k \in Keys : Present(r, k)),
           UNCHANGED <<uvars, dvars, svars>>
    PROVE  ProcessInv'
  <1>1. /\ at[r] \notin {"decoded", "missing", "found"}
        /\ at' = at \/ \E s \in RequestStage : at' = [at EXCEPT ![r] = s]
    BY DEF Validate, GetKey, FetchKeys, FetchFails, StoreKeys, LookUpAgain, Verify, Refuse,
           Unknown, PresentNothing, Present, ToStep, RequestStage
  <1>2. at' \in [Requests -> RequestStage] /\ \A q \in Requests \ {r} : at'[q] = at[q]
    BY <1>1 DEF ProcessInv, ServerTypeOK
  <1>3. UNCHANGED <<job, holding, tables>>
    BY DEF uvars, dvars
  <1>4. r \notin holding'
    BY <1>1, <1>3 DEF ProcessInv, ProcessOK, AtDatabase
  <1>5. holding' \subseteq holding \cup {r}
    BY <1>3
  <1>6. \A q \in Requests \ {r} : at'[q] = at[q] /\ job'[q] = job[q]
    BY <1>2, <1>3
  <1>. QED  BY <1>2, <1>3, <1>4, <1>5, <1>6, RequestProcess

(* A connection is borrowed for a call and returned with its end. *)
LEMMA WorkProcess ==
    ASSUME ProcessInv, AccountsInv, KeysInv, NEW r \in Requests, Work(r)
    PROVE  ProcessInv'
  <1>0. AtOK /\ AccountsTypeOK
    BY DEF AccountsInv
  <1>1. PICK s \in {"decoded", "missing", "found", "watching", "ended"} :
            at' = [at EXCEPT ![r] = s]
    BY WorkMoves DEF KeysInv
  <1>2. Active(r) /\ UNCHANGED <<svars, tables>>
    BY WorkMoves DEF KeysInv, Active
  <1>3. at' \in [Requests -> RequestStage] /\ \A q \in Requests \ {r} : at'[q] = at[q]
    BY <1>0, <1>1 DEF AtOK, RequestStage
  <1>4. job' = job \/ \E j \in Operation \cup {None} : job' = [job EXCEPT ![r] = j]
    <2>1. CASE Acquire(r)
      BY <2>1 DEF Acquire, CallFails, Fail, Finish, uvars
    <2>2. CASE CallFails(r)
      BY <2>2 DEF CallFails, Fail, Finish
    <2>3. CASE AccountStep(r)
      BY <2>3 DEF AccountStep, FindByExternalID, CreateUser, UpdateUser, SetLLMConfig,
                  DeleteLLMConfig, Answer, Fail, Finish
    <2>4. CASE Decode(r) \/ ServeConn(r)
      BY <2>4 DEF Decode, ServeConn
    <2>. QED  BY <2>1, <2>2, <2>3, <2>4 DEF Work, Query
  <1>5. \A q \in Requests \ {r} : job'[q] = job[q]
    BY <1>0, <1>4 DEF AccountsTypeOK
  <1>6. /\ holding' \subseteq holding \cup {r}
        /\ r \in holding' => AtDatabase(r)'
    <2>1. CASE Acquire(r)
      BY <2>1 DEF Acquire, AtDatabase, uvars
    <2>2. CASE Query(r)
      BY <2>2 DEF Query
    <2>3. CASE (Decode(r) \/ ServeConn(r)) /\ UNCHANGED holding
      BY <2>3 DEF Decode, ServeConn, ProcessInv, ProcessOK, AtDatabase
    <2>. QED  BY <2>1, <2>2, <2>3 DEF Work
  <1>. QED  BY <1>2, <1>3, <1>5, <1>6, RequestProcess

ProcessStep ==
    \/ StartServer \/ OpenNext \/ Listen \/ ListenFails \/ Signal
    \/ BeginShutdown \/ FinishShutdown \/ ShutdownTimesOut \/ CloseLast \/ ClosePool

(* The process moves, the requests do not. *)
LEMMA StepProcess ==
    ASSUME ProcessInv, ProcessStep, UNCHANGED <<at, job, dvars>>
    PROVE  ProcessInv'
  <1>0. ServerTypeOK /\ ProcessOK /\ UNCHANGED <<tables, holding>>
    BY DEF ProcessInv, dvars
  <1>1. /\ \A r \in holding' : AtDatabase(r)'
        /\ \A r \in Requests : Active(r)' <=> Active(r)
    BY <1>0 DEF ProcessOK, AtDatabase, Active
  <1>. USE DEF ServerTypeOK, ServerStage
  <1>2. CASE StartServer \/ OpenNext \/ Listen \/ ListenFails \/ Signal \/ BeginShutdown
    <2>. USE DEF StartServer, OpenNext, Listen, ListenFails, Signal, BeginShutdown, Elsewhere
    <2>1. open' \in 0 .. Len(Resources) /\ starts' \in Nat
      BY FourResources, <1>0, <1>2
    <2>2. stopping' \in BOOLEAN /\ timedOut' \in BOOLEAN
      BY <1>0, <1>2
    <2>3. server' \in ServerStage /\ at' \in [Requests -> RequestStage]
      BY <1>0, <1>2
    <2>4. ServerTypeOK'
      BY FourResources, <1>0, <2>1, <2>2, <2>3
    <2>5. ProcessOK'
      BY FourResources, <1>0, <1>1, <1>2, <2>3 DEF ProcessOK
    <2>. QED  BY <2>4, <2>5 DEF ProcessInv
  <1>3. CASE FinishShutdown \/ ShutdownTimesOut \/ CloseLast \/ ClosePool
    <2>. USE DEF FinishShutdown, ShutdownTimesOut, CloseLast, ClosePool, Elsewhere
    <2>1. open' \in 0 .. Len(Resources) /\ starts' \in Nat
      BY FourResources, <1>0, <1>3
    <2>2. stopping' \in BOOLEAN /\ timedOut' \in BOOLEAN
      BY <1>0, <1>3
    <2>3. server' \in ServerStage /\ at' \in [Requests -> RequestStage]
      BY <1>0, <1>3
    <2>4. ServerTypeOK'
      BY FourResources, <1>0, <2>1, <2>2, <2>3
    <2>5. ProcessOK'
      BY FourResources, <1>0, <1>1, <1>3, <2>3 DEF ProcessOK
    <2>. QED  BY <2>4, <2>5 DEF ProcessInv
  <1>. QED  BY <1>2, <1>3 DEF ProcessStep

(* Neither the tables nor the identity provider touch the process. *)
LEMMA WorldProcess ==
    ASSUME ProcessInv, UNCHANGED <<at, job, holding, svars>>, tables' \in SUBSET Tables
    PROVE  ProcessInv'
  <1>1. ServerTypeOK'
    BY FourResources DEF ProcessInv, ServerTypeOK, svars
  <1>2. ProcessOK'
    BY FourResources DEF ProcessInv, ProcessOK, Active, AtDatabase, svars
  <1>. QED  BY <1>1, <1>2 DEF ProcessInv

LEMMA ExitProcess ==
    ASSUME ProcessInv, Exit
    PROVE  ProcessInv'
  <1>0. open' \in 0 .. Len(Resources)'
    BY FourResources DEF Exit
  <1>1. ServerTypeOK'
    BY <1>0 DEF ProcessInv, ServerTypeOK, ServerStage, RequestStage, Exit
  <1>2. server' = "down" /\ holding' = {} /\ \A r \in Requests : ~Active(r)'
    BY DEF ProcessInv, ServerTypeOK, Exit, Active
  <1>3. ProcessOK'
    BY <1>2 DEF ProcessOK
  <1>. QED  BY <1>1, <1>3 DEF ProcessInv

-----------------------------------------------------------------------------
(* The whole. *)

IInv == KeysInv /\ AccountsInv /\ ProcessInv

(* Each step is one of the requests, of the world around them, or of the    *)
(* process.                                                                 *)
LEMMA StepKinds ==
    ASSUME [SNext]_vars
    PROVE  \/ UNCHANGED <<avars, holding, svars>> /\ (MakeTable \/ UNCHANGED tables)
           \/ ProviderStep /\ UNCHANGED <<uvars, dvars, svars>>
           \/ \E r \in Requests :
                 /\ PresentNothing(r) \/ (\E k \in Keys : Present(r, k)) \/ Validate(r)
                 /\ server = "serving" \/ Active(r)
                 /\ UNCHANGED <<uvars, dvars, svars>>
           \/ \E r \in Requests : Work(r)
           \/ /\ ProcessStep
              /\ UNCHANGED <<uvars, dvars>>
              /\ UNCHANGED <<published, retired, keys, stale, at, token, doc, assured, gone>>
              /\ faults' = faults \/ (faults < MaxFaults /\ faults' = faults + 1)
           \/ Exit
  <1>1. CASE UNCHANGED vars
    BY <1>1 DEF vars, dvars
  <1>2. CASE MakeTable
    BY <1>2 DEF MakeTable
  <1>3. CASE ProviderStep /\ UNCHANGED <<uvars, dvars, svars>>
    BY <1>3
  <1>4. ASSUME NEW r \in Requests, Arrive(r) \/ RequestStep(r)
        PROVE  \/ /\ PresentNothing(r) \/ (\E k \in Keys : Present(r, k)) \/ Validate(r)
                  /\ server = "serving" \/ Active(r)
                  /\ UNCHANGED <<uvars, dvars, svars>>
               \/ Work(r)
    BY <1>4 DEF Arrive, RequestStep, Validate, GetKey, FetchKeys, FetchFails, StoreKeys,
                LookUpAgain, Active
  <1>5. CASE ProcessStep
    BY <1>5 DEF ProcessStep, StartServer, OpenNext, Listen, ListenFails, Signal, BeginShutdown,
                FinishShutdown, ShutdownTimesOut, CloseLast, ClosePool, Elsewhere, avars, kvars
  <1>6. CASE OpenFails \/ Return \/ Crash
    BY <1>6 DEF OpenFails, Return, Crash
  <1>. QED  BY <1>1, <1>2, <1>3, <1>4, <1>5, <1>6
            DEF SNext, ServerStart, ServerStop, ProcessStep

LEMMA InitIInv == SInit => IInv
  BY InitKeysInv, InitAccountsInv, InitProcessInv DEF SInit, IInv

LEMMA NextIInv ==
    ASSUME IInv, [SNext]_vars
    PROVE  IInv'
  <1>0. KeysInv /\ AccountsInv /\ ProcessInv
    BY DEF IInv
  <1>2. ASSUME UNCHANGED <<at, uvars>> PROVE AccountsInv'
    BY <1>0, <1>2 DEF AccountsInv, AtOK, AccountsTypeOK, JobOK, Row, OneUserPerSubject, uvars
  <1>3. CASE UNCHANGED <<avars, holding, svars>> /\ (MakeTable \/ UNCHANGED tables)
    <2>1. KeysInv'
      BY <1>0, <1>3 DEF avars, kvars, KeysInv, AtOK, KeysTypeOK, AssuredOK, GoneOK
    <2>2. AccountsInv'
      BY <1>2, <1>3 DEF avars, kvars
    <2>3. tables' \in SUBSET Tables
      BY <1>0, <1>3 DEF MakeTable, ProcessInv, ServerTypeOK
    <2>4. ProcessInv'
      BY <1>0, <1>3, <2>3, WorldProcess DEF avars, kvars, uvars
    <2>. QED  BY <2>1, <2>2, <2>4 DEF IInv
  <1>4. CASE ProviderStep /\ UNCHANGED <<uvars, dvars, svars>>
    <2>1. UNCHANGED at
      BY <1>4 DEF ProviderStep, Publish, Retire, Expire
    <2>2. KeysInv' /\ AccountsInv'
      BY <1>0, <1>2, <1>4, <2>1, ProviderStepKeys
    <2>3. ProcessInv'
      BY <1>0, <1>4, <2>1, WorldProcess DEF uvars, dvars, ProcessInv, ServerTypeOK
    <2>. QED  BY <2>2, <2>3 DEF IInv
  <1>5. ASSUME NEW r \in Requests,
               PresentNothing(r) \/ (\E k \in Keys : Present(r, k)) \/ Validate(r),
               server = "serving" \/ Active(r),
               UNCHANGED <<uvars, dvars, svars>>
        PROVE  IInv'
    <2>1. KeysInv' /\ AccountsInv'
      BY <1>0, <1>5, ArriveKeys, ValidateKeys, TokenAccounts
    <2>2. ProcessInv'
      BY <1>0, <1>5, TokenProcess
    <2>. QED  BY <2>1, <2>2 DEF IInv
  <1>6. ASSUME NEW r \in Requests, Work(r) PROVE IInv'
    BY <1>0, <1>6, WorkKeys, WorkAccounts, WorkProcess DEF IInv
  <1>7. CASE /\ ProcessStep
             /\ UNCHANGED <<uvars, dvars>>
             /\ UNCHANGED <<published, retired, keys, stale, at, token, doc, assured, gone>>
             /\ faults' = faults \/ (faults < MaxFaults /\ faults' = faults + 1)
    <2>1. AccountsInv'
      BY <1>2, <1>7
    <2>2. KeysInv'
      <3>1. faults' \in 0 .. MaxFaults
        BY <1>0, <1>7, TokenKeysAssumption DEF KeysInv, KeysTypeOK
      <3>. QED  BY <1>0, <1>7, <3>1 DEF KeysInv, AtOK, KeysTypeOK, AssuredOK, GoneOK
    <2>3. ProcessInv'
      BY <1>0, <1>7, StepProcess DEF uvars
    <2>. QED  BY <2>1, <2>2, <2>3 DEF IInv
  <1>8. CASE Exit
    BY <1>0, <1>8, ExitKeys, ExitAccounts, ExitProcess DEF IInv
  <1>. QED  BY <1>3, <1>4, <1>5, <1>6, <1>7, <1>8, StepKinds

(* Whatever the server, its callers, the identity provider and whoever      *)
(* migrates do, IInv holds.                                                 *)
LEMMA Invariance == SSpec => []IInv
  BY InitIInv, NextIInv, PTL DEF SSpec

-----------------------------------------------------------------------------
(* The variables of the server keep their types. *)
THEOREM ServerTypes == SSpec => [](KeysTypeOK /\ AccountsTypeOK /\ ServerTypeOK)
  <1>1. IInv => KeysTypeOK /\ AccountsTypeOK /\ ServerTypeOK
    BY DEF IInv, KeysInv, AccountsInv, ProcessInv
  <1>. QED  BY <1>1, Invariance, PTL

(* The variables of the migrators keep their types. *)
THEOREM MigrationTypes == MSpec => []MigrationsTypeOK
  <1>1. MigrationsInv => MigrationsTypeOK
    BY DEF MigrationsInv
  <1>. QED  BY <1>1, MigrationsInvariance, PTL

(* However many migrators overlap and are interrupted, each file takes      *)
(* effect once, in its own schema, in order, and is recorded with it.       *)
THEOREM MigrationsAreSound == MSpec => []MigrationsSound
  <1>1. MigrationsInv => MigrationsSound
    BY DEF MigrationsInv
  <1>. QED  BY <1>1, MigrationsInvariance, PTL

(* A key published since before the request came is known to the validator. *)
THEOREM PublishedKeysAreKnown == SSpec => []PublishedKeyIsKnown
  <1>1. IInv => PublishedKeyIsKnown
    BY DEF IInv, KeysInv, AssuredOK, PublishedKeyIsKnown
  <1>. QED  BY <1>1, Invariance, PTL

(* No two answers name different users for one subject. *)
THEOREM SubjectsHaveOneUser == SSpec => []OneUserPerSubject
  <1>1. IInv => OneUserPerSubject
    BY DEF IInv, AccountsInv
  <1>. QED  BY <1>1, Invariance, PTL

(* Database and broker stay open for every request the server still waits   *)
(* for, and the database for every call that holds a connection.            *)
THEOREM RequestsAreServedToTheEnd == SSpec => []ServedToTheEnd
  <1>1. ASSUME IInv PROVE ServedToTheEnd
    <2>0. ServerTypeOK /\ ProcessOK
      BY <1>1 DEF IInv, ProcessInv
    <2>1. Resources[1] = "database" /\ Resources[2] = "broker"
      BY DEF Resources
    <2>2. ASSUME NEW r \in Requests, Active(r)
          PROVE  timedOut \/ (IsOpen("database") /\ IsOpen("broker"))
      <3>1. server \in {"serving", "draining"} \/ timedOut
        BY <2>0, <2>2 DEF ServerTypeOK, ServerStage, ProcessOK
      <3>2. CASE server \in {"serving", "draining"}
        <4>1. 1 \in 1 .. open /\ 2 \in 1 .. open
          BY <2>0, <3>2, FourResources DEF ProcessOK
        <4>. QED  BY <2>1, <4>1 DEF IsOpen
      <3>. QED  BY <3>1, <3>2
    <2>3. ASSUME NEW r \in holding PROVE IsOpen("database")
      <3>1. Active(r) /\ r \in Requests
        BY <2>0, HoldersAreActive DEF ServerTypeOK, ProcessOK
      <3>2. server \in {"serving", "draining", "closing", "emptying"}
        BY <2>0, <3>1 DEF ServerTypeOK, ServerStage, ProcessOK
      <3>3. 1 \in 1 .. open
        BY <2>0, <3>2, FourResources DEF ServerTypeOK, ProcessOK
      <3>. QED  BY <2>1, <3>3 DEF IsOpen
    <2>. QED  BY <2>2, <2>3 DEF ServedToTheEnd
  <1>. QED  BY <1>1, Invariance, PTL

(* A key whose copies have expired admits nobody. *)
THEOREM RetiredKeysAreRefused == SSpec => RetiredKeyIsRefused
  <1>1. ASSUME IInv, [SNext]_vars
        PROVE  [\A r \in Requests :
                  (at[r] # "admitted" /\ at'[r] = "admitted") => token[r] \notin gone]_kvars
    <2>. SUFFICES ASSUME NEW q \in Requests, at[q] # "admitted", at'[q] = "admitted"
                  PROVE  token[q] \notin gone
      OBVIOUS
    <2>0. AtOK /\ KeysTypeOK /\ GoneOK
      BY <1>1 DEF IInv, KeysInv
    <2>1. ASSUME NEW r \in Requests,
                 PresentNothing(r) \/ (\E k \in Keys : Present(r, k)) \/ Validate(r)
          PROVE  token[q] \notin gone
      <3>1. q = r /\ (GetKey(r) \/ LookUpAgain(r)) /\ token[r] \in keys
        BY <2>0, <2>1 DEF AtOK, PresentNothing, Present, Validate, GetKey, FetchKeys, FetchFails,
                          StoreKeys, LookUpAgain, Verify, Refuse, Unknown, ToStep
      <3>2. CASE GetKey(r)
        BY <2>0, <3>1, <3>2 DEF GetKey, GoneOK, AtOK, Verify, ToStep
      <3>3. CASE LookUpAgain(r)
        BY <2>0, <3>1, <3>3 DEF LookUpAgain, GoneOK
      <3>. QED  BY <3>1, <3>2, <3>3
    <2>2. ~UNCHANGED at
      OBVIOUS
    <2>3. ~\E r \in Requests : Work(r)
      BY <2>0, WorkMoves DEF AtOK
    <2>4. ~Exit
      BY <2>0 DEF Exit, AtOK
    <2>5. ~ProviderStep
      BY <2>2 DEF ProviderStep, Publish, Retire, Expire
    <2>. QED  BY <1>1, <2>1, <2>2, <2>3, <2>4, <2>5, StepKinds DEF avars, kvars
  <1>. QED  BY <1>1, Invariance, PTL DEF SSpec, RetiredKeyIsRefused

=============================================================================
