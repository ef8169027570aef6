------------------------------- MODULE Server -------------------------------
(***************************************************************************)
(* The server process from its start to its end: cmd/server/main.go and     *)
(* pkg/httpserver, serving the requests of Accounts.                        *)
(*                                                                          *)
(* The process opens its resources one after the other.  Told to stop, it   *)
(* takes no more requests, waits for those it has, but no longer than a     *)
(* time, and closes its resources in reverse.  The last of them is the pool *)
(* of database connections, which waits for those that are lent.            *)
(*                                                                          *)
(* Whether the database has been migrated the process never asks: tables    *)
(* appear when somebody applies the files of Migrations, and until then the *)
(* calls that need them fail.                                               *)
(***************************************************************************)
EXTENDS Accounts, Sequences

CONSTANT
    MaxStarts   \* bound on starts of the server

VARIABLES
    tables,     \* the tables of identity that exist
    holding,    \* the requests that were lent a connection
    server,     \* where the process is
    open,       \* how many of its resources are open
    stopping,   \* whether its context is cancelled
    timedOut,   \* whether it stopped waiting for requests
    starts

svars == <<server, open, stopping, timedOut, starts>>
dvars == <<tables, holding>>
vars == <<avars, dvars, svars>>

-----------------------------------------------------------------------------
ASSUME ServerAssumption == MaxStarts \in Nat

(* In the order in which main opens them. *)
Resources == <<"database", "broker", "bridge", "consumers">>

IsOpen(resource) == \E i \in 1 .. open : Resources[i] = resource

ServerStage == {"down", "starting", "serving", "draining", "closing", "emptying"}

Tables == {"users", "user_llm_configs"}

RequestStage ==
    {"new", "validating", "fetching", "fetched", "stored", "unknown", "admitted", "decoded",
     "missing", "found", "watching", "ended"}

SInit ==
    /\ KInit /\ UInit
    /\ tables = {}
    /\ holding = {}
    /\ server = "down"
    /\ open = 0
    /\ stopping = FALSE
    /\ timedOut = FALSE
    /\ starts = 0

Active(r) ==
    at[r] \in {"validating", "fetching", "fetched", "stored", "admitted", "decoded",
               "missing", "found"}

Elsewhere == <<avars, dvars, starts>>

(* The files of identity are applied in order, by a migrator, migrate.sh or *)
(* make migrate, whenever somebody does; the second table refers to the     *)
(* first.                                                                   *)
MakeTable ==
    /\ \E t \in Tables \ tables :
        /\ t = "user_llm_configs" => "users" \in tables
        /\ tables' = tables \cup {t}
    /\ UNCHANGED <<avars, holding, svars>>

StartServer ==
    /\ server = "down"
    /\ starts < MaxStarts
    /\ server' = "starting"
    /\ starts' = starts + 1
    /\ UNCHANGED <<avars, dvars, open, stopping, timedOut>>

(* All of these calls are given the context of the process. *)
OpenNext ==
    /\ server = "starting"
    /\ open < Len(Resources)
    /\ ~stopping
    /\ open' = open + 1
    /\ UNCHANGED <<server, stopping, timedOut>>
    /\ UNCHANGED Elsewhere

Listen ==
    /\ server = "starting"
    /\ open = Len(Resources)
    /\ server' = "serving"
    /\ UNCHANGED <<open, stopping, timedOut>>
    /\ UNCHANGED Elsewhere

(* The port is taken: the server stops itself. *)
ListenFails ==
    /\ server = "starting"
    /\ open = Len(Resources)
    /\ faults < MaxFaults
    /\ faults' = faults + 1
    /\ server' = "draining"
    /\ stopping' = TRUE
    /\ UNCHANGED <<published, retired, keys, stale, at, token, doc, assured, gone>>
    /\ UNCHANGED <<uvars, dvars, open, timedOut, starts>>

(* SIGINT or SIGTERM *)
Signal ==
    /\ server \in {"starting", "serving"}
    /\ ~stopping
    /\ stopping' = TRUE
    /\ UNCHANGED <<server, open, timedOut>>
    /\ UNCHANGED Elsewhere

BeginShutdown ==
    /\ server = "serving"
    /\ stopping
    /\ server' = "draining"
    /\ UNCHANGED <<open, stopping, timedOut>>
    /\ UNCHANGED Elsewhere

(* Mutant of FinishShutdown: nobody waits. *)
FinishAtOnce ==
    /\ server = "draining"
    /\ server' = "closing"
    /\ UNCHANGED <<open, stopping, timedOut>>
    /\ UNCHANGED Elsewhere

(* Connections that were handed over to the hub are not waited for. *)
FinishShutdown ==
    /\ server = "draining"
    /\ \A r \in Requests : ~Active(r)
    /\ server' = "closing"
    /\ UNCHANGED <<open, stopping, timedOut>>
    /\ UNCHANGED Elsewhere

(* Mutant of ShutdownTimesOut: the context has no timeout. *)
ShutdownWaits ==
    /\ server = "draining"
    /\ \E r \in Requests : Active(r)
    /\ UNCHANGED vars

ShutdownTimesOut ==
    /\ server = "draining"
    /\ \E r \in Requests : Active(r)
    /\ server' = "closing"
    /\ timedOut' = TRUE
    /\ UNCHANGED <<open, stopping>>
    /\ UNCHANGED Elsewhere

(* Consumers and bridge are unsubscribed, the broker is drained, *)
CloseLast ==
    /\ server = "closing"
    /\ open > 1
    /\ open' = open - 1
    /\ UNCHANGED <<server, stopping, timedOut>>
    /\ UNCHANGED Elsewhere

(* and the pool is closed: it lends no more.                                *)
ClosePool ==
    /\ server = "closing"
    /\ open = 1
    /\ server' = "emptying"
    /\ UNCHANGED <<open, stopping, timedOut>>
    /\ UNCHANGED Elsewhere

(* The process is gone, and with it everything in memory. *)
Exit ==
    /\ server' = "down"
    /\ open' = 0
    /\ stopping' = FALSE
    /\ timedOut' = FALSE
    /\ at' = [r \in Requests |-> IF Active(r) \/ at[r] = "watching" THEN "ended" ELSE at[r]]
    /\ job' = [r \in Requests |-> None]
    /\ token' = [r \in Requests |-> IF at[r] = "unknown" THEN token[r] ELSE None]
    /\ assured' = {r \in assured : at[r] = "unknown"}
    /\ keys' = {}
    /\ stale' = TRUE
    /\ doc' = [r \in Requests |-> {}]
    /\ gone' = gone \cup retired
    /\ copy' = [r \in Requests |-> None]
    /\ holding' = {}
    /\ UNCHANGED <<published, retired, faults, users, configs, told>>
    /\ UNCHANGED <<tables, starts>>

(* A resource cannot be opened, because the call fails or the process is    *)
(* told to stop: os.Exit, which skips what was deferred; or main returns,   *)
(* when the pool has all its connections back; or the process is killed.    *)
OpenFails == server = "starting" /\ open < Len(Resources) /\ Exit

Return == server = "emptying" /\ holding = {} /\ Exit

Crash == server \notin {"down", "starting"} /\ Exit

-----------------------------------------------------------------------------
(* A call of the database is lent a connection by the pool, or fails when   *)
(* the pool is closed.                                                      *)
Acquire(r) ==
    /\ AtDatabase(r)
    /\ r \notin holding
    /\ IF IsOpen("database") /\ server # "emptying"
       THEN holding' = holding \cup {r} /\ UNCHANGED <<at, uvars>>
       ELSE CallFails(r) /\ UNCHANGED holding
    /\ UNCHANGED faults

TableOf(r) == IF job[r].op \in {"config", "unset"} THEN "user_llm_configs" ELSE "users"

(* It returns the connection with its result, or with an error.             *)
Query(r) ==
    /\ r \in holding
    /\ holding' = holding \ {r}
    /\ \/ TableOf(r) \in tables /\ AccountStep(r) /\ UNCHANGED faults
       \/ TableOf(r) \notin tables /\ CallFails(r) /\ UNCHANGED faults
       \/ CallFails(r) /\ faults < MaxFaults /\ faults' = faults + 1

Work(r) ==
    /\ \/ Acquire(r)
       \/ Query(r)
       \/ (Decode(r) \/ ServeConn(r)) /\ UNCHANGED <<faults, holding>>
    /\ UNCHANGED <<published, retired, keys, stale, token, doc, assured, gone>>
    /\ UNCHANGED <<tables, svars>>

Arrive(r) ==
    /\ server = "serving"
    /\ PresentNothing(r) \/ \E k \in Keys : Present(r, k)
    /\ UNCHANGED <<uvars, dvars, svars>>

RequestStep(r) ==
    \/ Validate(r) /\ UNCHANGED <<uvars, dvars, svars>>
    \/ Work(r)

ServerStart == OpenNext \/ OpenFails \/ Listen

ServerStop ==
    BeginShutdown \/ FinishShutdown \/ ShutdownTimesOut \/ CloseLast \/ ClosePool \/ Return

SNext ==
    \/ MakeTable
    \/ ProviderStep /\ UNCHANGED <<uvars, dvars, svars>>
    \/ \E r \in Requests :
         \/ Arrive(r)
         \/ RequestStep(r)
    \/ StartServer \/ ServerStart \/ ListenFails \/ Signal \/ ServerStop \/ Crash

SSpec == SInit /\ [][SNext]_vars

(* A process that runs goes on.  Nobody has to send a request, to migrate   *)
(* or to stop the server, and a request may take for ever.                  *)
Fairness == WF_vars(ServerStart) /\ WF_vars(ServerStop)

FairSpec == SSpec /\ Fairness

-----------------------------------------------------------------------------
(* Type correctness of the process. *)
ServerTypeOK ==
    /\ tables \in SUBSET Tables
    /\ holding \in SUBSET Requests
    /\ at \in [Requests -> RequestStage]
    /\ server \in ServerStage
    /\ open \in 0 .. Len(Resources)
    /\ stopping \in BOOLEAN
    /\ timedOut \in BOOLEAN
    /\ starts \in Nat

(* Until a request is answered database and broker stay open, unless the    *)
(* server has stopped waiting for it; and who was lent a connection keeps   *)
(* it even then.                                                            *)
ServedToTheEnd ==
    /\ (\E r \in Requests : Active(r)) =>
           timedOut \/ (IsOpen("database") /\ IsOpen("broker"))
    /\ holding # {} => IsOpen("database")

(* A server that is told to stop ends, whatever its requests wait for,      *)
(* except a call of the database: it ends if these are answered in the end. *)
ShutdownEnds ==
    (\A r \in Requests : []<>(r \notin holding)) => (stopping ~> server = "down")
=============================================================================
