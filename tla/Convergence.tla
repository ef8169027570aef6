---------------------------- MODULE Convergence ----------------------------
(***************************************************************************)
(* Consensus checkpoints: internal/convergence and the leaf promotion of    *)
(* internal/exploration.                                                    *)
(*                                                                          *)
(* Every HTTP request is a goroutine.  A request that changes a checkpoint  *)
(* reads its row (FindByID), changes the copy in memory and writes the      *)
(* whole row back (Update); there is no transaction, lock or version check  *)
(* between the read and the write, so each database call is a step of its   *)
(* own here.  Requests are one-shot: Requests bounds how many are served.   *)
(***************************************************************************)
EXTENDS Naturals, Sequences

CONSTANTS
    Requests,     \* the requests served, one goroutine each
    Users,        \* the callers
    Members,      \* the callers that are members of the workspace
    Checkpoints,  \* checkpoint ids
    Leaves,       \* leaf ids
    LeafLists,    \* the leaf lists a caller may open a checkpoint on
    None,         \* no row, no snapshot, no leaf
    MaxFaults,    \* bound on failing database calls and publishes
    MaxCrashes    \* bound on restarts of the server

VARIABLES
    store,      \* the checkpoints table: id -> row
    layer,      \* the layer column of the leaves table
    at,         \* where each request is
    job,        \* what each request was asked to do
    snap,       \* the copy of the row a request works on
    todo,       \* the leaves a resolving request has still to promote
    published,  \* the events that reached the broker
    persisted,  \* history: every row ever written, per checkpoint
    overwritten,\* history: the checkpoints whose row was replaced by a request
                \* that had read an earlier one
    faults,     \* calls that have failed so far
    crashes     \* restarts so far

vars == <<store, layer, at, job, snap, todo, published, persisted, overwritten, faults, crashes>>

-----------------------------------------------------------------------------
(* The domain: Checkpoint and ConsensusSignal. *)

Position == {"align", "concern", "block"}

ConsensusSignal == [user : Users, position : Position]

Checkpoint == [leafIDs : LeafLists,
               status  : {"open", "resolved"},
               signals : Seq(ConsensusSignal)]

NewCheckpoint(leafIDs) ==
    [leafIDs |-> leafIDs, status |-> "open", signals |-> <<>>]

HasSignaled(row, u) == \E i \in DOMAIN row.signals : row.signals[i].user = u

(* Mutants of CanRecordSignal: one of its two checks is forgotten. *)
CanRecordTwice(row, u) == row.status = "open"

CanRecordWhenResolved(row, u) == ~HasSignaled(row, u)

CanRecordSignal(row, u) == row.status = "open" /\ ~HasSignaled(row, u)

RecordSignal(row, u, p) ==
    [row EXCEPT !.signals = Append(@, [user |-> u, position |-> p])]

Resolve(row) == [row EXCEPT !.status = "resolved"]

HasConsensus(row) ==
    /\ row.signals # <<>>
    /\ \A i \in DOMAIN row.signals : row.signals[i].position = "align"

-----------------------------------------------------------------------------
(* Requests, their steps, and the events they publish. *)

Job == [op : {"create"}, ckpt : Checkpoints]
         \cup [op : {"record"}, user : Users, ckpt : Checkpoints, position : Position]
         \cup [op : {"resolve"}, ckpt : Checkpoints]
         \cup [op : {"promote"}, leaf : Leaves]

ASSUME ConvergenceAssumption ==
    /\ Members \subseteq Users
    /\ LeafLists \subseteq Seq(Leaves) \ {<<>>}
    /\ None \notin Leaves \cup Position
    /\ None \notin Checkpoint \cup Job
    /\ MaxFaults \in Nat
    /\ MaxCrashes \in Nat

Phase == {"new", "found", "promoting", "promoted", "announcing", "ok", "error", "lost"}

InFlight == {"found", "promoting", "promoted", "announcing"}

Event == [type : {"checkpoint.created", "consensus.signal.recorded",
                  "consensus.reached", "exploration.leaf.promoted"},
          by   : Requests,
          leaf : {None}]
           \cup [type : {"leaf.promoted"}, by : Requests, leaf : Leaves]

(* The event a request ends with, once its rows are written. *)
FinalEvent(r) ==
    [type |-> CASE job[r].op = "create"  -> "checkpoint.created"
                [] job[r].op = "record"  -> "consensus.signal.recorded"
                [] job[r].op = "resolve" -> "consensus.reached"
                [] job[r].op = "promote" -> "exploration.leaf.promoted",
     by   |-> r,
     leaf |-> None]

Init ==
    /\ store \in [Checkpoints -> {None} \cup {NewCheckpoint(ids) : ids \in LeafLists}]
    /\ layer = [l \in Leaves |-> "understory"]
    /\ at = [r \in Requests |-> "new"]
    /\ job = [r \in Requests |-> None]
    /\ snap = [r \in Requests |-> None]
    /\ todo = [r \in Requests |-> <<>>]
    /\ published = {}
    /\ persisted = [c \in Checkpoints |-> {}]
    /\ overwritten = {}
    /\ faults = 0
    /\ crashes = 0

(* INSERT and Update write whatever they are given; read is what the        *)
(* request last saw of the row.                                             *)
Write(c, read, row) ==
    /\ store' = [store EXCEPT ![c] = row]
    /\ overwritten' = IF store[c] = read THEN overwritten ELSE overwritten \cup {c}
    /\ persisted' = [persisted EXCEPT ![c] = @ \cup {row}]

(* CreateCheckpoint: requireMember, NewCheckpoint with a fresh id, INSERT. *)
CreateCheckpoint(r) ==
    /\ at[r] = "new"
    /\ \E u \in Members, c \in Checkpoints, ids \in LeafLists :
        /\ store[c] = None
        /\ Write(c, None, NewCheckpoint(ids))
        /\ job' = [job EXCEPT ![r] = [op |-> "create", ckpt |-> c]]
    /\ at' = [at EXCEPT ![r] = "announcing"]
    /\ UNCHANGED <<layer, snap, todo, published, faults, crashes>>

(* The FindByID with which recording a position and resolving both begin. *)
FindByID(r) ==
    /\ at[r] = "new"
    /\ \E c \in Checkpoints :
        /\ store[c] # None
        /\ snap' = [snap EXCEPT ![r] = store[c]]
        /\ \/ \E u \in Users, p \in Position :
                job' = [job EXCEPT ![r] = [op |-> "record", user |-> u,
                                           ckpt |-> c, position |-> p]]
           \/ job' = [job EXCEPT ![r] = [op |-> "resolve", ckpt |-> c]]
    /\ at' = [at EXCEPT ![r] = "found"]
    /\ UNCHANGED <<store, layer, todo, published, persisted, overwritten, faults, crashes>>

CanRecord(r) ==
    job[r].op = "record" /\ job[r].user \in Members /\ CanRecordSignal(snap[r], job[r].user)

CanResolve(r) == job[r].op = "resolve" /\ snap[r].status = "open"

(* RecordConsensusPosition after its read: RecordSignal on the copy, Update. *)
RecordConsensusPosition(r) ==
    /\ at[r] = "found"
    /\ CanRecord(r)
    /\ LET row == RecordSignal(snap[r], job[r].user, job[r].position)
       IN  /\ Write(job[r].ckpt, snap[r], row)
           /\ snap' = [snap EXCEPT ![r] = row]
    /\ at' = [at EXCEPT ![r] = "announcing"]
    /\ UNCHANGED <<layer, job, todo, published, faults, crashes>>

(* ResolveCheckpoint after its read: Resolve on the copy, Update, and the   *)
(* branch on the copy's own signals.                                        *)
ResolveCheckpoint(r) ==
    /\ at[r] = "found"
    /\ CanResolve(r)
    /\ LET row == Resolve(snap[r])
       IN  /\ Write(job[r].ckpt, snap[r], row)
           /\ snap' = [snap EXCEPT ![r] = row]
           /\ \/ /\ HasConsensus(row)
                 /\ at' = [at EXCEPT ![r] = "promoting"]
                 /\ todo' = [todo EXCEPT ![r] = row.leafIDs]
              \/ /\ ~HasConsensus(row)
                 /\ at' = [at EXCEPT ![r] = "ok"]
                 /\ UNCHANGED todo
    /\ UNCHANGED <<layer, job, published, faults, crashes>>

(* The domain method or requireMember refuses: the request returns an error. *)
Refuse(r) ==
    /\ at[r] = "found"
    /\ ~CanRecord(r)
    /\ ~CanResolve(r)
    /\ at' = [at EXCEPT ![r] = "error"]
    /\ UNCHANGED <<store, layer, job, snap, todo, published, persisted, overwritten, faults, crashes>>

(* Mutant of UpdateFails: the error is logged and the promotion goes on. *)
UpdateErrorIgnored(r) ==
    /\ at[r] = "found"
    /\ CanResolve(r)
    /\ HasConsensus(snap[r])
    /\ faults < MaxFaults
    /\ faults' = faults + 1
    /\ at' = [at EXCEPT ![r] = "promoting"]
    /\ todo' = [todo EXCEPT ![r] = snap[r].leafIDs]
    /\ UNCHANGED <<store, layer, job, snap, published, persisted, overwritten, crashes>>

(* Update fails: nothing is written and the request returns the error. *)
UpdateFails(r) ==
    /\ at[r] = "found"
    /\ CanRecord(r) \/ CanResolve(r)
    /\ faults < MaxFaults
    /\ faults' = faults + 1
    /\ at' = [at EXCEPT ![r] = "error"]
    /\ UNCHANGED <<store, layer, job, snap, todo, published, persisted, overwritten, crashes>>

(* One round of the promotion loop: UpdateLayer; on an error, continue. *)
UpdateLayer(r) ==
    /\ at[r] = "promoting"
    /\ todo[r] # <<>>
    /\ \/ /\ layer' = [layer EXCEPT ![Head(todo[r])] = "canopy"]
          /\ at' = [at EXCEPT ![r] = "promoted"]
          /\ UNCHANGED <<todo, faults>>
       \/ /\ faults < MaxFaults
          /\ faults' = faults + 1
          /\ todo' = [todo EXCEPT ![r] = Tail(@)]
          /\ UNCHANGED <<layer, at>>
    /\ UNCHANGED <<store, job, snap, published, persisted, overwritten, crashes>>

(* A publish error is logged and otherwise ignored. *)
Publish(e) ==
    \/ published' = published \cup {e} /\ UNCHANGED faults
    \/ faults < MaxFaults /\ faults' = faults + 1 /\ UNCHANGED published

AnnouncePromotion(r) ==
    /\ at[r] = "promoted"
    /\ Publish([type |-> "leaf.promoted", by |-> r, leaf |-> Head(todo[r])])
    /\ todo' = [todo EXCEPT ![r] = Tail(@)]
    /\ at' = [at EXCEPT ![r] = "promoting"]
    /\ UNCHANGED <<store, layer, job, snap, persisted, overwritten, crashes>>

(* Mutant of PromotionDone: the loop misses its last leaf. *)
PromotionCutShort(r) ==
    /\ at[r] = "promoting"
    /\ Len(todo[r]) <= 1
    /\ at' = [at EXCEPT ![r] = "announcing"]
    /\ UNCHANGED <<store, layer, job, snap, todo, published, persisted, overwritten, faults, crashes>>

PromotionDone(r) ==
    /\ at[r] = "promoting"
    /\ todo[r] = <<>>
    /\ at' = [at EXCEPT ![r] = "announcing"]
    /\ UNCHANGED <<store, layer, job, snap, todo, published, persisted, overwritten, faults, crashes>>

(* The event that closes a request, and its successful answer. *)
Announce(r) ==
    /\ at[r] = "announcing"
    /\ Publish(FinalEvent(r))
    /\ at' = [at EXCEPT ![r] = "ok"]
    /\ UNCHANGED <<store, layer, job, snap, todo, persisted, overwritten, crashes>>

(* POST /leaves/{id}/promote: exploration's own promotion, which asks for   *)
(* neither membership nor a checkpoint.                                     *)
PromoteLeaf(r) ==
    /\ at[r] = "new"
    /\ \E l \in Leaves :
        /\ job' = [job EXCEPT ![r] = [op |-> "promote", leaf |-> l]]
        /\ layer' = [layer EXCEPT ![l] = "canopy"]
    /\ at' = [at EXCEPT ![r] = "announcing"]
    /\ UNCHANGED <<store, snap, todo, published, persisted, overwritten, faults, crashes>>

(* The process dies: the goroutines are gone, the tables stay. *)
Crash ==
    /\ crashes < MaxCrashes
    /\ crashes' = crashes + 1
    /\ at' = [r \in Requests |-> IF at[r] \in InFlight THEN "lost" ELSE at[r]]
    /\ UNCHANGED <<store, layer, job, snap, todo, published, persisted, overwritten, faults>>

Step(r) ==
    \/ RecordConsensusPosition(r) \/ ResolveCheckpoint(r)
    \/ Refuse(r) \/ UpdateFails(r)
    \/ UpdateLayer(r) \/ AnnouncePromotion(r) \/ PromotionDone(r)
    \/ Announce(r)

Next ==
    \/ \E r \in Requests :
        \/ CreateCheckpoint(r) \/ FindByID(r) \/ PromoteLeaf(r)
        \/ Step(r)
    \/ Crash

Spec == Init /\ [][Next]_vars

-----------------------------------------------------------------------------
(* Type correctness: the values each variable ranges over. *)
TypeOK ==
    /\ store \in [Checkpoints -> Checkpoint \cup {None}]
    /\ layer \in [Leaves -> {"understory", "canopy"}]
    /\ at \in [Requests -> Phase]
    /\ job \in [Requests -> Job \cup {None}]
    /\ snap \in [Requests -> Checkpoint \cup {None}]
    /\ todo \in [Requests -> Seq(Leaves)]
    /\ published \in SUBSET Event
    /\ persisted \in [Checkpoints -> SUBSET Checkpoint]
    /\ overwritten \in SUBSET Checkpoints
    /\ faults \in Nat
    /\ crashes \in Nat

UniqueSignals(row) ==
    \A i, j \in DOMAIN row.signals : row.signals[i].user = row.signals[j].user => i = j

(* A checkpoint row never holds two positions of one user: the duplicate    *)
(* check of RecordSignal is made on a copy that may be stale by the time it *)
(* is written, and still protects the row.                                  *)
OneSignalPerUser == \A c \in Checkpoints : store[c] # None => UniqueSignals(store[c])

(* Consensus as it is meant: at least one position, no block, no concern. *)
Agreed(row) ==
    /\ row.status = "resolved"
    /\ Len(row.signals) > 0
    /\ \A i \in DOMAIN row.signals : row.signals[i].position \notin {"block", "concern"}

InLeafList(l, row) == \E i \in DOMAIN row.leafIDs : row.leafIDs[i] = l

(* consensus.reached is published only for a checkpoint whose row was, at   *)
(* some time, stored as resolved with at least one position, all "align".   *)
ConsensusJustified ==
    \A e \in published :
        e.type = "consensus.reached" => \E row \in persisted[job[e.by].ckpt] : Agreed(row)

(* A leaf is in the canopy only if such a checkpoint listed it or a caller  *)
(* promoted it directly.                                                    *)
CanopyJustified ==
    \A l \in Leaves :
        layer[l] = "canopy" =>
            \/ \E c \in Checkpoints : \E row \in persisted[c] : Agreed(row) /\ InLeafList(l, row)
            \/ \E r \in Requests : job[r] = [op |-> "promote", leaf |-> l]

(* Behind an announced consensus and behind every leaf in the canopy there  *)
(* is a row that was stored as agreed, or a caller who promoted it.         *)
AgreementBehind == ConsensusJustified /\ CanopyJustified

(* A position that was accepted is in the row, as long as no request has    *)
(* written the row without having seen it as it was.                        *)
Accepted(r) == at[r] \in {"announcing", "ok"} /\ job[r].op = "record"

AcceptedPositionKept ==
    \A r \in Requests :
        (Accepted(r) /\ job[r].ckpt \notin overwritten) =>
            \E i \in DOMAIN store[job[r].ckpt].signals :
                store[job[r].ckpt].signals[i] = [user |-> job[r].user,
                                                 position |-> job[r].position]

PositionTaken(row, u) ==
    IF row # None /\ HasSignaled(row, u)
    THEN row.signals[CHOOSE i \in DOMAIN row.signals : row.signals[i].user = u].position
    ELSE None

Standing(row) ==
    IF row = None THEN "absent"
    ELSE IF row.status = "open" THEN "open"
    ELSE IF Agreed(row) THEN "consensus" ELSE "no consensus"

(* The table, read back, keeps the promise of a checkpoint until one of its *)
(* rows is overwritten: otherwise the read-modify-write is atomic.          *)
Promise == INSTANCE CheckpointPromise WITH
    status    <- [c \in Checkpoints |-> Standing(store[c])],
    positions <- [c \in Checkpoints |-> [u \in Users |-> PositionTaken(store[c], u)]],
    void      <- overwritten

KeepsPromise == Promise!Spec

(* Consensus promotes: a leaf of an agreed checkpoint that is not in the    *)
(* canopy is still on the list of a request that is promoting that          *)
(* checkpoint, however many requests reopen and resolve it, unless a call   *)
(* failed or the server was restarted.                                      *)
PromotionPursued ==
    \A c \in Checkpoints, l \in Leaves :
        (/\ \E row \in persisted[c] : Agreed(row) /\ InLeafList(l, row)
         /\ layer[l] # "canopy"
         /\ faults = 0
         /\ crashes = 0) =>
            \E r \in Requests : /\ at[r] \in {"promoting", "promoted"}
                               /\ job[r].ckpt = c
                               /\ \E i \in DOMAIN todo[r] : todo[r][i] = l
=============================================================================
