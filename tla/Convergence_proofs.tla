------------------------- MODULE Convergence_proofs -------------------------
(* Theorems about Convergence, for every set of requests, users and leaves. *)
EXTENDS Convergence, TLAPS

-----------------------------------------------------------------------------
(* The operators the actions are built from stay within their types. *)

LEMMA NewCheckpointType ==
    ASSUME NEW ids \in LeafLists
    PROVE  /\ NewCheckpoint(ids) \in Checkpoint
           /\ UniqueSignals(NewCheckpoint(ids))
  BY DEF NewCheckpoint, Checkpoint, UniqueSignals

LEMMA RecordSignalType ==
    ASSUME NEW row \in Checkpoint, NEW u \in Users, NEW p \in Position
    PROVE  RecordSignal(row, u, p) \in Checkpoint
  <1>1. [user |-> u, position |-> p] \in ConsensusSignal
    BY DEF ConsensusSignal
  <1>2. Append(row.signals, [user |-> u, position |-> p]) \in Seq(ConsensusSignal)
    BY <1>1 DEF Checkpoint
  <1>. QED  BY <1>2 DEF RecordSignal, Checkpoint

LEMMA ResolveType ==
    ASSUME NEW row \in Checkpoint
    PROVE  /\ Resolve(row) \in Checkpoint
           /\ Resolve(row).leafIDs = row.leafIDs
           /\ Resolve(row).signals = row.signals
           /\ Resolve(row).status = "resolved"
           /\ row.leafIDs \in Seq(Leaves)
  BY ConvergenceAssumption DEF Resolve, Checkpoint

-----------------------------------------------------------------------------
(* What a request in progress holds. *)
RequestOK ==
    \A r \in Requests :
        /\ at[r] # "new" => job[r] \in Job
        /\ at[r] = "found" => /\ snap[r] \in Checkpoint
                              /\ job[r].op \in {"record", "resolve"}
        /\ at[r] \in {"promoting", "promoted"} => job[r].op = "resolve"
        /\ at[r] = "promoted" => todo[r] # <<>>

TypeInv == TypeOK /\ RequestOK

LEMMA InitTypeInv == Init => TypeInv
  BY NewCheckpointType, ConvergenceAssumption DEF Init, TypeInv, TypeOK, RequestOK, Phase

LEMMA FinalEventType ==
    ASSUME NEW r \in Requests, job[r] \in Job
    PROVE  FinalEvent(r) \in Event
  BY DEF FinalEvent, Event, Job

LEMMA NextTypeInv == TypeInv /\ [Next]_vars => TypeInv'
  <1> SUFFICES ASSUME TypeInv, [Next]_vars PROVE TypeInv'
    OBVIOUS
  <1>. USE DEF TypeInv, TypeOK, RequestOK
  <1>1. ASSUME NEW r \in Requests, CreateCheckpoint(r) PROVE TypeInv'
    BY <1>1, NewCheckpointType DEF CreateCheckpoint, Write, Job, Phase
  <1>2. ASSUME NEW r \in Requests, FindByID(r) PROVE TypeInv'
    BY <1>2 DEF FindByID, Job, Phase
  <1>3. ASSUME NEW r \in Requests, PromoteLeaf(r) PROVE TypeInv'
    BY <1>3 DEF PromoteLeaf, Job, Phase
  <1>4. ASSUME NEW r \in Requests, RecordConsensusPosition(r) PROVE TypeInv'
    <2>1. /\ job[r].user \in Users
          /\ job[r].ckpt \in Checkpoints
          /\ job[r].position \in Position
      BY <1>4 DEF RecordConsensusPosition, CanRecord, Job
    <2>2. RecordSignal(snap[r], job[r].user, job[r].position) \in Checkpoint
      BY <1>4, <2>1, RecordSignalType DEF RecordConsensusPosition
    <2>. QED  BY <1>4, <2>1, <2>2 DEF RecordConsensusPosition, Write, Phase
  <1>5. ASSUME NEW r \in Requests, ResolveCheckpoint(r) PROVE TypeInv'
    <2>1. job[r].ckpt \in Checkpoints
      BY <1>5 DEF ResolveCheckpoint, CanResolve, Job
    <2>2. /\ Resolve(snap[r]) \in Checkpoint
          /\ Resolve(snap[r]).leafIDs \in Seq(Leaves)
      BY <1>5, ResolveType DEF ResolveCheckpoint
    <2>. QED  BY <1>5, <2>1, <2>2 DEF ResolveCheckpoint, CanResolve, Write, Phase
  <1>6. ASSUME NEW r \in Requests, Refuse(r) \/ UpdateFails(r) PROVE TypeInv'
    <2>1. /\ at' = [at EXCEPT ![r] = "error"]
          /\ UNCHANGED <<store, layer, job, snap, todo, published, persisted, overwritten, crashes>>
          /\ faults' \in Nat
          /\ at[r] = "found"
      BY <1>6 DEF Refuse, UpdateFails
    <2>. QED  BY <2>1 DEF Phase
  <1>7. ASSUME NEW r \in Requests, UpdateLayer(r) PROVE TypeInv'
    <2>1. /\ Head(todo[r]) \in Leaves
          /\ Tail(todo[r]) \in Seq(Leaves)
          /\ job[r].op = "resolve"
      BY <1>7 DEF UpdateLayer
    <2>2. TypeOK'
      <3>1. layer' \in [Leaves -> {"understory", "canopy"}]
        BY <1>7, <2>1 DEF UpdateLayer
      <3>2. at' \in [Requests -> Phase]
        BY <1>7 DEF UpdateLayer, Phase
      <3>3. todo' \in [Requests -> Seq(Leaves)]
        BY <1>7, <2>1 DEF UpdateLayer
      <3>4. faults' \in Nat
        BY <1>7 DEF UpdateLayer
      <3>. QED  BY <1>7, <3>1, <3>2, <3>3, <3>4 DEF UpdateLayer
    <2>3. /\ UNCHANGED <<job, snap>>
          /\ at[r] = "promoting"
          /\ \/ at' = [at EXCEPT ![r] = "promoted"] /\ todo' = todo /\ todo[r] # <<>>
             \/ at' = at /\ todo' = [todo EXCEPT ![r] = Tail(@)]
      BY <1>7 DEF UpdateLayer
    <2>4. RequestOK'
      BY <2>1, <2>3
    <2>. QED  BY <2>2, <2>4
  <1>8. ASSUME NEW r \in Requests, AnnouncePromotion(r) PROVE TypeInv'
    <2>1. [type |-> "leaf.promoted", by |-> r, leaf |-> Head(todo[r])] \in Event
      BY <1>8 DEF AnnouncePromotion, Event
    <2>. QED  BY <1>8, <2>1 DEF AnnouncePromotion, Publish, Phase
  <1>9. ASSUME NEW r \in Requests, PromotionDone(r) PROVE TypeInv'
    BY <1>9 DEF PromotionDone, Phase
  <1>10. ASSUME NEW r \in Requests, Announce(r) PROVE TypeInv'
    BY <1>10, FinalEventType DEF Announce, Publish, Phase
  <1>11. CASE Crash
    BY <1>11 DEF Crash, Phase, InFlight
  <1>12. CASE UNCHANGED vars
    BY <1>12 DEF vars
  <1>. QED  BY <1>1, <1>2, <1>3, <1>4, <1>5, <1>6, <1>7, <1>8, <1>9, <1>10, <1>11, <1>12
            DEF Next, Step

(* Type correctness holds in every behaviour. *)
THEOREM TypeCorrect == Spec => []TypeOK
  <1>1. Spec => []TypeInv
    BY InitTypeInv, NextTypeInv, PTL DEF Spec
  <1>2. TypeInv => TypeOK
    BY DEF TypeInv
  <1>. QED  BY <1>1, <1>2, PTL

-----------------------------------------------------------------------------
(* One position per user.  The row is written back from copies that may be  *)
(* stale, so the invariant speaks of the copies too.                        *)

LEMMA RecordSignalUnique ==
    ASSUME NEW row \in Checkpoint, NEW u \in Users, NEW p \in Position,
           UniqueSignals(row), ~HasSignaled(row, u)
    PROVE  UniqueSignals(RecordSignal(row, u, p))
  <1>. DEFINE new == RecordSignal(row, u, p)
  <1>1. /\ row.signals \in Seq(ConsensusSignal)
        /\ new.signals = Append(row.signals, [user |-> u, position |-> p])
    BY DEF Checkpoint, RecordSignal
  <1>2. /\ DOMAIN new.signals = 1 .. Len(row.signals) + 1
        /\ \A i \in 1 .. Len(row.signals) : new.signals[i] = row.signals[i]
        /\ new.signals[Len(row.signals) + 1].user = u
    BY <1>1
  <1>3. \A i \in 1 .. Len(row.signals) : row.signals[i].user # u
    BY <1>1 DEF HasSignaled
  <1>. HIDE DEF new
  <1>4. UniqueSignals(new)
    BY <1>1, <1>2, <1>3 DEF UniqueSignals
  <1>. QED  BY <1>4 DEF new

CopiesUnique == \A r \in Requests : snap[r] # None => UniqueSignals(snap[r])

SignalInv == TypeInv /\ OneSignalPerUser /\ CopiesUnique

LEMMA InitSignalInv == Init => SignalInv
  <1> SUFFICES ASSUME Init PROVE SignalInv
    OBVIOUS
  <1>1. TypeInv
    BY InitTypeInv
  <1>2. OneSignalPerUser
    BY NewCheckpointType DEF Init, OneSignalPerUser
  <1>3. CopiesUnique
    BY DEF Init, CopiesUnique
  <1>. QED  BY <1>1, <1>2, <1>3 DEF SignalInv

LEMMA NextSignalInv == SignalInv /\ [Next]_vars => SignalInv'
  <1> SUFFICES ASSUME SignalInv, [Next]_vars PROVE SignalInv'
    OBVIOUS
  <1>. USE DEF SignalInv, OneSignalPerUser, CopiesUnique
  <1>0. TypeInv'
    BY NextTypeInv
  <1>1. ASSUME NEW r \in Requests, CreateCheckpoint(r) PROVE SignalInv'
    BY <1>0, <1>1, NewCheckpointType DEF CreateCheckpoint, Write, TypeInv, TypeOK
  <1>2. ASSUME NEW r \in Requests, FindByID(r) PROVE SignalInv'
    BY <1>0, <1>2 DEF FindByID, TypeInv, TypeOK
  <1>3. ASSUME NEW r \in Requests, RecordConsensusPosition(r) PROVE SignalInv'
    <2>. DEFINE row == RecordSignal(snap[r], job[r].user, job[r].position)
    <2>1. /\ snap[r] \in Checkpoint
          /\ job[r].user \in Users
          /\ job[r].ckpt \in Checkpoints
          /\ job[r].position \in Position
          /\ ~HasSignaled(snap[r], job[r].user)
      BY <1>3 DEF RecordConsensusPosition, CanRecord, CanRecordSignal, Job,
                  TypeInv, TypeOK, RequestOK
    <2>2. UniqueSignals(row)
      BY <2>1, RecordSignalUnique, ConvergenceAssumption
    <2>3. /\ store' = [store EXCEPT ![job[r].ckpt] = row]
          /\ snap' = [snap EXCEPT ![r] = row]
      BY <1>3 DEF RecordConsensusPosition, Write
    <2>. QED  BY <1>0, <2>1, <2>2, <2>3 DEF TypeInv, TypeOK
  <1>4. ASSUME NEW r \in Requests, ResolveCheckpoint(r) PROVE SignalInv'
    <2>1. /\ snap[r] \in Checkpoint
          /\ job[r].ckpt \in Checkpoints
      BY <1>4 DEF ResolveCheckpoint, CanResolve, Job, TypeInv, TypeOK, RequestOK
    <2>2. UniqueSignals(Resolve(snap[r]))
      BY <2>1, ResolveType, ConvergenceAssumption DEF UniqueSignals
    <2>3. /\ store' = [store EXCEPT ![job[r].ckpt] = Resolve(snap[r])]
          /\ snap' = [snap EXCEPT ![r] = Resolve(snap[r])]
      BY <1>4 DEF ResolveCheckpoint, Write
    <2>. QED  BY <1>0, <2>1, <2>2, <2>3 DEF TypeInv, TypeOK
  <1>5. ASSUME UNCHANGED <<store, snap>> PROVE SignalInv'
    BY <1>0, <1>5
  <1>. QED  BY <1>1, <1>2, <1>3, <1>4, <1>5
            DEF Next, Step, PromoteLeaf, Refuse, UpdateFails, UpdateLayer, AnnouncePromotion,
                PromotionDone, Announce, Crash, vars

(* However requests overlap, fail or are cut off by a crash, no checkpoint  *)
(* row ever holds two positions of one user.                                *)
THEOREM OnePositionPerUser == Spec => []OneSignalPerUser
  <1>1. Spec => []SignalInv
    BY InitSignalInv, NextSignalInv, PTL DEF Spec
  <1>2. SignalInv => OneSignalPerUser
    BY DEF SignalInv
  <1>. QED  BY <1>1, <1>2, PTL
-----------------------------------------------------------------------------
(* Accepted positions are kept.  A request that writes the row it has read  *)
(* adds to it what every accepted request has put there; one that writes    *)
(* over another row gives the checkpoint up for overwritten.                *)

Holds(row, u, p) ==
    \E i \in DOMAIN row.signals : row.signals[i] = [user |-> u, position |-> p]

LEMMA RecordSignalHolds ==
    ASSUME NEW row \in Checkpoint, NEW u \in Users, NEW p \in Position
    PROVE  /\ Holds(RecordSignal(row, u, p), u, p)
           /\ \A v, q : Holds(row, v, q) => Holds(RecordSignal(row, u, p), v, q)
  <1>. DEFINE new == RecordSignal(row, u, p)
              signal == [user |-> u, position |-> p]
  <1>1. /\ row.signals \in Seq(ConsensusSignal)
        /\ new.signals = Append(row.signals, signal)
    BY DEF Checkpoint, RecordSignal
  <1>. HIDE DEF signal
  <1>2. /\ DOMAIN row.signals = 1 .. Len(row.signals)
        /\ DOMAIN new.signals = 1 .. Len(row.signals) + 1
        /\ \A i \in 1 .. Len(row.signals) : new.signals[i] = row.signals[i]
        /\ new.signals[Len(row.signals) + 1] = signal
        /\ Len(row.signals) \in Nat
    BY <1>1
  <1>. HIDE DEF new
  <1>3. Holds(new, u, p)
    <2>1. Len(row.signals) + 1 \in DOMAIN new.signals
      BY <1>2
    <2>. QED  BY <1>2, <2>1 DEF Holds, signal
  <1>4. ASSUME NEW v, NEW q, Holds(row, v, q) PROVE Holds(new, v, q)
    <2>1. PICK i \in DOMAIN row.signals : row.signals[i] = [user |-> v, position |-> q]
      BY <1>4 DEF Holds
    <2>2. i \in DOMAIN new.signals /\ new.signals[i] = row.signals[i]
      BY <1>2
    <2>. QED  BY <2>1, <2>2 DEF Holds
  <1>. QED  BY <1>3, <1>4 DEF new

(* The checkpoint of an accepted position exists. *)
AcceptedExists == \A r \in Requests : Accepted(r) => store[job[r].ckpt] # None

KeptInv == TypeInv /\ AcceptedExists /\ AcceptedPositionKept

LEMMA InitKeptInv == Init => KeptInv
  BY InitTypeInv DEF Init, KeptInv, AcceptedExists, AcceptedPositionKept, Accepted

(* A step that accepts nothing and leaves the tables alone. *)
LEMMA QuietStep ==
    ASSUME KeptInv, TypeInv', UNCHANGED <<store, overwritten>>,
           \A r \in Requests : Accepted(r)' => Accepted(r) /\ job'[r] = job[r]
    PROVE  KeptInv'
  BY DEF KeptInv, AcceptedExists, AcceptedPositionKept

(* A step of request r that writes row over the checkpoint c: what r read   *)
(* is still held by row, and r itself is accepted only with its position.   *)
LEMMA WriteStep ==
    ASSUME KeptInv, TypeInv', NEW r \in Requests, NEW c \in Checkpoints,
           NEW row \in Checkpoint, Write(c, snap[r], row),
           \A v, q : Holds(snap[r], v, q) => Holds(row, v, q),
           \A o \in Requests \ {r} : at'[o] = at[o] /\ job'[o] = job[o],
           Accepted(r)' => job'[r].ckpt = c /\ Holds(row, job'[r].user, job'[r].position)
    PROVE  KeptInv'
  <1>1. /\ store' = [store EXCEPT ![c] = row]
        /\ c \notin overwritten' => store[c] = snap[r]
        /\ overwritten \subseteq overwritten'
        /\ row # None
    BY ConvergenceAssumption DEF Write
  <1>2. store \in [Checkpoints -> Checkpoint \cup {None}] /\ DOMAIN store = Checkpoints
    BY DEF KeptInv, TypeInv, TypeOK
  <1>3. ASSUME NEW o \in Requests, Accepted(o)'
        PROVE  /\ store'[job'[o].ckpt] # None
               /\ job'[o].ckpt \notin overwritten' =>
                    Holds(store'[job'[o].ckpt], job'[o].user, job'[o].position)
    <2>1. CASE o = r
      BY <1>1, <1>2, <1>3, <2>1
    <2>2. CASE o # r
      <3>1. Accepted(o) /\ job'[o] = job[o]
        BY <1>3, <2>2 DEF Accepted
      <3>2. /\ store[job[o].ckpt] # None
            /\ job[o].ckpt \notin overwritten =>
                 Holds(store[job[o].ckpt], job[o].user, job[o].position)
        BY <3>1 DEF KeptInv, AcceptedExists, AcceptedPositionKept, Holds
      <3>3. CASE job[o].ckpt = c
        BY <1>1, <1>2, <3>1, <3>2, <3>3
      <3>4. CASE job[o].ckpt # c
        <4>1. store'[job[o].ckpt] = store[job[o].ckpt]
          BY <1>1, <3>4
        <4>. QED  BY <1>1, <3>1, <3>2, <4>1
      <3>. QED  BY <3>3, <3>4
    <2>. QED  BY <2>1, <2>2
  <1>4. AcceptedExists'
    BY <1>3 DEF AcceptedExists
  <1>5. AcceptedPositionKept'
    BY <1>3 DEF AcceptedPositionKept, Holds
  <1>. QED  BY <1>4, <1>5 DEF KeptInv

LEMMA NextKeptInv == KeptInv /\ [Next]_vars => KeptInv'
  <1> SUFFICES ASSUME KeptInv, [Next]_vars PROVE KeptInv'
    OBVIOUS
  <1>0. TypeInv /\ TypeInv'
    BY NextTypeInv DEF KeptInv
  <1>1. ASSUME NEW r \in Requests, CreateCheckpoint(r) PROVE KeptInv'
    <2>1. PICK c \in Checkpoints, ids \in LeafLists :
            /\ store[c] = None
            /\ Write(c, None, NewCheckpoint(ids))
            /\ job' = [job EXCEPT ![r] = [op |-> "create", ckpt |-> c]]
      BY <1>1 DEF CreateCheckpoint
    <2>2. at' = [at EXCEPT ![r] = "announcing"]
      BY <1>1 DEF CreateCheckpoint
    <2>3. /\ store' = [store EXCEPT ![c] = NewCheckpoint(ids)]
          /\ overwritten' = overwritten
      BY <2>1 DEF Write
    <2>4. \A o \in Requests : Accepted(o)' => Accepted(o) /\ job'[o] = job[o]
      BY <1>0, <2>1, <2>2 DEF Accepted, TypeInv, TypeOK
    <2>5. \A o \in Requests : Accepted(o)' => store'[job'[o].ckpt] = store[job[o].ckpt]
      BY <2>1, <2>3, <2>4 DEF KeptInv, AcceptedExists
    <2>6. AcceptedExists'
      BY <2>4, <2>5 DEF KeptInv, AcceptedExists
    <2>7. AcceptedPositionKept'
      BY <2>3, <2>4, <2>5 DEF KeptInv, AcceptedPositionKept
    <2>. QED  BY <1>0, <2>6, <2>7 DEF KeptInv
  <1>2. ASSUME NEW r \in Requests, RecordConsensusPosition(r) PROVE KeptInv'
    <2>. DEFINE row == RecordSignal(snap[r], job[r].user, job[r].position)
    <2>1. /\ snap[r] \in Checkpoint
          /\ job[r].user \in Users
          /\ job[r].ckpt \in Checkpoints
          /\ job[r].position \in Position
      BY <1>0, <1>2 DEF RecordConsensusPosition, CanRecord, Job, TypeInv, TypeOK, RequestOK
    <2>2. /\ Write(job[r].ckpt, snap[r], row)
          /\ at' = [at EXCEPT ![r] = "announcing"]
          /\ job' = job
      BY <1>2 DEF RecordConsensusPosition
    <2>3. row \in Checkpoint
      BY <2>1, RecordSignalType
    <2>4. /\ Holds(row, job[r].user, job[r].position)
          /\ \A v, q : Holds(snap[r], v, q) => Holds(row, v, q)
      BY <2>1, RecordSignalHolds
    <2>5. \A o \in Requests \ {r} : at'[o] = at[o] /\ job'[o] = job[o]
      BY <1>0, <2>2 DEF TypeInv, TypeOK
    <2>. HIDE DEF row
    <2>. QED  BY <1>0, <2>1, <2>2, <2>3, <2>4, <2>5, WriteStep
  <1>3. ASSUME NEW r \in Requests, ResolveCheckpoint(r) PROVE KeptInv'
    <2>1. /\ snap[r] \in Checkpoint
          /\ job[r].ckpt \in Checkpoints
          /\ job[r].op = "resolve"
      BY <1>0, <1>3 DEF ResolveCheckpoint, CanResolve, Job, TypeInv, TypeOK, RequestOK
    <2>2. /\ Write(job[r].ckpt, snap[r], Resolve(snap[r]))
          /\ \A o \in Requests \ {r} : at'[o] = at[o]
          /\ job' = job
      BY <1>0, <1>3 DEF ResolveCheckpoint, TypeInv, TypeOK
    <2>3. /\ Resolve(snap[r]) \in Checkpoint
          /\ \A v, q : Holds(snap[r], v, q) => Holds(Resolve(snap[r]), v, q)
      BY <2>1, ResolveType DEF Holds
    <2>4. ~Accepted(r)'
      BY <2>1, <2>2 DEF Accepted
    <2>. QED  BY <1>0, <2>1, <2>2, <2>3, <2>4, WriteStep
  <1>4. ASSUME NEW r \in Requests, FindByID(r) PROVE KeptInv'
    <2>1. \A o \in Requests : Accepted(o)' => Accepted(o) /\ job'[o] = job[o]
      BY <1>0, <1>4 DEF FindByID, Accepted, TypeInv, TypeOK
    <2>. QED  BY <1>0, <1>4, <2>1, QuietStep DEF FindByID
  <1>5. ASSUME NEW r \in Requests, PromoteLeaf(r) PROVE KeptInv'
    <2>1. \A o \in Requests : Accepted(o)' => Accepted(o) /\ job'[o] = job[o]
      BY <1>0, <1>5 DEF PromoteLeaf, Accepted, TypeInv, TypeOK
    <2>. QED  BY <1>0, <1>5, <2>1, QuietStep DEF PromoteLeaf
  <1>6. ASSUME NEW r \in Requests,
               \/ Refuse(r) \/ UpdateFails(r) \/ UpdateLayer(r) \/ AnnouncePromotion(r)
               \/ PromotionDone(r) \/ Announce(r)
        PROVE  KeptInv'
    <2>1. UNCHANGED <<store, overwritten, job>>
      BY <1>6 DEF Refuse, UpdateFails, UpdateLayer, AnnouncePromotion, PromotionDone, Announce
    <2>2. \A o \in Requests : Accepted(o)' => Accepted(o)
      BY <1>0, <1>6 DEF Refuse, UpdateFails, UpdateLayer, AnnouncePromotion, PromotionDone,
                        Announce, Accepted, TypeInv, TypeOK, RequestOK
    <2>. QED  BY <1>0, <2>1, <2>2, QuietStep
  <1>7. CASE Crash
    <2>1. \A o \in Requests : Accepted(o)' => Accepted(o) /\ job'[o] = job[o]
      BY <1>0, <1>7 DEF Crash, InFlight, Accepted, TypeInv, TypeOK
    <2>. QED  BY <1>0, <1>7, <2>1, QuietStep DEF Crash
  <1>8. CASE UNCHANGED vars
    BY <1>0, <1>8, QuietStep DEF vars, Accepted
  <1>. QED  BY <1>1, <1>2, <1>3, <1>4, <1>5, <1>6, <1>7, <1>8 DEF Next, Step

(* A position that was accepted stays in its row, for any number of         *)
(* overlapping requests, failures and crashes, as long as no request writes *)
(* the row without having read it as it was.                                *)
THEOREM AcceptedPositionsStay == Spec => []AcceptedPositionKept
  <1>1. Spec => []KeptInv
    BY InitKeptInv, NextKeptInv, PTL DEF Spec
  <1>2. KeptInv => AcceptedPositionKept
    BY DEF KeptInv
  <1>. QED  BY <1>1, <1>2, PTL
-----------------------------------------------------------------------------
(* Consensus promotes.  Only resolving stores an agreed row, and it starts  *)
(* the promotion of all its leaves; a leaf leaves the list of its promoter  *)
(* when it is in the canopy, or by a failure.                               *)

Promoting(r, c, l) ==
    /\ at[r] \in {"promoting", "promoted"}
    /\ job[r].ckpt = c
    /\ \E i \in DOMAIN todo[r] : todo[r][i] = l

HeadPromoted == \A r \in Requests : at[r] = "promoted" => layer[Head(todo[r])] = "canopy"

PursuedInv == TypeInv /\ HeadPromoted /\ PromotionPursued

LEMMA InitPursuedInv == Init => PursuedInv
  BY InitTypeInv DEF Init, PursuedInv, HeadPromoted, PromotionPursued

(* An agreed row has consensus in the sense of the code. *)
LEMMA AgreedHasConsensus ==
    ASSUME NEW row \in Checkpoint, Agreed(row)
    PROVE  HasConsensus(row)
  <1>1. row.signals \in Seq(ConsensusSignal)
    BY DEF Checkpoint
  <1>2. row.signals # <<>>
    BY DEF Agreed
  <1>3. ASSUME NEW i \in DOMAIN row.signals PROVE row.signals[i].position = "align"
    <2>1. row.signals[i] \in ConsensusSignal
      BY <1>1
    <2>2. row.signals[i].position \notin {"block", "concern"}
      BY DEF Agreed
    <2>. QED  BY <2>1, <2>2 DEF ConsensusSignal, Position
  <1>. QED  BY <1>2, <1>3 DEF HasConsensus

(* A step after which every promotion that was under way still is, that     *)
(* stores no new agreed row and takes no leaf out of the canopy.            *)
LEMMA PursuitGoesOn ==
    ASSUME PursuedInv, TypeInv',
           \A c \in Checkpoints : \A row \in persisted'[c] : Agreed(row) => row \in persisted[c],
           \A l \in Leaves : layer[l] = "canopy" => layer'[l] = "canopy",
           faults' = 0 => faults = 0,
           crashes' = 0 => crashes = 0,
           \A r \in Requests, c \in Checkpoints, l \in Leaves :
               (faults' = 0 /\ crashes' = 0 /\ Promoting(r, c, l)) =>
                   Promoting(r, c, l)' \/ layer'[l] = "canopy",
           \A r \in Requests : at'[r] = "promoted" => layer'[Head(todo'[r])] = "canopy"
    PROVE  PursuedInv'
  <1>1. HeadPromoted'
    BY DEF HeadPromoted
  <1>2. ASSUME NEW c \in Checkpoints, NEW l \in Leaves,
               \E row \in persisted'[c] : Agreed(row) /\ InLeafList(l, row),
               layer'[l] # "canopy", faults' = 0, crashes' = 0
        PROVE  \E r \in Requests : Promoting(r, c, l)'
    <2>1. /\ \E row \in persisted[c] : Agreed(row) /\ InLeafList(l, row)
          /\ layer[l] # "canopy"
          /\ faults = 0
          /\ crashes = 0
      BY <1>2
    <2>2. PICK r \in Requests : Promoting(r, c, l)
      BY <2>1 DEF PursuedInv, PromotionPursued, Promoting
    <2>. QED  BY <1>2, <2>2
  <1>3. PromotionPursued'
    BY <1>2 DEF PromotionPursued, Promoting, InLeafList, Agreed
  <1>. QED  BY <1>1, <1>3 DEF PursuedInv

LEMMA NextPursuedInv == PursuedInv /\ [Next]_vars => PursuedInv'
  <1> SUFFICES ASSUME PursuedInv, [Next]_vars PROVE PursuedInv'
    OBVIOUS
  <1>0. TypeInv /\ TypeInv'
    BY NextTypeInv DEF PursuedInv
  <1>1. ASSUME NEW r \in Requests, CreateCheckpoint(r) PROVE PursuedInv'
    <2>1. PICK c \in Checkpoints, ids \in LeafLists :
            /\ Write(c, None, NewCheckpoint(ids))
            /\ job' = [job EXCEPT ![r] = [op |-> "create", ckpt |-> c]]
      BY <1>1 DEF CreateCheckpoint
    <2>2. ~Agreed(NewCheckpoint(ids))
      BY DEF Agreed, NewCheckpoint
    <2>3. \A d \in Checkpoints : \A row \in persisted'[d] : Agreed(row) => row \in persisted[d]
      BY <1>0, <2>1, <2>2 DEF Write, TypeInv, TypeOK
    <2>4. /\ at[r] = "new"
          /\ at' = [at EXCEPT ![r] = "announcing"]
          /\ UNCHANGED <<layer, todo, faults, crashes>>
      BY <1>1 DEF CreateCheckpoint
    <2>5. \A q \in Requests, d \in Checkpoints, l \in Leaves : Promoting(q, d, l) => Promoting(q, d, l)'
      BY <1>0, <2>1, <2>4 DEF Promoting, TypeInv, TypeOK
    <2>6. \A q \in Requests : at'[q] = "promoted" => layer'[Head(todo'[q])] = "canopy"
      BY <1>0, <2>4 DEF PursuedInv, HeadPromoted, TypeInv, TypeOK
    <2>. QED  BY <1>0, <2>3, <2>4, <2>5, <2>6, PursuitGoesOn
  <1>2. ASSUME NEW r \in Requests, RecordConsensusPosition(r) PROVE PursuedInv'
    <2>. DEFINE row == RecordSignal(snap[r], job[r].user, job[r].position)
    <2>1. ~Agreed(row)
      BY <1>0, <1>2 DEF RecordConsensusPosition, CanRecord, CanRecordSignal, RecordSignal, Agreed,
                        Checkpoint, TypeInv, TypeOK, RequestOK
    <2>2. /\ Write(job[r].ckpt, snap[r], row)
          /\ at[r] = "found"
          /\ at' = [at EXCEPT ![r] = "announcing"]
          /\ UNCHANGED <<layer, job, todo, faults, crashes>>
      BY <1>2 DEF RecordConsensusPosition
    <2>. HIDE DEF row
    <2>3. \A d \in Checkpoints : \A x \in persisted'[d] : Agreed(x) => x \in persisted[d]
      BY <1>0, <2>1, <2>2 DEF Write, TypeInv, TypeOK
    <2>4. \A q \in Requests, d \in Checkpoints, l \in Leaves : Promoting(q, d, l) => Promoting(q, d, l)'
      BY <1>0, <2>2 DEF Promoting, TypeInv, TypeOK
    <2>5. \A q \in Requests : at'[q] = "promoted" => layer'[Head(todo'[q])] = "canopy"
      BY <1>0, <2>2 DEF PursuedInv, HeadPromoted, TypeInv, TypeOK
    <2>. QED  BY <1>0, <2>2, <2>3, <2>4, <2>5, PursuitGoesOn
  <1>3. ASSUME NEW r \in Requests, ResolveCheckpoint(r) PROVE PursuedInv'
    <2>. DEFINE row == Resolve(snap[r])
    <2>1. /\ Write(job[r].ckpt, snap[r], row)
          /\ at[r] = "found"
          /\ \/ /\ HasConsensus(row)
                /\ at' = [at EXCEPT ![r] = "promoting"]
                /\ todo' = [todo EXCEPT ![r] = row.leafIDs]
             \/ /\ ~HasConsensus(row)
                /\ at' = [at EXCEPT ![r] = "ok"]
                /\ todo' = todo
          /\ UNCHANGED <<layer, job, faults, crashes>>
      BY <1>3 DEF ResolveCheckpoint
    <2>2. row \in Checkpoint
      BY <1>0, <1>3, ResolveType DEF ResolveCheckpoint, CanResolve, TypeInv, TypeOK, RequestOK
    <2>. HIDE DEF row
    <2>3. \A q \in Requests, d \in Checkpoints, l \in Leaves : Promoting(q, d, l) => Promoting(q, d, l)'
      BY <1>0, <2>1 DEF Promoting, TypeInv, TypeOK
    <2>4. \A q \in Requests : at'[q] = "promoted" => layer'[Head(todo'[q])] = "canopy"
      BY <1>0, <2>1 DEF PursuedInv, HeadPromoted, TypeInv, TypeOK
    <2>5. CASE ~Agreed(row)
      <3>1. \A d \in Checkpoints : \A x \in persisted'[d] : Agreed(x) => x \in persisted[d]
        BY <1>0, <2>1, <2>5 DEF Write, TypeInv, TypeOK
      <3>. QED  BY <1>0, <2>1, <2>3, <2>4, <3>1, PursuitGoesOn
    <2>6. CASE Agreed(row)
      <3>1. /\ at' = [at EXCEPT ![r] = "promoting"]
            /\ todo' = [todo EXCEPT ![r] = row.leafIDs]
        BY <2>1, <2>2, <2>6, AgreedHasConsensus
      <3>2. \A l \in Leaves : InLeafList(l, row) => Promoting(r, job[r].ckpt, l)'
        BY <1>0, <2>1, <3>1 DEF InLeafList, Promoting, TypeInv, TypeOK
      <3>3. ASSUME NEW d \in Checkpoints, NEW l \in Leaves, NEW x \in persisted'[d], Agreed(x),
                   InLeafList(l, x), layer'[l] # "canopy", faults' = 0, crashes' = 0
            PROVE  \E q \in Requests : Promoting(q, d, l)'
        <4>1. CASE x \in persisted[d]
          <5>1. PICK q \in Requests : Promoting(q, d, l)
            BY <2>1, <3>3, <4>1 DEF PursuedInv, PromotionPursued, Promoting
          <5>. QED  BY <2>3, <5>1
        <4>2. CASE x \notin persisted[d]
          <5>1. d = job[r].ckpt /\ x = row
            BY <1>0, <2>1, <3>3, <4>2 DEF Write, TypeInv, TypeOK
          <5>. QED  BY <2>1, <3>2, <3>3, <5>1
        <4>. QED  BY <4>1, <4>2
      <3>4. PromotionPursued'
        BY <3>3 DEF PromotionPursued, Promoting, InLeafList, Agreed
      <3>5. HeadPromoted'
        BY <2>4 DEF HeadPromoted
      <3>. QED  BY <1>0, <3>4, <3>5 DEF PursuedInv
    <2>. QED  BY <2>5, <2>6
  <1>4. ASSUME NEW r \in Requests, UpdateLayer(r) PROVE PursuedInv'
    <2>1. /\ at[r] = "promoting"
          /\ todo[r] # <<>>
          /\ Head(todo[r]) \in Leaves
          /\ UNCHANGED <<job, persisted, crashes>>
      BY <1>0, <1>4 DEF UpdateLayer, TypeInv, TypeOK
    <2>2. CASE /\ layer' = [layer EXCEPT ![Head(todo[r])] = "canopy"]
               /\ at' = [at EXCEPT ![r] = "promoted"]
               /\ UNCHANGED <<todo, faults>>
      <3>1. \A l \in Leaves : layer[l] = "canopy" => layer'[l] = "canopy"
        BY <1>0, <2>1, <2>2 DEF TypeInv, TypeOK
      <3>2. \A q \in Requests, d \in Checkpoints, l \in Leaves : Promoting(q, d, l) => Promoting(q, d, l)'
        BY <1>0, <2>1, <2>2 DEF Promoting, TypeInv, TypeOK
      <3>3. layer'[Head(todo[r])] = "canopy"
        BY <1>0, <2>1, <2>2 DEF TypeInv, TypeOK
      <3>4. ASSUME NEW q \in Requests, at'[q] = "promoted" PROVE layer'[Head(todo'[q])] = "canopy"
        <4>1. CASE q = r
          BY <2>2, <3>3, <4>1
        <4>2. CASE q # r
          <5>1. at[q] = "promoted"
            BY <1>0, <2>2, <3>4, <4>2 DEF TypeInv, TypeOK
          <5>2. layer[Head(todo[q])] = "canopy" /\ Head(todo[q]) \in Leaves
            BY <1>0, <5>1 DEF PursuedInv, HeadPromoted, TypeInv, TypeOK, RequestOK
          <5>. QED  BY <2>2, <3>1, <5>2
        <4>. QED  BY <4>1, <4>2
      <3>. QED  BY <1>0, <2>1, <2>2, <3>1, <3>2, <3>4, PursuitGoesOn
    <2>3. CASE /\ faults' = faults + 1
               /\ todo' = [todo EXCEPT ![r] = Tail(@)]
               /\ UNCHANGED <<layer, at>>
      <3>1. faults' # 0
        BY <1>0, <2>3 DEF TypeInv, TypeOK
      <3>2. ASSUME NEW q \in Requests, at'[q] = "promoted" PROVE layer'[Head(todo'[q])] = "canopy"
        BY <1>0, <2>1, <2>3, <3>2 DEF PursuedInv, HeadPromoted, TypeInv, TypeOK
      <3>. QED  BY <1>0, <2>1, <2>3, <3>1, <3>2, PursuitGoesOn
    <2>. QED  BY <1>4, <2>2, <2>3 DEF UpdateLayer
  <1>5. ASSUME NEW r \in Requests, AnnouncePromotion(r) PROVE PursuedInv'
    <2>1. /\ at[r] = "promoted"
          /\ todo' = [todo EXCEPT ![r] = Tail(@)]
          /\ at' = [at EXCEPT ![r] = "promoting"]
          /\ UNCHANGED <<layer, job, persisted, crashes>>
          /\ faults' = 0 => faults = 0
      BY <1>0, <1>5 DEF AnnouncePromotion, Publish, TypeInv, TypeOK
    <2>2. /\ layer[Head(todo[r])] = "canopy"
          /\ todo[r] \in Seq(Leaves)
          /\ todo[r] # <<>>
      BY <1>0, <2>1 DEF PursuedInv, HeadPromoted, TypeInv, TypeOK, RequestOK
    <2>3. ASSUME NEW q \in Requests, NEW d \in Checkpoints, NEW l \in Leaves, Promoting(q, d, l)
          PROVE  Promoting(q, d, l)' \/ layer'[l] = "canopy"
      <3>1. CASE q # r
        BY <1>0, <2>1, <2>3, <3>1 DEF Promoting, TypeInv, TypeOK
      <3>2. CASE q = r
        <4>1. PICK i \in DOMAIN todo[r] : todo[r][i] = l
          BY <2>3, <3>2 DEF Promoting
        <4>2. CASE i = 1
          BY <2>1, <2>2, <4>1, <4>2
        <4>3. CASE i # 1
          <5>1. /\ i - 1 \in DOMAIN Tail(todo[r])
                /\ Tail(todo[r])[i - 1] = l
            BY <2>2, <4>1, <4>3
          <5>2. todo'[r] = Tail(todo[r]) /\ at'[r] = "promoting"
            BY <1>0, <2>1 DEF TypeInv, TypeOK
          <5>. QED  BY <2>1, <2>3, <3>2, <5>1, <5>2 DEF Promoting
        <4>. QED  BY <4>2, <4>3
      <3>. QED  BY <3>1, <3>2
    <2>4. \A q \in Requests : at'[q] = "promoted" => layer'[Head(todo'[q])] = "canopy"
      BY <1>0, <2>1 DEF PursuedInv, HeadPromoted, TypeInv, TypeOK
    <2>. QED  BY <1>0, <2>1, <2>3, <2>4, PursuitGoesOn
  <1>6. ASSUME NEW r \in Requests, PromotionDone(r) PROVE PursuedInv'
    <2>1. /\ todo[r] = <<>>
          /\ at' = [at EXCEPT ![r] = "announcing"]
          /\ UNCHANGED <<layer, job, todo, persisted, faults, crashes>>
      BY <1>6 DEF PromotionDone
    <2>2. \A q \in Requests, d \in Checkpoints, l \in Leaves : Promoting(q, d, l) => Promoting(q, d, l)'
      BY <1>0, <2>1 DEF Promoting, TypeInv, TypeOK
    <2>3. \A q \in Requests : at'[q] = "promoted" => layer'[Head(todo'[q])] = "canopy"
      BY <1>0, <2>1 DEF PursuedInv, HeadPromoted, TypeInv, TypeOK
    <2>. QED  BY <1>0, <2>1, <2>2, <2>3, PursuitGoesOn
  <1>7. ASSUME NEW r \in Requests, PromoteLeaf(r) PROVE PursuedInv'
    <2>1. PICK l \in Leaves : /\ job' = [job EXCEPT ![r] = [op |-> "promote", leaf |-> l]]
                              /\ layer' = [layer EXCEPT ![l] = "canopy"]
      BY <1>7 DEF PromoteLeaf
    <2>2. /\ at[r] = "new"
          /\ at' = [at EXCEPT ![r] = "announcing"]
          /\ UNCHANGED <<todo, persisted, faults, crashes>>
      BY <1>7 DEF PromoteLeaf
    <2>3. \A k \in Leaves : layer[k] = "canopy" => layer'[k] = "canopy"
      BY <1>0, <2>1 DEF TypeInv, TypeOK
    <2>4. \A q \in Requests, d \in Checkpoints, k \in Leaves : Promoting(q, d, k) => Promoting(q, d, k)'
      BY <1>0, <2>1, <2>2 DEF Promoting, TypeInv, TypeOK
    <2>5. ASSUME NEW q \in Requests, at'[q] = "promoted" PROVE layer'[Head(todo'[q])] = "canopy"
      <3>1. at[q] = "promoted"
        BY <1>0, <2>2, <2>5 DEF TypeInv, TypeOK
      <3>2. layer[Head(todo[q])] = "canopy" /\ Head(todo[q]) \in Leaves
        BY <1>0, <3>1 DEF PursuedInv, HeadPromoted, TypeInv, TypeOK, RequestOK
      <3>. QED  BY <2>2, <2>3, <3>2
    <2>. QED  BY <1>0, <2>2, <2>3, <2>4, <2>5, PursuitGoesOn
  <1>8. ASSUME NEW r \in Requests, FindByID(r) \/ Refuse(r) \/ UpdateFails(r) \/ Announce(r)
        PROVE  PursuedInv'
    <2>1. /\ at[r] \notin {"promoting", "promoted"}
          /\ at'[r] \notin {"promoting", "promoted"}
          /\ \A q \in Requests \ {r} : at'[q] = at[q] /\ job'[q] = job[q]
          /\ UNCHANGED <<layer, todo, persisted, crashes>>
          /\ faults' = 0 => faults = 0
      BY <1>0, <1>8 DEF FindByID, Refuse, UpdateFails, Announce, Publish, TypeInv, TypeOK
    <2>2. \A q \in Requests, d \in Checkpoints, l \in Leaves : Promoting(q, d, l) => Promoting(q, d, l)'
      BY <2>1 DEF Promoting
    <2>3. \A q \in Requests : at'[q] = "promoted" => layer'[Head(todo'[q])] = "canopy"
      BY <2>1 DEF PursuedInv, HeadPromoted
    <2>. QED  BY <1>0, <2>1, <2>2, <2>3, PursuitGoesOn
  <1>9. CASE Crash
    <2>1. /\ crashes' # 0
          /\ \A q \in Requests : at'[q] # "promoted"
          /\ UNCHANGED <<layer, job, todo, persisted, faults>>
      BY <1>0, <1>9 DEF Crash, InFlight, TypeInv, TypeOK
    <2>. QED  BY <1>0, <2>1, PursuitGoesOn
  <1>10. CASE UNCHANGED vars
    <2>1. \A q \in Requests, d \in Checkpoints, l \in Leaves : Promoting(q, d, l) => Promoting(q, d, l)'
      BY <1>10 DEF vars, Promoting
    <2>2. \A q \in Requests : at'[q] = "promoted" => layer'[Head(todo'[q])] = "canopy"
      BY <1>10 DEF vars, PursuedInv, HeadPromoted
    <2>. QED  BY <1>0, <1>10, <2>1, <2>2, PursuitGoesOn DEF vars
  <1>. QED  BY <1>1, <1>2, <1>3, <1>4, <1>5, <1>6, <1>7, <1>8, <1>9, <1>10 DEF Next, Step

(* Every leaf of a checkpoint that was resolved with consensus is in the    *)
(* canopy or about to be promoted, for any number of overlapping requests,  *)
(* as long as no call fails and the server is not restarted.                *)
THEOREM ConsensusIsPursued == Spec => []PromotionPursued
  <1>1. Spec => []PursuedInv
    BY InitPursuedInv, NextPursuedInv, PTL DEF Spec
  <1>2. PursuedInv => PromotionPursued
    BY DEF PursuedInv
  <1>. QED  BY <1>1, <1>2, PTL
-----------------------------------------------------------------------------
(* Consensus and canopy are justified.  What a resolving request announces  *)
(* and promotes is backed by the row it has stored before it began to.      *)

Backed(r) ==
    \E row \in persisted[job[r].ckpt] :
        /\ Agreed(row)
        /\ \A i \in DOMAIN todo[r] : InLeafList(todo[r][i], row)

ResolversBacked ==
    \A r \in Requests :
        (at[r] \in {"promoting", "promoted", "announcing"} /\ job[r].op = "resolve") => Backed(r)

LeafJustified(l) ==
    \/ \E c \in Checkpoints : \E row \in persisted[c] : Agreed(row) /\ InLeafList(l, row)
    \/ \E r \in Requests : job[r] = [op |-> "promote", leaf |-> l]

EventJustified(e) ==
    /\ at[e.by] # "new"
    /\ e.type = "consensus.reached" =>
          /\ job[e.by].op = "resolve"
          /\ \E row \in persisted[job[e.by].ckpt] : Agreed(row)

JustifiedInv ==
    /\ TypeInv
    /\ \A r \in Requests : at[r] = "new" => job[r] = None
    /\ ResolversBacked
    /\ \A e \in published : EventJustified(e)
    /\ \A l \in Leaves : layer[l] = "canopy" => LeafJustified(l)

LEMMA InitJustifiedInv == Init => JustifiedInv
  BY InitTypeInv DEF Init, JustifiedInv, ResolversBacked

(* What was justified stays justified: rows are only added to the history,  *)
(* and a request that has begun keeps its job.                              *)
LEMMA JustifiedStays ==
    ASSUME JustifiedInv, TypeInv', NEW s \in Requests,
           \A c \in Checkpoints : persisted[c] \subseteq persisted'[c],
           \A r \in Requests \ {s} : at'[r] = at[r] /\ job'[r] = job[r] /\ todo'[r] = todo[r],
           at'[s] # "new",
           at[s] # "new" => job'[s] = job[s],
           (at'[s] \in {"promoting", "promoted", "announcing"} /\ job'[s].op = "resolve") => Backed(s)',
           \A e \in published' : e \in published \/ (e.by = s /\ EventJustified(e)'),
           \A l \in Leaves : layer'[l] = "canopy" => layer[l] = "canopy" \/ LeafJustified(l)'
    PROVE  JustifiedInv'
  <1>0. TypeInv
    BY DEF JustifiedInv
  <1>1. \A r \in Requests : at'[r] = "new" => job'[r] = None
    BY DEF JustifiedInv
  <1>2. ASSUME NEW r \in Requests, at'[r] \in {"promoting", "promoted", "announcing"},
               job'[r].op = "resolve"
        PROVE  Backed(r)'
    <2>1. CASE r = s
      BY <1>2, <2>1
    <2>2. CASE r # s
      <3>1. Backed(r) /\ job[r] \in Job /\ job[r].op = "resolve"
        BY <1>0, <1>2, <2>2 DEF JustifiedInv, ResolversBacked, TypeInv, TypeOK, RequestOK
      <3>2. job[r].ckpt \in Checkpoints /\ job'[r] = job[r] /\ todo'[r] = todo[r]
        BY <2>2, <3>1 DEF Job
      <3>3. PICK row \in persisted[job[r].ckpt] :
              Agreed(row) /\ \A i \in DOMAIN todo[r] : InLeafList(todo[r][i], row)
        BY <3>1 DEF Backed
      <3>4. row \in persisted'[job'[r].ckpt]
        BY <3>2, <3>3
      <3>. QED  BY <3>2, <3>3, <3>4 DEF Backed, Agreed, InLeafList
    <2>. QED  BY <2>1, <2>2
  <1>3. ASSUME NEW e \in published' PROVE EventJustified(e)'
    <2>1. CASE e.by = s /\ EventJustified(e)'
      BY <2>1
    <2>2. CASE e \in published
      <3>1. e.by \in Requests /\ at[e.by] # "new" /\ EventJustified(e)
        BY <1>0, <2>2 DEF JustifiedInv, EventJustified, TypeInv, TypeOK, Event
      <3>2. at'[e.by] # "new" /\ job'[e.by] = job[e.by]
        BY <3>1
      <3>3. CASE e.type = "consensus.reached"
        <4>1. PICK row \in persisted[job[e.by].ckpt] : Agreed(row)
          BY <3>1, <3>3 DEF EventJustified
        <4>2. job[e.by].op = "resolve" /\ job[e.by] \in Job
          BY <1>0, <3>1, <3>3 DEF EventJustified, TypeInv, TypeOK, RequestOK
        <4>3. row \in persisted'[job'[e.by].ckpt]
          BY <3>2, <4>1, <4>2 DEF Job
        <4>. QED  BY <3>2, <4>1, <4>2, <4>3 DEF EventJustified, Agreed
      <3>. QED  BY <3>2, <3>3 DEF EventJustified
    <2>. QED  BY <1>3, <2>1, <2>2
  <1>4. ASSUME NEW l \in Leaves, layer'[l] = "canopy" PROVE LeafJustified(l)'
    <2>1. CASE LeafJustified(l)'
      BY <2>1
    <2>2. CASE layer[l] = "canopy"
      <3>1. LeafJustified(l)
        BY <2>2 DEF JustifiedInv
      <3>2. CASE \E c \in Checkpoints : \E row \in persisted[c] : Agreed(row) /\ InLeafList(l, row)
        BY <3>2 DEF LeafJustified, Agreed, InLeafList
      <3>3. CASE \E r \in Requests : job[r] = [op |-> "promote", leaf |-> l]
        <4>1. PICK r \in Requests : job[r] = [op |-> "promote", leaf |-> l]
          BY <3>3
        <4>2. job[r] # None
          BY <4>1, ConvergenceAssumption DEF Job
        <4>3. job'[r] = job[r]
          BY <4>2 DEF JustifiedInv
        <4>. QED  BY <4>1, <4>3 DEF LeafJustified
      <3>. QED  BY <3>1, <3>2, <3>3 DEF LeafJustified
    <2>. QED  BY <1>4, <2>1, <2>2
  <1>. QED  BY <1>1, <1>2, <1>3, <1>4 DEF JustifiedInv, ResolversBacked

LEMMA NextJustifiedInv == JustifiedInv /\ [Next]_vars => JustifiedInv'
  <1> SUFFICES ASSUME JustifiedInv, [Next]_vars PROVE JustifiedInv'
    OBVIOUS
  <1>0. TypeInv /\ TypeInv'
    BY NextTypeInv DEF JustifiedInv
  <1>1. ASSUME NEW r \in Requests, CreateCheckpoint(r) PROVE JustifiedInv'
    <2>1. /\ \A c \in Checkpoints : persisted[c] \subseteq persisted'[c]
          /\ \A q \in Requests \ {r} : at'[q] = at[q] /\ job'[q] = job[q] /\ todo'[q] = todo[q]
          /\ at'[r] # "new"
          /\ at[r] = "new"
          /\ job'[r].op = "create"
          /\ published' = published
          /\ layer' = layer
      BY <1>0, <1>1 DEF CreateCheckpoint, Write, TypeInv, TypeOK
    <2>. QED  BY <1>0, <2>1, JustifiedStays
  <1>2. ASSUME NEW r \in Requests, FindByID(r) PROVE JustifiedInv'
    <2>1. /\ persisted' = persisted
          /\ \A q \in Requests \ {r} : at'[q] = at[q] /\ job'[q] = job[q] /\ todo'[q] = todo[q]
          /\ at'[r] = "found"
          /\ at[r] = "new"
          /\ published' = published
          /\ layer' = layer
      BY <1>0, <1>2 DEF FindByID, TypeInv, TypeOK
    <2>. QED  BY <1>0, <2>1, JustifiedStays
  <1>3. ASSUME NEW r \in Requests, PromoteLeaf(r) PROVE JustifiedInv'
    <2>1. PICK l \in Leaves : /\ job' = [job EXCEPT ![r] = [op |-> "promote", leaf |-> l]]
                              /\ layer' = [layer EXCEPT ![l] = "canopy"]
      BY <1>3 DEF PromoteLeaf
    <2>2. /\ persisted' = persisted
          /\ \A q \in Requests \ {r} : at'[q] = at[q] /\ job'[q] = job[q] /\ todo'[q] = todo[q]
          /\ at'[r] = "announcing"
          /\ at[r] = "new"
          /\ job'[r] = [op |-> "promote", leaf |-> l]
          /\ published' = published
      BY <1>0, <1>3, <2>1 DEF PromoteLeaf, TypeInv, TypeOK
    <2>3. LeafJustified(l)'
      BY <2>2 DEF LeafJustified
    <2>4. \A k \in Leaves : layer'[k] = "canopy" => layer[k] = "canopy" \/ k = l
      BY <1>0, <2>1 DEF TypeInv, TypeOK
    <2>. QED  BY <1>0, <2>2, <2>3, <2>4, JustifiedStays
  <1>4. ASSUME NEW r \in Requests, RecordConsensusPosition(r) PROVE JustifiedInv'
    <2>1. /\ \A c \in Checkpoints : persisted[c] \subseteq persisted'[c]
          /\ \A q \in Requests \ {r} : at'[q] = at[q] /\ job'[q] = job[q] /\ todo'[q] = todo[q]
          /\ at'[r] = "announcing"
          /\ job'[r] = job[r]
          /\ job[r].op = "record"
          /\ published' = published
          /\ layer' = layer
      BY <1>0, <1>4 DEF RecordConsensusPosition, CanRecord, Write, TypeInv, TypeOK
    <2>. QED  BY <1>0, <2>1, JustifiedStays
  <1>5. ASSUME NEW r \in Requests, ResolveCheckpoint(r) PROVE JustifiedInv'
    <2>. DEFINE row == Resolve(snap[r])
    <2>1. /\ Write(job[r].ckpt, snap[r], row)
          /\ \/ /\ HasConsensus(row)
                /\ at' = [at EXCEPT ![r] = "promoting"]
                /\ todo' = [todo EXCEPT ![r] = row.leafIDs]
             \/ /\ at' = [at EXCEPT ![r] = "ok"]
                /\ todo' = todo
          /\ UNCHANGED <<layer, job, published>>
      BY <1>5 DEF ResolveCheckpoint
    <2>2. row \in Checkpoint /\ row.status = "resolved" /\ job[r].ckpt \in Checkpoints
      BY <1>0, <1>5, ResolveType DEF ResolveCheckpoint, CanResolve, Job, TypeInv, TypeOK, RequestOK
    <2>. HIDE DEF row
    <2>3. /\ \A c \in Checkpoints : persisted[c] \subseteq persisted'[c]
          /\ row \in persisted'[job[r].ckpt]
          /\ \A q \in Requests \ {r} : at'[q] = at[q] /\ job'[q] = job[q] /\ todo'[q] = todo[q]
          /\ at'[r] # "new"
          /\ job'[r] = job[r]
      BY <1>0, <2>1, <2>2 DEF Write, TypeInv, TypeOK
    <2>4. ASSUME at'[r] \in {"promoting", "promoted", "announcing"} PROVE Backed(r)'
      <3>1. HasConsensus(row) /\ todo'[r] = row.leafIDs
        BY <1>0, <2>1, <2>4 DEF TypeInv, TypeOK
      <3>2. Agreed(row)
        <4>1. row.signals \in Seq(ConsensusSignal) /\ row.signals # <<>>
          BY <2>2, <3>1 DEF Checkpoint, HasConsensus
        <4>. QED  BY <2>2, <3>1, <4>1 DEF HasConsensus, Agreed
      <3>3. \A i \in DOMAIN todo'[r] : InLeafList(todo'[r][i], row)
        BY <3>1 DEF InLeafList
      <3>. QED  BY <2>3, <3>2, <3>3 DEF Backed, Agreed, InLeafList
    <2>. QED  BY <1>0, <2>1, <2>3, <2>4, JustifiedStays
  <1>6. ASSUME NEW r \in Requests, Refuse(r) \/ UpdateFails(r) PROVE JustifiedInv'
    <2>1. /\ UNCHANGED <<persisted, job, published, layer>>
          /\ \A q \in Requests \ {r} : at'[q] = at[q] /\ job'[q] = job[q] /\ todo'[q] = todo[q]
          /\ at'[r] = "error"
      BY <1>0, <1>6 DEF Refuse, UpdateFails, TypeInv, TypeOK
    <2>. QED  BY <1>0, <2>1, JustifiedStays
  <1>7. ASSUME NEW r \in Requests, UpdateLayer(r) PROVE JustifiedInv'
    <2>1. /\ UNCHANGED <<persisted, job, published>>
          /\ at[r] = "promoting"
          /\ todo[r] \in Seq(Leaves)
          /\ todo[r] # <<>>
          /\ \A q \in Requests \ {r} : at'[q] = at[q] /\ job'[q] = job[q] /\ todo'[q] = todo[q]
          /\ at'[r] \in {"promoting", "promoted"}
          /\ todo'[r] \in {todo[r], Tail(todo[r])}
          /\ Head(todo[r]) \in Leaves
          /\ \A l \in Leaves : layer'[l] = "canopy" => layer[l] = "canopy" \/ l = Head(todo[r])
      BY <1>0, <1>7 DEF UpdateLayer, TypeInv, TypeOK
    <2>2. job[r].op = "resolve" /\ job[r].ckpt \in Checkpoints
      BY <1>0, <2>1 DEF TypeInv, TypeOK, RequestOK, Job
    <2>3. PICK row \in persisted[job[r].ckpt] :
            Agreed(row) /\ \A i \in DOMAIN todo[r] : InLeafList(todo[r][i], row)
      BY <2>1, <2>2 DEF JustifiedInv, ResolversBacked, Backed
    <2>4. Backed(r)'
      <3>1. \A i \in DOMAIN todo'[r] : \E j \in DOMAIN todo[r] : todo'[r][i] = todo[r][j]
        BY <2>1
      <3>2. \A i \in DOMAIN todo'[r] : InLeafList(todo'[r][i], row)
        BY <2>3, <3>1
      <3>. QED  BY <2>1, <2>3, <3>2 DEF Backed, Agreed, InLeafList
    <2>5. PICK head \in Leaves : head = Head(todo[r])
      BY <2>1
    <2>6. LeafJustified(head)'
      <3>1. 1 \in DOMAIN todo[r] /\ todo[r][1] = head
        BY <2>1, <2>5
      <3>2. InLeafList(head, row)
        BY <2>3, <3>1
      <3>. QED  BY <2>1, <2>2, <2>3, <3>2 DEF LeafJustified, Agreed, InLeafList
    <2>. QED  BY <1>0, <2>1, <2>4, <2>5, <2>6, JustifiedStays
  <1>8. ASSUME NEW r \in Requests, AnnouncePromotion(r) PROVE JustifiedInv'
    <2>0. PICK e : e = [type |-> "leaf.promoted", by |-> r, leaf |-> Head(todo[r])]
      OBVIOUS
    <2>1. /\ UNCHANGED <<persisted, job, layer>>
          /\ at[r] = "promoted"
          /\ todo[r] \in Seq(Leaves)
          /\ todo[r] # <<>>
          /\ \A q \in Requests \ {r} : at'[q] = at[q] /\ job'[q] = job[q] /\ todo'[q] = todo[q]
          /\ at'[r] = "promoting"
          /\ todo'[r] = Tail(todo[r])
          /\ published' \in {published, published \cup {e}}
      BY <1>0, <1>8, <2>0 DEF AnnouncePromotion, Publish, TypeInv, TypeOK, RequestOK
    <2>2. job[r].op = "resolve"
      BY <1>0, <2>1 DEF TypeInv, TypeOK, RequestOK
    <2>3. PICK row \in persisted[job[r].ckpt] :
            Agreed(row) /\ \A i \in DOMAIN todo[r] : InLeafList(todo[r][i], row)
      BY <2>1, <2>2 DEF JustifiedInv, ResolversBacked, Backed
    <2>4. Backed(r)'
      <3>1. \A i \in DOMAIN todo'[r] : \E j \in DOMAIN todo[r] : todo'[r][i] = todo[r][j]
        BY <2>1
      <3>2. \A i \in DOMAIN todo'[r] : InLeafList(todo'[r][i], row)
        BY <2>3, <3>1
      <3>. QED  BY <2>1, <2>3, <3>2 DEF Backed, Agreed, InLeafList
    <2>5. e.by = r /\ EventJustified(e)'
      BY <2>0, <2>1 DEF EventJustified
    <2>. QED  BY <1>0, <2>1, <2>4, <2>5, JustifiedStays
  <1>9. ASSUME NEW r \in Requests, PromotionDone(r) PROVE JustifiedInv'
    <2>1. /\ UNCHANGED <<persisted, job, published, layer, todo>>
          /\ at[r] = "promoting"
          /\ \A q \in Requests \ {r} : at'[q] = at[q] /\ job'[q] = job[q] /\ todo'[q] = todo[q]
          /\ at'[r] = "announcing"
      BY <1>0, <1>9 DEF PromotionDone, TypeInv, TypeOK
    <2>2. job[r].op = "resolve" /\ Backed(r)
      BY <1>0, <2>1 DEF JustifiedInv, ResolversBacked, TypeInv, TypeOK, RequestOK
    <2>3. Backed(r)'
      BY <2>1, <2>2 DEF Backed, Agreed, InLeafList
    <2>. QED  BY <1>0, <2>1, <2>3, JustifiedStays
  <1>10. ASSUME NEW r \in Requests, Announce(r) PROVE JustifiedInv'
    <2>1. /\ UNCHANGED <<persisted, job, layer, todo>>
          /\ at[r] = "announcing"
          /\ \A q \in Requests \ {r} : at'[q] = at[q] /\ job'[q] = job[q] /\ todo'[q] = todo[q]
          /\ at'[r] = "ok"
          /\ published' \in {published, published \cup {FinalEvent(r)}}
      BY <1>0, <1>10 DEF Announce, Publish, TypeInv, TypeOK
    <2>2. PICK e : e = FinalEvent(r)
      OBVIOUS
    <2>3. /\ e.by = r
          /\ e.type = "consensus.reached" => job[r].op = "resolve"
      BY <1>0, <2>1, <2>2 DEF FinalEvent, Job, TypeInv, TypeOK, RequestOK
    <2>4. EventJustified(e)'
      <3>1. CASE job[r].op = "resolve"
        <4>1. Backed(r)
          BY <2>1, <3>1 DEF JustifiedInv, ResolversBacked
        <4>. QED  BY <2>1, <2>3, <3>1, <4>1 DEF EventJustified, Backed, Agreed
      <3>2. CASE job[r].op # "resolve"
        BY <2>1, <2>3, <3>2 DEF EventJustified
      <3>. QED  BY <3>1, <3>2
    <2>. QED  BY <1>0, <2>1, <2>2, <2>3, <2>4, JustifiedStays
  <1>11. CASE Crash
    <2>1. /\ UNCHANGED <<persisted, job, published, layer, todo>>
          /\ \A q \in Requests : /\ at[q] # "new" => at'[q] # "new"
                                 /\ at'[q] = "new" => at[q] = "new"
                                 /\ at'[q] \notin InFlight
      BY <1>0, <1>11 DEF Crash, InFlight, TypeInv, TypeOK
    <2>2. ResolversBacked'
      BY <2>1 DEF ResolversBacked, InFlight
    <2>3. \A e \in published : e.by \in Requests
      BY <1>0 DEF TypeInv, TypeOK, Event
    <2>4. \A e \in published' : EventJustified(e)'
      BY <2>1, <2>3 DEF JustifiedInv, EventJustified, Agreed
    <2>5. \A l \in Leaves : layer'[l] = "canopy" => LeafJustified(l)'
      BY <2>1 DEF JustifiedInv, LeafJustified, Agreed, InLeafList
    <2>. QED  BY <1>0, <2>1, <2>2, <2>4, <2>5 DEF JustifiedInv
  <1>12. CASE UNCHANGED vars
    <2>1. UNCHANGED <<persisted, job, at, published, layer, todo>>
      BY <1>12 DEF vars
    <2>2. ResolversBacked'
      BY <2>1 DEF JustifiedInv, ResolversBacked, Backed, Agreed, InLeafList
    <2>3. \A e \in published' : EventJustified(e)'
      BY <2>1 DEF JustifiedInv, EventJustified, Agreed
    <2>4. \A l \in Leaves : layer'[l] = "canopy" => LeafJustified(l)'
      BY <2>1 DEF JustifiedInv, LeafJustified, Agreed, InLeafList
    <2>. QED  BY <1>0, <2>1, <2>2, <2>3, <2>4 DEF JustifiedInv
  <1>. QED  BY <1>1, <1>2, <1>3, <1>4, <1>5, <1>6, <1>7, <1>8, <1>9, <1>10, <1>11, <1>12
            DEF Next, Step

(* Consensus is announced only for a checkpoint that was stored, resolved   *)
(* and agreed; copies that are stale by then do not make up a consensus.    *)
THEOREM ConsensusIsJustified == Spec => []ConsensusJustified
  <1>1. Spec => []JustifiedInv
    BY InitJustifiedInv, NextJustifiedInv, PTL DEF Spec
  <1>2. JustifiedInv => ConsensusJustified
    BY DEF JustifiedInv, ConsensusJustified, EventJustified
  <1>. QED  BY <1>1, <1>2, PTL

(* A leaf reaches the canopy only from an agreed checkpoint that lists it,  *)
(* or because a caller promotes it directly, whatever fails or restarts.    *)
THEOREM CanopyIsJustified == Spec => []CanopyJustified
  <1>1. Spec => []JustifiedInv
    BY InitJustifiedInv, NextJustifiedInv, PTL DEF Spec
  <1>2. JustifiedInv => CanopyJustified
    BY DEF JustifiedInv, CanopyJustified, LeafJustified
  <1>. QED  BY <1>1, <1>2, PTL

(* What is announced and what is promoted was agreed. *)
THEOREM AgreementIsBehind == Spec => []AgreementBehind
  BY ConsensusIsJustified, CanopyIsJustified, PTL DEF AgreementBehind

-----------------------------------------------------------------------------
(* The table implements CheckpointPromise.  What a position is, as the      *)
(* promise reads it from a row; the rows have one position per user.        *)

LEMMA PositionAbsent ==
    ASSUME NEW row, NEW u, ~HasSignaled(row, u)
    PROVE  PositionTaken(row, u) = None
  BY DEF PositionTaken

LEMMA PositionFound ==
    ASSUME NEW row \in Checkpoint, UniqueSignals(row), NEW i \in DOMAIN row.signals
    PROVE  PositionTaken(row, row.signals[i].user) = row.signals[i].position
  <1>. DEFINE u == row.signals[i].user
              j == CHOOSE k \in DOMAIN row.signals : row.signals[k].user = u
  <1>1. j \in DOMAIN row.signals /\ row.signals[j].user = u
    OBVIOUS
  <1>2. j = i
    BY <1>1 DEF UniqueSignals
  <1>3. row # None /\ HasSignaled(row, u)
    BY ConvergenceAssumption DEF HasSignaled
  <1>4. PositionTaken(row, u) = row.signals[j].position
    BY <1>3 DEF PositionTaken
  <1>. QED  BY <1>2, <1>4

LEMMA RecordTakesPosition ==
    ASSUME NEW row \in Checkpoint, UniqueSignals(row), NEW u \in Users, NEW p \in Position,
           ~HasSignaled(row, u)
    PROVE  \A v : PositionTaken(RecordSignal(row, u, p), v)
                    = IF v = u THEN p ELSE PositionTaken(row, v)
  <1>. DEFINE new == RecordSignal(row, u, p)
  <1>1. /\ row.signals \in Seq(ConsensusSignal)
        /\ new.signals = Append(row.signals, [user |-> u, position |-> p])
    BY DEF Checkpoint, RecordSignal
  <1>2. new \in Checkpoint /\ UniqueSignals(new)
    BY RecordSignalType, RecordSignalUnique
  <1>3. /\ DOMAIN row.signals = 1 .. Len(row.signals)
        /\ DOMAIN new.signals = 1 .. Len(row.signals) + 1
        /\ \A i \in 1 .. Len(row.signals) : new.signals[i] = row.signals[i]
        /\ new.signals[Len(row.signals) + 1] = [user |-> u, position |-> p]
        /\ Len(row.signals) \in Nat
    BY <1>1
  <1>. HIDE DEF new
  <1>4. PositionTaken(new, u) = p
    <2>. DEFINE n == Len(row.signals) + 1
    <2>1. n \in DOMAIN new.signals /\ new.signals[n].user = u /\ new.signals[n].position = p
      BY <1>3
    <2>. QED  BY <1>2, <2>1, PositionFound
  <1>5. ASSUME NEW v, v # u PROVE PositionTaken(new, v) = PositionTaken(row, v)
    <2>1. CASE HasSignaled(row, v)
      <3>1. PICK i \in DOMAIN row.signals : row.signals[i].user = v
        BY <2>1 DEF HasSignaled
      <3>2. i \in DOMAIN new.signals /\ new.signals[i] = row.signals[i]
        BY <1>3, <3>1
      <3>3. PositionTaken(row, v) = row.signals[i].position
        BY <3>1, PositionFound
      <3>4. PositionTaken(new, v) = row.signals[i].position
        BY <1>2, <3>1, <3>2, PositionFound
      <3>. QED  BY <3>3, <3>4
    <2>2. CASE ~HasSignaled(row, v)
      <3>1. ~HasSignaled(new, v)
        BY <1>3, <1>5, <2>2 DEF HasSignaled
      <3>. QED  BY <2>2, <3>1, PositionAbsent
    <2>. QED  BY <2>1, <2>2
  <1>. QED  BY <1>4, <1>5 DEF new

(* All positions align exactly if the row, once resolved, is agreed.        *)
LEMMA AlignedIsAgreed ==
    ASSUME NEW row \in Checkpoint, UniqueSignals(row)
    PROVE  Agreed(Resolve(row)) <=>
             /\ \E u \in Users : PositionTaken(row, u) # None
             /\ \A u \in Users : PositionTaken(row, u) \in {None, "align"}
  <1>1. row.signals \in Seq(ConsensusSignal)
    BY DEF Checkpoint
  <1>2. \A i \in DOMAIN row.signals :
          /\ row.signals[i].user \in Users /\ row.signals[i].position \in Position
          /\ PositionTaken(row, row.signals[i].user) = row.signals[i].position
    <2> TAKE i \in DOMAIN row.signals
    <2>1. row.signals[i] \in ConsensusSignal
      BY <1>1
    <2>2. PositionTaken(row, row.signals[i].user) = row.signals[i].position
      BY PositionFound
    <2>. QED  BY <2>1, <2>2 DEF ConsensusSignal
  <1>3. \A u \in Users : PositionTaken(row, u) # None =>
          \E i \in DOMAIN row.signals : row.signals[i].user = u
    BY PositionAbsent DEF HasSignaled
  <1>4. (\E u \in Users : PositionTaken(row, u) # None) <=> (\E i \in DOMAIN row.signals : TRUE)
    BY <1>2, <1>3, ConvergenceAssumption
  <1>5. Len(row.signals) > 0 <=> \E i \in DOMAIN row.signals : TRUE
    <2>1. DOMAIN row.signals = 1 .. Len(row.signals) /\ Len(row.signals) \in Nat
      BY <1>1
    <2>2. ASSUME Len(row.signals) > 0 PROVE 1 \in DOMAIN row.signals
      BY <2>1, <2>2
    <2>3. ASSUME NEW i \in DOMAIN row.signals PROVE Len(row.signals) > 0
      BY <2>1, <2>3
    <2>. QED  BY <2>2, <2>3
  <1>6. (\A u \in Users : PositionTaken(row, u) \in {None, "align"}) <=>
          \A i \in DOMAIN row.signals : row.signals[i].position \notin {"block", "concern"}
    <2>1. \A i \in DOMAIN row.signals :
            row.signals[i].position \in {None, "align"} <=>
              row.signals[i].position \notin {"block", "concern"}
      BY <1>2, ConvergenceAssumption DEF Position
    <2>. QED  BY <1>2, <1>3, <2>1
  <1>7. /\ Resolve(row).status = "resolved"
        /\ Resolve(row).signals = row.signals
    BY ResolveType
  <1>. QED  BY <1>4, <1>5, <1>6, <1>7 DEF Agreed

LEMMA ResolveKeepsPositions ==
    ASSUME NEW row \in Checkpoint
    PROVE  \A u : PositionTaken(Resolve(row), u) = PositionTaken(row, u)
  <1>1. Resolve(row) # None /\ row # None /\ Resolve(row).signals = row.signals
    BY ResolveType, ConvergenceAssumption
  <1>. QED  BY <1>1 DEF PositionTaken, HasSignaled

(* A write over a row that is not the one it was made from.                 *)
LEMMA WriteLapses ==
    ASSUME TypeInv, NEW c \in Checkpoints, NEW read, NEW row, Write(c, read, row),
           store[c] # read \/ c \in overwritten
    PROVE  Promise!Lapse(c)
  <1>1. overwritten' = overwritten \cup {c}
    BY DEF Write
  <1>2. \A d \in Checkpoints \ {c} : store'[d] = store[d]
    BY DEF Write, TypeInv, TypeOK
  <1>. QED  BY <1>1, <1>2 DEF Promise!Lapse

(* One write of a row that is what its request has read.                    *)
LEMMA WriteStands ==
    ASSUME TypeInv, NEW c \in Checkpoints, NEW read, NEW row, Write(c, read, row),
           store[c] = read
    PROVE  /\ UNCHANGED overwritten
           /\ store' = [store EXCEPT ![c] = row]
           /\ store'[c] = row
           /\ \A d \in Checkpoints \ {c} : store'[d] = store[d]
  BY DEF Write, TypeInv, TypeOK

LEMMA CreateOpens ==
    ASSUME TypeInv, NEW r \in Requests, CreateCheckpoint(r)
    PROVE  \E c \in Checkpoints : Promise!Open(c)
  <1>1. PICK c \in Checkpoints, ids \in LeafLists :
          store[c] = None /\ Write(c, None, NewCheckpoint(ids))
    BY DEF CreateCheckpoint
  <1>. DEFINE new == NewCheckpoint(ids)
  <1>2. /\ UNCHANGED overwritten
        /\ store'[c] = new
        /\ \A d \in Checkpoints \ {c} : store'[d] = store[d]
    BY <1>1, WriteStands
  <1>3. new # None /\ new.status = "open" /\ new.signals = <<>>
    BY NewCheckpointType, ConvergenceAssumption DEF NewCheckpoint
  <1>. HIDE DEF new
  <1>4. Standing(store[c]) = "absent" /\ Standing(store'[c]) = "open"
    BY <1>1, <1>2, <1>3 DEF Standing
  <1>5. \A u : PositionTaken(store'[c], u) = PositionTaken(store[c], u)
    BY <1>1, <1>2, <1>3 DEF PositionTaken, HasSignaled
  <1>6. \A d \in Checkpoints, u \in Users :
          PositionTaken(store'[d], u) = PositionTaken(store[d], u)
    BY <1>2, <1>5
  <1>7. [d \in Checkpoints |-> [u \in Users |-> PositionTaken(store'[d], u)]]
          = [d \in Checkpoints |-> [u \in Users |-> PositionTaken(store[d], u)]]
    <2>1. \A d \in Checkpoints : [u \in Users |-> PositionTaken(store'[d], u)]
                                  = [u \in Users |-> PositionTaken(store[d], u)]
      BY <1>6
    <2>. QED  BY <2>1
  <1>8. Promise!Open(c)
    BY <1>2, <1>4, <1>7 DEF Promise!Open
  <1>. QED  BY <1>8

LEMMA RecordTakes ==
    ASSUME SignalInv, NEW r \in Requests, RecordConsensusPosition(r)
    PROVE  Promise!Next
  <1>. DEFINE c == job[r].ckpt
              u == job[r].user
              p == job[r].position
              new == RecordSignal(snap[r], u, p)
  <1>1. /\ snap[r] \in Checkpoint /\ UniqueSignals(snap[r])
        /\ c \in Checkpoints /\ u \in Users /\ p \in Position
        /\ snap[r].status = "open" /\ ~HasSignaled(snap[r], u)
    BY ConvergenceAssumption
    DEF RecordConsensusPosition, CanRecord, CanRecordSignal, Job,
        SignalInv, CopiesUnique, TypeInv, TypeOK, RequestOK
  <1>2. Write(c, snap[r], new) /\ TypeInv
    BY DEF RecordConsensusPosition, SignalInv
  <1>3. \A v : PositionTaken(new, v) = IF v = u THEN p ELSE PositionTaken(snap[r], v)
    BY <1>1, RecordTakesPosition
  <1>4. new \in Checkpoint /\ new # None
    BY <1>1, RecordSignalType, ConvergenceAssumption
  <1>5. new.status = "open"
    BY <1>1 DEF RecordSignal, Checkpoint
  <1>6. snap[r] # None /\ PositionTaken(snap[r], u) = None
    BY <1>1, PositionAbsent, ConvergenceAssumption
  <1>. HIDE DEF c, u, p, new
  <1>7. CASE store[c] # snap[r]
    BY <1>1, <1>2, <1>7, WriteLapses DEF Promise!Next
  <1>8. CASE store[c] = snap[r]
    <2>1. /\ UNCHANGED overwritten
          /\ store'[c] = new
          /\ \A d \in Checkpoints \ {c} : store'[d] = store[d]
      BY <1>1, <1>2, <1>8, WriteStands
    <2>2. Standing(store[c]) = "open" /\ Standing(store'[c]) = "open"
      BY <1>1, <1>4, <1>5, <1>6, <1>8, <2>1 DEF Standing
    <2>3. Promise!TakePosition(c, u, p)
      BY <1>1, <1>3, <1>6, <1>8, <2>1, <2>2 DEF Promise!TakePosition
    <2>. QED  BY <1>1, <2>3 DEF Promise!Next, Position
  <1>. QED  BY <1>7, <1>8

LEMMA ResolveCloses ==
    ASSUME SignalInv, NEW r \in Requests, ResolveCheckpoint(r)
    PROVE  Promise!Next
  <1>. DEFINE c == job[r].ckpt
              new == Resolve(snap[r])
  <1>1. /\ snap[r] \in Checkpoint /\ UniqueSignals(snap[r])
        /\ c \in Checkpoints /\ snap[r].status = "open"
    BY ConvergenceAssumption
    DEF ResolveCheckpoint, CanResolve, Job, SignalInv, CopiesUnique, TypeInv, TypeOK, RequestOK
  <1>2. Write(c, snap[r], new) /\ TypeInv
    BY DEF ResolveCheckpoint, SignalInv
  <1>3. /\ new # None /\ snap[r] # None /\ new.status = "resolved"
        /\ \A v : PositionTaken(new, v) = PositionTaken(snap[r], v)
    BY <1>1, ResolveType, ResolveKeepsPositions, ConvergenceAssumption
  <1>4. Agreed(new) <=>
          /\ \E u \in Users : PositionTaken(snap[r], u) # None
          /\ \A u \in Users : PositionTaken(snap[r], u) \in {None, "align"}
    BY <1>1, AlignedIsAgreed
  <1>. HIDE DEF c, new
  <1>5. CASE store[c] # snap[r]
    BY <1>1, <1>2, <1>5, WriteLapses DEF Promise!Next
  <1>6. CASE store[c] = snap[r]
    <2>1. /\ UNCHANGED overwritten
          /\ store'[c] = new
          /\ \A d \in Checkpoints \ {c} : store'[d] = store[d]
      BY <1>1, <1>2, <1>6, WriteStands
    <2>2. Promise!Aligned(c) <=> Agreed(new)
      BY <1>1, <1>4, <1>6 DEF Promise!Aligned
    <2>3. /\ Standing(store[c]) = "open"
          /\ Standing(store'[c]) = IF Promise!Aligned(c) THEN "consensus" ELSE "no consensus"
      BY <1>1, <1>3, <1>6, <2>1, <2>2 DEF Standing
    <2>4. Promise!Close(c)
      BY <1>1, <1>3, <1>6, <2>1, <2>3 DEF Promise!Close
    <2>. QED  BY <1>1, <2>4 DEF Promise!Next
  <1>. QED  BY <1>5, <1>6

(* Until a request replaces a row it has not read, the reads and writes of  *)
(* Convergence implement the atomic operations of CheckpointPromise, for    *)
(* any number of overlapping requests, failures and restarts.               *)
THEOREM CheckpointsKeepPromise == Spec => KeepsPromise
  <1>1. Init => Promise!Init
    <2> SUFFICES ASSUME Init PROVE Promise!Init
      OBVIOUS
    <2>1. ASSUME NEW c \in Checkpoints
          PROVE  /\ Standing(store[c]) \in {"absent", "open"}
                 /\ \A u : PositionTaken(store[c], u) = None
      BY <2>1 DEF Init, NewCheckpoint, Standing, PositionTaken, HasSignaled
    <2>. QED  BY <2>1 DEF Init, Promise!Init
  <1>2. ASSUME SignalInv, [Next]_vars
        PROVE  [Promise!Next]_(Promise!promiseVars)
    <2>1. ASSUME NEW r \in Requests, CreateCheckpoint(r) PROVE Promise!Next
      BY <1>2, <2>1, CreateOpens DEF SignalInv, Promise!Next
    <2>2. ASSUME NEW r \in Requests, RecordConsensusPosition(r) PROVE Promise!Next
      BY <1>2, <2>2, RecordTakes
    <2>3. ASSUME NEW r \in Requests, ResolveCheckpoint(r) PROVE Promise!Next
      BY <1>2, <2>3, ResolveCloses
    <2>4. Promise!Next \/ UNCHANGED <<store, overwritten>>
      BY <1>2, <2>1, <2>2, <2>3
      DEF Next, Step, FindByID, PromoteLeaf, Refuse, UpdateFails, UpdateLayer,
          AnnouncePromotion, PromotionDone, Announce, Crash, vars
    <2>. QED  BY <2>4 DEF Promise!promiseVars
  <1>. QED
    BY InitSignalInv, NextSignalInv, <1>1, <1>2, PTL DEF Spec, KeepsPromise, Promise!Spec
=============================================================================
