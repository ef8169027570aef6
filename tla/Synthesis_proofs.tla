-------------------------- MODULE Synthesis_proofs --------------------------
(* Theorems about Synthesis, for every set of runs, overrides and leaves. *)
EXTENDS Synthesis, TLAPS

-----------------------------------------------------------------------------
(* The rows a workflow can have. *)
LEMMA RowFacts ==
    /\ Started \in Workflow /\ Started.status = "processing" /\ Started.result = None
    /\ Started.reason = None
    /\ \A c \in Reason : /\ Fail(Started, c) \in Workflow
                         /\ Fail(Started, c).status = "failed"
                         /\ Fail(Started, c).result = None
                         /\ Fail(Started, c).reason = c
    /\ \A l \in Leaf : /\ Complete(Started, l) \in Workflow
                       /\ Complete(Started, l).status = "completed"
                       /\ Complete(Started, l).result = l
                       /\ Complete(Started, l).reason = None
  BY DEF Started, Fail, Complete, Workflow, WorkflowStatus, Reason

Outcome(w, row) ==
    \/ row = Started
    \/ \E c \in Reason :
          /\ row = Fail(Started, c)
          /\ c = None => ByHand([op |-> "fail", run |-> w, reason |-> None])
    \/ \E l \in Leaf :
          /\ row = Complete(Started, l)
          /\ l \in Leaves \cup created \/ ByHand([op |-> "complete", run |-> w, leaf |-> l])

(* What was asked by hand is not taken back. *)
HandsKept == \A o \in Overrides : stage[o] # "new" => stage'[o] # "new" /\ job'[o] = job[o]

LEMMA OutcomeKept ==
    ASSUME NEW w, NEW row, Outcome(w, row), HandsKept, created \subseteq created'
    PROVE  Outcome(w, row)'
  <1>1. \A j : ByHand(j) => ByHand(j)'
    BY DEF ByHand, HandsKept
  <1>2. ASSUME NEW c \in Reason, row = Fail(Started, c),
               c = None => ByHand([op |-> "fail", run |-> w, reason |-> None])
        PROVE  Outcome(w, row)'
    <2>1. c = None => ByHand([op |-> "fail", run |-> w, reason |-> None])'
      BY <1>1, <1>2, Zenon
    <2>. QED  BY <1>2, <2>1 DEF Outcome
  <1>3. ASSUME NEW l \in Leaf, row = Complete(Started, l),
               l \in Leaves \cup created \/ ByHand([op |-> "complete", run |-> w, leaf |-> l])
        PROVE  Outcome(w, row)'
    <2>1. ByHand([op |-> "complete", run |-> w, leaf |-> l]) =>
            ByHand([op |-> "complete", run |-> w, leaf |-> l])'
      BY <1>1, Zenon
    <2>. QED  BY <1>3, <2>1 DEF Outcome
  <1>. QED  BY <1>2, <1>3 DEF Outcome

RowsOK == \A w \in Runs : \A row \in persisted[w] : Outcome(w, row)

StoreOK ==
    \A w \in Runs :
        /\ store[w] = None <=> at[w] = "new"
        /\ store[w] # None => store[w] \in persisted[w]

(* What an override in progress holds. *)
OverrideOK ==
    \A o \in Overrides :
        /\ stage[o] # "new" => job[o] \in Job /\ at[job[o].run] # "new"
        /\ stage[o] = "found" => snap[o] \in persisted[job[o].run]
        /\ stage[o] = "announcing" =>
             /\ job[o].op = "complete"
             /\ Complete(Started, job[o].leaf) \in persisted[job[o].run]

(* What has happened when a run is at a phase, and what it has sent.        *)
RunOK ==
    \A w \in Runs :
        /\ at[w] \in {"new", "created", "spawned", "loading", "asking", "answered",
                      "failing", "notifying", "failed"} => w \notin created
        /\ at[w] = "produced" => w \in created
        /\ at[w] \in {"completed", "announced", "ending", "ok"} =>
             Complete(Started, w) \in persisted[w]
        /\ at[w] \in {"notifying", "failed"} =>
             IsTerminal(store[w].status) \/ w \in expired \/ faults > 0

SentOK ==
    \A w \in Runs : \A i \in DOMAIN sent[w] :
        /\ sent[w][i] = "stream.error" => at[w] = "failed"
        /\ sent[w][i] = "stream.end" => at[w] = "ok"
        /\ sent[w][i] \in {"stream.end", "stream.error"} => i = Len(sent[w])

OutcomeInv ==
    /\ TypeOK
    /\ RowsOK
    /\ StoreOK
    /\ OverrideOK
    /\ RunOK
    /\ SentOK
    /\ EventsAreStored

LEMMA InitOutcomeInv == Init => OutcomeInv
  <1> SUFFICES ASSUME Init PROVE OutcomeInv
    OBVIOUS
  <1>. USE DEF Init
  <1>1. TypeOK
    BY DEF TypeOK, Phase, Stage
  <1>2. RowsOK /\ StoreOK /\ OverrideOK /\ RunOK /\ SentOK /\ EventsAreStored
    BY DEF RowsOK, StoreOK, OverrideOK, RunOK, SentOK, EventsAreStored, Stored
  <1>. QED  BY <1>1, <1>2 DEF OutcomeInv

(* A workflow whose copy may be finished is still as it was started. *)
LEMMA FinishableIsStarted ==
    ASSUME NEW w \in Runs, NEW row, Outcome(w, row), CanFinish(row)
    PROVE  row = Started
  BY RowFacts DEF Outcome, CanFinish, Leaf

LEMMA OverridesStay == UNCHANGED <<stage, job>> => HandsKept
  BY DEF HandsKept

LEMMA NotNone == ASSUME NEW row \in Workflow PROVE row # None
  BY SynthesisAssumption

-----------------------------------------------------------------------------
(* Publishing an event whose row is stored. *)
LEMMA PublishKeeps ==
    ASSUME EventsAreStored, UNCHANGED <<store, persisted>>, NEW e, Stored(e),
           published' \in {published, published \cup {e}}
    PROVE  EventsAreStored'
  BY DEF EventsAreStored, Stored

(* A step of a run that writes no row. *)
Moves(w) ==
    /\ at' \in [Runs -> Phase] /\ at[w] # "new" /\ at'[w] # "new"
    /\ \A v \in Runs \ {w} : at'[v] = at[v]

TableStays ==
    /\ UNCHANGED <<store, sources, expired, stage, job, snap, persisted, overwritten, crashes>>
    /\ published' \in SUBSET Event /\ faults' \in Nat
    /\ sent' \in [Runs -> Seq(StreamType)]
    /\ created' \in SUBSET Runs /\ created \subseteq created'

LEMMA RunStepKeeps ==
    ASSUME OutcomeInv, NEW w \in Runs, Moves(w), TableStays, RunOK', SentOK', EventsAreStored'
    PROVE  OutcomeInv'
  <1>. USE DEF OutcomeInv, Moves, TableStays
  <1>1. TypeOK'
    BY DEF TypeOK
  <1>2. RowsOK'
    BY OutcomeKept DEF RowsOK, HandsKept
  <1>3. StoreOK' /\ OverrideOK'
    BY DEF StoreOK, OverrideOK, TypeOK, Job
  <1>. QED  BY <1>1, <1>2, <1>3

(* What a write does, whoever makes it.                                     *)
LEMMA WriteFacts ==
    ASSUME TypeOK, NEW w \in Runs, NEW read, NEW row \in Workflow, Write(w, read, row)
    PROVE  /\ store' = [store EXCEPT ![w] = row]
           /\ store' \in [Runs -> Workflow \cup {None}]
           /\ persisted' \in [Runs -> SUBSET Workflow]
           /\ overwritten' \in SUBSET Runs
           /\ row \in persisted'[w]
           /\ \A v \in Runs : persisted[v] \subseteq persisted'[v]
           /\ \A v \in Runs : \A x \in persisted'[v] : x \in persisted[v] \/ (v = w /\ x = row)
  BY DEF Write, TypeOK

(* A write keeps the invariant if its row is an outcome of the workflow;    *)
(* the phases are left to the actions.                                      *)
LEMMA WriteKeeps ==
    ASSUME OutcomeInv, NEW w \in Runs, NEW read, NEW row \in Workflow, Outcome(w, row),
           Write(w, read, row),
           at' \in [Runs -> Phase], \A v \in Runs : at'[v] = "new" => at[v] = "new",
           at'[w] # "new", \A v \in Runs \ {w} : at'[v] = at[v],
           stage' \in [Overrides -> Stage], HandsKept,
           UNCHANGED <<created, sources, expired, sent, job, snap, published, crashes>>,
           faults' \in Nat,
           OverrideOK', RunOK', SentOK'
    PROVE  OutcomeInv'
  <1>. USE DEF OutcomeInv
  <1>. /\ store' = [store EXCEPT ![w] = row]
       /\ store' \in [Runs -> Workflow \cup {None}]
       /\ persisted' \in [Runs -> SUBSET Workflow]
       /\ overwritten' \in SUBSET Runs
       /\ row \in persisted'[w]
       /\ \A v \in Runs : persisted[v] \subseteq persisted'[v]
       /\ \A v \in Runs : \A x \in persisted'[v] : x \in persisted[v] \/ (v = w /\ x = row)
    BY WriteFacts
  <1>1. TypeOK'
    BY DEF TypeOK
  <1>2. RowsOK'
    BY OutcomeKept DEF RowsOK
  <1>3. StoreOK'
    BY NotNone DEF StoreOK, TypeOK
  <1>4. EventsAreStored'
    BY NotNone DEF EventsAreStored, Stored, TypeOK, Event
  <1>. QED  BY <1>1, <1>2, <1>3, <1>4

-----------------------------------------------------------------------------
LEMMA RunStepOutcomeInv ==
    ASSUME OutcomeInv, NEW w \in Runs, StartSynthesis(w) \/ RunStep(w) \/ Expire(w)
    PROVE  OutcomeInv'
  <1>. TypeOK /\ RowsOK /\ StoreOK /\ OverrideOK /\ RunOK /\ SentOK /\ EventsAreStored
    BY DEF OutcomeInv
  <1>1. CASE StartSynthesis(w)
    <2>. /\ at[w] = "new" /\ Write(w, None, Started)
         /\ at' = [at EXCEPT ![w] = "created"]
         /\ UNCHANGED <<created, sources, expired, sent, override, published, faults, crashes>>
      BY <1>1 DEF StartSynthesis, Goto
    <2>1. OverrideOK'
      BY RowFacts, WriteFacts DEF OverrideOK, override, TypeOK, Job
    <2>2. RunOK'
      BY RowFacts, WriteFacts DEF RunOK, TypeOK
    <2>3. SentOK'
      BY DEF SentOK, TypeOK
    <2>. QED  BY <2>1, <2>2, <2>3, RowFacts, WriteKeeps, OverridesStay DEF Outcome, TypeOK, Phase, override
  <1>2. CASE AnnounceStart(w)
    <2>. /\ at[w] = "created" /\ at' = [at EXCEPT ![w] = "spawned"]
         /\ UNCHANGED <<store, created, sources, expired, sent, override, history, crashes>>
         /\ published' \in {published, published \cup {[type |-> "synthesis.started", run |-> w]}}
         /\ faults' \in {faults, faults + 1}
      BY <1>2 DEF AnnounceStart, Goto, Publish, CallSucceeds, CallFails
    <2>1. RunOK' /\ SentOK'
      BY DEF RunOK, SentOK, TypeOK, history
    <2>2. EventsAreStored'
      <3>1. Stored([type |-> "synthesis.started", run |-> w])
        BY DEF Stored, StoreOK
      <3>. QED  BY <3>1, PublishKeeps DEF history
    <2>8. Moves(w)
      BY DEF TypeOK, Phase, Moves
    <2>9. TableStays
      BY DEF TypeOK, override, history, Event, TableStays
    <2>. QED  BY <2>1, <2>2, <2>8, <2>9, RunStepKeeps
  <1>3. CASE RunSynthesisStream(w) \/ StreamChunk(w)
    <2>. /\ at[w] \in {"spawned", "asking"}
         /\ \E p \in {"loading", "asking"} : at' = [at EXCEPT ![w] = p]
         /\ \E t \in {"stream.start", "stream.chunk"} : sent' = [sent EXCEPT ![w] = Append(@, t)]
         /\ UNCHANGED <<store, created, sources, expired, override, published, history,
                        faults, crashes>>
      BY <1>3 DEF RunSynthesisStream, StreamChunk, Goto, Broadcast, TypeOK
    <2>1. RunOK'
      BY DEF RunOK, TypeOK, history
    <2>2. SentOK'
      BY DEF SentOK, TypeOK
    <2>3. EventsAreStored'
      BY DEF EventsAreStored, Stored, history
    <2>8. Moves(w)
      BY DEF TypeOK, Phase, Moves
    <2>9. TableStays
      BY DEF TypeOK, override, history, StreamType, TableStays
    <2>. QED  BY <2>1, <2>2, <2>3, <2>8, <2>9, RunStepKeeps
  <1>4. CASE Expire(w)
    <2>. /\ at[w] # "new" /\ expired' = expired \cup {w}
         /\ UNCHANGED <<store, created, at, sources, sent, override, published, history,
                        faults, crashes>>
      BY <1>4 DEF Expire, Running
    <2>1. TypeOK'
      BY DEF TypeOK, override, history
    <2>2. RowsOK' /\ StoreOK' /\ OverrideOK'
      BY OutcomeKept, OverridesStay DEF RowsOK, StoreOK, OverrideOK, override, history
    <2>3. RunOK' /\ SentOK' /\ EventsAreStored'
      BY DEF RunOK, SentOK, EventsAreStored, Stored, history
    <2>. QED  BY <2>1, <2>2, <2>3 DEF OutcomeInv
  <1>5. CASE LoadSources(w) \/ Answer(w)
    <2>. /\ at[w] \in {"loading", "asking"}
         /\ \E p \in {"asking", "answered", "failing"} : at' = [at EXCEPT ![w] = p]
         /\ UNCHANGED <<store, created, sources, expired, sent, override, published, history,
                        crashes>>
         /\ faults' \in {faults, faults + 1}
      BY <1>5 DEF LoadSources, Answer, Goto, CallSucceeds, CallFails
    <2>1. RunOK' /\ SentOK'
      BY DEF RunOK, SentOK, TypeOK, history
    <2>2. EventsAreStored'
      BY DEF EventsAreStored, Stored, history
    <2>8. Moves(w)
      BY DEF TypeOK, Phase, Moves
    <2>9. TableStays
      BY DEF TypeOK, override, history, TableStays
    <2>. QED  BY <2>1, <2>2, <2>8, <2>9, RunStepKeeps
  <1>6. CASE CreateLeaf(w)
    <2>. /\ at[w] = "answered"
         /\ \/ created' = created \cup {w} /\ at' = [at EXCEPT ![w] = "produced"]
            \/ created' = created /\ at' = [at EXCEPT ![w] = "failing"]
         /\ UNCHANGED <<store, sources, expired, sent, override, published, history, crashes>>
         /\ faults' \in {faults, faults + 1}
      BY <1>6 DEF CreateLeaf, Goto, CallSucceeds, CallFails
    <2>1. RunOK' /\ SentOK'
      BY DEF RunOK, SentOK, TypeOK, history
    <2>2. EventsAreStored'
      BY DEF EventsAreStored, Stored, history
    <2>8. Moves(w)
      BY DEF TypeOK, Phase, Moves
    <2>9. TableStays
      BY DEF TypeOK, override, history, TableStays
    <2>. QED  BY <2>1, <2>2, <2>8, <2>9, RunStepKeeps
  <1>7. CASE CompleteRun(w)
    <2>. /\ at[w] = "produced"
         /\ UNCHANGED <<created, sources, expired, sent, override, published, crashes>>
         /\ faults' \in {faults, faults + 1}
      BY <1>7 DEF CompleteRun, CallSucceeds, CallFails
    <2>1. CASE Write(w, Started, Complete(Started, w)) /\ at' = [at EXCEPT ![w] = "completed"]
      <3>1. OverrideOK'
        BY <2>1, RowFacts, WriteFacts DEF OverrideOK, override, TypeOK, Job, Leaf
      <3>2. RunOK'
        BY <2>1, RowFacts, WriteFacts DEF RunOK, TypeOK, Leaf
      <3>3. SentOK'
        BY <2>1 DEF SentOK, TypeOK
      <3>4. Complete(Started, w) \in Workflow /\ Outcome(w, Complete(Started, w))
        BY RowFacts DEF Leaf, Outcome, RunOK
      <3>. QED
        <4>1. /\ at' \in [Runs -> Phase] /\ at'[w] # "new"
              /\ \A v \in Runs \ {w} : at'[v] = at[v]
          BY <2>1 DEF TypeOK, Phase
        <4>2. /\ stage' \in [Overrides -> Stage] /\ faults' \in Nat
              /\ UNCHANGED <<created, sources, expired, sent, job, snap, published, crashes>>
              /\ HandsKept
          BY OverridesStay DEF TypeOK, override
        <4>. QED  BY <2>1, <3>1, <3>2, <3>3, <3>4, <4>1, <4>2, WriteKeeps
    <2>2. CASE UNCHANGED <<store, history>> /\ at' = [at EXCEPT ![w] = "silent"]
      <3>1. RunOK' /\ SentOK'
        BY <2>2 DEF RunOK, SentOK, TypeOK, history
      <3>2. EventsAreStored'
        BY <2>2 DEF EventsAreStored, Stored, history
      <3>8. Moves(w)
        BY <2>2 DEF TypeOK, Phase, Moves
      <3>9. TableStays
        BY <2>2 DEF TypeOK, override, history, TableStays
      <3>. QED  BY <2>2, <3>1, <3>2, <3>8, <3>9, RunStepKeeps
    <2>. QED  BY <1>7, <2>1, <2>2 DEF CompleteRun, Goto
  <1>8. CASE AnnounceCompleted(w) \/ AnnounceLeaf(w)
    <2>. /\ at[w] \in {"completed", "announced"}
         /\ \E p \in {"announced", "ending"} : at' = [at EXCEPT ![w] = p]
         /\ UNCHANGED <<store, created, sources, expired, sent, override, history, crashes>>
         /\ \E e \in {[type |-> "synthesis.completed", run |-> w, leaf |-> w],
                      [type |-> "synthesis.leaf.created", run |-> w]} :
              published' \in {published, published \cup {e}}
         /\ faults' \in {faults, faults + 1}
      BY <1>8 DEF AnnounceCompleted, AnnounceLeaf, Goto, Publish, CallSucceeds, CallFails
    <2>1. RunOK' /\ SentOK'
      BY DEF RunOK, SentOK, TypeOK, history
    <2>2. EventsAreStored'
      <3>1. /\ Stored([type |-> "synthesis.completed", run |-> w, leaf |-> w])
            /\ Stored([type |-> "synthesis.leaf.created", run |-> w])
        BY DEF Stored, RunOK
      <3>. QED  BY <3>1, PublishKeeps DEF history
    <2>8. Moves(w)
      BY DEF TypeOK, Phase, Moves
    <2>9. TableStays
      BY DEF TypeOK, override, history, Event, Leaf, TableStays
    <2>. QED  BY <2>1, <2>2, <2>8, <2>9, RunStepKeeps
  <1>9. CASE EndStream(w) \/ Notify(w)
    <2>. /\ \/ /\ at[w] = "ending" /\ at' = [at EXCEPT ![w] = "ok"]
               /\ sent' = [sent EXCEPT ![w] = Append(@, "stream.end")]
            \/ /\ at[w] = "notifying" /\ at' = [at EXCEPT ![w] = "failed"]
               /\ sent' = [sent EXCEPT ![w] = Append(@, "stream.error")]
         /\ UNCHANGED <<store, created, sources, expired, override, published, history,
                        faults, crashes>>
      BY <1>9 DEF EndStream, Notify, Goto, Broadcast
    <2>1. RunOK'
      BY DEF RunOK, TypeOK, history
    <2>2. /\ sent[w] \in Seq(StreamType)
          /\ sent' = [sent EXCEPT ![w] =
                        Append(@, IF at[w] = "ending" THEN "stream.end" ELSE "stream.error")]
      BY DEF TypeOK
    <2>4. /\ sent'[w] \in Seq(StreamType)
          /\ Len(sent'[w]) = Len(sent[w]) + 1
          /\ \A k \in 1 .. Len(sent[w]) : sent'[w][k] = sent[w][k]
          /\ sent'[w][Len(sent'[w])] = IF at[w] = "ending" THEN "stream.end" ELSE "stream.error"
      <3>1. sent'[w] = Append(sent[w], IF at[w] = "ending" THEN "stream.end" ELSE "stream.error")
        BY <2>2 DEF TypeOK
      <3>. QED  BY <2>2, <3>1 DEF StreamType
    <2>5. /\ sent' \in [Runs -> Seq(StreamType)]
          /\ \A v \in Runs \ {w} : sent'[v] = sent[v]
      BY <2>2, <2>4 DEF TypeOK
    <2>6. SentOK'
      <3>1. ASSUME NEW v \in Runs \ {w}, NEW k \in DOMAIN sent'[v]
            PROVE  /\ sent'[v][k] = "stream.error" => at'[v] = "failed"
                   /\ sent'[v][k] = "stream.end" => at'[v] = "ok"
                   /\ sent'[v][k] \in {"stream.end", "stream.error"} => k = Len(sent'[v])
        BY <2>5, <3>1 DEF SentOK, TypeOK
      <3>2. ASSUME NEW k \in DOMAIN sent'[w]
            PROVE  /\ sent'[w][k] = "stream.error" => at'[w] = "failed"
                   /\ sent'[w][k] = "stream.end" => at'[w] = "ok"
                   /\ sent'[w][k] \in {"stream.end", "stream.error"} => k = Len(sent'[w])
        <4>1. CASE k = Len(sent'[w])
          BY <2>4, <4>1 DEF TypeOK
        <4>2. CASE k \in DOMAIN sent[w]
          BY <2>2, <2>4, <4>2 DEF SentOK
        <4>. QED  BY <2>2, <2>4, <4>1, <4>2
      <3>. QED  BY <3>1, <3>2 DEF SentOK
    <2>3. EventsAreStored'
      BY DEF EventsAreStored, Stored, history
    <2>8. Moves(w)
      BY DEF TypeOK, Phase, Moves
    <2>9. TableStays
      BY <2>5 DEF TypeOK, override, history, StreamType, TableStays
    <2>. QED  BY <2>1, <2>3, <2>6, <2>8, <2>9, RunStepKeeps
  <1>10. CASE FailWorkflow(w)
    <2>. /\ at[w] = "failing" /\ at' = [at EXCEPT ![w] = "notifying"]
         /\ UNCHANGED <<created, sources, expired, sent, override, published, crashes>>
         /\ faults' \in {faults, faults + 1}
      BY <1>10 DEF FailWorkflow, Goto, CallSucceeds, CallFails
    <2>1. CASE Write(w, Started, Fail(Started, "reason"))
      <3>1. OverrideOK'
        BY <2>1, RowFacts, WriteFacts DEF OverrideOK, override, TypeOK, Job, Reason
      <3>2. RunOK'
        BY <2>1, RowFacts, WriteFacts DEF RunOK, TypeOK, IsTerminal, Reason
      <3>3. SentOK'
        BY <2>1 DEF SentOK, TypeOK
      <3>4. Fail(Started, "reason") \in Workflow /\ Outcome(w, Fail(Started, "reason"))
        BY RowFacts, SynthesisAssumption DEF Outcome, Reason
      <3>5. /\ at' \in [Runs -> Phase] /\ at'[w] # "new"
            /\ \A v \in Runs \ {w} : at'[v] = at[v]
        BY DEF TypeOK, Phase
      <3>6. /\ stage' \in [Overrides -> Stage] /\ faults' \in Nat
            /\ UNCHANGED <<created, sources, expired, sent, job, snap, published, crashes>>
            /\ HandsKept
        BY OverridesStay DEF TypeOK, override
      <3>. QED
        BY <2>1, <3>1, <3>2, <3>3, <3>4, <3>5, <3>6, WriteKeeps
    <2>2. CASE UNCHANGED <<store, history>> /\ (w \in expired \/ faults' = faults + 1)
      <3>1. RunOK' /\ SentOK'
        BY <2>2 DEF RunOK, SentOK, TypeOK, history
      <3>2. EventsAreStored'
        BY <2>2 DEF EventsAreStored, Stored, history
      <3>8. Moves(w)
        BY <2>2 DEF TypeOK, Phase, Moves
      <3>9. TableStays
        BY <2>2 DEF TypeOK, override, history, TableStays
      <3>. QED  BY <2>2, <3>1, <3>2, <3>8, <3>9, RunStepKeeps
    <2>. QED  BY <1>10, <2>1, <2>2 DEF FailWorkflow, CallFails
  <1>. QED
    BY <1>1, <1>2, <1>3, <1>4, <1>5, <1>6, <1>7, <1>8, <1>9, <1>10 DEF RunStep

(* A step of an override that writes no row. *)
LEMMA OverrideStepKeeps ==
    ASSUME OutcomeInv,
           UNCHANGED <<store, created, run, history, crashes>>, HandsKept,
           stage' \in [Overrides -> Stage], job' \in [Overrides -> Job \cup {None}],
           snap' \in [Overrides -> Workflow \cup {None}], published' \in SUBSET Event,
           faults' \in Nat, faults <= faults', OverrideOK', EventsAreStored'
    PROVE  OutcomeInv'
  <1>. USE DEF OutcomeInv, run, history
  <1>1. TypeOK'
    BY DEF TypeOK
  <1>2. RowsOK' /\ StoreOK' /\ SentOK'
    BY OutcomeKept DEF RowsOK, StoreOK, SentOK
  <1>3. RunOK'
    BY DEF RunOK, TypeOK
  <1>. QED  BY <1>1, <1>2, <1>3

LEMMA OverrideOutcomeInv ==
    ASSUME OutcomeInv, NEW o \in Overrides, FindByID(o) \/ OverrideStep(o)
    PROVE  OutcomeInv'
  <1>. TypeOK /\ RowsOK /\ StoreOK /\ OverrideOK /\ RunOK /\ SentOK /\ EventsAreStored
    BY DEF OutcomeInv
  <1>1. CASE FindByID(o)
    <2>. PICK j \in Job : /\ store[j.run] # None
                          /\ job' = [job EXCEPT ![o] = j]
                          /\ snap' = [snap EXCEPT ![o] = store[j.run]]
      BY <1>1 DEF FindByID
    <2>. /\ stage' = [stage EXCEPT ![o] = "found"]
         /\ UNCHANGED <<store, created, run, published, history, faults, crashes>>
      BY <1>1 DEF FindByID, ToStage
    <2>1. j.run \in Runs
      BY DEF Job
    <2>2. at[j.run] # "new" /\ store[j.run] \in persisted[j.run]
      BY <2>1 DEF StoreOK
    <2>3. OverrideOK'
      BY <2>1, <2>2 DEF OverrideOK, TypeOK, run, history
    <2>4. EventsAreStored'
      BY DEF EventsAreStored, Stored, history
    <2>5. /\ stage' \in [Overrides -> Stage] /\ job' \in [Overrides -> Job \cup {None}]
          /\ snap' \in [Overrides -> Workflow \cup {None}]
      BY <2>1 DEF TypeOK, Stage
    <2>6. HandsKept
      BY <1>1 DEF FindByID, HandsKept, TypeOK
    <2>. QED  BY <2>3, <2>4, <2>5, <2>6, OverrideStepKeeps DEF TypeOK
  <1>2. CASE Refuse(o) \/ UpdateFails(o)
    <2>. /\ stage' = [stage EXCEPT ![o] = "error"]
         /\ UNCHANGED <<store, created, run, job, snap, published, history, crashes>>
         /\ faults' \in {faults, faults + 1}
      BY <1>2 DEF Refuse, UpdateFails, ToStage, Fault
    <2>1. stage[o] = "found"
      BY <1>2 DEF Refuse, UpdateFails
    <2>2. OverrideOK'
      BY <2>1 DEF OverrideOK, TypeOK, run, history
    <2>3. EventsAreStored'
      BY DEF EventsAreStored, Stored, history
    <2>4. stage' \in [Overrides -> Stage] /\ HandsKept
      BY DEF TypeOK, Stage, HandsKept
    <2>. QED  BY <2>2, <2>3, <2>4, OverrideStepKeeps DEF TypeOK
  <1>3. CASE CompleteSynthesis(o) \/ FailSynthesis(o)
    <2>1. /\ stage[o] = "found" /\ CanFinish(snap[o])
          /\ UNCHANGED <<created, run, job, snap, published, faults, crashes>>
      BY <1>3 DEF CompleteSynthesis, FailSynthesis
    <2>2. job[o] \in Job /\ job[o].run \in Runs /\ at[job[o].run] # "new"
      BY <2>1 DEF OverrideOK, Job
    <2>3. snap[o] = Started
      BY <2>1, <2>2, FinishableIsStarted DEF OverrideOK, RowsOK
    <2>4. PICK row :
            /\ Write(job[o].run, snap[o], row)
            /\ \/ /\ job[o].op = "complete" /\ row = Complete(Started, job[o].leaf)
                  /\ stage' = [stage EXCEPT ![o] = "announcing"]
               \/ /\ job[o].op = "fail" /\ row = Fail(Started, job[o].reason)
                  /\ stage' = [stage EXCEPT ![o] = "ok"]
      BY <1>3, <2>3 DEF CompleteSynthesis, FailSynthesis, ToStage
    <2>5. row \in Workflow /\ Outcome(job[o].run, row) /\ IsTerminal(row.status)
      <3>1. ByHand(job[o])
        BY <2>1 DEF ByHand
      <3>2. CASE job[o].op = "complete" /\ row = Complete(Started, job[o].leaf)
        <4>1. /\ job[o].leaf \in Leaf
              /\ job[o] = [op |-> "complete", run |-> job[o].run, leaf |-> job[o].leaf]
          BY <2>2, <3>2 DEF Job
        <4>2. ByHand([op |-> "complete", run |-> job[o].run, leaf |-> job[o].leaf])
          BY <3>1, <4>1, Zenon
        <4>3. row \in Workflow /\ row.status = "completed"
          BY <3>2, <4>1, RowFacts
        <4>. QED  BY <3>2, <4>1, <4>2, <4>3 DEF Outcome, IsTerminal
      <3>3. CASE job[o].op = "fail" /\ row = Fail(Started, job[o].reason)
        <4>1. /\ job[o].reason \in Reason
              /\ job[o] = [op |-> "fail", run |-> job[o].run, reason |-> job[o].reason]
          BY <2>2, <3>3 DEF Job
        <4>2. job[o].reason = None => ByHand([op |-> "fail", run |-> job[o].run, reason |-> None])
          BY <3>1, <4>1, Zenon
        <4>3. row \in Workflow /\ row.status = "failed"
          BY <3>3, <4>1, RowFacts
        <4>. QED  BY <3>3, <4>1, <4>2, <4>3 DEF Outcome, IsTerminal
      <3>. QED  BY <2>4, <3>2, <3>3
    <2>6. OverrideOK'
      <3>1. \A v \in Runs : persisted[v] \subseteq persisted'[v]
        BY <2>2, <2>4, <2>5, WriteFacts
      <3>2. row \in persisted'[job[o].run]
        BY <2>2, <2>4, <2>5, WriteFacts
      <3>. QED  BY <2>1, <2>2, <2>4, <3>1, <3>2 DEF OverrideOK, TypeOK, run, Job
    <2>7. RunOK'
      <3>1. /\ store' = [store EXCEPT ![job[o].run] = row]
            /\ \A v \in Runs : persisted[v] \subseteq persisted'[v]
        BY <2>2, <2>4, <2>5, WriteFacts
      <3>. QED  BY <2>1, <2>2, <2>5, <3>1 DEF RunOK, TypeOK, run
    <2>8. SentOK'
      BY <2>1 DEF SentOK, run
    <2>9. stage' \in [Overrides -> Stage]
      BY <2>4 DEF TypeOK, Stage
    <2>10. /\ at' = at /\ at \in [Runs -> Phase] /\ faults' \in Nat
           /\ UNCHANGED <<created, sources, expired, sent, job, snap, published, crashes>>
           /\ HandsKept
      BY <2>1, <2>4 DEF TypeOK, run, HandsKept
    <2>. QED  BY <2>2, <2>4, <2>5, <2>6, <2>7, <2>8, <2>9, <2>10, WriteKeeps
  <1>4. CASE AnnounceOverride(o)
    <2>. /\ stage[o] = "announcing" /\ stage' = [stage EXCEPT ![o] = "ok"]
         /\ UNCHANGED <<store, created, run, job, snap, history, crashes>>
         /\ published' \in {published, published \cup {[type |-> "synthesis.completed",
                                                        run  |-> job[o].run,
                                                        leaf |-> job[o].leaf]}}
         /\ faults' \in {faults, faults + 1}
      BY <1>4 DEF AnnounceOverride, ToStage, Fault
    <2>1. /\ job[o] \in Job /\ job[o].op = "complete"
          /\ Complete(Started, job[o].leaf) \in persisted[job[o].run]
      BY DEF OverrideOK
    <2>2. OverrideOK'
      BY DEF OverrideOK, TypeOK, run, history
    <2>3. EventsAreStored'
      <3>1. Stored([type |-> "synthesis.completed", run |-> job[o].run, leaf |-> job[o].leaf])
        BY <2>1 DEF Stored
      <3>. QED  BY <3>1, PublishKeeps DEF history
    <2>4. stage' \in [Overrides -> Stage] /\ published' \in SUBSET Event /\ HandsKept
      BY <2>1 DEF TypeOK, Stage, Event, Job, HandsKept
    <2>. QED  BY <2>2, <2>3, <2>4, OverrideStepKeeps DEF TypeOK
  <1>. QED  BY <1>1, <1>2, <1>3, <1>4 DEF OverrideStep

LEMMA CrashOutcomeInv == ASSUME OutcomeInv, Crash PROVE OutcomeInv'
  <1>. TypeOK /\ RowsOK /\ StoreOK /\ OverrideOK /\ RunOK /\ SentOK /\ EventsAreStored
    BY DEF OutcomeInv
  <1>. /\ at' = [w \in Runs |-> IF at[w] \in Running THEN "lost" ELSE at[w]]
       /\ stage' = [o \in Overrides |-> IF stage[o] \in {"found", "announcing"}
                                        THEN "lost" ELSE stage[o]]
       /\ UNCHANGED <<store, created, sources, expired, sent, job, snap, published, history, faults>>
       /\ crashes' = crashes + 1
    BY DEF Crash
  <1>1. TypeOK'
    BY DEF TypeOK, Phase, Stage, history
  <1>2. RowsOK' /\ StoreOK' /\ EventsAreStored'
    <2>1. HandsKept
      BY DEF HandsKept
    <2>2. RowsOK'
      BY <2>1, OutcomeKept DEF RowsOK, history
    <2>. QED  BY <2>2 DEF StoreOK, EventsAreStored, Stored, Running, history
  <1>3. OverrideOK'
    BY DEF OverrideOK, Job, Running, history
  <1>4. RunOK' /\ SentOK'
    BY DEF RunOK, SentOK, Running, history
  <1>. QED  BY <1>1, <1>2, <1>3, <1>4 DEF OutcomeInv

LEMMA NextOutcomeInv == OutcomeInv /\ [Next]_vars => OutcomeInv'
  <1> SUFFICES ASSUME OutcomeInv, [Next]_vars PROVE OutcomeInv'
    OBVIOUS
  <1>1. CASE UNCHANGED vars
    <2>1. RowsOK'
      BY <1>1, OutcomeKept, OverridesStay DEF vars, run, override, history, OutcomeInv, RowsOK
    <2>. QED  BY <1>1, <2>1
              DEF vars, run, override, history, OutcomeInv, TypeOK, StoreOK, OverrideOK,
                  RunOK, SentOK, EventsAreStored, Stored
  <1>. QED
    BY <1>1, RunStepOutcomeInv, OverrideOutcomeInv, CrashOutcomeInv DEF Next

-----------------------------------------------------------------------------
(* Every variable keeps to its type. *)
THEOREM TypeCorrect == Spec => []TypeOK
  <1>1. OutcomeInv => TypeOK
    BY DEF OutcomeInv
  <1>. QED  BY InitOutcomeInv, NextOutcomeInv, <1>1, PTL DEF Spec

(* Runs and overrides write over one another, but an outcome is never a mix *)
(* of two: a result exactly if completed, a reason only if failed, and then *)
(* always unless somebody failed the workflow by hand without one.          *)
THEOREM OutcomesAreCoherent == Spec => []OutcomeIsCoherent
  <1>1. OutcomeInv => OutcomeIsCoherent
    <2> SUFFICES ASSUME OutcomeInv, NEW w \in Runs, NEW row \in persisted[w]
                 PROVE  /\ (row.result # None) <=> (row.status = "completed")
                        /\ row.reason # None => row.status = "failed"
                        /\ (row.status = "failed" /\ row.reason = None) =>
                              ByHand([op |-> "fail", run |-> w, reason |-> None])
      BY DEF OutcomeIsCoherent
    <2>1. Outcome(w, row)
      BY DEF OutcomeInv, RowsOK
    <2>2. \A l \in Leaf : l # None
      BY SynthesisAssumption
    <2>3. CASE row = Started
      BY <2>3, RowFacts
    <2>4. ASSUME NEW c \in Reason, row = Fail(Started, c),
                 c = None => ByHand([op |-> "fail", run |-> w, reason |-> None])
          PROVE  /\ row.status = "failed" /\ row.result = None
                 /\ row.reason = None => ByHand([op |-> "fail", run |-> w, reason |-> None])
      <3>1. row.status = "failed" /\ row.result = None /\ row.reason = c
        BY <2>4, RowFacts
      <3>. QED  BY <2>4, <3>1
    <2>5. ASSUME NEW l \in Leaf, row = Complete(Started, l)
          PROVE  row.status = "completed" /\ row.result # None /\ row.reason = None
      BY <2>2, <2>5, RowFacts
    <2>. QED  BY <2>1, <2>3, <2>4, <2>5 DEF Outcome
  <1>. QED  BY InitOutcomeInv, NextOutcomeInv, <1>1, PTL DEF Spec

(* A result a workflow names is in the leaves table, although the two are   *)
(* written by separate transactions, or was named by hand.                  *)
THEOREM ResultsExist == Spec => []ResultExists
  <1>1. OutcomeInv => ResultExists
    <2> SUFFICES ASSUME OutcomeInv, NEW w \in Runs, NEW row \in persisted[w], row.result # None
                 PROVE  \/ row.result \in Leaves \cup created
                        \/ ByHand([op |-> "complete", run |-> w, leaf |-> row.result])
      BY DEF ResultExists
    <2>1. Outcome(w, row)
      BY DEF OutcomeInv, RowsOK
    <2>2. PICK l \in Leaf :
             /\ row = Complete(Started, l)
             /\ l \in Leaves \cup created \/ ByHand([op |-> "complete", run |-> w, leaf |-> l])
      BY <2>1, RowFacts DEF Outcome
    <2>3. PICK result : result = row.result
      OBVIOUS
    <2>4. result = l
      BY <2>2, <2>3, RowFacts
    <2>. QED  BY <2>2, <2>3, <2>4
  <1>. QED  BY InitOutcomeInv, NextOutcomeInv, <1>1, PTL DEF Spec

(* A stored workflow has one outcome, and its result exists, but for what   *)
(* was stored by hand.                                                      *)
THEOREM StoredResultsAreSound == Spec => []ResultsSound
  BY OutcomesAreCoherent, ResultsExist, PTL DEF ResultsSound

(* No event of a workflow runs ahead of the row it tells of. *)
THEOREM EventsFollowRows == Spec => []EventsAreStored
  <1>1. OutcomeInv => EventsAreStored
    BY DEF OutcomeInv
  <1>. QED  BY InitOutcomeInv, NextOutcomeInv, <1>1, PTL DEF Spec

(* stream.error and stream.end tell the clients what became of the run. *)
THEOREM StreamsTellOutcomes == Spec => []StreamTellsOutcome
  <1>1. OutcomeInv => StreamTellsOutcome
    BY DEF OutcomeInv, RunOK, SentOK, StreamTellsOutcome
  <1>. QED  BY InitOutcomeInv, NextOutcomeInv, <1>1, PTL DEF Spec

(* Events and stream tell what was stored. *)
THEOREM OutcomesAreTold == Spec => []OutcomeTold
  BY EventsFollowRows, StreamsTellOutcomes, PTL DEF OutcomeTold

(* A finished workflow keeps its outcome until somebody writes a row        *)
(* without having read the one it replaces.                                 *)
THEOREM FinishedStaysFinished == Spec => TerminalIsFinal
  <1>1. ASSUME OutcomeInv, NEW w \in Runs, NEW v \in Runs, NEW read, NEW row,
               Write(v, read, row), store[w] # None, IsTerminal(store[w].status),
               w \notin overwritten',
               read = None \/ ~IsTerminal(read.status)
        PROVE  store'[w] = store[w]
    BY <1>1 DEF Write, OutcomeInv, TypeOK
  <1>2. ~IsTerminal(Started.status)
    BY RowFacts DEF IsTerminal
  <1>3. ASSUME OutcomeInv, Next, NEW w \in Runs, store[w] # None,
               IsTerminal(store[w].status), w \notin overwritten'
        PROVE  store'[w] = store[w]
    <2>1. ASSUME NEW v \in Runs, StartSynthesis(v) \/ RunStep(v) \/ Expire(v)
          PROVE  UNCHANGED store \/ \E row : Write(v, None, row) \/ Write(v, Started, row)
      BY <2>1
      DEF StartSynthesis, RunStep, Expire, AnnounceStart, RunSynthesisStream, LoadSources,
          StreamChunk, Answer, CreateLeaf, CompleteRun, AnnounceCompleted, AnnounceLeaf,
          EndStream, FailWorkflow, Notify
    <2>2. ASSUME NEW o \in Overrides, FindByID(o) \/ OverrideStep(o)
          PROVE  \/ UNCHANGED store
                 \/ /\ \E row : Write(job[o].run, snap[o], row)
                    /\ CanFinish(snap[o]) /\ stage[o] = "found"
      BY <2>2
      DEF OverrideStep, FindByID, Refuse, UpdateFails, CompleteSynthesis, FailSynthesis,
          AnnounceOverride
    <2>3. ASSUME NEW o \in Overrides, stage[o] = "found" PROVE job[o].run \in Runs
      BY <1>3, <2>3 DEF OutcomeInv, OverrideOK, Job
    <2>4. \A row : CanFinish(row) => ~IsTerminal(row.status)
      BY DEF CanFinish, IsTerminal
    <2>5. CASE Crash
      BY <2>5 DEF Crash
    <2>6. ASSUME NEW v \in Runs, StartSynthesis(v) \/ RunStep(v) \/ Expire(v)
          PROVE  store'[w] = store[w]
      BY <1>1, <1>2, <1>3, <2>1, <2>6
    <2>7. ASSUME NEW o \in Overrides, FindByID(o) \/ OverrideStep(o)
          PROVE  store'[w] = store[w]
      BY <1>1, <1>3, <2>2, <2>3, <2>4, <2>7
    <2>. QED  BY <1>3, <2>5, <2>6, <2>7 DEF Next
  <1>4. OutcomeInv /\ [Next]_vars =>
          [\A w \in Runs :
            (store[w] # None /\ IsTerminal(store[w].status) /\ w \notin overwritten') =>
                store'[w] = store[w]]_vars
    BY <1>3
  <1>. QED  BY InitOutcomeInv, NextOutcomeInv, <1>4, PTL DEF Spec, TerminalIsFinal
=============================================================================
