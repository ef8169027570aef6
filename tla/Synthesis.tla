----------------------------- MODULE Synthesis -----------------------------
(***************************************************************************)
(* Synthesis workflows: internal/synthesis.                                 *)
(*                                                                          *)
(* StartSynthesis stores a workflow and hands its copy to a goroutine that  *)
(* has three minutes to read the source leaves, ask the language model,     *)
(* create the result leaf and store the outcome.  Anyone may meanwhile      *)
(* complete or fail the same workflow by hand: read, change, write back.    *)
(* The leaf a run creates is named after the run.                           *)
(***************************************************************************)
EXTENDS Naturals, Sequences, FiniteSets

CONSTANTS
    Runs,         \* synthesis ids; each has the goroutine that serves it
    Overrides,    \* requests that complete or fail a workflow by hand
    Leaves,       \* leaves that exist beforehand
    Unknown,      \* leaf ids that no leaf has
    SourceLists,  \* the source leaf lists a caller may ask to synthesize
    None,         \* no row, no result, no reason
    MaxChunks,    \* bound on the chunks of one stream
    MaxFaults,    \* bound on failing database, broker and seed calls
    MaxCrashes    \* bound on restarts of the server

VARIABLES
    store,      \* the workflows table: id -> row
    created,    \* the result leaves in the leaves table
    at,         \* where each run is
    sources,    \* the source list each run was started with
    expired,    \* the runs whose three minutes are over
    sent,       \* the stream messages broadcast for each run
    stage,      \* where each override is
    job,        \* what each override was asked to do
    snap,       \* the copy of the row an override works on
    published,  \* the events that reached the broker
    persisted,  \* history: every row written, per workflow
    overwritten,\* history: the workflows whose row was replaced by somebody
                \* who had read an earlier one
    faults, crashes

run == <<at, sources, expired, sent>>
override == <<stage, job, snap>>
history == <<persisted, overwritten>>
vars == <<store, created, run, override, published, history, faults, crashes>>

-----------------------------------------------------------------------------
(* The domain: SynthesisWorkflow. *)

WorkflowStatus == {"pending", "processing", "completed", "failed"}

IsTerminal(status) == status \in {"completed", "failed"}

Leaf == Leaves \cup Unknown \cup Runs

(* NullableString stores an empty reason as NULL. *)
Reason == {None, "reason"}

Workflow == [status : WorkflowStatus, result : Leaf \cup {None}, reason : Reason]

ASSUME SynthesisAssumption ==
    /\ Leaves \cap Runs = {}
    /\ (Leaves \cup Runs) \cap Unknown = {}
    /\ None \notin Workflow \cup Leaf \cup {"reason"}
    /\ \A list \in SourceLists : list \in Seq(Leaves \cup Unknown) /\ Len(list) >= 2
    /\ MaxChunks \in Nat
    /\ MaxFaults \in Nat
    /\ MaxCrashes \in Nat

(* NewSynthesisWorkflow and Start, as StartSynthesis calls them. *)
Started == [status |-> "processing", result |-> None, reason |-> None]

(* Mutant of CanFinish: the guard is forgotten. *)
CanFinishAlways(row) == TRUE

(* Complete and Fail refuse every workflow that is not processing. *)
CanFinish(row) == row.status = "processing"

Complete(row, leaf) == [row EXCEPT !.status = "completed", !.result = leaf]

Fail(row, reason) == [row EXCEPT !.status = "failed", !.reason = reason]

(* FindByIDs returns each existing leaf once. *)
SourcesFound(list) ==
    Cardinality({list[i] : i \in DOMAIN list} \cap Leaves) = Len(list)

-----------------------------------------------------------------------------
Phase == {"new", "created", "spawned", "loading", "asking", "answered", "produced",
          "completed", "announced", "ending", "failing", "notifying",
          "ok", "failed", "silent", "lost"}

Running == {"created", "spawned", "loading", "asking", "answered", "produced",
            "completed", "announced", "ending", "failing", "notifying"}

Stage == {"new", "found", "announcing", "ok", "error", "lost"}

Job == [op : {"complete"}, run : Runs, leaf : Leaf]
         \cup [op : {"fail"}, run : Runs, reason : Reason]

Event == [type : {"synthesis.started", "synthesis.leaf.created"}, run : Runs]
           \cup [type : {"synthesis.completed"}, run : Runs, leaf : Leaf]

StreamType == {"stream.start", "stream.chunk", "stream.end", "stream.error"}

Init ==
    /\ store = [w \in Runs |-> None]
    /\ created = {}
    /\ at = [w \in Runs |-> "new"]
    /\ sources \in [Runs -> SourceLists]
    /\ expired = {}
    /\ sent = [w \in Runs |-> <<>>]
    /\ stage = [o \in Overrides |-> "new"]
    /\ job = [o \in Overrides |-> None]
    /\ snap = [o \in Overrides |-> None]
    /\ published = {}
    /\ persisted = [w \in Runs |-> {}]
    /\ overwritten = {}
    /\ faults = 0
    /\ crashes = 0

(* Create and Update: every column of the row becomes that of the copy;     *)
(* read is the row the copy was made of.                                    *)
Write(w, read, row) ==
    /\ store' = [store EXCEPT ![w] = row]
    /\ overwritten' = IF store[w] = read THEN overwritten ELSE overwritten \cup {w}
    /\ persisted' = [persisted EXCEPT ![w] = @ \cup {row}]

Goto(w, phase) == at' = [at EXCEPT ![w] = phase]

Broadcast(w, type) == sent' = [sent EXCEPT ![w] = Append(@, type)]

(* A call made on the run's own context: it fails once the time is over.    *)
CallFails(w) ==
    \/ w \in expired /\ UNCHANGED faults
    \/ w \notin expired /\ faults < MaxFaults /\ faults' = faults + 1

CallSucceeds(w) == w \notin expired /\ UNCHANGED faults

(* Fire-and-forget publishing. *)
Publish(w, event) ==
    \/ CallSucceeds(w) /\ published' = published \cup {event}
    \/ CallFails(w) /\ UNCHANGED published

-----------------------------------------------------------------------------
(* The run. *)

(* StartSynthesis up to the INSERT; a failure before it leaves no trace. *)
StartSynthesis(w) ==
    /\ at[w] = "new"
    /\ Write(w, None, Started)
    /\ Goto(w, "created")
    /\ UNCHANGED <<created, sources, expired, sent, override, published, faults, crashes>>

(* The rest of StartSynthesis; the context has no deadline yet. *)
AnnounceStart(w) ==
    /\ at[w] = "created"
    /\ Publish(w, [type |-> "synthesis.started", run |-> w])
    /\ Goto(w, "spawned")
    /\ UNCHANGED <<store, created, sources, expired, sent, override, history, crashes>>

RunSynthesisStream(w) ==
    /\ at[w] = "spawned"
    /\ Broadcast(w, "stream.start")
    /\ Goto(w, "loading")
    /\ UNCHANGED <<store, created, sources, expired, override, published, history, faults, crashes>>

(* The deadline of the run's context passes. *)
Expire(w) ==
    /\ at[w] \in Running \ {"created", "spawned"}
    /\ w \notin expired
    /\ expired' = expired \cup {w}
    /\ UNCHANGED <<store, created, at, sources, sent, override, published, history, faults, crashes>>

(* FindByIDs, the count check, the seed, and resolving the provider. *)
LoadSources(w) ==
    /\ at[w] = "loading"
    /\ \/ SourcesFound(sources[w]) /\ CallSucceeds(w) /\ Goto(w, "asking")
       \/ ~SourcesFound(sources[w]) /\ CallSucceeds(w) /\ Goto(w, "failing")
       \/ CallFails(w) /\ Goto(w, "failing")
    /\ UNCHANGED <<store, created, sources, expired, sent, override, published, history, crashes>>

StreamChunk(w) ==
    /\ at[w] = "asking"
    /\ w \notin expired
    /\ Len(sent[w]) <= MaxChunks
    /\ Broadcast(w, "stream.chunk")
    /\ UNCHANGED <<store, created, at, sources, expired, override, published, history, faults, crashes>>

(* Mutant of Answer: a failure is told to the clients but not stored. *)
AnswerFailsUnstored(w) ==
    /\ at[w] = "asking"
    /\ \/ w \notin expired /\ Goto(w, "answered")
       \/ Goto(w, "notifying")
    /\ UNCHANGED <<store, created, sources, expired, sent, override, published, history, faults, crashes>>

(* The model answers, or it fails, or its answer is not the JSON asked for. *)
Answer(w) ==
    /\ at[w] = "asking"
    /\ \/ w \notin expired /\ Goto(w, "answered")
       \/ Goto(w, "failing")
    /\ UNCHANGED <<store, created, sources, expired, sent, override, published, history, faults, crashes>>

(* Mutant of CreateLeaf: its error is only logged. *)
CreateLeafErrorIgnored(w) ==
    /\ at[w] = "answered"
    /\ Goto(w, "produced")
    /\ \/ CallSucceeds(w) /\ created' = created \cup {w}
       \/ CallFails(w) /\ UNCHANGED created
    /\ UNCHANGED <<store, sources, expired, sent, override, published, history, crashes>>

(* Branch and leaf are created in one transaction. *)
CreateLeaf(w) ==
    /\ at[w] = "answered"
    /\ \/ CallSucceeds(w) /\ created' = created \cup {w} /\ Goto(w, "produced")
       \/ CallFails(w) /\ UNCHANGED created /\ Goto(w, "failing")
    /\ UNCHANGED <<store, sources, expired, sent, override, published, history, crashes>>

(* Mutant of CompleteRun: a failed write is told to the clients as if there  *)
(* were no leaf.                                                            *)
CompleteRunReports(w) ==
    /\ at[w] = "produced"
    /\ \/ CallSucceeds(w) /\ Write(w, Started, Complete(Started, w)) /\ Goto(w, "completed")
       \/ CallFails(w) /\ UNCHANGED <<store, history>> /\ Goto(w, "notifying")
    /\ UNCHANGED <<created, sources, expired, sent, override, published, crashes>>

(* The copy made at the start is completed and written back; a failed write *)
(* is only logged, and nothing more is said on the stream.                  *)
CompleteRun(w) ==
    /\ at[w] = "produced"
    /\ \/ CallSucceeds(w) /\ Write(w, Started, Complete(Started, w)) /\ Goto(w, "completed")
       \/ CallFails(w) /\ UNCHANGED <<store, history>> /\ Goto(w, "silent")
    /\ UNCHANGED <<created, sources, expired, sent, override, published, crashes>>

AnnounceCompleted(w) ==
    /\ at[w] = "completed"
    /\ Publish(w, [type |-> "synthesis.completed", run |-> w, leaf |-> w])
    /\ Goto(w, "announced")
    /\ UNCHANGED <<store, created, sources, expired, sent, override, history, crashes>>

AnnounceLeaf(w) ==
    /\ at[w] = "announced"
    /\ Publish(w, [type |-> "synthesis.leaf.created", run |-> w])
    /\ Goto(w, "ending")
    /\ UNCHANGED <<store, created, sources, expired, sent, override, history, crashes>>

EndStream(w) ==
    /\ at[w] = "ending"
    /\ Broadcast(w, "stream.end")
    /\ Goto(w, "ok")
    /\ UNCHANGED <<store, created, sources, expired, override, published, history, faults, crashes>>

(* failWorkflow: the failed copy is written on the context of the run, and  *)
(* an error of the write is only logged.                                    *)
FailWorkflow(w) ==
    /\ at[w] = "failing"
    /\ \/ CallSucceeds(w) /\ Write(w, Started, Fail(Started, "reason"))
       \/ CallFails(w) /\ UNCHANGED <<store, history>>
    /\ Goto(w, "notifying")
    /\ UNCHANGED <<created, sources, expired, sent, override, published, crashes>>

Notify(w) ==
    /\ at[w] = "notifying"
    /\ Broadcast(w, "stream.error")
    /\ Goto(w, "failed")
    /\ UNCHANGED <<store, created, sources, expired, override, published, history, faults, crashes>>

-----------------------------------------------------------------------------
(* CompleteSynthesis and FailSynthesis. *)

ToStage(o, s) == stage' = [stage EXCEPT ![o] = s]

Fault == faults < MaxFaults /\ faults' = faults + 1

(* A result named by hand may be any leaf id, of a leaf or of none, but for *)
(* the ids the runs have yet to draw; the reason of a failure may be empty. *)
FindByID(o) ==
    /\ stage[o] = "new"
    /\ \E j \in Job :
        /\ store[j.run] # None
        /\ j.op = "complete" => j.leaf \notin Runs \ created
        /\ job' = [job EXCEPT ![o] = j]
        /\ snap' = [snap EXCEPT ![o] = store[j.run]]
    /\ ToStage(o, "found")
    /\ UNCHANGED <<store, created, run, published, history, faults, crashes>>

Refuse(o) ==
    /\ stage[o] = "found"
    /\ ~CanFinish(snap[o])
    /\ ToStage(o, "error")
    /\ UNCHANGED <<store, created, run, job, snap, published, history, faults, crashes>>

UpdateFails(o) ==
    /\ stage[o] = "found"
    /\ CanFinish(snap[o])
    /\ Fault
    /\ ToStage(o, "error")
    /\ UNCHANGED <<store, created, run, job, snap, published, history, crashes>>

CompleteSynthesis(o) ==
    /\ stage[o] = "found"
    /\ job[o].op = "complete"
    /\ CanFinish(snap[o])
    /\ Write(job[o].run, snap[o], Complete(snap[o], job[o].leaf))
    /\ ToStage(o, "announcing")
    /\ UNCHANGED <<created, run, job, snap, published, faults, crashes>>

FailSynthesis(o) ==
    /\ stage[o] = "found"
    /\ job[o].op = "fail"
    /\ CanFinish(snap[o])
    /\ Write(job[o].run, snap[o], Fail(snap[o], job[o].reason))
    /\ ToStage(o, "ok")
    /\ UNCHANGED <<created, run, job, snap, published, faults, crashes>>

AnnounceOverride(o) ==
    /\ stage[o] = "announcing"
    /\ \/ /\ published' = published \cup {[type |-> "synthesis.completed",
                                           run  |-> job[o].run,
                                           leaf |-> job[o].leaf]}
          /\ UNCHANGED faults
       \/ Fault /\ UNCHANGED published
    /\ ToStage(o, "ok")
    /\ UNCHANGED <<store, created, run, job, snap, history, crashes>>

-----------------------------------------------------------------------------
(* Nothing resumes a run after a restart. *)
Crash ==
    /\ crashes < MaxCrashes
    /\ crashes' = crashes + 1
    /\ at' = [w \in Runs |-> IF at[w] \in Running THEN "lost" ELSE at[w]]
    /\ stage' = [o \in Overrides |-> IF stage[o] \in {"found", "announcing"}
                                     THEN "lost" ELSE stage[o]]
    /\ UNCHANGED <<store, created, sources, expired, sent, job, snap, published, history, faults>>

RunStep(w) ==
    \/ AnnounceStart(w) \/ RunSynthesisStream(w) \/ LoadSources(w)
    \/ StreamChunk(w) \/ Answer(w) \/ CreateLeaf(w)
    \/ CompleteRun(w) \/ AnnounceCompleted(w) \/ AnnounceLeaf(w) \/ EndStream(w)
    \/ FailWorkflow(w) \/ Notify(w)

OverrideStep(o) ==
    \/ Refuse(o) \/ UpdateFails(o)
    \/ CompleteSynthesis(o) \/ FailSynthesis(o) \/ AnnounceOverride(o)

Next ==
    \/ \E w \in Runs : StartSynthesis(w) \/ RunStep(w) \/ Expire(w)
    \/ \E o \in Overrides : FindByID(o) \/ OverrideStep(o)
    \/ Crash

Spec == Init /\ [][Next]_vars

(* A goroutine, once spawned, runs on; nobody has to call the override. *)
FairSpec == Spec /\ \A w \in Runs : WF_vars(RunStep(w))

-----------------------------------------------------------------------------
(* Type correctness: the values each variable ranges over. *)
TypeOK ==
    /\ store \in [Runs -> Workflow \cup {None}]
    /\ created \in SUBSET Runs
    /\ at \in [Runs -> Phase]
    /\ sources \in [Runs -> SourceLists]
    /\ expired \in SUBSET Runs
    /\ sent \in [Runs -> Seq(StreamType)]
    /\ stage \in [Overrides -> Stage]
    /\ job \in [Overrides -> Job \cup {None}]
    /\ snap \in [Overrides -> Workflow \cup {None}]
    /\ published \in SUBSET Event
    /\ persisted \in [Runs -> SUBSET Workflow]
    /\ overwritten \in SUBSET Runs
    /\ faults \in Nat
    /\ crashes \in Nat

(* A request made by hand that found its workflow was asked j. *)
ByHand(j) == \E o \in Overrides : stage[o] # "new" /\ job[o] = j

(* Runs and overrides write whole rows over one another, but never a mix: a *)
(* completed workflow names a result and no failure, a failed one no result *)
(* and a reason, unless somebody failed it by hand without giving one.      *)
OutcomeIsCoherent ==
    \A w \in Runs : \A row \in persisted[w] :
        /\ (row.result # None) <=> (row.status = "completed")
        /\ row.reason # None => row.status = "failed"
        /\ (row.status = "failed" /\ row.reason = None) =>
              ByHand([op |-> "fail", run |-> w, reason |-> None])

(* The result of a workflow is in the leaves table before any row names it, *)
(* even though leaf and workflow are written by separate transactions,      *)
(* unless somebody completed the workflow by hand with that very id.        *)
ResultExists ==
    \A w \in Runs : \A row \in persisted[w] :
        row.result # None =>
            \/ row.result \in Leaves \cup created
            \/ ByHand([op |-> "complete", run |-> w, leaf |-> row.result])

(* What is stored of a workflow is sound: one outcome, and a result that    *)
(* exists, but for what somebody stored by hand.                            *)
ResultsSound == OutcomeIsCoherent /\ ResultExists

Stored(e) ==
    CASE e.type = "synthesis.completed"    -> Complete(Started, e.leaf) \in persisted[e.run]
      [] e.type = "synthesis.leaf.created" -> Complete(Started, e.run) \in persisted[e.run]
      [] e.type = "synthesis.started"      -> store[e.run] # None

(* Subscribers are told of a completed workflow, or of its leaf, only after *)
(* the row that says so was stored.                                         *)
EventsAreStored == \A e \in published : Stored(e)

(* What the stream told the clients: after stream.error ("fails the         *)
(* workflow, persists it, and sends a stream.error") the run has left no    *)
(* leaf and the workflow is settled, unless a call failed or the three      *)
(* minutes were over; after stream.end its leaf was stored as the result;   *)
(* and nothing follows either.                                              *)
StreamTellsOutcome ==
    \A w \in Runs : \A i \in DOMAIN sent[w] :
        /\ sent[w][i] = "stream.error" =>
            /\ w \notin created
            /\ IsTerminal(store[w].status) \/ w \in expired \/ faults > 0
        /\ sent[w][i] = "stream.end" => Complete(Started, w) \in persisted[w]
        /\ sent[w][i] \in {"stream.end", "stream.error"} => i = Len(sent[w])

(* Whoever is told of an outcome, by an event or on the stream, is told     *)
(* what was stored.                                                         *)
OutcomeTold == EventsAreStored /\ StreamTellsOutcome

(* A workflow leaves "processing", unless the server died, a call failed or *)
(* the three minutes ran out: in those cases the run may give up silently.  *)
WorkflowSettles ==
    \A w \in Runs :
        (at[w] = "created") ~>
            \/ store[w] # None /\ IsTerminal(store[w].status)
            \/ at[w] = "lost" \/ faults > 0 \/ w \in expired

(* Completed and failed are final states (IsTerminal: "in a final state"),  *)
(* result and reason included, until somebody overwrites what they have not *)
(* read.                                                                    *)
TerminalIsFinal ==
    [][\A w \in Runs :
        (store[w] # None /\ IsTerminal(store[w].status) /\ w \notin overwritten') =>
            store'[w] = store[w]]_vars
=============================================================================
