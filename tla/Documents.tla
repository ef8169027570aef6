------------------------------ MODULE Documents ------------------------------
(***************************************************************************)
(* What members write around the graph: discussion threads on leaves        *)
(* (internal/discussion), deliverables (internal/deliverable), seeds        *)
(* (internal/seed), signals on leaves (internal/convergence), where seeds   *)
(* and leaves lie on the canvas, and how users want to be notified          *)
(* (subscriptions of internal/notification).                                *)
(*                                                                          *)
(* Threads, deliverables and subscriptions are read, changed and written    *)
(* back as a whole; constraints and positions are columns and signals rows  *)
(* written on their own.  The events that follow a write are left to        *)
(* Delivery.                                                                *)
(***************************************************************************)
EXTENDS Exploration

CONSTANTS
    Deliverables, Contents,
    Seeds, Constraints,
    SignalTypes,            \* what users signal on leaves: upvote, pin, flag
    Positions, Origin,      \* places on the canvas, and the one of a new object
    ChannelSets, InApp,     \* channels for notifications, and those of a new subscription
    Digests, Daily,         \* digest frequencies, and that of a new subscription
    Wishes                  \* what clients ask of a subscription

ASSUME DocumentsAssumption ==
    /\ None \notin Contents \cup Constraints \cup ChannelSets \cup Digests
    /\ Origin \in Positions
    /\ InApp \in ChannelSets /\ Daily \in Digests
    /\ Wishes \subseteq [channels : ChannelSets \cup {None}, digest : Digests \cup {None}]
    /\ (Leaves \cup Seeds \cup Users) \cap Deliverables = {}
    /\ Users \cap Leaves = {}

VARIABLES
    threads,        \* per leaf, its comments, each named by the request that made it
    deliverables,
    constraints,    \* per seed; None when it is not planted
    position,       \* per seed and leaf
    signals,        \* on leaves, each with the request that made it as its id
    subscriptions,  \* per user, of one workspace
    job,            \* what a request wants
    thread, draft,  \* the copy a request has read: of a thread, of another row
    overwritten     \* history: threads, deliverables and users' subscriptions
                    \* replaced by a request that had read an earlier row

tables == <<threads, deliverables, constraints, position, signals, subscriptions>>
editing == <<job, thread, draft>>
docs == <<tables, editing, overwritten>>
vars == <<graph, walk, at, faults, docs>>

Deliverable == [content : Contents, version : Nat \ {0}, finalized : BOOLEAN]

Signal == [id : Requests, leaf : Leaves, user : Members, type : SignalTypes]

Subscription == [channels : ChannelSets, digest : Digests]

NoJob == [op |-> "none", on |-> None, value |-> None]

DInit ==
    /\ Init
    /\ threads = [l \in Leaves |-> <<>>]
    /\ deliverables = [d \in Deliverables |-> None]
    /\ constraints = [s \in Seeds |-> None]
    /\ position = [x \in Seeds \cup Leaves |-> Origin]
    /\ signals = {}
    /\ subscriptions = [u \in Users |-> None]
    /\ job = [r \in Requests |-> NoJob]
    /\ thread = [r \in Requests |-> <<>>]
    /\ draft = [r \in Requests |-> None]
    /\ overwritten = {}

-----------------------------------------------------------------------------
Take(r, u, op, x, v) ==
    /\ Goto(r, "idle", "found")
    /\ u \in Members
    /\ job' = [job EXCEPT ![r] = [op |-> op, on |-> x, value |-> v]]
    /\ UNCHANGED <<faults, tables, overwritten>>

Doing(r, op) ==
    /\ at[r] = "found"
    /\ job[r].op = op

(* The row a request writes back is not the one it has read. *)
Overwrites(x, isStale) ==
    overwritten' = IF isStale THEN overwritten \cup {x} ELSE overwritten

-----------------------------------------------------------------------------
(* Discussion. *)

(* No row is read as an empty thread.  Nobody asks whether the leaf exists. *)
FindByLeaf(r, u, l) ==
    /\ Take(r, u, "comment", l, None)
    /\ thread' = [thread EXCEPT ![r] = threads[l]]
    /\ UNCHANGED draft

AddComment(r) ==
    /\ Doing(r, "comment")
    /\ Goto(r, "found", "done")
    /\ threads' = [threads EXCEPT ![job[r].on] = Append(thread[r], r)]
    /\ Overwrites(job[r].on, threads[job[r].on] # thread[r])
    /\ UNCHANGED <<faults, deliverables, constraints, position, signals, subscriptions, editing>>

-----------------------------------------------------------------------------
(* Deliverables. *)

NewDeliverable(c) == [content |-> c, version |-> 1, finalized |-> FALSE]

CreateDraft(r, u, d, c, list) ==
    /\ Goto(r, "idle", "done")
    /\ u \in Members
    /\ list # <<>>
    /\ deliverables[d] = None
    /\ deliverables' = [deliverables EXCEPT ![d] = NewDeliverable(c)]
    /\ UNCHANGED <<faults, threads, constraints, position, signals, subscriptions, editing, overwritten>>

(* At least one of the source leaves has to exist. *)
FindSources(r, u, list) ==
    /\ Goto(r, "idle", "generating")
    /\ u \in Members
    /\ \E l \in Range(list) : Exists(l)
    /\ UNCHANGED <<faults, docs>>

(* The model's answer becomes a draft. *)
GenerateDeliverable(r, d, c) ==
    /\ Goto(r, "generating", "done")
    /\ deliverables[d] = None
    /\ deliverables' = [deliverables EXCEPT ![d] = NewDeliverable(c)]
    /\ UNCHANGED <<faults, threads, constraints, position, signals, subscriptions, editing, overwritten>>

(* Mutant of CanUpdate: a finalized deliverable is edited. *)
CanUpdateAlways(row, c) == row.content # c

CanUpdate(row, c) == ~row.finalized /\ row.content # c

UpdateContent(row, c) == [row EXCEPT !.content = c, !.version = @ + 1]

Finalize(row) == [row EXCEPT !.finalized = TRUE]

FindForUpdate(r, u, d, c) ==
    /\ deliverables[d] # None
    /\ CanUpdate(deliverables[d], c)
    /\ Take(r, u, "update", d, c)
    /\ draft' = [draft EXCEPT ![r] = deliverables[d]]
    /\ UNCHANGED thread

FindForFinalize(r, u, d) ==
    /\ deliverables[d] # None
    /\ ~deliverables[d].finalized
    /\ Take(r, u, "finalize", d, None)
    /\ draft' = [draft EXCEPT ![r] = deliverables[d]]
    /\ UNCHANGED thread

WriteDeliverable(r, row) ==
    /\ deliverables' = [deliverables EXCEPT ![job[r].on] = row]
    /\ Overwrites(job[r].on, deliverables[job[r].on] # draft[r])
    /\ UNCHANGED <<faults, threads, constraints, position, signals, subscriptions, job, thread, draft>>

Update(r) ==
    /\ Doing(r, "update")
    /\ Goto(r, "found", "done")
    /\ WriteDeliverable(r, UpdateContent(draft[r], job[r].value))

WriteFinal(r) ==
    /\ Doing(r, "finalize")
    /\ Goto(r, "found", "done")
    /\ WriteDeliverable(r, Finalize(draft[r]))

-----------------------------------------------------------------------------
(* Seeds, and the canvas. *)

Plant(r, u, s, k) ==
    /\ Goto(r, "idle", "done")
    /\ u \in Members
    /\ constraints[s] = None
    /\ constraints' = [constraints EXCEPT ![s] = k]
    /\ UNCHANGED <<faults, threads, deliverables, position, signals, subscriptions, editing, overwritten>>

FindSeed(r, u, s, k) ==
    /\ constraints[s] # None
    /\ Take(r, u, "constrain", s, k)
    /\ UNCHANGED <<thread, draft>>

UpdateConstraints(r) ==
    /\ Doing(r, "constrain")
    /\ Goto(r, "found", "done")
    /\ constraints' = [constraints EXCEPT ![job[r].on] = job[r].value]
    /\ UNCHANGED <<faults, threads, deliverables, position, signals, subscriptions, editing, overwritten>>

FindPlaced(r, u, x, p) ==
    /\ IF x \in Seeds THEN constraints[x] # None ELSE Exists(x)
    /\ Take(r, u, "move", x, p)
    /\ UNCHANGED <<thread, draft>>

UpdatePosition(r) ==
    /\ Doing(r, "move")
    /\ Goto(r, "found", "done")
    /\ position' = [position EXCEPT ![job[r].on] = job[r].value]
    /\ UNCHANGED <<faults, threads, deliverables, constraints, signals, subscriptions, editing, overwritten>>

-----------------------------------------------------------------------------
(* Signals on leaves. *)

(* The table takes one of each type per leaf and user. *)
Signalled(l, u, k) == \E s \in signals : s.leaf = l /\ s.user = u /\ s.type = k

(* Nobody asks whether the leaf exists. *)
RecordSignal(r, u, l, k) ==
    /\ Goto(r, "idle", "done")
    /\ u \in Members
    /\ ~Signalled(l, u, k)
    /\ signals' = signals \cup {[id |-> r, leaf |-> l, user |-> u, type |-> k]}
    /\ UNCHANGED <<faults, threads, deliverables, constraints, position, subscriptions, editing, overwritten>>

(* A signal is deleted by its id, for any caller. *)
RemoveSignal(r, s) ==
    /\ Goto(r, "idle", "done")
    /\ s \in signals
    /\ signals' = signals \ {s}
    /\ UNCHANGED <<faults, threads, deliverables, constraints, position, subscriptions, editing, overwritten>>

-----------------------------------------------------------------------------
(* Subscriptions of users to the notifications of a workspace. *)

(* What is not wished for stays. *)
Wished(row, wish) ==
    [channels |-> IF wish.channels = None THEN row.channels ELSE wish.channels,
     digest |-> IF wish.digest = None THEN row.digest ELSE wish.digest]

(* A user without a subscription gets a new one.  Nobody asks whether the   *)
(* user is a member.                                                        *)
FindSubscription(r, u, wish) ==
    /\ Goto(r, "idle", "found")
    /\ job' = [job EXCEPT ![r] = [op |-> "subscribe", on |-> u, value |-> wish]]
    /\ draft' = [draft EXCEPT ![r] = subscriptions[u]]
    /\ UNCHANGED <<faults, tables, overwritten, thread>>

NewSubscription == [channels |-> InApp, digest |-> Daily]

(* The row is inserted, or replaced when there is one by now. *)
StoreSubscription(u, row) == subscriptions' = [subscriptions EXCEPT ![u] = row]

SaveSubscription(r) ==
    LET u == job[r].on
        row == IF draft[r] = None THEN NewSubscription ELSE draft[r]
    IN  /\ Doing(r, "subscribe")
        /\ Goto(r, "found", "done")
        /\ StoreSubscription(u, Wished(row, job[r].value))
        /\ Overwrites(u, subscriptions[u] # draft[r])
        /\ UNCHANGED <<faults, threads, deliverables, constraints, position, signals, editing>>

-----------------------------------------------------------------------------
(* A signal to record that is there already, or one to delete that is not;  *)
(* a channel or a frequency that does not exist.                            *)
RefuseEdit(r) ==
    /\ Goto(r, "idle", "refused")
    /\ UNCHANGED <<faults, docs>>

-----------------------------------------------------------------------------
(* A read or a write fails, the model does not answer, or what was asked    *)
(* for is not there.                                                        *)
EditFails(r) ==
    /\ at[r] \in {"found", "generating"}
    /\ Goto(r, at[r], "failed")
    /\ Fault
    /\ UNCHANGED docs

Edit(r) ==
    \/ \E u \in Users :
           \/ \E l \in Leaves : FindByLeaf(r, u, l)
           \/ \E list \in LeafLists :
                  \/ FindSources(r, u, list)
                  \/ \E d \in Deliverables, c \in Contents : CreateDraft(r, u, d, c, list)
           \/ \E d \in Deliverables :
                  FindForFinalize(r, u, d) \/ \E c \in Contents : FindForUpdate(r, u, d, c)
           \/ \E s \in Seeds, k \in Constraints : Plant(r, u, s, k) \/ FindSeed(r, u, s, k)
           \/ \E x \in Seeds \cup Leaves, p \in Positions : FindPlaced(r, u, x, p)
           \/ \E l \in Leaves, k \in SignalTypes : RecordSignal(r, u, l, k)
    \/ \E s \in signals : RemoveSignal(r, s)
    \/ RefuseEdit(r)
    \/ \E u \in Users, w \in Wishes : FindSubscription(r, u, w)
    \/ \E d \in Deliverables, c \in Contents : GenerateDeliverable(r, d, c)
    \/ AddComment(r)
    \/ Update(r) \/ WriteFinal(r)
    \/ UpdateConstraints(r) \/ UpdatePosition(r)
    \/ SaveSubscription(r)
    \/ EditFails(r)

Next ==
    \E r \in Requests : \/ Explore(r) /\ UNCHANGED docs
                        \/ Edit(r) /\ UNCHANGED <<graph, walk>>

Spec == DInit /\ [][Next]_vars

-----------------------------------------------------------------------------
Phase == {"idle", "answered", "walking", "tracing", "walked", "traced", "found", "generating", "done",
          "refused", "failed"}

Job == [op : {"none", "comment", "update", "finalize", "constrain", "move", "subscribe"},
        on : Leaves \cup Deliverables \cup Seeds \cup Users \cup {None},
        value : Contents \cup Constraints \cup Positions \cup Wishes \cup {None}]

TypeOK ==
    /\ GraphTypeOK
    /\ at \in [Requests -> Phase]
    /\ threads \in [Leaves -> Seq(Requests)]
    /\ deliverables \in [Deliverables -> Deliverable \cup {None}]
    /\ constraints \in [Seeds -> Constraints \cup {None}]
    /\ position \in [Seeds \cup Leaves -> Positions]
    /\ signals \subseteq Signal
    /\ subscriptions \in [Users -> Subscription \cup {None}]
    /\ job \in [Requests -> Job]
    /\ thread \in [Requests -> Seq(Requests)]
    /\ draft \in [Requests -> Deliverable \cup Subscription \cup {None}]
    /\ overwritten \subseteq Leaves \cup Deliverables \cup Users

(* The tables, read as a whole, behave as if every edit were atomic, until  *)
(* one is overwritten.                                                      *)
Promise == INSTANCE DocumentsPromise WITH void <- overwritten

KeepsPromise == Promise!Spec
=============================================================================
