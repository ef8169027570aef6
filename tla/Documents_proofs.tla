--------------------------- MODULE Documents_proofs ---------------------------
(* Theorems about Exploration and Documents, for any graph, documents,      *)
(* users and requests.                                                      *)
EXTENDS Documents, FiniteSetTheorems, WellFoundedInduction, TLAPS

-----------------------------------------------------------------------------
(* Types.                                                                   *)

(* A request that has read what it is to change holds a job for it, and the *)
(* copies it needs.                                                         *)
JobOK(j, row) ==
    \/ j.op = "comment" /\ j.on \in Leaves
    \/ j.op = "update" /\ j.on \in Deliverables /\ j.value \in Contents
       /\ row \in Deliverable \ {None} /\ CanUpdate(row, j.value)
    \/ j.op = "finalize" /\ j.on \in Deliverables /\ row \in Deliverable \ {None} /\ ~row.finalized
    \/ j.op = "constrain" /\ j.on \in Seeds /\ j.value \in Constraints
    \/ j.op = "move" /\ j.on \in Seeds \cup Leaves /\ j.value \in Positions
    \/ j.op = "subscribe" /\ j.on \in Users /\ j.value \in Wishes
       /\ row \in Subscription \cup {None}

JobsOK == \A r \in Requests : at[r] = "found" => JobOK(job[r], draft[r])

TablesOK ==
    /\ threads \in [Leaves -> Seq(Requests)]
    /\ deliverables \in [Deliverables -> Deliverable \cup {None}]
    /\ constraints \in [Seeds -> Constraints \cup {None}]
    /\ position \in [Seeds \cup Leaves -> Positions]
    /\ signals \subseteq Signal
    /\ subscriptions \in [Users -> Subscription \cup {None}]
    /\ overwritten \subseteq Leaves \cup Deliverables \cup Users

CopiesOK ==
    /\ job \in [Requests -> Job]
    /\ thread \in [Requests -> Seq(Requests)]
    /\ draft \in [Requests -> Deliverable \cup Subscription \cup {None}]

AtOK == at \in [Requests -> Phase]

DocsOK == TablesOK /\ CopiesOK /\ JobsOK

TypeInv == GraphTypeOK /\ AtOK /\ DocsOK

LEMMA TypeInvTypeOK == TypeInv => TypeOK
  BY DEF TypeInv, TypeOK, AtOK, DocsOK, TablesOK, CopiesOK

LEMMA InitTypeInv == DInit => TypeInv
  <1> SUFFICES ASSUME DInit PROVE TypeInv
    OBVIOUS
  <1>1. GraphTypeOK
    <2>1. faults = 0 /\ 0 \in 0..MaxFaults
      BY ExplorationAssumption DEF DInit, Init
    <2>2. leaves = Planted /\ connections = Connected
      BY DEF DInit, Init
    <2>3. leaves \in [Leaves -> Leaf \cup {None}] /\ connections \subseteq SUBSET Leaves
      BY <2>2, ExplorationAssumption
    <2>4. depth \in [Requests -> Nat] /\ hop \in [Requests -> Nat]
      BY DEF DInit, Init
    <2>5. /\ origin \in [Requests -> Leaves \cup {None}]
          /\ seen \in [Requests -> SUBSET Leaves]
          /\ frontier \in [Requests -> SUBSET Leaves]
          /\ result \in [Requests -> SUBSET Leaves]
          /\ before \in [Requests -> SUBSET Leaves]
      BY DEF DInit, Init
    <2>. QED  BY <2>1, <2>3, <2>4, <2>5 DEF GraphTypeOK
  <1>2. AtOK /\ JobsOK
    BY DEF DInit, Init, AtOK, JobsOK, Phase
  <1>3. TablesOK
    <2>1. threads \in [Leaves -> Seq(Requests)]
      BY DEF DInit
    <2>2. position \in [Seeds \cup Leaves -> Positions]
      BY DocumentsAssumption DEF DInit
    <2>. QED  BY <2>1, <2>2 DEF DInit, TablesOK
  <1>4. CopiesOK
    <2>1. NoJob \in Job
      BY DEF NoJob, Job
    <2>2. thread \in [Requests -> Seq(Requests)]
      BY DEF DInit
    <2>. QED  BY <2>1, <2>2 DEF DInit, CopiesOK
  <1>. QED  BY <1>1, <1>2, <1>3, <1>4 DEF TypeInv, DocsOK

(* What a step on the graph may do, as the types see it.                    *)
LEMMA ExploreTypes ==
    ASSUME GraphTypeOK, AtOK, NEW r \in Requests, Explore(r)
    PROVE  GraphTypeOK' /\ AtOK' /\ at'[r] # "found" /\ \A o \in Requests \ {r} : at'[o] = at[o]
  <1>. USE DEF GraphTypeOK, AtOK
  <1>1. ASSUME NEW b \in Branches, NEW l \in Leaves, NEW p \in Leaves \cup {None},
               NEW s \in SUBSET Leaves, Grows(l, b, p, s)
        PROVE  leaves' \in [Leaves -> Leaf \cup {None}]
    <2>1. [branch |-> b, parent |-> p, sources |-> s] \in Leaf
      BY DEF Leaf
    <2>. QED  BY <1>1, <2>1 DEF Grows
  <1>2. ASSUME NEW phase \in Phase \ {"found"}, NEW from, Goto(r, from, phase)
        PROVE  AtOK' /\ at'[r] # "found" /\ \A o \in Requests \ {r} : at'[o] = at[o]
    BY <1>2 DEF Goto
  <1>3. ASSUME NEW u \in Users, NEW b \in Branches, NEW l \in Fresh, NEW p \in Leaves \cup {None},
               StartBranch(r, u, b, l, p)
        PROVE  GraphTypeOK' /\ Goto(r, "idle", "done")
    <2>1. l \in Leaves /\ Grows(l, b, p, {})
      BY <1>3 DEF StartBranch, Fresh
    <2>2. leaves' \in [Leaves -> Leaf \cup {None}]
      BY <1>1, <2>1
    <2>. QED  BY <1>3, <2>2 DEF StartBranch, walk
  <1>4. ASSUME NEW u \in Users, NEW b \in Branches, NEW l \in Fresh, NEW p \in Leaves,
               CreateLeaf(r, u, b, l, p)
        PROVE  GraphTypeOK' /\ Goto(r, "idle", "done")
    <2>1. l \in Leaves /\ Grows(l, b, p, {})
      BY <1>4 DEF CreateLeaf, Fresh
    <2>2. leaves' \in [Leaves -> Leaf \cup {None}]
      BY <1>1, <2>1
    <2>. QED  BY <1>4, <2>2 DEF CreateLeaf, walk
  <1>5. ASSUME NEW b \in Branches, NEW l \in Fresh, NEW s \in SUBSET (Leaves \ Fresh),
               CreateSynthesisLeaf(r, b, l, s)
        PROVE  GraphTypeOK' /\ Goto(r, "idle", "done")
    <2>1. l \in Leaves /\ s \in SUBSET Leaves /\ Grows(l, b, None, s)
      BY <1>5 DEF CreateSynthesisLeaf, Fresh
    <2>2. leaves' \in [Leaves -> Leaf \cup {None}]
      BY <1>1, <2>1
    <2>. QED  BY <1>5, <2>2 DEF CreateSynthesisLeaf, walk
  <1>6. ASSUME NEW u \in Users, NEW list \in LeafLists, CreateConnection(r, u, list)
        PROVE  GraphTypeOK' /\ Goto(r, "idle", "done")
    <2>1. Range(list) \subseteq Leaves
      BY ExplorationAssumption DEF Range
    <2>. QED  BY <1>6, <2>1 DEF CreateConnection, walk
  <1>7. ASSUME NEW l \in Leaves, NEW d \in Depths, Neighborhood(r, l, d)
        PROVE  GraphTypeOK' /\ Goto(r, "idle", "walking")
    <2>1. d \in Nat /\ Neighbors(l, d) \subseteq Leaves
      BY ExplorationAssumption DEF Neighbors, Near, Found
    <2>. QED  BY <1>7, <2>1 DEF Neighborhood, Begin, graph
  <1>8. ASSUME NEW l \in Leaves, SynthesisLineage(r, l)
        PROVE  GraphTypeOK' /\ Goto(r, "idle", "tracing")
    <2>1. Lineage(l) \subseteq Leaves
      BY DEF Lineage, Reached, Found
    <2>. QED  BY <1>8, <2>1 DEF SynthesisLineage, Begin, graph
  <1>9. ASSUME NEW l \in Leaves, Ancestors(r, l) \/ Descendants(r, l)
        PROVE  GraphTypeOK' /\ Goto(r, "idle", "answered")
    <2>1. PICK found \in SUBSET Leaves : Answers(r, found)
      BY <1>9 DEF Ancestors, Descendants, Found, Reached
    <2>. QED  BY <2>1 DEF Answers, graph
  <1>10. ASSUME Hop(r)
         PROVE  GraphTypeOK' /\ Goto(r, "walking", "walking")
    <2>1. UNION {c \in connections : c \cap frontier[r] # {}} \in SUBSET Leaves
      OBVIOUS
    <2>. DEFINE met == UNION {c \in connections : c \cap frontier[r] # {}}
    <2>. HIDE DEF met
    <2>2. Meets(r, met) /\ met \in SUBSET Leaves
      BY <1>10, <2>1 DEF Hop, met
    <2>3. UNCHANGED <<graph, origin, depth, result, before, faults>>
          /\ hop' \in [Requests -> Nat]
      BY <1>10 DEF Hop
    <2>. QED  BY <1>10, <2>2, <2>3 DEF Meets, graph, Hop
  <1>11. ASSUME FetchNeighbors(r)
         PROVE  GraphTypeOK' /\ Goto(r, "walking", "walked")
    <2>1. Found(seen[r], origin[r]) \in SUBSET Leaves
      BY DEF Found
    <2>. QED  BY <1>11, <2>1 DEF FetchNeighbors, graph
  <1>12. ASSUME FetchSources(r)
         PROVE  GraphTypeOK' /\ Goto(r, "tracing", "tracing")
    <2>. DEFINE met == UNION {Sources[x] : x \in frontier[r]}
    <2>1. met \in SUBSET Leaves
      <3>1. \A x \in Leaves : Sources[x] \subseteq Leaves
        BY DEF Sources, Leaf, Exists
      <3>2. ASSUME NEW y \in met PROVE y \in Leaves
        <4>1. PICK x \in frontier[r] : y \in Sources[x]
          BY <3>2
        <4>. QED  BY <3>1, <4>1
      <3>. QED  BY <3>2
    <2>. HIDE DEF met
    <2>2. Meets(r, met)
      BY <1>12 DEF FetchSources, met
    <2>3. UNCHANGED <<graph, origin, depth, hop, before, faults>>
          /\ result' \in [Requests -> SUBSET Leaves]
      BY <1>12 DEF FetchSources, Found
    <2>. QED  BY <1>12, <2>1, <2>2, <2>3 DEF Meets, graph, FetchSources
  <1>13. ASSUME Refuse(r) \/ EndLineage(r) \/ ExploreFails(r)
         PROVE  GraphTypeOK' /\ \E from : \E to \in {"refused", "traced", "failed"} : Goto(r, from, to)
    <2>1. faults' \in 0..MaxFaults
      BY <1>13, ExplorationAssumption DEF Refuse, EndLineage, ExploreFails, Fault
    <2>2. UNCHANGED <<graph, walk>>
      BY <1>13 DEF Refuse, EndLineage, ExploreFails
    <2>3. \E from : \E to \in {"refused", "traced", "failed"} : Goto(r, from, to)
      BY <1>13 DEF Refuse, EndLineage, ExploreFails
    <2>. QED  BY <2>1, <2>2, <2>3 DEF graph, walk
  <1>. QED
    BY <1>2, <1>3, <1>4, <1>5, <1>6, <1>7, <1>8, <1>9, <1>10, <1>11, <1>12, <1>13
    DEF Explore, Phase

(* What a read of a request may do.                                         *)
LEMMA ReadTypes ==
    ASSUME TypeInv, NEW r \in Requests, Goto(r, "idle", "found"),
           NEW j \in Job, job' = [job EXCEPT ![r] = j],
           thread' \in [Requests -> Seq(Requests)],
           NEW row \in Deliverable \cup Subscription \cup {None}, draft' = [draft EXCEPT ![r] = row],
           UNCHANGED <<faults, graph, walk, tables, overwritten>>,
           JobOK(j, row)
    PROVE  TypeInv'
  <1>. USE DEF TypeInv, DocsOK
  <1>1. GraphTypeOK'
    BY DEF GraphTypeOK, graph, walk
  <1>2. AtOK'
    BY DEF AtOK, Goto, Phase
  <1>3. TablesOK'
    BY DEF TablesOK, tables
  <1>4. CopiesOK'
    BY DEF CopiesOK
  <1>5. ASSUME NEW o \in Requests, at'[o] = "found" PROVE JobOK(job'[o], draft'[o])
    <2>1. CASE o = r
      BY <2>1 DEF CopiesOK
    <2>2. CASE o # r
      <3>1. at[o] = "found" /\ job'[o] = job[o] /\ draft'[o] = draft[o]
        BY <1>5, <2>2 DEF Goto, AtOK, CopiesOK
      <3>. QED  BY <3>1 DEF JobsOK
    <2>. QED  BY <2>1, <2>2
  <1>6. JobsOK'
    BY <1>5 DEF JobsOK
  <1>. QED  BY <1>1, <1>2, <1>3, <1>4, <1>6

(* A request that leaves what it holds alone, and is not about to write.    *)
LEMMA WriteTypes ==
    ASSUME TypeInv, NEW r \in Requests, NEW from, NEW to \in Phase \ {"found"}, Goto(r, from, to),
           UNCHANGED <<graph, walk, editing>>, faults' \in 0..MaxFaults, TablesOK'
    PROVE  TypeInv'
  <1>. USE DEF TypeInv, DocsOK
  <1>1. GraphTypeOK'
    BY DEF GraphTypeOK, graph, walk
  <1>2. AtOK' /\ \A o \in Requests : at'[o] = "found" => at[o] = "found"
    BY DEF AtOK, Goto
  <1>3. CopiesOK'
    BY DEF CopiesOK, editing
  <1>4. JobsOK'
    BY <1>2 DEF JobsOK, editing
  <1>. QED  BY <1>1, <1>2, <1>3, <1>4

LEMMA NewDeliverableType == \A c \in Contents : NewDeliverable(c) \in Deliverable
  <1>1. 1 \in Nat \ {0}
    OBVIOUS
  <1>. QED  BY <1>1 DEF Deliverable, NewDeliverable

LEMMA RevisionType ==
    ASSUME NEW row \in Deliverable, NEW c \in Contents
    PROVE  UpdateContent(row, c) \in Deliverable /\ Finalize(row) \in Deliverable
  <1>1. row.version + 1 \in Nat \ {0}
    BY DEF Deliverable
  <1>2. ASSUME NEW v \in Nat \ {0} PROVE [row EXCEPT !.content = c, !.version = v] \in Deliverable
    BY DEF Deliverable
  <1>3. UpdateContent(row, c) \in Deliverable
    BY <1>1, <1>2 DEF UpdateContent
  <1>5. Finalize(row) \in Deliverable
    BY DEF Deliverable, Finalize
  <1>. QED  BY <1>3, <1>5

LEMMA WishedType ==
    ASSUME NEW row \in Subscription, NEW wish \in Wishes
    PROVE  Wished(row, wish) \in Subscription
  <1>1. /\ wish.channels \in ChannelSets \cup {None}
        /\ wish.digest \in Digests \cup {None}
    BY DocumentsAssumption
  <1>. QED  BY <1>1, DocumentsAssumption DEF Subscription, Wished

LEMMA NewSubscriptionType == NewSubscription \in Subscription
  BY DocumentsAssumption DEF Subscription, NewSubscription

LEMMA EditTypes ==
    ASSUME TypeInv, NEW r \in Requests, Edit(r), UNCHANGED <<graph, walk>>
    PROVE  TypeInv'
  <1>. USE DEF TypeInv, DocsOK
  <1>1. ASSUME NEW u \in Users, NEW l \in Leaves, FindByLeaf(r, u, l) PROVE TypeInv'
    <2>. DEFINE j == [op |-> "comment", on |-> l, value |-> None]
    <2>1. /\ Goto(r, "idle", "found")
          /\ job' = [job EXCEPT ![r] = j]
          /\ UNCHANGED <<faults, tables, overwritten, draft>>
          /\ thread' = [thread EXCEPT ![r] = threads[l]]
      BY <1>1 DEF FindByLeaf, Take
    <2>2. j \in Job /\ JobOK(j, draft[r])
      BY DEF Job, JobOK
    <2>3. /\ thread' \in [Requests -> Seq(Requests)]
          /\ draft[r] \in Deliverable \cup Subscription \cup {None}
          /\ draft' = [draft EXCEPT ![r] = draft[r]]
      BY <2>1 DEF TablesOK, CopiesOK
    <2>. HIDE DEF j
    <2>. QED  BY <2>1, <2>2, <2>3, ReadTypes
  <1>2. ASSUME NEW u \in Users, NEW d \in Deliverables, NEW c \in Contents, FindForUpdate(r, u, d, c)
        PROVE  TypeInv'
    <2>. DEFINE j == [op |-> "update", on |-> d, value |-> c]
    <2>1. /\ Goto(r, "idle", "found")
          /\ job' = [job EXCEPT ![r] = j]
          /\ UNCHANGED <<faults, tables, overwritten, thread>>
          /\ draft' = [draft EXCEPT ![r] = deliverables[d]]
          /\ deliverables[d] # None /\ CanUpdate(deliverables[d], c)
      BY <1>2 DEF FindForUpdate, Take
    <2>2. deliverables[d] \in Deliverable
      BY <2>1 DEF TablesOK
    <2>3. j \in Job /\ JobOK(j, deliverables[d])
      BY <2>1, <2>2 DEF Job, JobOK
    <2>4. thread' \in [Requests -> Seq(Requests)]
      BY <2>1 DEF CopiesOK
    <2>. HIDE DEF j
    <2>. QED  BY <2>1, <2>2, <2>3, <2>4, ReadTypes
  <1>3. ASSUME NEW u \in Users, NEW d \in Deliverables, FindForFinalize(r, u, d)
        PROVE  TypeInv'
    <2>. DEFINE j == [op |-> "finalize", on |-> d, value |-> None]
    <2>1. /\ Goto(r, "idle", "found")
          /\ job' = [job EXCEPT ![r] = j]
          /\ UNCHANGED <<faults, tables, overwritten, thread>>
          /\ draft' = [draft EXCEPT ![r] = deliverables[d]]
          /\ deliverables[d] # None /\ ~deliverables[d].finalized
      BY <1>3 DEF FindForFinalize, Take
    <2>2. deliverables[d] \in Deliverable
      BY <2>1 DEF TablesOK
    <2>3. j \in Job /\ JobOK(j, deliverables[d])
      BY <2>1, <2>2 DEF Job, JobOK
    <2>4. thread' \in [Requests -> Seq(Requests)]
      BY <2>1 DEF CopiesOK
    <2>. HIDE DEF j
    <2>. QED  BY <2>1, <2>2, <2>3, <2>4, ReadTypes
  <1>4. ASSUME NEW u \in Users,
               \/ \E s \in Seeds, k \in Constraints : FindSeed(r, u, s, k)
               \/ \E x \in Seeds \cup Leaves, p \in Positions : FindPlaced(r, u, x, p)
        PROVE  TypeInv'
    <2>1. PICK j \in Job :
            /\ JobOK(j, draft[r])
            /\ Goto(r, "idle", "found")
            /\ job' = [job EXCEPT ![r] = j]
            /\ UNCHANGED <<faults, tables, overwritten, thread, draft>>
      <3>1. CASE \E s \in Seeds, k \in Constraints : FindSeed(r, u, s, k)
        <4>1. PICK s \in Seeds, k \in Constraints : FindSeed(r, u, s, k)
          BY <3>1
        <4>2. [op |-> "constrain", on |-> s, value |-> k] \in Job
          BY DEF Job
        <4>3. JobOK([op |-> "constrain", on |-> s, value |-> k], draft[r])
          BY DEF JobOK
        <4>. QED  BY <4>1, <4>2, <4>3 DEF FindSeed, Take
      <3>2. CASE \E x \in Seeds \cup Leaves, p \in Positions : FindPlaced(r, u, x, p)
        <4>1. PICK x \in Seeds \cup Leaves, p \in Positions : FindPlaced(r, u, x, p)
          BY <3>2
        <4>2. [op |-> "move", on |-> x, value |-> p] \in Job
          BY DEF Job
        <4>3. JobOK([op |-> "move", on |-> x, value |-> p], draft[r])
          BY DEF JobOK
        <4>. QED  BY <4>1, <4>2, <4>3 DEF FindPlaced, Take
      <3>. QED  BY <1>4, <3>1, <3>2
    <2>2. /\ draft[r] \in Deliverable \cup Subscription \cup {None}
          /\ draft' = [draft EXCEPT ![r] = draft[r]]
          /\ thread' \in [Requests -> Seq(Requests)]
      BY <2>1 DEF CopiesOK
    <2>. QED  BY <2>1, <2>2, ReadTypes
  <1>5. ASSUME NEW u \in Users, NEW w \in Wishes, FindSubscription(r, u, w) PROVE TypeInv'
    <2>. DEFINE j == [op |-> "subscribe", on |-> u, value |-> w]
    <2>1. /\ Goto(r, "idle", "found")
          /\ job' = [job EXCEPT ![r] = j]
          /\ UNCHANGED <<faults, tables, overwritten, thread>>
          /\ draft' = [draft EXCEPT ![r] = subscriptions[u]]
      BY <1>5 DEF FindSubscription
    <2>2. subscriptions[u] \in Subscription \cup {None}
      BY DEF TablesOK
    <2>3. j \in Job /\ JobOK(j, subscriptions[u])
      BY <2>2 DEF Job, JobOK
    <2>4. thread' \in [Requests -> Seq(Requests)]
      BY <2>1 DEF CopiesOK
    <2>. HIDE DEF j
    <2>. QED  BY <2>1, <2>2, <2>3, <2>4, ReadTypes
  <1>6. faults \in 0..MaxFaults /\ (Fault => faults' \in 0..MaxFaults)
    BY ExplorationAssumption DEF GraphTypeOK, Fault
  <1>7. ASSUME NEW d \in Deliverables, NEW c \in Contents,
               GenerateDeliverable(r, d, c) \/ \E u \in Users, list \in LeafLists : CreateDraft(r, u, d, c, list)
        PROVE  TypeInv'
    <2>1. /\ deliverables' = [deliverables EXCEPT ![d] = NewDeliverable(c)]
          /\ UNCHANGED <<faults, threads, constraints, position, signals, subscriptions, editing, overwritten>>
          /\ \E from : Goto(r, from, "done")
      BY <1>7 DEF GenerateDeliverable, CreateDraft
    <2>2. TablesOK'
      BY <2>1, NewDeliverableType DEF TablesOK
    <2>. QED  BY <1>6, <2>1, <2>2, WriteTypes DEF Phase
  <1>8. ASSUME RefuseEdit(r) \/ EditFails(r) \/ \E u \in Users, list \in LeafLists : FindSources(r, u, list)
        PROVE  TypeInv'
    <2>1. UNCHANGED docs /\ \E from : \E to \in Phase \ {"found"} : Goto(r, from, to)
      BY <1>8 DEF RefuseEdit, EditFails, FindSources, Phase
    <2>2. faults' \in 0..MaxFaults
      BY <1>6, <1>8 DEF RefuseEdit, EditFails, FindSources
    <2>3. TablesOK' /\ UNCHANGED editing
      BY <2>1 DEF docs, tables, TablesOK
    <2>. QED  BY <2>1, <2>2, <2>3, WriteTypes
  <1>9. ASSUME AddComment(r) PROVE TypeInv'
    <2>1. /\ at[r] = "found" /\ job[r].op = "comment" /\ Goto(r, "found", "done")
          /\ threads' = [threads EXCEPT ![job[r].on] = Append(thread[r], r)]
          /\ overwritten' \subseteq overwritten \cup {job[r].on}
          /\ UNCHANGED <<faults, deliverables, constraints, position, signals, subscriptions, editing>>
      BY <1>9 DEF AddComment, Doing, Overwrites
    <2>2. job[r].on \in Leaves
      BY <2>1 DEF JobsOK, JobOK
    <2>3. Append(thread[r], r) \in Seq(Requests)
      BY DEF CopiesOK
    <2>4. TablesOK'
      BY <2>1, <2>2, <2>3 DEF TablesOK
    <2>. QED  BY <1>6, <2>1, <2>4, WriteTypes DEF Phase
  <1>10. ASSUME Update(r) \/ WriteFinal(r) PROVE TypeInv'
    <2>1. PICK row \in Deliverable : WriteDeliverable(r, row)
      <3>1. CASE Update(r)
        <4>1. draft[r] \in Deliverable /\ job[r].value \in Contents
          BY <3>1 DEF Update, Doing, JobsOK, JobOK
        <4>. QED  BY <3>1, <4>1, RevisionType DEF Update
      <3>2. CASE WriteFinal(r)
        <4>1. draft[r] \in Deliverable
          BY <3>2 DEF WriteFinal, Doing, JobsOK, JobOK
        <4>2. Finalize(draft[r]) \in Deliverable
          BY <4>1 DEF Deliverable, Finalize
        <4>. QED  BY <3>2, <4>2 DEF WriteFinal
      <3>. QED  BY <1>10, <3>1, <3>2
    <2>2. /\ Goto(r, "found", "done") /\ at[r] = "found" /\ job[r].op \in {"update", "finalize"}
          /\ deliverables' = [deliverables EXCEPT ![job[r].on] = row]
          /\ overwritten' \subseteq overwritten \cup {job[r].on}
          /\ UNCHANGED <<faults, threads, constraints, position, signals, subscriptions, editing>>
      BY <1>10, <2>1 DEF Update, WriteFinal, WriteDeliverable, Doing, Overwrites, editing
    <2>3. job[r].on \in Deliverables
      BY <2>2 DEF JobsOK, JobOK
    <2>4. TablesOK'
      BY <2>1, <2>2, <2>3 DEF TablesOK
    <2>. QED  BY <1>6, <2>2, <2>4, WriteTypes DEF Phase
  <1>11. ASSUME \/ UpdateConstraints(r)
                \/ \E u \in Users, s \in Seeds, k \in Constraints : Plant(r, u, s, k)
         PROVE  TypeInv'
    <2>1. PICK s \in Seeds, k \in Constraints :
            /\ constraints' = [constraints EXCEPT ![s] = k]
            /\ UNCHANGED <<faults, threads, deliverables, position, signals, subscriptions, editing, overwritten>>
            /\ \E from : Goto(r, from, "done")
      <3>1. CASE UpdateConstraints(r)
        <4>1. job[r].on \in Seeds /\ job[r].value \in Constraints
          BY <3>1 DEF UpdateConstraints, Doing, JobsOK, JobOK
        <4>. QED  BY <3>1, <4>1 DEF UpdateConstraints
      <3>2. CASE \E u \in Users, s \in Seeds, k \in Constraints : Plant(r, u, s, k)
        BY <3>2 DEF Plant
      <3>. QED  BY <1>11, <3>1, <3>2
    <2>2. TablesOK'
      BY <2>1 DEF TablesOK
    <2>. QED  BY <1>6, <2>1, <2>2, WriteTypes DEF Phase
  <1>12. ASSUME UpdatePosition(r) PROVE TypeInv'
    <2>1. /\ Goto(r, "found", "done") /\ at[r] = "found" /\ job[r].op = "move"
          /\ position' = [position EXCEPT ![job[r].on] = job[r].value]
          /\ UNCHANGED <<faults, threads, deliverables, constraints, signals, subscriptions, editing, overwritten>>
      BY <1>12 DEF UpdatePosition, Doing
    <2>2. job[r].on \in Seeds \cup Leaves /\ job[r].value \in Positions
      BY <2>1 DEF JobsOK, JobOK
    <2>3. TablesOK'
      BY <2>1, <2>2 DEF TablesOK
    <2>. QED  BY <1>6, <2>1, <2>3, WriteTypes DEF Phase
  <1>13. ASSUME \/ \E u \in Users, l \in Leaves, k \in SignalTypes : RecordSignal(r, u, l, k)
                \/ \E s \in signals : RemoveSignal(r, s)
         PROVE  TypeInv'
    <2>1. signals' \subseteq Signal
      <3>1. CASE \E u \in Users, l \in Leaves, k \in SignalTypes : RecordSignal(r, u, l, k)
        BY <3>1 DEF RecordSignal, Signal, TablesOK
      <3>2. CASE \E s \in signals : RemoveSignal(r, s)
        BY <3>2 DEF RemoveSignal, TablesOK
      <3>. QED  BY <1>13, <3>1, <3>2
    <2>2. /\ Goto(r, "idle", "done")
          /\ UNCHANGED <<faults, threads, deliverables, constraints, position, subscriptions, editing, overwritten>>
      BY <1>13 DEF RecordSignal, RemoveSignal
    <2>3. TablesOK'
      BY <2>1, <2>2 DEF TablesOK
    <2>. QED  BY <1>6, <2>2, <2>3, WriteTypes DEF Phase
  <1>14. ASSUME SaveSubscription(r) PROVE TypeInv'
    <2>. DEFINE row == IF draft[r] = None THEN NewSubscription ELSE draft[r]
    <2>1. /\ Goto(r, "found", "done") /\ at[r] = "found" /\ job[r].op = "subscribe"
          /\ subscriptions' = [subscriptions EXCEPT ![job[r].on] = Wished(row, job[r].value)]
          /\ overwritten' \subseteq overwritten \cup {job[r].on}
          /\ UNCHANGED <<faults, threads, deliverables, constraints, position, signals, editing>>
      BY <1>14 DEF SaveSubscription, StoreSubscription, Doing, Overwrites
    <2>2. job[r].on \in Users /\ job[r].value \in Wishes /\ draft[r] \in Subscription \cup {None}
      BY <2>1 DEF JobsOK, JobOK
    <2>3. Wished(row, job[r].value) \in Subscription
      <3>1. row \in Subscription
        BY <2>2, NewSubscriptionType
      <3>. QED  BY <2>2, <3>1, WishedType
    <2>. HIDE DEF row
    <2>4. TablesOK'
      BY <2>1, <2>2, <2>3 DEF TablesOK
    <2>. QED  BY <1>6, <2>1, <2>4, WriteTypes DEF Phase
  <1>. QED
    BY <1>1, <1>2, <1>3, <1>4, <1>5, <1>7, <1>8, <1>9, <1>10, <1>11, <1>12, <1>13, <1>14 DEF Edit

LEMMA NextTypeInv == TypeInv /\ [Next]_vars => TypeInv'
  <1> SUFFICES ASSUME TypeInv, [Next]_vars PROVE TypeInv'
    OBVIOUS
  <1>1. CASE UNCHANGED vars
    <2>1. GraphTypeOK' /\ AtOK'
      BY <1>1 DEF TypeInv, GraphTypeOK, AtOK, vars, graph, walk
    <2>2. TablesOK' /\ CopiesOK' /\ JobsOK'
      BY <1>1 DEF TypeInv, DocsOK, TablesOK, CopiesOK, JobsOK, vars, docs, tables, editing
    <2>. QED  BY <2>1, <2>2 DEF TypeInv, DocsOK
  <1>2. ASSUME NEW r \in Requests, Explore(r), UNCHANGED docs PROVE TypeInv'
    <2>1. GraphTypeOK' /\ AtOK' /\ at'[r] # "found" /\ \A o \in Requests \ {r} : at'[o] = at[o]
      BY <1>2, ExploreTypes DEF TypeInv
    <2>2. TablesOK' /\ CopiesOK'
      BY <1>2 DEF TypeInv, DocsOK, TablesOK, CopiesOK, docs, tables, editing
    <2>3. JobsOK'
      BY <1>2, <2>1 DEF TypeInv, DocsOK, JobsOK, docs, editing
    <2>. QED  BY <2>1, <2>2, <2>3 DEF TypeInv, DocsOK
  <1>. QED  BY <1>1, <1>2, EditTypes DEF Next

(* Type correctness holds in every behaviour. *)
THEOREM TypeCorrect == Spec => []TypeOK
  <1>. QED  BY InitTypeInv, NextTypeInv, TypeInvTypeOK, PTL DEF Spec

-----------------------------------------------------------------------------
(* Paths, and what is within reach.                                         *)

LEMMA PathStep ==
    ASSUME NEW n \in Nat, NEW l \in Leaves, NEW joined, NEW x \in Near(l, n, joined), NEW y \in Leaves,
           y = x \/ \E c \in joined : {x, y} \subseteq c
    PROVE  y \in Near(l, n + 1, joined)
  <1>1. PICK p \in [0..n -> Leaves] : IsPath(p, n, l, joined) /\ p[n] = x
    BY DEF Near
  <1>. DEFINE q == [i \in 0..(n + 1) |-> IF i = n + 1 THEN y ELSE p[i]]
  <1>2. q \in [0..(n + 1) -> Leaves] /\ q[n + 1] = y /\ \A i \in 0..n : q[i] = p[i]
    BY <1>1
  <1>. HIDE DEF q
  <1>3. \A i \in 1..(n + 1) : q[i] = q[i - 1] \/ \E c \in joined : {q[i - 1], q[i]} \subseteq c
    <2>1. ASSUME NEW i \in 1..n PROVE q[i] = q[i - 1] \/ \E c \in joined : {q[i - 1], q[i]} \subseteq c
      <3>1. i \in 0..n /\ i - 1 \in 0..n
        OBVIOUS
      <3>2. q[i] = p[i] /\ q[i - 1] = p[i - 1]
        BY <1>2, <3>1
      <3>. QED  BY <1>1, <3>2 DEF IsPath
    <2>2. (n + 1) - 1 = n /\ q[n] = x
      BY <1>1, <1>2
    <2>. QED  BY <1>2, <2>1, <2>2
  <1>4. q[0] = l
    BY <1>1, <1>2 DEF IsPath
  <1>5. IsPath(q, n + 1, l, joined)
    BY <1>2, <1>3, <1>4 DEF IsPath
  <1>. QED  BY <1>2, <1>5 DEF Near

LEMMA NearStart ==
    ASSUME NEW l \in Leaves, NEW joined
    PROVE  l \in Near(l, 0, joined)
  <1>. DEFINE q == [i \in 0..0 |-> l]
  <1>1. q \in [0..0 -> Leaves] /\ q[0] = l /\ \A i \in 1..0 : FALSE
    OBVIOUS
  <1>. HIDE DEF q
  <1>. QED  BY <1>1 DEF Near, IsPath

(* A path may stay where it is, and use more connections.                   *)
LEMMA NearGrows ==
    ASSUME NEW m \in Nat, NEW n \in Nat, m <= n, NEW l \in Leaves, NEW joined, NEW more, joined \subseteq more
    PROVE  Near(l, m, joined) \subseteq Near(l, n, more)
  <1> SUFFICES ASSUME NEW x \in Near(l, m, joined) PROVE x \in Near(l, n, more)
    OBVIOUS
  <1>1. PICK p \in [0..m -> Leaves] : IsPath(p, m, l, joined) /\ p[m] = x
    BY DEF Near
  <1>. DEFINE q == [i \in 0..n |-> IF i <= m THEN p[i] ELSE x]
  <1>2. x \in Leaves
    BY DEF Near
  <1>3. /\ q \in [0..n -> Leaves]
        /\ \A i \in 0..m : q[i] = p[i]
        /\ \A i \in m..n : q[i] = x
    BY <1>1, <1>2
  <1>. HIDE DEF q
  <1>4. ASSUME NEW i \in 1..n PROVE q[i] = q[i - 1] \/ \E c \in more : {q[i - 1], q[i]} \subseteq c
    <2>1. CASE i <= m
      <3>1. i \in 0..m /\ i - 1 \in 0..m /\ i \in 1..m
        BY <2>1
      <3>2. q[i] = p[i] /\ q[i - 1] = p[i - 1]
        BY <1>3, <3>1
      <3>. QED  BY <1>1, <3>1, <3>2 DEF IsPath
    <2>2. CASE ~(i <= m)
      <3>1. i \in m..n /\ i - 1 \in m..n
        BY <2>2
      <3>. QED  BY <1>3, <3>1
    <2>. QED  BY <2>1, <2>2
  <1>5. q[0] = l /\ q[n] = x
    BY <1>1, <1>3 DEF IsPath
  <1>6. IsPath(q, n, l, more)
    BY <1>3, <1>4, <1>5 DEF IsPath
  <1>. QED  BY <1>2, <1>3, <1>5, <1>6 DEF Near

LEMMA LeastNatural ==
    ASSUME NEW S \in SUBSET Nat, S # {}
    PROVE  \E x \in S : \A y \in S : x <= y
<1> DEFINE T == {0 .. x : x \in S}
<1>1. \A x \in Nat : IsFiniteSet(0 .. x) /\ 0 .. x \subseteq Nat
  BY FS_Interval
<1>2. T \subseteq FiniteSubsetsOf(Nat)
  BY <1>1 DEF FiniteSubsetsOf
<1>3. T # {}
  OBVIOUS
<1> HIDE DEF T
<1>4. PICK X \in T : \A Y \in T : ~ (<<Y, X>> \in StrictSubsetOrdering(Nat))
  BY <1>2, <1>3, FS_StrictSubsetOrderingWellFounded, WFMin
<1> USE DEF T
<1>5. PICK x \in S : X = 0 .. x
  OBVIOUS
<1>6. ASSUME NEW y \in S, y < x
      PROVE  FALSE
  <2>1. 0 .. y \in T
    OBVIOUS
  <2>2. 0 .. y \subseteq 0 .. x /\ 0 .. y # 0 .. x
    <3>1. x \in 0 .. x /\ x \notin 0 .. y
      BY <1>6
    <3>2. 0 .. y \subseteq 0 .. x
      BY <1>6
    <3> QED BY <3>1, <3>2
  <2>3. 0 .. y \subseteq Nat /\ 0 .. x \subseteq Nat
    OBVIOUS
  <2>4. <<0 .. y, 0 .. x>> \in StrictSubsetOrdering(Nat)
    BY <2>2, <2>3 DEF StrictSubsetOrdering
  <2> QED BY <1>4, <1>5, <2>1, <2>4
<1> QED BY <1>6

(* A set that holds 0 and every successor of a member holds all numbers.    *)

(* A path does not leave a set that contains all that joins its members.    *)
LEMMA PathStays ==
    ASSUME NEW n \in Nat, NEW l, NEW joined, NEW p, IsPath(p, n, l, joined),
           NEW S, l \in S, \A c \in joined : c \cap S # {} => c \subseteq S
    PROVE  \A i \in 0..n : p[i] \in S
  <1> SUFFICES ASSUME ~ \A i \in 0..n : p[i] \in S PROVE FALSE
    OBVIOUS
  <1>. DEFINE Out == {i \in 0..n : p[i] \notin S}
  <1>1. Out \in SUBSET Nat /\ Out # {}
    OBVIOUS
  <1>2. PICK i \in Out : \A j \in Out : i <= j
    BY <1>1, LeastNatural
  <1>3. i \in 0..n /\ p[i] \notin S /\ i # 0
    BY <1>2 DEF IsPath
  <1>4. i \in 1..n /\ i - 1 \in 0..n /\ i - 1 \notin Out
    BY <1>2, <1>3
  <1>5. p[i - 1] \in S
    BY <1>4
  <1>. QED  BY <1>3, <1>4, <1>5 DEF IsPath

LEMMA ReachedLeast ==
    ASSUME NEW step, NEW l, NEW S \in SUBSET Leaves, l \in S, \A y \in S : step[y] \subseteq S
    PROVE  Reached(step, l) \subseteq S
  BY DEF Reached

LEMMA ReachedStep ==
    ASSUME NEW step \in [Leaves -> SUBSET Leaves], NEW l \in Leaves
    PROVE  /\ l \in Reached(step, l)
           /\ \A x \in Reached(step, l) : step[x] \subseteq Reached(step, l)
  BY DEF Reached

LEMMA ReachedGrows ==
    ASSUME NEW step, NEW more, NEW l, \A x \in Leaves : step[x] \subseteq more[x]
    PROVE  Reached(step, l) \subseteq Reached(more, l)
  BY DEF Reached

-----------------------------------------------------------------------------
(* Walks.  The invariant says of a walk under way that what was connected   *)
(* when it began (known) is covered by what it has seen, and that it has    *)
(* seen nothing beyond its reach; and of the graph that each leaf has       *)
(* others that were there before it, those it grew from among them.         *)

Rooted ==
    \A l \in Leaves : Exists(l) =>
        \E earlier \in SUBSET (Leaves \ {l}) :
            /\ GrewFrom(leaves[l]) \subseteq earlier
            /\ \A x \in earlier : Exists(x) /\ GrewFrom(leaves[x]) \subseteq earlier

Covers(r, known) ==
    /\ before[r] \subseteq Found(Near(origin[r], depth[r], known), origin[r])
    /\ \A p \in [0..depth[r] -> Leaves] :
          IsPath(p, depth[r], origin[r], known) => \A i \in 0..hop[r] : p[i] \in seen[r]
    /\ \A c \in known : c \cap (seen[r] \ frontier[r]) # {} => c \subseteq seen[r]

Started(r) == origin[r] \in Leaves /\ origin[r] \in seen[r] /\ frontier[r] \subseteq seen[r]

Walking(r) ==
    /\ Started(r)
    /\ hop[r] <= depth[r]
    /\ seen[r] \subseteq Near(origin[r], hop[r], connections)
    /\ \E known \in SUBSET connections : Covers(r, known)

Walked(r) ==
    /\ origin[r] \in Leaves
    /\ before[r] \subseteq result[r]
    /\ result[r] \subseteq Neighbors(origin[r], depth[r])

Tracing(r) ==
    /\ Started(r)
    /\ seen[r] \subseteq Reached(Sources, origin[r])
    /\ \A x \in seen[r] \ {origin[r]} : Exists(x)
    /\ result[r] = (seen[r] \ frontier[r]) \ {origin[r]}
    /\ before[r] \subseteq Lineage(origin[r])
    /\ before[r] # {} =>
          Exists(origin[r]) /\ \A x \in seen[r] \ frontier[r] : Sources[x] \subseteq seen[r]

Traced(r) ==
    /\ origin[r] \in Leaves
    /\ before[r] \subseteq result[r]
    /\ result[r] \subseteq Lineage(origin[r])

WalkOK(r) ==
    /\ at[r] = "idle" => hop[r] = 0 /\ result[r] = {}
    /\ at[r] = "walking" => Walking(r)
    /\ at[r] = "walked" => Walked(r)
    /\ at[r] = "tracing" => Tracing(r)
    /\ at[r] = "traced" => Traced(r)

WalksInv == GraphTypeOK /\ AtOK /\ Rooted /\ \A r \in Requests : WalkOK(r)

(* The graph only grows. *)
Grew ==
    /\ \A x \in Leaves : Exists(x) => leaves'[x] = leaves[x]
    /\ connections \subseteq connections'

LEMMA GrewFound ==
    ASSUME Grew, NEW ids \in SUBSET Leaves, NEW more \in SUBSET Leaves, ids \subseteq more, NEW l
    PROVE  Found(ids, l) \subseteq {x \in more : leaves'[x] # None} \ {l}
  BY DEF Grew, Found, Exists

LEMMA GrewNeighbors ==
    ASSUME Grew, NEW l \in Leaves, NEW n \in Nat
    PROVE  Neighbors(l, n) \subseteq Neighbors(l, n)'
  <1>1. Near(l, n, connections) \subseteq Near(l, n, connections')
    BY NearGrows DEF Grew
  <1>2. Near(l, n, connections) \subseteq Leaves /\ Near(l, n, connections') \subseteq Leaves
    BY DEF Near
  <1>3. Neighbors(l, n)' = {x \in Near(l, n, connections') : leaves'[x] # None} \ {l}
    BY DEF Neighbors, Found, Exists
  <1>. QED  BY <1>1, <1>2, <1>3, GrewFound DEF Neighbors

LEMMA SourcesType == GraphTypeOK => Sources \in [Leaves -> SUBSET Leaves]
  <1> SUFFICES ASSUME GraphTypeOK PROVE Sources \in [Leaves -> SUBSET Leaves]
    OBVIOUS
  <1>1. ASSUME NEW x \in Leaves PROVE (IF Exists(x) THEN leaves[x].sources ELSE {}) \in SUBSET Leaves
    BY DEF GraphTypeOK, Leaf, Exists
  <1>. QED  BY <1>1 DEF Sources

LEMMA GrewSources ==
    ASSUME GraphTypeOK, Grew
    PROVE  \A x \in Leaves : /\ Exists(x) => Exists(x)' /\ Sources'[x] = Sources[x]
                             /\ Sources[x] \subseteq Sources'[x]
  BY DEF Grew, Sources, Exists

LEMMA GrewLineage ==
    ASSUME GraphTypeOK, Grew, NEW l \in Leaves
    PROVE  /\ Reached(Sources, l) \subseteq Reached(Sources', l)
           /\ Lineage(l) \subseteq Lineage(l)'
  <1>1. Reached(Sources, l) \subseteq Reached(Sources', l)
    BY GrewSources, ReachedGrows
  <1>2. Reached(Sources, l) \subseteq Leaves /\ Reached(Sources', l) \subseteq Leaves
    BY DEF Reached
  <1>3. Lineage(l)' = {x \in Reached(Sources', l) : leaves'[x] # None} \ {l}
    BY DEF Lineage, Found, Exists
  <1>. QED  BY <1>1, <1>2, <1>3, GrewFound DEF Lineage

(* A walk that another request's step leaves alone.                         *)
Rests(r) ==
    /\ at'[r] = at[r] /\ origin'[r] = origin[r] /\ depth'[r] = depth[r] /\ seen'[r] = seen[r]
    /\ frontier'[r] = frontier[r] /\ hop'[r] = hop[r] /\ result'[r] = result[r] /\ before'[r] = before[r]

LEMMA WalkKept ==
    ASSUME GraphTypeOK, Grew, NEW r \in Requests, Rests(r), WalkOK(r)
    PROVE  WalkOK(r)'
  <1>. USE DEF Rests
  <1>0. depth[r] \in Nat /\ hop[r] \in Nat
    BY DEF GraphTypeOK
  <1>1. ASSUME at[r] = "walking" PROVE Walking(r)'
    <2>1. Walking(r)
      BY <1>1 DEF WalkOK
    <2>2. Started(r)' /\ hop'[r] <= depth'[r]
      BY <2>1 DEF Walking, Started
    <2>3. Near(origin[r], hop[r], connections) \subseteq Near(origin[r], hop[r], connections')
      BY <1>0, <2>1, NearGrows DEF Grew, Walking, Started
    <2>4. PICK known \in SUBSET connections : Covers(r, known)
      BY <2>1 DEF Walking
    <2>5. Covers(r, known)'
      <3>. DEFINE ids == Near(origin[r], depth[r], known)
      <3>1. before[r] \subseteq Found(ids, origin[r])
        BY <2>4 DEF Covers
      <3>2. ids \subseteq Leaves
        BY DEF Near
      <3>3. before[r] \subseteq {x \in ids : leaves'[x] # None} \ {origin[r]}
        <4>. HIDE DEF ids
        <4>. QED  BY <3>1, <3>2, GrewFound
      <3>4. before'[r] \subseteq Found(Near(origin[r], depth[r], known), origin[r])'
        BY <3>3 DEF Found, Exists
      <3>. QED  BY <2>4, <3>4 DEF Covers
    <2>6. known \in SUBSET connections'
      BY DEF Grew
    <2>. QED  BY <2>1, <2>2, <2>3, <2>5, <2>6 DEF Walking
  <1>2. ASSUME at[r] = "walked" PROVE Walked(r)'
    <2>1. Walked(r)
      BY <1>2 DEF WalkOK
    <2>2. PICK o \in Leaves, d \in Nat : o = origin[r] /\ d = depth[r]
      BY <1>0, <2>1 DEF Walked
    <2>3. Neighbors(o, d) \subseteq Neighbors(o, d)'
      BY GrewNeighbors
    <2>. QED  BY <2>1, <2>2, <2>3 DEF Walked
  <1>3. ASSUME at[r] = "tracing" PROVE Tracing(r)'
    <2>1. Tracing(r)
      BY <1>3 DEF WalkOK
    <2>2. PICK o \in Leaves : o = origin[r]
      BY <2>1 DEF Tracing, Started
    <2>3. Reached(Sources, o) \subseteq Reached(Sources', o) /\ Lineage(o) \subseteq Lineage(o)'
      BY GrewLineage
    <2>4. seen[r] \subseteq Leaves
      BY DEF GraphTypeOK
    <2>5. Started(r)'
      BY <2>1 DEF Tracing, Started
    <2>6. seen'[r] \subseteq Reached(Sources, origin[r])' /\ before'[r] \subseteq Lineage(origin[r])'
      BY <2>1, <2>2, <2>3 DEF Tracing
    <2>7. \A x \in seen'[r] \ {origin'[r]} : Exists(x)'
      BY <2>1, <2>4, GrewSources DEF Tracing
    <2>8. ASSUME before[r] # {}
          PROVE  Exists(o)' /\ \A x \in seen[r] \ frontier[r] : Sources'[x] \subseteq seen[r]
      <3>1. \A x \in seen[r] : Exists(x)
        BY <2>1, <2>2, <2>8 DEF Tracing
      <3>. QED  BY <2>1, <2>2, <2>4, <2>8, <3>1, GrewSources DEF Tracing
    <2>9. (before[r] # {})' =>
              Exists(origin[r])' /\ \A x \in seen'[r] \ frontier'[r] : Sources'[x] \subseteq seen'[r]
      BY <2>2, <2>8
    <2>. QED  BY <2>1, <2>5, <2>6, <2>7, <2>9 DEF Tracing
  <1>4. ASSUME at[r] = "traced" PROVE Traced(r)'
    <2>1. Traced(r)
      BY <1>4 DEF WalkOK
    <2>2. PICK o \in Leaves : o = origin[r]
      BY <2>1 DEF Traced
    <2>3. Lineage(o) \subseteq Lineage(o)'
      BY GrewLineage
    <2>. QED  BY <2>1, <2>2, <2>3 DEF Traced
  <1>. QED  BY <1>1, <1>2, <1>3, <1>4 DEF WalkOK

LEMMA InitWalksInv == DInit => WalksInv
  <1> SUFFICES ASSUME DInit PROVE WalksInv
    OBVIOUS
  <1>1. GraphTypeOK /\ AtOK
    BY InitTypeInv DEF TypeInv
  <1>2. Rooted
    BY ExplorationAssumption DEF DInit, Init, Rooted, Grown, Exists
  <1>3. \A r \in Requests : WalkOK(r)
    BY DEF DInit, Init, WalkOK
  <1>. QED  BY <1>1, <1>2, <1>3 DEF WalksInv

LEMMA QuietRooted ==
    ASSUME Rooted, UNCHANGED leaves
    PROVE  Rooted'
  BY DEF Rooted, Exists

LEMMA GrowthRooted ==
    ASSUME GraphTypeOK, Rooted, NEW b \in Branches, NEW l \in Leaves, NEW p \in Leaves \cup {None},
           NEW s \in SUBSET Leaves, Grows(l, b, p, s), p # None => Exists(p), \A x \in s : Exists(x),
           UNCHANGED connections
    PROVE  Rooted' /\ Grew
  <1>. DEFINE leaf == [branch |-> b, parent |-> p, sources |-> s]
  <1>1. leaf \in Leaf /\ GrewFrom(leaf) = ({p} \ {None}) \cup s
    BY DEF Leaf, GrewFrom
  <1>2. ~Exists(l) /\ leaves' = [leaves EXCEPT ![l] = leaf]
    BY DEF Grows
  <1>. HIDE DEF leaf
  <1>3. Grew /\ \A x \in Leaves : x # l => leaves'[x] = leaves[x]
    BY <1>2 DEF Grew, GraphTypeOK, Exists
  <1>4. leaves'[l] = leaf
    BY <1>2 DEF GraphTypeOK
  <1>5. \A x \in Leaves : Exists(x) => GrewFrom(leaves[x]) \subseteq {y \in Leaves : Exists(y)}
    BY DEF Rooted
  <1>6. ASSUME NEW k \in Leaves, leaves'[k] # None
        PROVE  \E earlier \in SUBSET (Leaves \ {k}) :
                  /\ GrewFrom(leaves'[k]) \subseteq earlier
                  /\ \A x \in earlier : leaves'[x] # None /\ GrewFrom(leaves'[x]) \subseteq earlier
    <2>1. CASE k = l
      <3>. DEFINE earlier == {y \in Leaves : Exists(y)}
      <3>1. earlier \in SUBSET (Leaves \ {k})
        BY <1>2, <2>1
      <3>2. GrewFrom(leaves'[k]) \subseteq earlier
        BY <1>1, <1>4, <2>1
      <3>3. ASSUME NEW x \in earlier PROVE leaves'[x] # None /\ GrewFrom(leaves'[x]) \subseteq earlier
        <4>1. x \in Leaves /\ Exists(x) /\ leaves'[x] = leaves[x]
          BY <1>2, <1>3, <3>3
        <4>. QED  BY <1>5, <4>1 DEF Exists
      <3>. QED  BY <3>1, <3>2, <3>3
    <2>2. CASE k # l
      <3>1. leaves'[k] = leaves[k] /\ Exists(k)
        BY <1>3, <1>6, <2>2 DEF Exists
      <3>2. PICK earlier \in SUBSET (Leaves \ {k}) :
              /\ GrewFrom(leaves[k]) \subseteq earlier
              /\ \A x \in earlier : Exists(x) /\ GrewFrom(leaves[x]) \subseteq earlier
        BY <3>1 DEF Rooted
      <3>3. ASSUME NEW x \in earlier PROVE leaves'[x] # None /\ GrewFrom(leaves'[x]) \subseteq earlier
        <4>1. leaves'[x] = leaves[x] /\ Exists(x)
          BY <1>3, <3>2 DEF Grew
        <4>. QED  BY <3>2, <4>1 DEF Exists
      <3>. QED  BY <3>1, <3>2, <3>3
    <2>. QED  BY <2>1, <2>2
  <1>7. Rooted'
    BY <1>6 DEF Rooted, Exists
  <1>. QED  BY <1>3, <1>7

LEMMA StepKeeps ==
    ASSUME WalksInv, GraphTypeOK', AtOK', Grew, Rooted', NEW r \in Requests,
           \A o \in Requests \ {r} : Rests(o), WalkOK(r)'
    PROVE  WalksInv'
  <1>1. ASSUME NEW o \in Requests PROVE WalkOK(o)'
    BY WalkKept DEF WalksInv
  <1>. QED  BY <1>1 DEF WalksInv

Elsewhere == {"answered", "found", "generating", "done", "refused", "failed"}

(* A step that leaves the walks alone.                                      *)
LEMMA NoWalkKeeps ==
    ASSUME WalksInv, GraphTypeOK', AtOK', Grew, Rooted', NEW r \in Requests,
           NEW from, NEW to \in Elsewhere, Goto(r, from, to),
           UNCHANGED <<origin, depth, seen, frontier, hop, before>>,
           \A o \in Requests \ {r} : result'[o] = result[o]
    PROVE  WalksInv'
  <1>1. at'[r] = to /\ \A o \in Requests \ {r} : Rests(o)
    BY DEF Goto, AtOK, Rests, WalksInv
  <1>2. WalkOK(r)'
    BY <1>1 DEF WalkOK, Elsewhere
  <1>. QED  BY <1>1, <1>2, StepKeeps

LEMMA NeighborhoodKeeps ==
    ASSUME WalksInv, GraphTypeOK', AtOK', NEW r \in Requests, NEW l \in Leaves, NEW d \in Depths,
           Neighborhood(r, l, d)
    PROVE  WalksInv'
  <1>1. /\ at[r] = "idle" /\ at' = [at EXCEPT ![r] = "walking"]
        /\ Begin(r, l, d, Neighbors(l, d))
        /\ UNCHANGED <<leaves, connections>>
    BY DEF Neighborhood, Goto, graph
  <1>2. /\ at'[r] = "walking" /\ origin'[r] = l /\ depth'[r] = d /\ seen'[r] = {l} /\ frontier'[r] = {l}
        /\ hop'[r] = 0 /\ before'[r] = Neighbors(l, d)
    BY <1>1 DEF Begin, WalksInv, GraphTypeOK, AtOK, WalkOK
  <1>3. \A o \in Requests \ {r} : Rests(o)
    BY <1>1 DEF Begin, Rests, WalksInv, GraphTypeOK, AtOK
  <1>4. Grew /\ Rooted'
    BY <1>1, QuietRooted DEF Grew, WalksInv
  <1>5. d \in Nat
    BY ExplorationAssumption
  <1>6. Walking(r)'
    <2>1. Started(r)' /\ hop'[r] <= depth'[r]
      BY <1>2, <1>5 DEF Started
    <2>2. seen'[r] \subseteq Near(origin'[r], hop'[r], connections')
      BY <1>2, NearStart
    <2>3. PICK known : known = connections
      OBVIOUS
    <2>4. Covers(r, known)'
      <3>1. Found(Near(l, d, known), l)' = Found(Near(l, d, known), l)
        BY <1>1 DEF Found, Exists
      <3>2. before'[r] = Found(Near(l, d, known), l)
        BY <1>2, <2>3 DEF Neighbors
      <3>3. ASSUME NEW p, IsPath(p, d, l, known) PROVE \A i \in 0..0 : p[i] \in {l}
        BY <3>3 DEF IsPath
      <3>4. seen'[r] \ frontier'[r] = {}
        BY <1>2
      <3>. QED  BY <1>2, <3>1, <3>2, <3>3, <3>4 DEF Covers
    <2>5. known \in SUBSET connections'
      BY <1>1, <2>3
    <2>. QED  BY <2>1, <2>2, <2>4, <2>5 DEF Walking
  <1>7. WalkOK(r)'
    BY <1>2, <1>6 DEF WalkOK
  <1>. QED  BY <1>3, <1>4, <1>7, StepKeeps

LEMMA HopKeeps ==
    ASSUME WalksInv, GraphTypeOK', AtOK', NEW r \in Requests, Hop(r)
    PROVE  WalksInv'
  <1>. DEFINE met == UNION {c \in connections : c \cap frontier[r] # {}}
  <1>1. /\ at[r] = "walking" /\ at' = [at EXCEPT ![r] = "walking"]
        /\ hop[r] < depth[r]
        /\ Meets(r, met)
        /\ hop' = [hop EXCEPT ![r] = @ + 1]
        /\ UNCHANGED <<leaves, connections, origin, depth, result, before>>
    BY DEF Hop, Goto, MoreHops, graph
  <1>2. \A y : y \in met <=> \E c \in connections : y \in c /\ c \cap frontier[r] # {}
    OBVIOUS
  <1>. HIDE DEF met
  <1>3. /\ hop[r] \in Nat /\ depth[r] \in Nat /\ connections \subseteq SUBSET Leaves
        /\ seen[r] \subseteq Leaves /\ Walking(r)
    BY <1>1 DEF WalksInv, GraphTypeOK, WalkOK
  <1>4. /\ at'[r] = "walking" /\ hop'[r] = hop[r] + 1
        /\ seen'[r] = seen[r] \cup met /\ frontier'[r] = met \ seen[r]
        /\ seen'[r] \ frontier'[r] = seen[r]
    BY <1>1 DEF Meets, WalksInv, GraphTypeOK, AtOK
  <1>5. \A o \in Requests \ {r} : Rests(o)
    BY <1>1 DEF Meets, Rests, WalksInv, GraphTypeOK, AtOK
  <1>6. Grew /\ Rooted'
    BY <1>1, QuietRooted DEF Grew, WalksInv
  <1>7. PICK o \in Leaves, n \in Nat, d \in Nat :
          o = origin[r] /\ n = hop[r] /\ d = depth[r] /\ o \in seen[r] /\ frontier[r] \subseteq seen[r]
    BY <1>3 DEF Walking, Started
  <1>8. seen'[r] \subseteq Near(o, n + 1, connections)
    <2>1. Near(o, n, connections) \subseteq Near(o, n + 1, connections)
      BY NearGrows
    <2>2. ASSUME NEW y \in met PROVE y \in Near(o, n + 1, connections)
      <3>1. PICK c \in connections, x \in frontier[r] : y \in c /\ x \in c
        BY <1>2, <2>2
      <3>2. x \in Near(o, n, connections) /\ y \in Leaves
        BY <1>3, <1>7, <3>1 DEF Walking
      <3>. QED  BY <3>1, <3>2, PathStep
    <2>. QED  BY <1>3, <1>4, <1>7, <2>1, <2>2 DEF Walking
  <1>9. PICK known \in SUBSET connections : Covers(r, known)
    BY <1>3 DEF Walking
  <1>10. ASSUME NEW c \in known, NEW x \in c, x \in seen[r] PROVE c \subseteq seen'[r]
    <2>1. CASE x \in frontier[r]
      BY <1>2, <1>4, <1>9, <1>10, <2>1
    <2>2. CASE x \notin frontier[r]
      BY <1>4, <1>9, <1>10, <2>2 DEF Covers
    <2>. QED  BY <2>1, <2>2
  <1>11. Covers(r, known)'
    <2>1. Found(Near(o, d, known), o)' = Found(Near(o, d, known), o)
      BY <1>1 DEF Found, Exists
    <2>2. before'[r] \subseteq Found(Near(o, d, known), o)
      BY <1>1, <1>7, <1>9 DEF Covers
    <2>3. ASSUME NEW p \in [0..d -> Leaves], IsPath(p, d, o, known), NEW i \in 0..(n + 1)
          PROVE  p[i] \in seen'[r]
      <3>1. \A k \in 0..n : p[k] \in seen[r]
        BY <1>7, <1>9, <2>3 DEF Covers
      <3>2. CASE i \in 0..n
        BY <1>4, <3>1, <3>2
      <3>3. CASE i = n + 1
        <4>1. i \in 1..d /\ i - 1 \in 0..n
          BY <1>1, <1>7, <3>3
        <4>2. p[i - 1] \in seen[r]
          BY <3>1, <4>1
        <4>3. p[i] = p[i - 1] \/ \E c \in known : {p[i - 1], p[i]} \subseteq c
          BY <2>3, <4>1 DEF IsPath
        <4>. QED  BY <1>4, <1>10, <4>2, <4>3
      <3>. QED  BY <3>2, <3>3
    <2>4. \A c \in known : c \cap seen[r] # {} => c \subseteq seen'[r]
      BY <1>10
    <2>. QED  BY <1>1, <1>4, <1>7, <2>1, <2>2, <2>3, <2>4 DEF Covers
  <1>12. Walking(r)'
    <2>1. Started(r)'
      BY <1>1, <1>4, <1>7 DEF Started
    <2>2. hop'[r] <= depth'[r]
      BY <1>1, <1>3, <1>4
    <2>3. seen'[r] \subseteq Near(origin[r], hop[r], connections)'
      BY <1>1, <1>4, <1>7, <1>8
    <2>4. known \in SUBSET connections'
      BY <1>1
    <2>. QED  BY <1>11, <2>1, <2>2, <2>3, <2>4 DEF Walking
  <1>13. WalkOK(r)'
    BY <1>4, <1>12 DEF WalkOK
  <1>. QED  BY <1>5, <1>6, <1>13, StepKeeps

LEMMA FetchNeighborsKeeps ==
    ASSUME WalksInv, GraphTypeOK', AtOK', NEW r \in Requests, FetchNeighbors(r)
    PROVE  WalksInv'
  <1>1. /\ at[r] = "walking" /\ at' = [at EXCEPT ![r] = "walked"]
        /\ ~(hop[r] < depth[r]) \/ frontier[r] = {}
        /\ result' = [result EXCEPT ![r] = Found(seen[r], origin[r])]
        /\ UNCHANGED <<leaves, connections, origin, depth, seen, frontier, hop, before>>
    BY DEF FetchNeighbors, Goto, MoreHops, graph
  <1>2. at'[r] = "walked" /\ result'[r] = Found(seen[r], origin[r])
    BY <1>1 DEF WalksInv, GraphTypeOK, AtOK
  <1>3. Walking(r)
    BY <1>1 DEF WalksInv, WalkOK
  <1>4. PICK o \in Leaves, n \in Nat, d \in Nat :
          /\ o = origin[r] /\ n = hop[r] /\ d = depth[r] /\ n <= d
          /\ o \in seen[r] /\ frontier[r] \subseteq seen[r]
    BY <1>3 DEF Walking, Started, WalksInv, GraphTypeOK
  <1>5. \A k \in Requests \ {r} : Rests(k)
    BY <1>1 DEF Rests, WalksInv, GraphTypeOK, AtOK
  <1>6. Grew /\ Rooted'
    BY <1>1, QuietRooted DEF Grew, WalksInv
  <1>7. PICK known \in SUBSET connections : Covers(r, known)
    BY <1>3 DEF Walking
  <1>8. Near(o, d, known) \subseteq seen[r]
    <2>1. ASSUME NEW p \in [0..d -> Leaves], IsPath(p, d, o, known) PROVE p[d] \in seen[r]
      <3>1. CASE n = d
        BY <1>4, <1>7, <2>1, <3>1 DEF Covers
      <3>2. CASE frontier[r] = {}
        <4>1. \A c \in known : c \cap seen[r] # {} => c \subseteq seen[r]
          BY <1>7, <3>2 DEF Covers
        <4>. QED  BY <1>4, <2>1, <4>1, PathStays
      <3>. QED  BY <1>1, <1>4, <3>1, <3>2
    <2>. QED  BY <2>1 DEF Near
  <1>9. before[r] \subseteq Found(seen[r], o)
    BY <1>4, <1>7, <1>8 DEF Covers, Found
  <1>10. Found(seen[r], o) \subseteq Neighbors(o, d)
    <2>1. Near(o, n, connections) \subseteq Near(o, d, connections)
      BY <1>4, NearGrows
    <2>. QED  BY <1>3, <1>4, <2>1 DEF Walking, Neighbors, Found
  <1>11. Neighbors(o, d)' = Neighbors(o, d)
    BY <1>1 DEF Neighbors, Found, Exists
  <1>12. Walked(r)'
    BY <1>1, <1>2, <1>4, <1>9, <1>10, <1>11 DEF Walked
  <1>13. WalkOK(r)'
    BY <1>2, <1>12 DEF WalkOK
  <1>. QED  BY <1>5, <1>6, <1>13, StepKeeps

LEMMA SynthesisLineageKeeps ==
    ASSUME WalksInv, GraphTypeOK', AtOK', NEW r \in Requests, NEW l \in Leaves, SynthesisLineage(r, l)
    PROVE  WalksInv'
  <1>1. /\ at[r] = "idle" /\ at' = [at EXCEPT ![r] = "tracing"]
        /\ Begin(r, l, 0, Lineage(l))
        /\ UNCHANGED <<leaves, connections>>
    BY DEF SynthesisLineage, Goto, graph
  <1>2. /\ at'[r] = "tracing" /\ origin'[r] = l /\ seen'[r] = {l} /\ frontier'[r] = {l}
        /\ result'[r] = {} /\ before'[r] = Lineage(l)
    BY <1>1 DEF Begin, WalksInv, GraphTypeOK, AtOK, WalkOK
  <1>3. \A o \in Requests \ {r} : Rests(o)
    BY <1>1 DEF Begin, Rests, WalksInv, GraphTypeOK, AtOK
  <1>4. Grew /\ Rooted'
    BY <1>1, QuietRooted DEF Grew, WalksInv
  <1>5. Sources' = Sources /\ Lineage(l)' = Lineage(l) /\ Exists(l)' = Exists(l)
    BY <1>1 DEF Sources, Lineage, Found, Exists
  <1>6. l \in Reached(Sources, l)
    BY SourcesType, ReachedStep DEF WalksInv
  <1>7. Lineage(l) # {} => Exists(l)
    <2>1. ASSUME ~Exists(l) PROVE Lineage(l) = {}
      <3>1. Sources[l] = {}
        BY <2>1 DEF Sources
      <3>2. PICK S : S = {l}
        OBVIOUS
      <3>3. S \in SUBSET Leaves /\ l \in S /\ \A y \in S : Sources[y] \subseteq S
        BY <3>1, <3>2
      <3>4. Reached(Sources, l) \subseteq S
        BY <3>3, ReachedLeast
      <3>. QED  BY <3>2, <3>4 DEF Lineage, Found
    <2>. QED  BY <2>1
  <1>8. Tracing(r)'
    <2>1. Started(r)'
      BY <1>2 DEF Started
    <2>2. seen'[r] \subseteq Reached(Sources, origin[r])'
      BY <1>2, <1>5, <1>6
    <2>3. seen'[r] \ {origin'[r]} = {} /\ seen'[r] \ frontier'[r] = {}
      BY <1>2
    <2>4. before'[r] \subseteq Lineage(origin[r])'
      BY <1>2, <1>5
    <2>5. before'[r] # {} => Exists(origin[r])'
      BY <1>2, <1>5, <1>7
    <2>. QED  BY <1>2, <2>1, <2>2, <2>3, <2>4, <2>5 DEF Tracing
  <1>9. WalkOK(r)'
    BY <1>2, <1>8 DEF WalkOK
  <1>. QED  BY <1>3, <1>4, <1>9, StepKeeps

LEMMA FetchSourcesKeeps ==
    ASSUME WalksInv, GraphTypeOK', AtOK', NEW r \in Requests, FetchSources(r)
    PROVE  WalksInv'
  <1>. DEFINE met == UNION {Sources[x] : x \in frontier[r]}
  <1>1. /\ at[r] = "tracing" /\ at' = [at EXCEPT ![r] = "tracing"]
        /\ Meets(r, met)
        /\ result' = [result EXCEPT ![r] = @ \cup Found(frontier[r], origin[r])]
        /\ UNCHANGED <<leaves, connections, origin, depth, hop, before>>
    BY DEF FetchSources, Goto, graph
  <1>2. \A y : y \in met <=> \E x \in frontier[r] : y \in Sources[x]
    OBVIOUS
  <1>. HIDE DEF met
  <1>3. /\ at'[r] = "tracing" /\ seen'[r] = seen[r] \cup met /\ frontier'[r] = met \ seen[r]
        /\ seen'[r] \ frontier'[r] = seen[r]
        /\ result'[r] = result[r] \cup Found(frontier[r], origin[r])
    BY <1>1 DEF Meets, WalksInv, GraphTypeOK, AtOK
  <1>4. \A o \in Requests \ {r} : Rests(o)
    BY <1>1 DEF Meets, Rests, WalksInv, GraphTypeOK, AtOK
  <1>5. Grew /\ Rooted'
    BY <1>1, QuietRooted DEF Grew, WalksInv
  <1>6. Tracing(r) /\ seen[r] \subseteq Leaves
    BY <1>1 DEF WalksInv, WalkOK, GraphTypeOK
  <1>7. PICK o \in Leaves : o = origin[r] /\ o \in seen[r] /\ frontier[r] \subseteq seen[r]
    BY <1>6 DEF Tracing, Started
  <1>8. Sources' = Sources /\ Lineage(o)' = Lineage(o) /\ \A x \in Leaves : Exists(x)' = Exists(x)
    BY <1>1 DEF Sources, Lineage, Found, Exists
  <1>9. met \subseteq Reached(Sources, o)
    BY <1>2, <1>6, <1>7, SourcesType, ReachedStep DEF Tracing, WalksInv
  <1>10. ASSUME NEW y \in met PROVE y \in Leaves /\ Exists(y)
    <2>1. PICK x \in frontier[r] : y \in Sources[x]
      BY <1>2, <1>10
    <2>2. x \in Leaves /\ Exists(x) /\ y \in leaves[x].sources
      BY <1>6, <1>7, <2>1 DEF Sources
    <2>3. y \in GrewFrom(leaves[x])
      BY <2>2 DEF GrewFrom
    <2>. QED  BY <2>2, <2>3 DEF WalksInv, Rooted
  <1>11. result'[r] = seen[r] \ {o}
    <2>1. Found(frontier[r], o) = frontier[r] \ {o}
      BY <1>6, <1>7 DEF Found, Tracing
    <2>. QED  BY <1>3, <1>6, <1>7, <2>1 DEF Tracing
  <1>12. Tracing(r)'
    <2>1. Started(r)'
      BY <1>1, <1>3, <1>7 DEF Started
    <2>2. seen'[r] \subseteq Reached(Sources, origin[r])'
      BY <1>1, <1>3, <1>6, <1>7, <1>8, <1>9 DEF Tracing
    <2>3. \A x \in seen'[r] \ {origin'[r]} : Exists(x)'
      BY <1>1, <1>3, <1>6, <1>8, <1>10 DEF Tracing
    <2>4. result'[r] = (seen'[r] \ frontier'[r]) \ {origin'[r]}
      BY <1>1, <1>3, <1>7, <1>11
    <2>5. before'[r] \subseteq Lineage(origin[r])'
      BY <1>1, <1>6, <1>7, <1>8 DEF Tracing
    <2>6. ASSUME before[r] # {} PROVE Exists(o) /\ \A x \in seen[r] : Sources[x] \subseteq seen'[r]
      BY <1>2, <1>3, <1>6, <1>7, <2>6 DEF Tracing
    <2>7. before'[r] # {} =>
              Exists(origin[r])' /\ \A x \in seen'[r] \ frontier'[r] : Sources'[x] \subseteq seen'[r]
      BY <1>1, <1>3, <1>7, <1>8, <2>6
    <2>. QED  BY <2>1, <2>2, <2>3, <2>4, <2>5, <2>7 DEF Tracing
  <1>13. WalkOK(r)'
    BY <1>3, <1>12 DEF WalkOK
  <1>. QED  BY <1>4, <1>5, <1>13, StepKeeps

LEMMA EndLineageKeeps ==
    ASSUME WalksInv, GraphTypeOK', AtOK', NEW r \in Requests, EndLineage(r)
    PROVE  WalksInv'
  <1>1. /\ at[r] = "tracing" /\ at' = [at EXCEPT ![r] = "traced"]
        /\ frontier[r] = {}
        /\ UNCHANGED <<leaves, connections, origin, depth, seen, frontier, hop, result, before>>
    BY DEF EndLineage, Goto, graph, walk
  <1>2. at'[r] = "traced" /\ \A o \in Requests \ {r} : Rests(o)
    BY <1>1 DEF Rests, WalksInv, AtOK
  <1>3. Grew /\ Rooted'
    BY <1>1, QuietRooted DEF Grew, WalksInv
  <1>4. Tracing(r) /\ seen[r] \in SUBSET Leaves
    BY <1>1 DEF WalksInv, WalkOK, GraphTypeOK
  <1>5. PICK o \in Leaves : o = origin[r] /\ o \in seen[r]
    BY <1>4 DEF Tracing, Started
  <1>6. Lineage(o)' = Lineage(o)
    BY <1>1 DEF Sources, Lineage, Found, Exists
  <1>7. result[r] = seen[r] \ {o}
    BY <1>1, <1>4, <1>5 DEF Tracing
  <1>8. before[r] \subseteq result[r]
    <2>1. CASE before[r] = {}
      BY <2>1
    <2>2. CASE before[r] # {}
      <3>1. Reached(Sources, o) \subseteq seen[r]
        BY <1>1, <1>4, <1>5, <2>2, ReachedLeast DEF Tracing
      <3>. QED  BY <1>4, <1>5, <1>7, <3>1 DEF Tracing, Lineage, Found
    <2>. QED  BY <2>1, <2>2
  <1>9. result[r] \subseteq Lineage(o)
    BY <1>4, <1>5, <1>7 DEF Tracing, Lineage, Found
  <1>10. WalkOK(r)'
    BY <1>1, <1>2, <1>5, <1>6, <1>8, <1>9 DEF WalkOK, Traced
  <1>. QED  BY <1>2, <1>3, <1>10, StepKeeps

LEMMA ExploreWalks ==
    ASSUME WalksInv, GraphTypeOK', AtOK', NEW r \in Requests, Explore(r)
    PROVE  WalksInv'
  <1>. USE DEF Elsewhere
  <1>1. ASSUME NEW b \in Branches, NEW l \in Fresh,
               \/ \E u \in Users, p \in Leaves \cup {None} : StartBranch(r, u, b, l, p)
               \/ \E u \in Users, p \in Leaves : CreateLeaf(r, u, b, l, p)
               \/ \E s \in SUBSET (Leaves \ Fresh) : CreateSynthesisLeaf(r, b, l, s)
        PROVE  WalksInv'
    <2>1. PICK p \in Leaves \cup {None}, s \in SUBSET Leaves :
            /\ Grows(l, b, p, s)
            /\ p # None => Exists(p)
            /\ \A x \in s : Exists(x)
      <3>1. CASE \E u \in Users, p \in Leaves \cup {None} : StartBranch(r, u, b, l, p)
        BY <3>1 DEF StartBranch
      <3>2. CASE \E u \in Users, p \in Leaves : CreateLeaf(r, u, b, l, p)
        BY <3>2 DEF CreateLeaf
      <3>3. CASE \E s \in SUBSET (Leaves \ Fresh) : CreateSynthesisLeaf(r, b, l, s)
        BY <3>3 DEF CreateSynthesisLeaf
      <3>. QED  BY <1>1, <3>1, <3>2, <3>3
    <2>2. Goto(r, "idle", "done") /\ UNCHANGED <<connections, walk>>
      BY <1>1 DEF StartBranch, CreateLeaf, CreateSynthesisLeaf
    <2>3. l \in Leaves
      BY DEF Fresh
    <2>4. Rooted' /\ Grew
      BY <2>1, <2>2, <2>3, GrowthRooted DEF WalksInv
    <2>. QED  BY <2>2, <2>4, NoWalkKeeps DEF walk
  <1>2. ASSUME NEW u \in Users, NEW list \in LeafLists, CreateConnection(r, u, list) PROVE WalksInv'
    <2>1. /\ Goto(r, "idle", "done")
          /\ UNCHANGED <<leaves, walk>>
          /\ connections \subseteq connections'
      BY <1>2 DEF CreateConnection
    <2>2. Grew /\ Rooted'
      BY <2>1, QuietRooted DEF Grew, WalksInv
    <2>. QED  BY <2>1, <2>2, NoWalkKeeps DEF walk
  <1>3. ASSUME \/ Refuse(r) \/ ExploreFails(r)
               \/ \E l \in Leaves : Ancestors(r, l) \/ Descendants(r, l)
        PROVE  WalksInv'
    <2>1. UNCHANGED <<leaves, connections, origin, depth, seen, frontier, hop, before>>
      BY <1>3 DEF Refuse, ExploreFails, Ancestors, Descendants, Answers, graph, walk
    <2>2. \A o \in Requests \ {r} : result'[o] = result[o]
      BY <1>3 DEF Refuse, ExploreFails, Ancestors, Descendants, Answers, walk, WalksInv, GraphTypeOK
    <2>3. \E from : \E to \in Elsewhere : Goto(r, from, to)
      BY <1>3 DEF Refuse, ExploreFails, Ancestors, Descendants, Answers
    <2>4. Grew /\ Rooted'
      BY <2>1, QuietRooted DEF Grew, WalksInv
    <2>. QED  BY <2>1, <2>2, <2>3, <2>4, NoWalkKeeps
  <1>. QED
    BY <1>1, <1>2, <1>3, NeighborhoodKeeps, SynthesisLineageKeeps, HopKeeps, FetchNeighborsKeeps,
       FetchSourcesKeeps, EndLineageKeeps
    DEF Explore

LEMMA NextWalksInv == TypeInv /\ WalksInv /\ [Next]_vars => WalksInv'
  <1> SUFFICES ASSUME TypeInv, WalksInv, [Next]_vars PROVE WalksInv'
    OBVIOUS
  <1>1. GraphTypeOK' /\ AtOK'
    BY NextTypeInv DEF TypeInv
  <1>2. CASE UNCHANGED vars
    <2>1. Rooted' /\ Grew /\ \A o \in Requests : Rests(o)
      BY <1>2, QuietRooted DEF vars, graph, walk, Grew, Rests, WalksInv
    <2>2. \A o \in Requests : WalkOK(o)'
      BY <2>1, WalkKept DEF WalksInv
    <2>. QED  BY <1>1, <2>1, <2>2 DEF WalksInv
  <1>3. ASSUME NEW r \in Requests, Edit(r), UNCHANGED <<graph, walk>> PROVE WalksInv'
    <2>1. \E from : \E to \in Elsewhere : Goto(r, from, to)
      BY <1>3 DEF Edit, FindByLeaf, FindSources, CreateDraft, FindForUpdate, FindForFinalize, Take, Plant, FindSeed,
                  FindPlaced, RecordSignal, RemoveSignal, RefuseEdit, FindSubscription, GenerateDeliverable,
                  AddComment, Update, WriteFinal, UpdateConstraints, UpdatePosition, SaveSubscription, EditFails,
                  Elsewhere
    <2>2. Grew /\ Rooted'
      BY <1>3, QuietRooted DEF Grew, WalksInv, graph
    <2>. QED  BY <1>1, <1>3, <2>1, <2>2, NoWalkKeeps DEF walk
  <1>. QED  BY <1>1, <1>2, <1>3, ExploreWalks DEF Next

LEMMA WalksInvSound == WalksInv => WalksAreSound
  <1> SUFFICES ASSUME WalksInv PROVE WalksAreSound
    OBVIOUS
  <1>1. ASSUME NEW r \in Requests
        PROVE  /\ at[r] \in {"walked", "traced"} => before[r] \subseteq result[r]
               /\ at[r] = "walked" => result[r] \subseteq Neighbors(origin[r], depth[r])
               /\ at[r] = "traced" => result[r] \subseteq Lineage(origin[r])
    BY DEF WalksInv, WalkOK, Walked, Traced
  <1>2. ASSUME NEW l \in Leaves, NEW p \in Origins[l] PROVE l \notin Reached(Origins, p)
    <2>1. Exists(l) /\ p \in GrewFrom(leaves[l])
      BY <1>2 DEF Origins
    <2>2. PICK earlier \in SUBSET (Leaves \ {l}) :
            /\ GrewFrom(leaves[l]) \subseteq earlier
            /\ \A x \in earlier : Exists(x) /\ GrewFrom(leaves[x]) \subseteq earlier
      BY <2>1 DEF WalksInv, Rooted
    <2>3. \A x \in earlier : Origins[x] \subseteq earlier
      BY <2>2 DEF Origins
    <2>4. Reached(Origins, p) \subseteq earlier
      BY <2>1, <2>2, <2>3, ReachedLeast
    <2>. QED  BY <2>2, <2>4
  <1>. QED  BY <1>1, <1>2 DEF WalksAreSound

(* Queries that walk the graph while it grows find what was there, and      *)
(* nothing out of reach; and nobody descends from itself.                   *)
THEOREM WalksStaySound == Spec => []WalksAreSound
  <1>1. Spec => []TypeInv
    BY InitTypeInv, NextTypeInv, PTL DEF Spec
  <1>2. Spec => []WalksInv
    BY <1>1, InitWalksInv, NextWalksInv, PTL DEF Spec
  <1>. QED  BY <1>2, WalksInvSound, PTL

-----------------------------------------------------------------------------
(* The promise.  What a request has not overwritten it has read as it is,   *)
(* so that its write is the step of DocumentsPromise it is named for; a     *)
(* request that is not done has no comment in any thread or copy of one.    *)

CommentsDone ==
    /\ \A l \in Leaves : \A q \in Range(threads[l]) : at[q] = "done"
    /\ \A r \in Requests : \A q \in Range(thread[r]) : at[q] = "done"

LEMMA RangeAppend ==
    ASSUME NEW S, NEW s \in Seq(S), NEW x \in S
    PROVE  Range(Append(s, x)) \subseteq Range(s) \cup {x}
  BY DEF Range

LEMMA DoneStays ==
    ASSUME AtOK, [Next]_vars, NEW q \in Requests, at[q] = "done"
    PROVE  at'[q] = "done"
  <1>1. ASSUME NEW r \in Requests, NEW from, NEW to, Goto(r, from, to), from # "done" PROVE at'[q] = "done"
    BY <1>1 DEF Goto, AtOK
  <1>2. ASSUME NEW r \in Requests, Explore(r) PROVE at'[q] = "done"
    <2>1. \E from, to : Goto(r, from, to) /\ from # "done"
      BY <1>2 DEF Explore, StartBranch, CreateLeaf, CreateSynthesisLeaf, CreateConnection, Refuse, Neighborhood,
                  SynthesisLineage, Ancestors, Descendants, Answers, Hop, FetchNeighbors, FetchSources, EndLineage,
                  ExploreFails
    <2>. QED  BY <1>1, <2>1
  <1>3. ASSUME NEW r \in Requests, Edit(r) PROVE at'[q] = "done"
    <2>1. \E from, to : Goto(r, from, to) /\ from # "done"
      BY <1>3 DEF Edit, FindByLeaf, FindSources, CreateDraft, FindForUpdate, FindForFinalize, Take, Plant, FindSeed,
                  FindPlaced, RecordSignal, RemoveSignal, RefuseEdit, FindSubscription, GenerateDeliverable,
                  AddComment, Update, WriteFinal, UpdateConstraints, UpdatePosition, SaveSubscription, EditFails
    <2>. QED  BY <1>1, <2>1
  <1>. QED  BY <1>2, <1>3 DEF Next, vars

LEMMA InitCommentsDone == DInit => CommentsDone
  <1> SUFFICES ASSUME DInit PROVE CommentsDone
    OBVIOUS
  <1>1. Range(<<>>) = {}
    BY DEF Range
  <1>. QED  BY <1>1 DEF DInit, CommentsDone

LEMMA NextCommentsDone == TypeInv /\ CommentsDone /\ [Next]_vars => CommentsDone'
  <1> SUFFICES ASSUME TypeInv, CommentsDone, [Next]_vars PROVE CommentsDone'
    OBVIOUS
  <1>. USE DEF CommentsDone
  <1>1. /\ threads \in [Leaves -> Seq(Requests)]
        /\ thread \in [Requests -> Seq(Requests)]
        /\ at \in [Requests -> Phase]
    BY DEF TypeInv, DocsOK, TablesOK, CopiesOK, AtOK
  <1>2. \A s \in Seq(Requests) : Range(s) \subseteq Requests
    BY DEF Range
  <1>3. \A q \in Requests : at[q] = "done" => at'[q] = "done"
    BY DoneStays DEF TypeInv
  <1>4. CASE UNCHANGED <<threads, thread>>
    BY <1>1, <1>2, <1>3, <1>4
  <1>5. ASSUME NEW r \in Requests, NEW u \in Users, NEW l \in Leaves, FindByLeaf(r, u, l)
        PROVE  CommentsDone'
    <2>1. threads' = threads /\ thread' = [thread EXCEPT ![r] = threads[l]]
      BY <1>5 DEF FindByLeaf, Take, tables
    <2>. QED  BY <1>1, <1>2, <1>3, <2>1
  <1>6. ASSUME NEW r \in Requests, AddComment(r) PROVE CommentsDone'
    <2>1. /\ at[r] = "found" /\ job[r].op = "comment" /\ at' = [at EXCEPT ![r] = "done"]
          /\ threads' = [threads EXCEPT ![job[r].on] = Append(thread[r], r)]
          /\ thread' = thread
      BY <1>6 DEF AddComment, Doing, Goto, editing
    <2>2. \A q \in Range(Append(thread[r], r)) : at'[q] = "done"
      <3>1. Range(Append(thread[r], r)) \subseteq Range(thread[r]) \cup {r}
        BY <1>1, RangeAppend
      <3>2. at'[r] = "done"
        BY <1>1, <2>1
      <3>. QED  BY <1>1, <1>2, <1>3, <3>1, <3>2
    <2>. QED  BY <1>1, <1>2, <1>3, <2>1, <2>2
  <1>7. ASSUME NEW r \in Requests, Edit(r)
        PROVE  \/ UNCHANGED <<threads, thread>>
               \/ \E u \in Users, l \in Leaves : FindByLeaf(r, u, l)
               \/ AddComment(r)
    BY <1>7 DEF Edit, FindSources, CreateDraft, FindForUpdate, FindForFinalize, Take, Plant, FindSeed, FindPlaced,
                RecordSignal, RemoveSignal, RefuseEdit, FindSubscription, GenerateDeliverable, Update, WriteFinal,
                WriteDeliverable, UpdateConstraints, UpdatePosition, SaveSubscription, EditFails, docs, tables, editing
  <1>8. CASE UNCHANGED vars \/ UNCHANGED docs
    BY <1>4, <1>8 DEF vars, docs, tables, editing
  <1>. QED  BY <1>4, <1>5, <1>6, <1>7, <1>8 DEF Next

LEMMA AddCommentPromised ==
    ASSUME TypeInv, CommentsDone, NEW r \in Requests, AddComment(r)
    PROVE  Promise!Next
  <1>1. /\ at[r] = "found" /\ job[r].op = "comment"
        /\ threads' = [threads EXCEPT ![job[r].on] = Append(thread[r], r)]
        /\ Overwrites(job[r].on, threads[job[r].on] # thread[r])
        /\ UNCHANGED <<deliverables, constraints, position, signals, subscriptions>>
    BY DEF AddComment, Doing
  <1>2. PICK l \in Leaves : l = job[r].on
    BY <1>1 DEF TypeInv, DocsOK, JobsOK, JobOK
  <1>3. threads \in [Leaves -> Seq(Requests)]
    BY DEF TypeInv, DocsOK, TablesOK
  <1>4. CASE threads[l] = thread[r]
    <2>1. r \notin Promise!Range(threads[l])
      <3>1. r \notin Range(threads[l])
        BY <1>1 DEF CommentsDone
      <3>. QED  BY <3>1 DEF Range, Promise!Range
    <2>2. threads' = [threads EXCEPT ![l] = Append(threads[l], r)] /\ overwritten' = overwritten
      BY <1>1, <1>2, <1>4 DEF Overwrites
    <2>3. Promise!Comment(l, r)
      BY <1>1, <2>1, <2>2 DEF Promise!Comment
    <2>. QED  BY <2>3 DEF Promise!Next
  <1>5. CASE threads[l] # thread[r]
    <2>1. overwritten' = overwritten \cup {l} /\ \A k \in Leaves \ {l} : threads'[k] = threads[k]
      BY <1>1, <1>2, <1>3, <1>5 DEF Overwrites
    <2>2. Promise!Lapse(l)
      BY <1>1, <2>1 DEF Promise!Lapse
    <2>. QED  BY <2>2 DEF Promise!Next
  <1>. QED  BY <1>4, <1>5

LEMMA WriteDeliverablePromised ==
    ASSUME TypeInv, NEW r \in Requests, Update(r) \/ WriteFinal(r)
    PROVE  Promise!Next
  <1>1. PICK row :
          /\ at[r] = "found"
          /\ deliverables' = [deliverables EXCEPT ![job[r].on] = row]
          /\ Overwrites(job[r].on, deliverables[job[r].on] # draft[r])
          /\ UNCHANGED <<threads, constraints, position, signals, subscriptions>>
          /\ \/ job[r].op = "update" /\ row = UpdateContent(draft[r], job[r].value)
             \/ job[r].op = "finalize" /\ row = Finalize(draft[r])
    BY DEF Update, WriteFinal, WriteDeliverable, Doing
  <1>2. PICK d \in Deliverables : d = job[r].on
    BY <1>1 DEF TypeInv, DocsOK, JobsOK, JobOK
  <1>3. deliverables \in [Deliverables -> Deliverable \cup {None}]
    BY DEF TypeInv, DocsOK, TablesOK
  <1>4. CASE deliverables[d] = draft[r]
    <2>1. draft[r] \in Deliverable \ {None} /\ ~draft[r].finalized
      BY <1>1 DEF TypeInv, DocsOK, JobsOK, JobOK, CanUpdate
    <2>2. Promise!Open(d)
      BY <1>4, <2>1 DEF Promise!Open
    <2>3. deliverables' = [deliverables EXCEPT ![d] = row] /\ overwritten' = overwritten
      BY <1>1, <1>2, <1>4 DEF Overwrites
    <2>4. CASE job[r].op = "update" /\ row = UpdateContent(draft[r], job[r].value)
      <3>1. PICK c \in Contents : c = job[r].value /\ draft[r].content # c
        BY <1>1, <2>4 DEF TypeInv, DocsOK, JobsOK, JobOK, CanUpdate
      <3>2. deliverables' = [deliverables EXCEPT ![d].content = c, ![d].version = @ + 1]
        BY <1>3, <1>4, <2>1, <2>3, <2>4, <3>1 DEF UpdateContent
      <3>3. Promise!Revise(d, c)
        BY <1>1, <1>4, <2>2, <2>3, <3>1, <3>2 DEF Promise!Revise
      <3>. QED  BY <3>3 DEF Promise!Next
    <2>5. CASE job[r].op = "finalize" /\ row = Finalize(draft[r])
      <3>1. deliverables' = [deliverables EXCEPT ![d].finalized = TRUE]
        BY <1>3, <1>4, <2>1, <2>3, <2>5 DEF Finalize
      <3>2. Promise!Seal(d)
        BY <1>1, <2>2, <2>3, <3>1 DEF Promise!Seal
      <3>. QED  BY <3>2 DEF Promise!Next
    <2>. QED  BY <1>1, <2>4, <2>5
  <1>5. CASE deliverables[d] # draft[r]
    <2>1. overwritten' = overwritten \cup {d} /\ \A k \in Deliverables \ {d} : deliverables'[k] = deliverables[k]
      BY <1>1, <1>2, <1>3, <1>5 DEF Overwrites
    <2>2. Promise!Lapse(d)
      BY <1>1, <2>1 DEF Promise!Lapse
    <2>. QED  BY <2>2 DEF Promise!Next
  <1>. QED  BY <1>4, <1>5

LEMMA SaveSubscriptionPromised ==
    ASSUME TypeInv, NEW r \in Requests, SaveSubscription(r)
    PROVE  Promise!Next
  <1>. DEFINE row == IF draft[r] = None THEN NewSubscription ELSE draft[r]
  <1>1. /\ at[r] = "found" /\ job[r].op = "subscribe"
        /\ subscriptions' = [subscriptions EXCEPT ![job[r].on] = Wished(row, job[r].value)]
        /\ Overwrites(job[r].on, subscriptions[job[r].on] # draft[r])
        /\ UNCHANGED <<threads, deliverables, constraints, position, signals>>
    BY DEF SaveSubscription, StoreSubscription, Doing
  <1>2. PICK u \in Users, w \in Wishes : u = job[r].on /\ w = job[r].value
    BY <1>1 DEF TypeInv, DocsOK, JobsOK, JobOK
  <1>3. subscriptions \in [Users -> Subscription \cup {None}]
    BY DEF TypeInv, DocsOK, TablesOK
  <1>4. row \in Subscription
    <2>1. draft[r] \in Subscription \cup {None}
      BY <1>1 DEF TypeInv, DocsOK, JobsOK, JobOK
    <2>. QED  BY <2>1, NewSubscriptionType
  <1>. HIDE DEF row
  <1>5. CASE subscriptions[u] = draft[r]
    <2>. DEFINE old == IF subscriptions[u] = None THEN [channels |-> InApp, digest |-> Daily]
                                                 ELSE subscriptions[u]
    <2>1. old = row
      BY <1>5 DEF row, NewSubscription
    <2>. HIDE DEF old
    <2>2. [f \in DOMAIN row |-> IF w[f] = None THEN row[f] ELSE w[f]] = Wished(row, w)
      <3>1. DOMAIN row = {"channels", "digest"}
        BY <1>4 DEF Subscription
      <3>. QED  BY <3>1 DEF Wished
    <2>3. subscriptions' = [subscriptions EXCEPT ![u] =
                              [f \in DOMAIN old |-> IF w[f] = None THEN old[f] ELSE w[f]]]
      BY <1>1, <1>2, <2>1, <2>2
    <2>4. overwritten' = overwritten
      BY <1>1, <1>2, <1>5 DEF Overwrites
    <2>5. Promise!Prefer(u, w)
      BY <1>1, <2>3, <2>4 DEF Promise!Prefer, old
    <2>. QED  BY <2>5 DEF Promise!Next
  <1>6. CASE subscriptions[u] # draft[r]
    <2>1. overwritten' = overwritten \cup {u} /\ \A k \in Users \ {u} : subscriptions'[k] = subscriptions[k]
      BY <1>1, <1>2, <1>3, <1>6 DEF Overwrites
    <2>2. Promise!Lapse(u)
      BY <1>1, <2>1 DEF Promise!Lapse
    <2>. QED  BY <2>2 DEF Promise!Next
  <1>. QED  BY <1>5, <1>6

LEMMA EditPromised ==
    ASSUME TypeInv, CommentsDone, NEW r \in Requests, Edit(r)
    PROVE  Promise!Next \/ UNCHANGED <<tables, overwritten>>
  <1>1. ASSUME NEW d \in Deliverables, NEW c \in Contents,
               GenerateDeliverable(r, d, c) \/ \E u \in Users, list \in LeafLists : CreateDraft(r, u, d, c, list)
        PROVE  Promise!Next
    <2>1. Promise!Draft(d, c)
      BY <1>1 DEF GenerateDeliverable, CreateDraft, NewDeliverable, Promise!Draft
    <2>. QED  BY <2>1 DEF Promise!Next
  <1>2. ASSUME \/ UpdateConstraints(r)
               \/ \E u \in Users, s \in Seeds, k \in Constraints : Plant(r, u, s, k)
        PROVE  Promise!Next
    <2>1. PICK s \in Seeds, k \in Constraints :
            /\ constraints' = [constraints EXCEPT ![s] = k]
            /\ UNCHANGED <<threads, deliverables, position, signals, subscriptions, overwritten>>
      <3>1. CASE UpdateConstraints(r)
        <4>1. job[r].on \in Seeds /\ job[r].value \in Constraints
          BY <3>1 DEF UpdateConstraints, Doing, TypeInv, DocsOK, JobsOK, JobOK
        <4>. QED  BY <3>1, <4>1 DEF UpdateConstraints
      <3>2. CASE \E u \in Users, s \in Seeds, k \in Constraints : Plant(r, u, s, k)
        BY <3>2 DEF Plant
      <3>. QED  BY <1>2, <3>1, <3>2
    <2>2. Promise!Constrain(s, k)
      BY <2>1 DEF Promise!Constrain
    <2>. QED  BY <2>2 DEF Promise!Next
  <1>3. ASSUME UpdatePosition(r) PROVE Promise!Next
    <2>1. PICK x \in Seeds \cup Leaves, p \in Positions : x = job[r].on /\ p = job[r].value
      BY <1>3 DEF UpdatePosition, Doing, TypeInv, DocsOK, JobsOK, JobOK
    <2>2. Promise!Move(x, p)
      BY <1>3, <2>1 DEF UpdatePosition, Promise!Move
    <2>. QED  BY <2>2 DEF Promise!Next
  <1>4. ASSUME NEW u \in Users, NEW l \in Leaves, NEW k \in SignalTypes, RecordSignal(r, u, l, k)
        PROVE  Promise!Next
    <2>. DEFINE s == [id |-> r, leaf |-> l, user |-> u, type |-> k]
    <2>1. u \in Members /\ ~Signalled(l, u, k) /\ signals' = signals \cup {s}
      BY <1>4 DEF RecordSignal
    <2>2. s \in [id : Requests, leaf : Leaves, user : Members, type : SignalTypes]
      BY <2>1
    <2>3. \A o \in signals : <<o.leaf, o.user, o.type>> # <<s.leaf, s.user, s.type>>
      BY <2>1 DEF Signalled
    <2>. HIDE DEF s
    <2>4. Promise!Signal(s)
      BY <1>4, <2>1, <2>3 DEF RecordSignal, Promise!Signal
    <2>. QED  BY <2>2, <2>4 DEF Promise!Next
  <1>5. ASSUME NEW s \in signals, RemoveSignal(r, s) PROVE Promise!Next
    <2>1. Promise!Withdraw(s)
      BY <1>5 DEF RemoveSignal, Promise!Withdraw
    <2>. QED  BY <2>1 DEF Promise!Next
  <1>6. ASSUME \/ RefuseEdit(r) \/ EditFails(r)
               \/ \E u \in Users :
                     \/ \E l \in Leaves : FindByLeaf(r, u, l)
                     \/ \E list \in LeafLists : FindSources(r, u, list)
                     \/ \E d \in Deliverables :
                           FindForFinalize(r, u, d) \/ \E c \in Contents : FindForUpdate(r, u, d, c)
                     \/ \E s \in Seeds, k \in Constraints : FindSeed(r, u, s, k)
                     \/ \E x \in Seeds \cup Leaves, p \in Positions : FindPlaced(r, u, x, p)
                     \/ \E w \in Wishes : FindSubscription(r, u, w)
        PROVE  UNCHANGED <<tables, overwritten>>
    BY <1>6 DEF RefuseEdit, EditFails, FindByLeaf, FindSources, FindForFinalize, FindForUpdate, FindSeed, FindPlaced,
                FindSubscription, Take, docs
  <1>. QED
    BY <1>1, <1>2, <1>3, <1>4, <1>5, <1>6, AddCommentPromised, WriteDeliverablePromised, SaveSubscriptionPromised
    DEF Edit

(* The documents implement DocumentsPromise: every step, however reads and  *)
(* writes interleave, is one of its steps or none.                          *)
THEOREM DocumentsKeepPromise == Spec => KeepsPromise
  <1>1. DInit => Promise!Init
    BY DEF DInit, Promise!Init
  <1>2. TypeInv /\ CommentsDone /\ [Next]_vars => [Promise!Next]_(Promise!promiseVars)
    <2> SUFFICES ASSUME TypeInv, CommentsDone, [Next]_vars
                 PROVE  Promise!Next \/ UNCHANGED <<tables, overwritten>>
      BY DEF Promise!promiseVars, tables
    <2>1. CASE UNCHANGED vars \/ UNCHANGED docs
      BY <2>1 DEF vars, docs
    <2>. QED  BY <2>1, EditPromised DEF Next
  <1>3. Spec => []TypeInv
    BY InitTypeInv, NextTypeInv, PTL DEF Spec
  <1>4. Spec => []CommentsDone
    BY <1>3, InitCommentsDone, NextCommentsDone, PTL DEF Spec
  <1>. QED  BY <1>1, <1>2, <1>3, <1>4, PTL DEF Spec, KeepsPromise, Promise!Spec
=============================================================================
