----------------------------- MODULE Exploration -----------------------------
(***************************************************************************)
(* The graph of leaves (internal/exploration): branches grow leaf by leaf,  *)
(* connections join leaves across branches, and queries walk the graph      *)
(* while others extend it.                                                  *)
(*                                                                          *)
(* Leaves and connections are never changed or deleted.  A query that walks *)
(* connections or sources asks the database once per hop, and sees at each  *)
(* hop what has been stored by then.  (Promotion is in Convergence.)        *)
(***************************************************************************)
EXTENDS Integers, Sequences, FiniteSets, Functions

CONSTANTS
    Users, Members, \* users of the server; those of the workspace
    Leaves, Branches, None,
    Planted,        \* the leaves at the start
    Connected,      \* the connections at the start
    LeafLists,      \* lists of leaf ids that clients send
    Depths,         \* depths of neighborhood queries: 1 to 5
    Requests,
    MaxFaults       \* bound on failing calls

(* The parent is None for the root leaf of the first branch, the sources    *)
(* are empty unless the leaf is a synthesis.                                *)
Leaf == [branch : Branches, parent : Leaves \cup {None}, sources : SUBSET Leaves]

(* What a leaf grew from: its parent and its sources. *)
GrewFrom(leaf) == ({leaf.parent} \ {None}) \cup leaf.sources

(* The leaves at the start were grown one after the other: each has some    *)
(* that were there before it, and those it grew from are among them.        *)
Grown ==
    \A l \in Leaves : Planted[l] # None =>
        \E earlier \in SUBSET (Leaves \ {l}) :
            /\ GrewFrom(Planted[l]) \subseteq earlier
            /\ \A x \in earlier : Planted[x] # None /\ GrewFrom(Planted[x]) \subseteq earlier

ASSUME ExplorationAssumption ==
    /\ Members \subseteq Users
    /\ Planted \in [Leaves -> Leaf \cup {None}]
    /\ Grown
    /\ None \notin Leaves \cup Leaf
    /\ Connected \subseteq SUBSET Leaves
    /\ LeafLists \subseteq Seq(Leaves)
    /\ Depths \subseteq 1..5
    /\ MaxFaults \in Nat

VARIABLES
    leaves,         \* the table of leaves
    connections,    \* the table of connections, as sets of leaf ids
    at,             \* where each request is
    origin, depth,  \* the leaf a query starts from, and how many hops it may make
    seen, frontier, \* the ids it has met, and those it met last
    hop,            \* hops made
    result,         \* the leaves it will answer with
    before,         \* history: the answer it would have had when it began
    faults

walk == <<origin, depth, seen, frontier, hop, result, before>>
graph == <<leaves, connections>>

Exists(l) == leaves[l] # None

(* New leaves get generated ids. *)
Fresh == {l \in Leaves : ~Exists(l)}

branches == {leaves[l].branch : l \in {k \in Leaves : Exists(k)}}

Init ==
    /\ leaves = Planted
    /\ connections = Connected
    /\ at = [r \in Requests |-> "idle"]
    /\ origin = [r \in Requests |-> None]
    /\ depth = [r \in Requests |-> 0]
    /\ seen = [r \in Requests |-> {}]
    /\ frontier = [r \in Requests |-> {}]
    /\ hop = [r \in Requests |-> 0]
    /\ result = [r \in Requests |-> {}]
    /\ before = [r \in Requests |-> {}]
    /\ faults = 0

-----------------------------------------------------------------------------
Goto(r, from, to) ==
    /\ at[r] = from
    /\ at' = [at EXCEPT ![r] = to]

Fault ==
    /\ faults < MaxFaults
    /\ faults' = faults + 1

-----------------------------------------------------------------------------
(* Growth. *)

Grows(l, b, p, sources) ==
    /\ ~Exists(l)
    /\ leaves' = [leaves EXCEPT ![l] = [branch |-> b, parent |-> p, sources |-> sources]]

(* The branch, its first leaf and the reference from one to the other are   *)
(* one transaction.                                                         *)
StartBranch(r, u, b, l, p) ==
    /\ Goto(r, "idle", "done")
    /\ u \in Members
    /\ b \notin branches
    /\ p # None => Exists(p)
    /\ Grows(l, b, p, {})
    /\ UNCHANGED <<connections, walk, faults>>

(* A handler that parses its parent always has one. *)
CreateLeaf(r, u, b, l, p) ==
    /\ Goto(r, "idle", "done")
    /\ u \in Members
    /\ b \in branches
    /\ Exists(p)
    /\ Grows(l, b, p, {})
    /\ UNCHANGED <<connections, walk, faults>>

(* What the synthesis of leaves it found stores, also as a transaction. *)
CreateSynthesisLeaf(r, b, l, sources) ==
    /\ Goto(r, "idle", "done")
    /\ b \notin branches
    /\ Cardinality(sources) >= 2
    /\ \A s \in sources : Exists(s)
    /\ Grows(l, b, None, sources)
    /\ UNCHANGED <<connections, walk, faults>>

IsConnection(list) == Len(list) >= 2 /\ IsInjective(list)

(* The ids are taken as they are; leaves that do not exist may be joined.   *)
CreateConnection(r, u, list) ==
    /\ Goto(r, "idle", "done")
    /\ u \in Members
    /\ IsConnection(list)
    /\ connections' = connections \cup {Range(list)}
    /\ UNCHANGED <<leaves, walk, faults>>

(* The caller is not a member, the list is no connection, or the database   *)
(* does not know the parent or the branch.                                  *)
Refuse(r) ==
    /\ Goto(r, "idle", "refused")
    /\ \/ Users # Members
       \/ \E list \in LeafLists : ~IsConnection(list)
       \/ \E p \in Leaves : ~Exists(p)
       \/ Branches # branches
    /\ UNCHANGED <<graph, walk, faults>>

-----------------------------------------------------------------------------
(* Queries, and what they are to answer. *)

Sources == [x \in Leaves |-> IF Exists(x) THEN leaves[x].sources ELSE {}]

Parent == [x \in Leaves |-> IF Exists(x) THEN {leaves[x].parent} \ {None} ELSE {}]

Origins == [x \in Leaves |-> IF Exists(x) THEN GrewFrom(leaves[x]) ELSE {}]

Children == [x \in Leaves |-> {y \in Leaves : Exists(y) /\ leaves[y].parent = x}]

(* What is in every set that contains l and all that its members lead to.   *)
Reached(step, l) ==
    {x \in Leaves : \A S \in SUBSET Leaves :
        l \in S /\ (\A y \in S : step[y] \subseteq S) => x \in S}

Found(ids, l) == {x \in ids : Exists(x)} \ {l}

Lineage(l) == Found(Reached(Sources, l), l)

(* A path of n hops, each along one of the connections or none.             *)
IsPath(p, n, l, joined) ==
    /\ p \in [0..n -> Leaves]
    /\ p[0] = l
    /\ \A i \in 1..n : p[i] = p[i - 1] \/ \E c \in joined : {p[i - 1], p[i]} \subseteq c

Near(l, n, joined) == {x \in Leaves : \E p \in [0..n -> Leaves] : IsPath(p, n, l, joined) /\ p[n] = x}

Neighbors(l, n) == Found(Near(l, n, connections), l)

Answers(r, found) ==
    /\ Goto(r, "idle", "answered")
    /\ result' = [result EXCEPT ![r] = found]
    /\ UNCHANGED <<graph, origin, depth, seen, frontier, hop, before, faults>>

(* One recursive statement each, which sees the graph at one time.  It does *)
(* not remember where it has been, and ends because parents do.             *)
Ancestors(r, l) == Answers(r, Found(Reached(Parent, l), l))

Descendants(r, l) == Answers(r, Found(Reached(Children, l), l))

Begin(r, l, d, expected) ==
    /\ origin' = [origin EXCEPT ![r] = l]
    /\ depth' = [depth EXCEPT ![r] = d]
    /\ seen' = [seen EXCEPT ![r] = {l}]
    /\ frontier' = [frontier EXCEPT ![r] = {l}]
    /\ before' = [before EXCEPT ![r] = expected]
    /\ UNCHANGED <<hop, result>>

Neighborhood(r, l, d) ==
    /\ Goto(r, "idle", "walking")
    /\ Begin(r, l, d, Neighbors(l, d))
    /\ UNCHANGED <<graph, faults>>

(* A lineage has no limit.                                                  *)
SynthesisLineage(r, l) ==
    /\ Goto(r, "idle", "tracing")
    /\ Begin(r, l, 0, Lineage(l))
    /\ UNCHANGED <<graph, faults>>

Meets(r, found) ==
    /\ seen' = [seen EXCEPT ![r] = @ \cup found]
    /\ frontier' = [frontier EXCEPT ![r] = found \ seen[r]]

MoreHops(r) == hop[r] < depth[r] /\ frontier[r] # {}

(* Mutant of Hop: the frontier keeps what was seen before, and the walk     *)
(* looks only from its origin on.                                           *)
HopFromOrigin(r) ==
    /\ Goto(r, "walking", "walking")
    /\ MoreHops(r)
    /\ Meets(r, UNION {c \in connections : origin[r] \in c})
    /\ hop' = [hop EXCEPT ![r] = @ + 1]
    /\ UNCHANGED <<graph, origin, depth, result, before, faults>>

Hop(r) ==
    /\ Goto(r, "walking", "walking")
    /\ MoreHops(r)
    /\ Meets(r, UNION {c \in connections : c \cap frontier[r] # {}})
    /\ hop' = [hop EXCEPT ![r] = @ + 1]
    /\ UNCHANGED <<graph, origin, depth, result, before, faults>>

FetchNeighbors(r) ==
    /\ Goto(r, "walking", "walked")
    /\ ~MoreHops(r)
    /\ result' = [result EXCEPT ![r] = Found(seen[r], origin[r])]
    /\ UNCHANGED <<graph, origin, depth, seen, frontier, hop, before, faults>>

FetchSources(r) ==
    /\ Goto(r, "tracing", "tracing")
    /\ frontier[r] # {}
    /\ Meets(r, UNION {Sources[x] : x \in frontier[r]})
    /\ result' = [result EXCEPT ![r] = @ \cup Found(frontier[r], origin[r])]
    /\ UNCHANGED <<graph, origin, depth, hop, before, faults>>

EndLineage(r) ==
    /\ Goto(r, "tracing", "traced")
    /\ frontier[r] = {}
    /\ UNCHANGED <<graph, walk, faults>>

(* A transaction that fails is rolled back. *)
ExploreFails(r) ==
    /\ at[r] \in {"idle", "walking", "tracing"}
    /\ Goto(r, at[r], "failed")
    /\ Fault
    /\ UNCHANGED <<graph, walk>>

-----------------------------------------------------------------------------
Explore(r) ==
    \/ Refuse(r)
    \/ \E u \in Users, b \in Branches, l \in Fresh :
           \/ \E p \in Leaves \cup {None} : StartBranch(r, u, b, l, p)
           \/ \E p \in Leaves : CreateLeaf(r, u, b, l, p)
    \/ \E b \in Branches, l \in Fresh, s \in SUBSET (Leaves \ Fresh) : CreateSynthesisLeaf(r, b, l, s)
    \/ \E u \in Users, list \in LeafLists : CreateConnection(r, u, list)
    \/ \E l \in Leaves, d \in Depths : Neighborhood(r, l, d)
    \/ \E l \in Leaves : SynthesisLineage(r, l) \/ Ancestors(r, l) \/ Descendants(r, l)
    \/ Hop(r) \/ FetchNeighbors(r)
    \/ FetchSources(r) \/ EndLineage(r)
    \/ ExploreFails(r)

-----------------------------------------------------------------------------
GraphTypeOK ==
    /\ leaves \in [Leaves -> Leaf \cup {None}]
    /\ connections \subseteq SUBSET Leaves
    /\ origin \in [Requests -> Leaves \cup {None}]
    /\ depth \in [Requests -> Nat]
    /\ seen \in [Requests -> SUBSET Leaves]
    /\ frontier \in [Requests -> SUBSET Leaves]
    /\ hop \in [Requests -> Nat]
    /\ result \in [Requests -> SUBSET Leaves]
    /\ before \in [Requests -> SUBSET Leaves]
    /\ faults \in 0..MaxFaults

(* A walk whose hops see different graphs answers with every leaf that was  *)
(* within reach when it began, and with none that is not within reach when  *)
(* it ends; a lineage is followed to its end, however long it is.  Nobody   *)
(* descends from itself, by parents or sources, so that the recursive       *)
(* statements end.                                                          *)
WalksAreSound ==
    /\ \A r \in Requests :
           /\ at[r] \in {"walked", "traced"} => before[r] \subseteq result[r]
           /\ at[r] = "walked" => result[r] \subseteq Neighbors(origin[r], depth[r])
           /\ at[r] = "traced" => result[r] \subseteq Lineage(origin[r])
    /\ \A l \in Leaves : \A p \in Origins[l] : l \notin Reached(Origins, p)
=============================================================================
