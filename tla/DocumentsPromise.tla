-------------------------- MODULE DocumentsPromise --------------------------
(***************************************************************************)
(* What the documents promise their readers, with every edit atomic:        *)
(* comments are only added, each request's once; a deliverable goes through *)
(* numbered versions that differ until it is finalized, then stays; moving  *)
(* an object and constraining a seed do not touch each other; a user has at *)
(* most one signal of a type on a leaf, and who withdraws a signal touches  *)
(* no other; who wishes for channels keeps the digest frequency, and the    *)
(* other way round.  Nothing is promised of what is void.                   *)
(***************************************************************************)
EXTENDS Naturals, Sequences, Functions

CONSTANTS Requests, Leaves, Deliverables, Contents, Seeds, Constraints, Positions, Origin, None,
          Members, SignalTypes, Users, Wishes, InApp, Daily

VARIABLES
    threads, deliverables, constraints, position, signals,
    subscriptions,
    void        \* threads (by leaf), deliverables and subscriptions (by user) of
                \* which nothing is promised any more

promiseVars == <<threads, deliverables, constraints, position, signals, subscriptions, void>>

Init ==
    /\ threads = [l \in Leaves |-> <<>>]
    /\ deliverables = [d \in Deliverables |-> None]
    /\ constraints = [s \in Seeds |-> None]
    /\ position = [x \in Seeds \cup Leaves |-> Origin]
    /\ signals = {}
    /\ subscriptions = [u \in Users |-> None]
    /\ void = {}

Comment(l, r) ==
    /\ r \notin Range(threads[l])
    /\ threads' = [threads EXCEPT ![l] = Append(@, r)]
    /\ UNCHANGED <<deliverables, constraints, position, signals, subscriptions, void>>

Draft(d, c) ==
    /\ deliverables[d] = None
    /\ deliverables' = [deliverables EXCEPT ![d] = [content |-> c, version |-> 1, finalized |-> FALSE]]
    /\ UNCHANGED <<threads, constraints, position, signals, subscriptions, void>>

Open(d) == deliverables[d] # None /\ ~deliverables[d].finalized

Revise(d, c) ==
    /\ Open(d)
    /\ deliverables[d].content # c
    /\ deliverables' = [deliverables EXCEPT ![d].content = c, ![d].version = @ + 1]
    /\ UNCHANGED <<threads, constraints, position, signals, subscriptions, void>>

Seal(d) ==
    /\ Open(d)
    /\ deliverables' = [deliverables EXCEPT ![d].finalized = TRUE]
    /\ UNCHANGED <<threads, constraints, position, signals, subscriptions, void>>

Constrain(s, k) ==
    /\ constraints' = [constraints EXCEPT ![s] = k]
    /\ UNCHANGED <<threads, deliverables, position, signals, subscriptions, void>>

Move(x, p) ==
    /\ position' = [position EXCEPT ![x] = p]
    /\ UNCHANGED <<threads, deliverables, constraints, signals, subscriptions, void>>

(* A signal takes the place that it marks: one per leaf, user and type. *)
Signal(s) ==
    /\ \A o \in signals : <<o.leaf, o.user, o.type>> # <<s.leaf, s.user, s.type>>
    /\ signals' = signals \cup {s}
    /\ UNCHANGED <<threads, deliverables, constraints, position, subscriptions, void>>

Withdraw(s) ==
    /\ signals' = signals \ {s}
    /\ UNCHANGED <<threads, deliverables, constraints, position, subscriptions, void>>

(* A user's first wish is added to the defaults. *)
Prefer(u, wish) ==
    LET row == IF subscriptions[u] = None
               THEN [channels |-> InApp, digest |-> Daily]
               ELSE subscriptions[u]
    IN  /\ subscriptions' = [subscriptions EXCEPT ![u] =
                                [f \in DOMAIN row |-> IF wish[f] = None THEN row[f] ELSE wish[f]]]
        /\ UNCHANGED <<threads, deliverables, constraints, position, signals, void>>

(* A void document may change in any way, without touching the others. *)
Lapse(x) ==
    /\ void' = void \cup {x}
    /\ \A l \in Leaves \ {x} : threads'[l] = threads[l]
    /\ \A d \in Deliverables \ {x} : deliverables'[d] = deliverables[d]
    /\ \A u \in Users \ {x} : subscriptions'[u] = subscriptions[u]
    /\ UNCHANGED <<constraints, position, signals>>

Next ==
    \/ \E l \in Leaves, r \in Requests : Comment(l, r)
    \/ \E d \in Deliverables : Seal(d) \/ \E c \in Contents : Draft(d, c) \/ Revise(d, c)
    \/ \E s \in Seeds, k \in Constraints : Constrain(s, k)
    \/ \E x \in Seeds \cup Leaves, p \in Positions : Move(x, p)
    \/ \E s \in [id : Requests, leaf : Leaves, user : Members, type : SignalTypes] : Signal(s)
    \/ \E s \in signals : Withdraw(s)
    \/ \E u \in Users, w \in Wishes : Prefer(u, w)
    \/ \E x \in Leaves \cup Deliverables \cup Users : Lapse(x)

Spec == Init /\ [][Next]_promiseVars
=============================================================================
