------------------------- MODULE CheckpointPromise -------------------------
(***************************************************************************)
(* What a consensus checkpoint promises its participants, with every        *)
(* operation atomic: it is opened once, each user takes at most one         *)
(* position while it is open, and resolving it closes it for good, with     *)
(* consensus exactly when at least one position was taken and all align.    *)
(* Nothing is promised of a checkpoint that is void.                        *)
(***************************************************************************)
CONSTANTS Users, Checkpoints, None

VARIABLES
    status,     \* per checkpoint: "absent", "open", "consensus" or "no consensus"
    positions,  \* per checkpoint and user: the position taken, or None
    void        \* the checkpoints of which nothing is promised any more

promiseVars == <<status, positions, void>>

Aligned(c) ==
    /\ \E u \in Users : positions[c][u] # None
    /\ \A u \in Users : positions[c][u] \in {None, "align"}

Init ==
    /\ status \in [Checkpoints -> {"absent", "open"}]
    /\ positions = [c \in Checkpoints |-> [u \in Users |-> None]]
    /\ void = {}

Open(c) ==
    /\ status[c] = "absent"
    /\ status' = [status EXCEPT ![c] = "open"]
    /\ UNCHANGED <<positions, void>>

TakePosition(c, u, p) ==
    /\ status[c] = "open"
    /\ positions[c][u] = None
    /\ positions' = [positions EXCEPT ![c][u] = p]
    /\ UNCHANGED <<status, void>>

Close(c) ==
    /\ status[c] = "open"
    /\ status' = [status EXCEPT ![c] = IF Aligned(c) THEN "consensus" ELSE "no consensus"]
    /\ UNCHANGED <<positions, void>>

(* A void checkpoint may change in any way, without touching the others. *)
Lapse(c) ==
    /\ void' = void \cup {c}
    /\ \A d \in Checkpoints \ {c} : status'[d] = status[d] /\ positions'[d] = positions[d]

Next ==
    \E c \in Checkpoints :
        \/ Open(c)
        \/ \E u \in Users, p \in {"align", "concern", "block"} : TakePosition(c, u, p)
        \/ Close(c)
        \/ Lapse(c)

Spec == Init /\ [][Next]_promiseVars
=============================================================================
