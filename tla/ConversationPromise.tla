------------------------ MODULE ConversationPromise ------------------------
(***************************************************************************)
(* What a session promises, with every operation atomic: its messages only  *)
(* ever grow at the end, it is checkpointed at most once, and after it is   *)
(* completed nothing changes any more. Nothing is promised of a session     *)
(* that is void.                                                            *)
(***************************************************************************)
EXTENDS Sequences

CONSTANTS Sessions, Messages

VARIABLES
    status, messages,
    void   \* the sessions of which nothing is promised any more

promiseVars == <<status, messages, void>>

Init ==
    /\ status \in [Sessions -> {"absent", "active"}]
    /\ messages = [s \in Sessions |-> <<>>]
    /\ void = {}

Open(s) == status[s] \in {"active", "checkpoint"}

Start(s) ==
    /\ status[s] = "absent"
    /\ status' = [status EXCEPT ![s] = "active"]
    /\ UNCHANGED <<messages, void>>

Say(s) ==
    /\ Open(s)
    /\ \E m \in Messages : messages' = [messages EXCEPT ![s] = Append(@, m)]
    /\ UNCHANGED <<status, void>>

Advance(s) ==
    /\ \/ status[s] = "active" /\ status' = [status EXCEPT ![s] = "checkpoint"]
       \/ Open(s) /\ status' = [status EXCEPT ![s] = "completed"]
    /\ UNCHANGED <<messages, void>>

(* A void session may change in any way, without touching the others. *)
Lapse(s) ==
    /\ void' = void \cup {s}
    /\ \A o \in Sessions \ {s} : status'[o] = status[o] /\ messages'[o] = messages[o]

Next == \E s \in Sessions : Start(s) \/ Say(s) \/ Advance(s) \/ Lapse(s)

Spec == Init /\ [][Next]_promiseVars
=============================================================================
