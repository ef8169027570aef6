-------------------------- MODULE WorkspacePromise --------------------------
(***************************************************************************)
(* What a lore keeper may expect of a workspace: it is created once, in the *)
(* first phase; its phase advances one step at a time; and changing one of  *)
(* its settings leaves the others as they were.  Nothing is promised of a   *)
(* workspace that is void.                                                  *)
(***************************************************************************)
EXTENDS Naturals

CONSTANTS
    LastPhase,   \* the number of phases after the first
    None         \* the phase of a workspace that does not exist

VARIABLES phase, keeper, details, configuration, void

settings == <<phase, keeper, details, configuration>>

Init == phase \in {None, 0} /\ ~void

Create == phase = None /\ phase' = 0

Advance ==
    /\ phase # None
    /\ phase < LastPhase
    /\ phase' = phase + 1
    /\ UNCHANGED <<keeper, details, configuration>>

ChangeOne ==
    /\ phase # None
    /\ \/ UNCHANGED <<phase, details, configuration>>
       \/ UNCHANGED <<phase, keeper, configuration>>
       \/ UNCHANGED <<phase, keeper, details>>

Next == (UNCHANGED void /\ (Create \/ Advance \/ ChangeOne)) \/ void'

Spec == Init /\ [][Next]_<<settings, void>>
=============================================================================
