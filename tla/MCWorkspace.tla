---------------------------- MODULE MCWorkspace ----------------------------
(* Small instances of Workspace for TLC. *)
EXTENDS Workspace, TLC

CONSTANTS r1, r2, e1, e2, ann, bob, core, x, y

Interchangeable ==
    Permutations(Requests) \cup Permutations(Edits) \cup Permutations(Texts)
=============================================================================
