--------------------------- MODULE MCConvergence ---------------------------
(* Small instances of Convergence for TLC. *)
EXTENDS Convergence, TLC

CONSTANTS r1, r2, r3, u1, u2, u3, c1, l1, l2

TwoLeaves == {<<l1, l2>>}

Interchangeable == Permutations(Requests)
=============================================================================
