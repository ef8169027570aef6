-------------------------- MODULE MCProviderCache --------------------------
(* Small instances of ProviderCache for TLC. *)
EXTENDS ProviderCache, TLC

CONSTANTS r1, r2, c1, c2, u1, u2, w1, w2, x, y

Interchangeable ==
    Permutations(Requests) \cup Permutations(Changes) \cup Permutations(Configs)
        \cup Permutations(Users) \cup Permutations(Workspaces)
=============================================================================
