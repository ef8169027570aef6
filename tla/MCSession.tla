----------------------------- MODULE MCSession -----------------------------
(* Small instances of Session, and of what the model is asked, for TLC.     *)
(* A long message fits into no small budget; two short ones and a reply     *)
(* fit exactly.                                                             *)
EXTENDS ContextWindow, TLC

CONSTANTS r1, r2, r3, s1, hi, yes

MCWords == hi :> 20 @@ yes :> 2400

MCPartWords ==
    [p \in Part |-> CASE p = "sources" -> 9000 [] p = "parent" -> 2000 [] OTHER -> 100]

Interchangeable == Permutations(Requests)
=============================================================================
