------------------------------- MODULE MCHub --------------------------------
(* Small instances of Hub for TLC. *)
EXTENDS Hub, TLC

CONSTANTS c1, c2, s1, w1, w2
=============================================================================
