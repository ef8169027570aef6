---------------------------- MODULE MCSynthesis ----------------------------
(* Small instances of Synthesis for TLC. *)
EXTENDS Synthesis, TLC

CONSTANTS w1, w2, o1, o2, a, b, z

(* Two leaves, the same leaf twice, and a leaf that does not exist. *)
Lists == {<<a, b>>, <<a, a>>, <<a, z>>}
=============================================================================
