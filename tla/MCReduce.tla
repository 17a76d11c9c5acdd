----------------------------- MODULE MCReduce -----------------------------
(* Three nodes that reduce, for TLC. *)
EXTENDS Reduce

CONSTANTS root, n1, n2

ThreeNodes == {root, n1, n2}
=============================================================================
