---------------------------- MODULE MCSocketPool ----------------------------
(* Two slots and four objects: the table fills up, an index is used again, *)
(* and a failure leaves an entry behind.                                   *)
EXTENDS SocketPool, TLC

Symmetry == Permutations(Objects)
=============================================================================
