---------------------------- MODULE MCNodeConfig ----------------------------
(* Two boards: one to be configured over the network, one with its ID on   *)
(* the switches.  One ID the user gives is that of the group in use.       *)
EXTENDS NodeConfig

CONSTANTS A, B

MCDip == [b \in Boards |-> IF b = A THEN AllOn ELSE 4]

(* The theorems are about this instance, too. *)
ASSUME OrdinaryInstance == Ordinary
=============================================================================
