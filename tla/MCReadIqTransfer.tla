-------------------------- MODULE MCReadIqTransfer --------------------------
(* Instances of ReadIqTransfer for TLC; the constants are in the .cfg files. *)
EXTENDS ReadIqTransfer

(* The theorems about the exchange are about these instances, too. *)
ASSUME UndisturbedInstance == Undisturbed
=============================================================================
