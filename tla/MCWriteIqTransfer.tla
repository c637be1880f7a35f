------------------------- MODULE MCWriteIqTransfer -------------------------
(* Instances of WriteIqTransfer for TLC; the constants are in the .cfg files. *)
EXTENDS WriteIqTransfer
=============================================================================
