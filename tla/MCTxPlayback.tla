---------------------------- MODULE MCTxPlayback ----------------------------
(* Two interfaces; transmissions that fit in the BRAM and that wrap it, and *)
(* laps of two and of four chunks, written to before and under way.        *)
EXTENDS TxPlayback

\* The instance meets the conditions of the theorems of TxPath_proofs.
ASSUME OrdinaryInstance == Ordinary
=============================================================================
