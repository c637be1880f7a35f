----------------------------- MODULE MCRxCapture -----------------------------
(* Instance of RxCapture for TLC; the constants are in the .cfg file.       *)
EXTENDS RxCapture
=============================================================================
