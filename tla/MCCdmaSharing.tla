--------------------------- MODULE MCCdmaSharing ---------------------------
(* Bounds: two boot copies, three of the main loop, four of the handlers   *)
(* and two errors let each context be interrupted, or find an error, at    *)
(* every step of a call.                                                   *)
EXTENDS CdmaSharing
=============================================================================
