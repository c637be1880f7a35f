------------------------- MODULE MCReadIqHeaderRing -------------------------
(* Model-checking instance of ReadIqHeaderRing.                            *)
EXTENDS ReadIqHeaderRing
=============================================================================
