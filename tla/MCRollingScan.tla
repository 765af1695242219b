--------------------------- MODULE MCRollingScan ----------------------------
(* Three assets, of which two were captured together, for TLC. *)
EXTENDS RollingScan

Captures == <<1, 2, 2>>
=============================================================================
