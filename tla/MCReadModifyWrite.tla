------------------------- MODULE MCReadModifyWrite -------------------------
(***************************************************************************)
(* The instances of MCBlueGreen, for read-modify-writes in two calls.      *)
(***************************************************************************)
EXTENDS MCBlueGreen, ReadModifyWrite
============================================================================
