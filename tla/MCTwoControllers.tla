-------------------------- MODULE MCTwoControllers --------------------------
(***************************************************************************)
(* The instances of MCBlueGreen, for two processes.                        *)
(***************************************************************************)
EXTENDS MCBlueGreen, TwoControllers
============================================================================
