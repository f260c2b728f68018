-------------------------------- MODULE MCUI --------------------------------
(* UI for TLC: the constants are numbers, given in the configurations. *)
EXTENDS UI
=============================================================================
