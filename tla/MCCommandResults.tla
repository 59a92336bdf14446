-------------------------- MODULE MCCommandResults --------------------------
(* CommandResults for TLC: the constants are given in the .cfg file. *)
EXTENDS CommandResults
=============================================================================
