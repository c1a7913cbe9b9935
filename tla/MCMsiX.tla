------------------------------- MODULE MCMsiX -------------------------------
(* MsiX for TLC: the constants get their values in the configurations. *)
EXTENDS MsiX
=============================================================================
