------------------------------- MODULE MCIntx -------------------------------
(* Intx for TLC: the constants get their values in the configurations. *)
EXTENDS Intx
=============================================================================
