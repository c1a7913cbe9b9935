------------------------------- MODULE MCMsi -------------------------------
(* Msi for TLC: the constants get their values in the configurations. *)
EXTENDS Msi
=============================================================================
