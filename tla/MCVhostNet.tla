----------------------------- MODULE MCVhostNet -----------------------------
(* VhostNet for TLC: the constants get their values in the configurations. *)
EXTENDS VhostNet
=============================================================================
