---------------------------- MODULE MCVirtioIrq ----------------------------
(* VirtioIrq for TLC: the constants get their values in the configurations. *)
EXTENDS VirtioIrq
=============================================================================
