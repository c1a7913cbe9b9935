------------------------- MODULE MCVirtioCommonCfg -------------------------
(* VirtioCommonCfg for TLC: the constants get their values in the            *)
(* configurations.                                                           *)
EXTENDS VirtioCommonCfg
=============================================================================
