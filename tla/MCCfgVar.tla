------------------------------ MODULE MCCfgVar ------------------------------
(* Instances of CfgVar for TLC. *)
EXTENDS CfgVar

CONSTANTS a, b, v0, v1, v2
=============================================================================
