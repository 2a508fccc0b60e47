---------------------------- MODULE MCConfigMgr ----------------------------
(* An instance of ConfigMgr for TLC. *)
EXTENDS ConfigMgr, TLC
CONSTANTS p1, p2, n1, n2, v1, v2, bad
=============================================================================
