------------------------- MODULE MCScheduleManager -------------------------
(* An instance of ScheduleManager for TLC. *)
EXTENDS ScheduleManager, TLC
CONSTANTS r1, r2, r3, a1, a2
=============================================================================
