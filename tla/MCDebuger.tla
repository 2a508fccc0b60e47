----------------------------- MODULE MCDebuger -----------------------------
(* Instances of Debuger for TLC. *)
EXTENDS DebugerRefinement, TLC

CONSTANTS p1, p2, t1, t2

\* t1 runs in p1 and t2 in p2.
MCHome == [t \in Changers |-> IF t = t1 THEN p1 ELSE p2]
=============================================================================
