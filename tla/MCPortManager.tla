--------------------------- MODULE MCPortManager ---------------------------
(* An instance of PortManager for TLC. *)
EXTENDS PortManager, TLC

CONSTANTS p1, p2, p3, n1, n2, live, vod

\* Processes and ports are only ever compared.
MCSymmetry == Permutations({p1, p2, p3}) \cup Permutations({n1, n2})
=============================================================================
