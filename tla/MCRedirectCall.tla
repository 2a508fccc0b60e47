--------------------------- MODULE MCRedirectCall ---------------------------
(* An instance of RedirectCall for TLC. *)
EXTENDS RedirectCall, TLC

CONSTANTS a, b, c, r1, r2

\* Threads and redirects are alike.
MCRedirectSymmetry == Permutations({a, b, c}) \cup Permutations({r1, r2})
=============================================================================
