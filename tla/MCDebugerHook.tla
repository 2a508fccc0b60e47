--------------------------- MODULE MCDebugerHook ---------------------------
(* An instance of DebugerHook for TLC. *)
EXTENDS DebugerHook, TLC

CONSTANTS t1, t2, h1, h2, s1, s2

\* Threads, functions and addresses are alike.
MCHookSymmetry ==
  Permutations({t1, t2}) \cup Permutations({h1, h2}) \cup Permutations({s1, s2})
=============================================================================
