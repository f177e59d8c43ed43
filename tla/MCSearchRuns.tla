------------------------------ MODULE MCSearchRuns ------------------------------
(* Values for checking SearchRuns on small instances.                      *)
EXTENDS SearchRuns, TLC

CONSTANTS s1, s2
MCSymmetry == Permutations(Source) \cup Permutations(Finalizers)
================================================================================
