---------------------------- MODULE MCRetryState ----------------------------
(* Small instances of RetryState for TLC.                                  *)
EXTENDS RetryState, TLC

CONSTANTS c1, f1, f2, m1, m2, e1

Symmetry == Permutations(FailureClasses) \cup Permutations(Markers)
=============================================================================
