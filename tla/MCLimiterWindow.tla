-------------------------- MODULE MCLimiterWindow ---------------------------
(* Values of LimiterWindow's constants for model checking.                 *)
EXTENDS LimiterWindow, TLC

CONSTANTS t1, t2

TaskSymmetry == Permutations(Task)
=============================================================================
