----------------------------- MODULE MCLimiter ------------------------------
(* Values of Limiter's constants for model checking.                       *)
EXTENDS Limiter, TLC

CONSTANTS t1, t2, t3

TaskSymmetry == Permutations(Task)
=============================================================================
