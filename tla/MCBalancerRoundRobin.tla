------------------------ MODULE MCBalancerRoundRobin ------------------------
(* Values of the constants for the run about round-robin shares.           *)
EXTENDS BalancerRoundRobin, TLC

CONSTANTS a, b, t1, t2, t3

Pair == {<<[addr |-> a, drain |-> FALSE], [addr |-> b, drain |-> FALSE]>>}

TaskSymmetry == Permutations(Task)
=============================================================================
