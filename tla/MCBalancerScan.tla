--------------------------- MODULE MCBalancerScan ---------------------------
(* Values of the constants for the run about next_backend's scan.         *)
EXTENDS BalancerScan, TLC

CONSTANTS a, b, t1, t2, k1

On(x)  == [addr |-> x, drain |-> FALSE]
Off(x) == [addr |-> x, drain |-> TRUE]

(* Two backends, one drained at a time; the drained one is listed first.   *)
DrainConfigs == {<<Off(b), On(a)>>, <<Off(a), On(b)>>}

TaskSymmetry == Permutations(Task)
=============================================================================
