----------------------------- MODULE MCBalancer -----------------------------
(* Values of Balancer's constants for model checking.                      *)
EXTENDS Balancer, TLC

CONSTANTS a, b, t1, t2, t3

On(x) == [addr |-> x, drain |-> FALSE]

(* Adding, removing and re-adding a backend, and an empty list.            *)
ReloadConfigs == {<<On(a)>>, <<On(b), On(a)>>, <<>>}

(* A single backend, never changed.                                        *)
OneBackend == {<<On(a)>>}

TaskSymmetry == Permutations(Task)
=============================================================================
