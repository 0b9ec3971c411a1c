----------------------------- MODULE MCCluster ------------------------------
(* Values of Cluster's constants for model checking.                       *)
EXTENDS Cluster, TLC

CONSTANTS n1, n2, k
=============================================================================
