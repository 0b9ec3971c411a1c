------------------------------ MODULE MCReload ------------------------------
(* Values of the constants for the run about reloads and health checks.    *)
EXTENDS Reload, TLC

CONSTANTS a, b

On(x)  == [addr |-> x, drain |-> FALSE]

(* One backend or the other, or none, which validation would reject; one   *)
(* that was left out comes back as a new object.                           *)
SwapConfigs == {<<On(a)>>, <<On(b)>>, <<>>}
SwapFiles   == {[backends |-> c, hc |-> TRUE] : c \in SwapConfigs}
               \union {[backends |-> <<On(b)>>, hc |-> FALSE]}
               \union {Malformed, RuleMissing}
=============================================================================
