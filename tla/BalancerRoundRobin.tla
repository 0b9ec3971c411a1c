------------------------- MODULE BalancerRoundRobin -------------------------
(***************************************************************************)
(* How evenly connections are spread while every backend stays eligible.   *)
(* `picks` counts the selections of each object of the list, all counts    *)
(* lowered together so that the smallest is 0.                             *)
(***************************************************************************)
EXTENDS Balancer, FiniteSetsExt

VARIABLE picks

Picked(o) == \E t \in Task : pc[t] = "limit" /\ pc'[t] = "claim" /\ Cand(t) = o

RRInit == Init /\ picks = [o \in 1..Len(config) |-> 0]

RRNext ==
    /\ Next
    /\ LET raw == [o \in DOMAIN picks |->
                      IF Picked(o) THEN picks[o] + 1 ELSE picks[o]]
           low == Min({raw[o] : o \in DOMAIN raw})
       IN picks' = [o \in DOMAIN raw |-> raw[o] - low]

RRSpec == RRInit /\ [][RRNext]_<<vars, picks>>

(* The calls that have a ticket and have not made their choice.            *)
InScan == {t \in Task : pc[t] \in {"drain", "health", "limit"}}

(* Round robin: each call takes its own ticket, so two backends' shares    *)
(* differ by at most one plus the number of calls still in their scan,     *)
(* however calls overlap and across reloads that change nothing.           *)
EvenShares ==
    \A o, p \in DOMAIN picks : picks[o] - picks[p] <= 1 + Cardinality(InScan)
=============================================================================
