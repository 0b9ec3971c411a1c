-------------------------------- MODULE Pool --------------------------------
(***************************************************************************)
(* What the load balancer promises the connection tasks, without its list, *)
(* its scan or its counters: a task holds a slot on at most one backend,   *)
(* keeps the one it got until it gives it back, and never makes a backend  *)
(* hold more than Limit + Slack of them.  Slack is what the check of the   *)
(* limit, made before the slot is taken, can let through.                  *)
(*                                                                         *)
(* Balancer implements this (Balancer!ImplementsPool); Connection uses it. *)
(***************************************************************************)
EXTENDS Naturals, FiniteSets

CONSTANTS
    Task,     \* who may hold a slot
    Obj,      \* the backends
    None,     \* no slot
    Limit,    \* backend_connection_limit: a number or NoLimit
    NoLimit,
    Slack

VARIABLE slot

Holders(o) == {t \in Task : slot[t] = o}

Room(o) == Limit = NoLimit \/ Cardinality(Holders(o)) < Limit + Slack

PoolInit == slot = [t \in Task |-> None]

(* next_backend returns a backend and its guard.  Which one, and when it   *)
(* returns None instead, is Balancer's and BalancerScan's subject.         *)
Acquire(t, o) ==
    /\ slot[t] = None
    /\ Room(o)
    /\ slot' = [slot EXCEPT ![t] = o]

(* ConnectionGuard::drop.                                                  *)
Release(t) ==
    /\ slot[t] # None
    /\ slot' = [slot EXCEPT ![t] = None]

PoolNext == \E t \in Task : Release(t) \/ \E o \in Obj : Acquire(t, o)

PoolSpec == PoolInit /\ [][PoolNext]_slot
=============================================================================
