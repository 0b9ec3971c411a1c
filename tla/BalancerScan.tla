---------------------------- MODULE BalancerScan ----------------------------
(***************************************************************************)
(* When may next_backend answer None?  The scan reads one flag at a time   *)
(* while checkers, reloads and other connections change them, so the only  *)
(* promise it can make is about backends that stay eligible throughout.    *)
(* `steady` remembers, for each call, the listed objects that have been    *)
(* eligible in every state since the call loaded the list.                 *)
(***************************************************************************)
EXTENDS Balancer

VARIABLE steady

(* The three conditions under which the loop body does not `continue`.     *)
Eligible(o) == ~drain[o] /\ healthy[o] /\ ~Full(o)

Starts(t) == pc[t] \in {"idle", "refused"} /\ pc'[t] = "ticket"

ScanInit == Init /\ steady = [t \in Task |-> {}]

ScanNext ==
    /\ Next
    /\ steady' = [t \in Task |->
           LET seen == IF Starts(t) THEN {backends[i] : i \in DOMAIN backends}
                                    ELSE steady[t]
           IN IF pc'[t] \in Scanning \union {"refused"}
              THEN {o \in seen : Eligible(o)'} ELSE {}]

ScanSpec == ScanInit /\ [][ScanNext]_<<vars, steady>>

(* A call is refused only if no backend of the list it loaded was eligible *)
(* for the whole call: the scan passes over no entry (balancer.rs:120-158).*)
RefusedOnlyIfUnavailable == \A t \in Task : pc[t] = "refused" => steady[t] = {}
=============================================================================
