---------------------------- MODULE TokenWindow -----------------------------
(***************************************************************************)
(* What a rate limiter promises, without a bucket: whatever interval one   *)
(* looks at, the amount granted in it is at most Burst plus Rate for each  *)
(* tick of the interval, and a request is refused only when granting it    *)
(* would break that rule for some interval ending now.                     *)
(***************************************************************************)
EXTENDS Integers

CONSTANTS Amounts, Rate, Burst

VARIABLES
    now,    \* the time
    total,  \* the amount granted so far
    mark,   \* mark[s]: the amount that had been granted when time s began
    reply   \* the answer to the last request

vars == <<now, total, mark, reply>>

Init ==
    /\ now = 0
    /\ total = 0
    /\ mark = [s \in {0} |-> 0]
    /\ reply = [n |-> 0, ok |-> TRUE]

(* n more fit into every interval that ends now.                           *)
Conforms(n) == \A s \in 0..now : total + n <= mark[s] + Burst + Rate * (now - s)

Grant(n) ==
    /\ Conforms(n)
    /\ total' = total + n
    /\ reply' = [n |-> n, ok |-> TRUE]
    /\ UNCHANGED <<now, mark>>

Refuse(n) ==
    /\ ~Conforms(n)
    /\ reply' = [n |-> n, ok |-> FALSE]
    /\ UNCHANGED <<now, total, mark>>

Tick ==
    /\ now' = now + 1
    /\ mark' = [s \in 0..now' |-> IF s <= now THEN mark[s] ELSE total]
    /\ UNCHANGED <<total, reply>>

Next == Tick \/ \E n \in Amounts : Grant(n) \/ Refuse(n)

Spec == Init /\ [][Next]_vars
=============================================================================
