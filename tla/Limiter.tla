------------------------------ MODULE Limiter -------------------------------
(***************************************************************************)
(* The token bucket (SimpleLimiter of traffic/limiter.rs): one bucket that *)
(* several tasks draw on, at once with check_n or waiting with             *)
(* until_n_ready.                                                          *)
(*                                                                         *)
(* Time passes in ticks and tokens are counted in a unit of which a tick   *)
(* adds a whole number, so that what the code keeps in an f64 is a natural *)
(* number here.  The mutex makes each refill and its test one step.        *)
(***************************************************************************)
EXTENDS Integers

CONSTANTS
    Task,     \* tasks that share the bucket
    Amounts,  \* the amounts they ask for
    Rate,     \* rate_per_sec, per tick
    Burst,    \* burst_size
    LagCap    \* bound: ticks after which a refill fills the bucket anyway

ASSUME AmountsAssumption == Amounts \subseteq Nat
ASSUME RateAssumption    == Rate \in Nat
ASSUME BurstAssumption   == Burst \in Nat
ASSUME LagCapAssumption  == LagCap \in Nat /\ (Rate = 0 \/ Rate * LagCap >= Burst)

VARIABLES
    tokens,   \* state.tokens
    lag,      \* ticks since state.last_update
    pc,       \* "idle", or in until_n_ready: "trying" or "sleeping"
    want,     \* the argument n of a task's until_n_ready
    wait,     \* the ticks its sleep still lasts
    reply     \* the answer to the last request made of the bucket

vars == <<tokens, lag, pc, want, wait, reply>>
taskVars == <<pc, want, wait>>

TypeOK ==
    /\ tokens \in 0..Burst
    /\ lag \in 0..LagCap
    /\ pc \in [Task -> {"idle", "trying", "sleeping"}]
    /\ want \in [Task -> Amounts \union {0}]
    /\ \A t \in Task : pc[t] # "idle" => want[t] \in Amounts
    /\ wait \in [Task -> Nat]
    /\ reply \in [n: Amounts \union {0}, ok: BOOLEAN]

Smaller(x, y) == IF x <= y THEN x ELSE y

(* SimpleLimiter::new: the bucket starts full.                             *)
Init ==
    /\ tokens = Burst
    /\ lag = 0
    /\ pc = [t \in Task |-> "idle"]
    /\ want = [t \in Task |-> 0]
    /\ wait = [t \in Task |-> 0]
    /\ reply = [n |-> 0, ok |-> TRUE]

(* Mutant: the bucket overflows.                                           *)
RefilledUncapped == tokens + Rate * lag

(* refill: the tokens of the elapsed time, up to a full bucket.            *)
Refilled == Smaller(tokens + Rate * lag, Burst)

(* Mutants: an exact fit is refused; the time is credited again at the     *)
(* next request; a refused request loses the refill.                       *)
RequestStrict(n) ==
    /\ reply' = [n |-> n, ok |-> Refilled > n]
    /\ tokens' = IF Refilled > n THEN Refilled - n ELSE Refilled
    /\ lag' = IF Rate * lag > 0 THEN 0 ELSE lag

RequestRecredited(n) ==
    /\ reply' = [n |-> n, ok |-> Refilled >= n]
    /\ tokens' = IF Refilled >= n THEN Refilled - n ELSE Refilled
    /\ UNCHANGED lag

RequestForgets(n) ==
    /\ reply' = [n |-> n, ok |-> Refilled >= n]
    /\ tokens' = IF Refilled >= n THEN Refilled - n ELSE tokens
    /\ lag' = 0

(* A request for n under the lock: refill, then take n or leave them all.  *)
(* last_update moves only when the refill added something.                 *)
Request(n) ==
    /\ reply' = [n |-> n, ok |-> Refilled >= n]
    /\ tokens' = IF Refilled >= n THEN Refilled - n ELSE Refilled
    /\ lag' = IF Rate * lag > 0 THEN 0 ELSE lag

CheckN(t, n) ==
    /\ pc[t] = "idle"
    /\ Request(n)
    /\ UNCHANGED taskVars

UntilNReady(t, n) ==
    /\ pc[t] = "idle"
    /\ pc' = [pc EXCEPT ![t] = "trying"]
    /\ want' = [want EXCEPT ![t] = n]
    /\ UNCHANGED <<tokens, lag, wait, reply>>

(* The ticks it takes to earn the missing tokens (the division rounds up:  *)
(* a timer never fires early).                                             *)
Pause(missing) == (missing + Rate - 1) \div Rate

(* One turn of until_n_ready's loop.  The quotient is infinite, and the    *)
(* conversion to a Duration panics, at rate 0; no caller makes such a      *)
(* bucket to wait on (limiter.rs:149).                                     *)
Try(t) ==
    /\ pc[t] = "trying"
    /\ Rate > 0
    /\ Request(want[t])
    /\ \/ /\ reply'.ok
          /\ pc' = [pc EXCEPT ![t] = "idle"]
          /\ want' = [want EXCEPT ![t] = 0]
          /\ UNCHANGED wait
       \/ /\ ~reply'.ok
          /\ pc' = [pc EXCEPT ![t] = "sleeping"]
          /\ wait' = [wait EXCEPT ![t] = Pause(want[t] - Refilled)]
          /\ UNCHANGED want

(* The sleep is over and the task is polled again.                         *)
Wake(t) ==
    /\ pc[t] = "sleeping"
    /\ wait[t] = 0
    /\ pc' = [pc EXCEPT ![t] = "trying"]
    /\ UNCHANGED <<tokens, lag, want, wait, reply>>

(* The connection ends and the pending future is dropped with it.          *)
Cancel(t) ==
    /\ pc[t] \in {"trying", "sleeping"}
    /\ pc' = [pc EXCEPT ![t] = "idle"]
    /\ want' = [want EXCEPT ![t] = 0]
    /\ wait' = [wait EXCEPT ![t] = 0]
    /\ UNCHANGED <<tokens, lag, reply>>

Tick ==
    /\ lag' = IF lag < LagCap THEN lag + 1 ELSE lag
    /\ wait' = [t \in Task |-> IF wait[t] > 0 THEN wait[t] - 1 ELSE 0]
    /\ UNCHANGED <<tokens, pc, want, reply>>

Step(t) ==
    \/ \E n \in Amounts : CheckN(t, n) \/ UntilNReady(t, n)
    \/ Try(t) \/ Wake(t) \/ Cancel(t)

Next == Tick \/ \E t \in Task : Step(t)

Spec == Init /\ [][Next]_vars

(* Time passes, and the runtime polls a task whose timer has fired.        *)
FairSpec == /\ Spec
            /\ WF_vars(Tick)
            /\ \A t \in Task : WF_vars(Try(t)) /\ WF_vars(Wake(t))

-----------------------------------------------------------------------------
(* Properties.                                                             *)

(* A request, immediate or waited for, that gets its tokens.               *)
Grants ==
    \E t \in Task : /\ Try(t) \/ \E n \in Amounts : CheckN(t, n)
                   /\ reply'.ok

(* A task that waits for ever does so only because others keep taking the  *)
(* tokens: they are granted again and again, never left unused while there *)
(* is a waiter (limiter.rs:50-70).                                         *)
KeepsGranting ==
    \A t \in Task : <>[](pc[t] # "idle") => []<><<Grants>>_vars
=============================================================================
