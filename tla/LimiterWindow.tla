--------------------------- MODULE LimiterWindow ----------------------------
(***************************************************************************)
(* The token bucket, with the history that TokenWindow speaks of: the time *)
(* and the amounts its answers have granted.                               *)
(***************************************************************************)
EXTENDS Limiter

CONSTANT MaxNow  \* bound: the ticks of a behaviour

ASSUME MaxNowAssumption == MaxNow \in Nat

VARIABLES now, total, mark

windowVars == <<vars, now, total, mark>>

WInit ==
    /\ Init
    /\ now = 0
    /\ total = 0
    /\ mark = [s \in {0} |-> 0]

WTick ==
    /\ now < MaxNow
    /\ Tick
    /\ now' = now + 1
    /\ mark' = [s \in 0..now' |-> IF s <= now THEN mark[s] ELSE total]
    /\ UNCHANGED total

(* A step of a task.  What it was granted is added up from the answers.    *)
WStep(t) ==
    /\ \/ /\ Try(t) \/ \E n \in Amounts : CheckN(t, n)
          /\ total' = IF reply'.ok THEN total + reply'.n ELSE total
       \/ /\ Wake(t) \/ Cancel(t) \/ \E n \in Amounts : UntilNReady(t, n)
          /\ UNCHANGED total
    /\ UNCHANGED <<now, mark>>

WNext == WTick \/ \E t \in Task : WStep(t)

WSpec == WInit /\ [][WNext]_windowVars

Window == INSTANCE TokenWindow

(* The bucket implements the promise: every answer of check_n and of each  *)
(* turn of until_n_ready is the one the interval rule gives, however the   *)
(* tasks interleave and however time passes between their calls.           *)
Promise == Window!Spec

-----------------------------------------------------------------------------
(* Why.  Slack(s) is what the interval that began at s still allows; the   *)
(* tokens at hand are the least slack of all.                              *)

Allowed(s) == mark[s] + Burst + Rate * (now - s)

Within == \A s \in 0..now : total + Refilled <= Allowed(s)
Tight  == \E s \in 0..now : total + Refilled = Allowed(s)

(* The tokens at hand are exactly what the tightest interval allows: the   *)
(* bucket neither grants beyond the rule nor withholds what it allows.     *)
BucketIsLeastSlack == Within /\ Tight
=============================================================================
