--------------------------- MODULE LimiterProofs ----------------------------
(***************************************************************************)
(* Theorems about the token bucket, for any tasks, amounts, rate, burst    *)
(* and bound on time.                                                      *)
(***************************************************************************)
EXTENDS LimiterWindow, TLAPS

HistoryOK == now \in Nat /\ total \in Nat /\ mark \in [0..now -> Nat]

IInv == TypeOK /\ HistoryOK /\ BucketIsLeastSlack

-----------------------------------------------------------------------------
(* The bucket holds what a refill would leave in it, between 0 and Burst.  *)
LEMMA RefilledType ==
    ASSUME TypeOK
    PROVE  /\ Refilled \in 0..Burst /\ Refilled \in Nat
           /\ Rate * lag \in Nat
           /\ Rate * lag = 0 => Refilled = tokens
<1>1. tokens \in Nat /\ tokens <= Burst /\ lag \in Nat /\ Rate \in Nat /\ Burst \in Nat
  BY RateAssumption, BurstAssumption, LagCapAssumption DEF TypeOK
<1>2. Rate * lag \in Nat
  BY <1>1
<1> DEFINE p == Rate * lag
<1> HIDE DEF p
<1>3. Refilled = IF tokens + p <= Burst THEN tokens + p ELSE Burst
  BY DEF Refilled, Smaller, p
<1>4. p \in Nat
  BY <1>2 DEF p
<1>5. Refilled \in 0..Burst /\ Refilled \in Nat /\ (p = 0 => Refilled = tokens)
  BY <1>1, <1>3, <1>4
<1> QED BY <1>2, <1>5 DEF p

(* A request leaves the refilled bucket less what it grants: nothing of    *)
(* the elapsed time is lost and nothing is credited twice.                 *)
LEMMA RequestEffect ==
    ASSUME TypeOK, NEW n \in Nat, Request(n)
    PROVE  /\ tokens' \in 0..Burst /\ lag' \in 0..LagCap
           /\ reply' = [n |-> n, ok |-> Refilled >= n]
           /\ Refilled' = IF Refilled >= n THEN Refilled - n ELSE Refilled
<1>1. /\ Refilled \in 0..Burst /\ Refilled \in Nat /\ Rate * lag \in Nat
      /\ Rate * lag = 0 => Refilled = tokens
  BY RefilledType
<1>2. /\ tokens' = IF Refilled >= n THEN Refilled - n ELSE Refilled
      /\ lag' = IF Rate * lag > 0 THEN 0 ELSE lag
      /\ reply' = [n |-> n, ok |-> Refilled >= n]
  BY DEF Request
<1>3. tokens' \in 0..Burst /\ tokens' \in Nat /\ tokens' <= Burst /\ Burst \in Nat
  BY <1>1, <1>2, BurstAssumption
<1>4. lag' \in 0..LagCap
  BY <1>2, LagCapAssumption DEF TypeOK
<1>5. Rate * lag' = 0
  <2>1. CASE Rate * lag > 0
    BY <1>2, <2>1, RateAssumption
  <2>2. CASE ~(Rate * lag > 0)
    BY <1>1, <1>2, <2>2
  <2> QED BY <2>1, <2>2
<1>6. Refilled' = tokens'
  <2>1. Refilled' = Smaller(tokens' + 0, Burst)
    BY <1>5 DEF Refilled
  <2>2. \A x \in Nat : x <= Burst => Smaller(x + 0, Burst) = x
    BY DEF Smaller
  <2> QED BY <1>3, <2>1, <2>2
<1> QED BY <1>2, <1>3, <1>4, <1>6

(* A tick adds Rate to what a refill would leave, up to Burst: the cap on  *)
(* the recorded lag hides nothing.                                         *)
LEMMA TickEffect ==
    ASSUME TypeOK, Tick
    PROVE  /\ lag' \in 0..LagCap
           /\ Refilled' = Smaller(Refilled + Rate, Burst)
<1>1. /\ tokens \in Nat /\ tokens <= Burst /\ lag \in Nat /\ lag <= LagCap
      /\ Rate \in Nat /\ Burst \in Nat /\ LagCap \in Nat /\ tokens' = tokens
  BY RateAssumption, BurstAssumption, LagCapAssumption DEF TypeOK, Tick
<1>2. lag' = IF lag < LagCap THEN lag + 1 ELSE lag
  BY DEF Tick
<1>3. lag' \in 0..LagCap
  BY <1>1, <1>2
<1> DEFINE p == Rate * lag
           q == Rate * lag'
<1>4. p \in Nat /\ q \in Nat
  <2>1. lag' \in Nat
    BY <1>1, <1>3
  <2>2. \A x \in Nat : Rate * x \in Nat
    BY <1>1
  <2> QED BY <1>1, <2>1, <2>2
<1>5. \/ q = p + Rate
      \/ Rate = 0 /\ p = 0 /\ q = 0
      \/ q = p /\ p >= Burst
  <2>1. CASE lag < LagCap
    <3>1. lag' = lag + 1
      BY <1>2, <2>1
    <3>2. Rate * (lag + 1) = Rate * lag + Rate
      BY <1>1
    <3> QED BY <3>1, <3>2
  <2>2. CASE ~(lag < LagCap)
    <3>1. lag' = lag /\ lag = LagCap
      BY <1>1, <1>2, <2>2
    <3>2. CASE Rate = 0
      BY <1>1, <1>3, <3>1, <3>2
    <3>3. CASE Rate # 0
      BY <1>1, <3>1, <3>3, LagCapAssumption
    <3> QED BY <3>2, <3>3
  <2> QED BY <2>1, <2>2
<1>6. /\ Refilled = IF tokens + p <= Burst THEN tokens + p ELSE Burst
      /\ Refilled' = IF tokens + q <= Burst THEN tokens + q ELSE Burst
  BY <1>1 DEF Refilled, Smaller
<1> HIDE DEF p, q
<1>7. Refilled' = Smaller(Refilled + Rate, Burst)
  BY <1>1, <1>4, <1>5, <1>6 DEF Smaller
<1> QED BY <1>3, <1>7

-----------------------------------------------------------------------------
(* The history.  Allowed(s) grows by Rate with each tick.                  *)
LEMMA AllowedType ==
    ASSUME HistoryOK
    PROVE  \A s \in 0..now : /\ s \in Nat /\ now - s \in Nat /\ mark[s] \in Nat
                             /\ Rate * (now - s) \in Nat /\ Allowed(s) \in Nat
<1> TAKE s \in 0..now
<1>1. now \in Nat /\ s \in Nat /\ now - s \in Nat /\ mark[s] \in Nat
  BY DEF HistoryOK
<1>2. Rate * (now - s) \in Nat
  BY <1>1, RateAssumption
<1> QED BY <1>1, <1>2, BurstAssumption DEF Allowed

(* A granted request moves the amount from the bucket to the total; a      *)
(* refused one moves nothing.                                              *)
LEMMA RequestKeepsIInv ==
    ASSUME IInv, NEW n \in Amounts \union {0}, Request(n),
           total' = (IF reply'.ok THEN total + reply'.n ELSE total),
           UNCHANGED <<now, mark>>
    PROVE  /\ tokens' \in 0..Burst /\ lag' \in 0..LagCap
           /\ reply' \in [n: Amounts \union {0}, ok: BOOLEAN]
           /\ HistoryOK' /\ BucketIsLeastSlack'
<1>1. n \in Nat /\ TypeOK /\ total \in Nat /\ HistoryOK
  BY AmountsAssumption DEF IInv, HistoryOK
<1>2. /\ tokens' \in 0..Burst /\ lag' \in 0..LagCap
      /\ reply' = [n |-> n, ok |-> Refilled >= n]
      /\ Refilled' = IF Refilled >= n THEN Refilled - n ELSE Refilled
  BY <1>1, RequestEffect
<1>3. Refilled \in Nat
  BY <1>1, RefilledType
<1>4. total' \in Nat /\ total' + Refilled' = total + Refilled
  <2>1. CASE Refilled >= n
    <3>1. total' = total + n /\ Refilled' = Refilled - n
      BY <1>2, <2>1
    <3>2. total + n \in Nat /\ (total + n) + (Refilled - n) = total + Refilled
      BY <1>1, <1>3
    <3> QED BY <3>1, <3>2
  <2>2. CASE ~(Refilled >= n)
    BY <1>1, <1>2, <2>2
  <2> QED BY <2>1, <2>2
<1>5. HistoryOK'
  BY <1>1, <1>4 DEF HistoryOK
<1>6. \A s \in 0..now : Allowed(s)' = Allowed(s)
  BY DEF Allowed
<1>7. BucketIsLeastSlack'
  BY <1>4, <1>6 DEF IInv, BucketIsLeastSlack, Within, Tight
<1>8. reply' \in [n: Amounts \union {0}, ok: BOOLEAN]
  BY <1>2
<1> QED BY <1>2, <1>5, <1>7, <1>8

(* A tick: if the bucket overflows, the interval that begins now is the    *)
(* tightest; otherwise the tightest stays the tightest.                    *)
LEMMA TickKeepsSlack ==
    ASSUME IInv, WTick
    PROVE  HistoryOK' /\ BucketIsLeastSlack'
<1>1. /\ TypeOK /\ HistoryOK /\ Tick /\ now' = now + 1 /\ total' = total
      /\ mark' = [s \in 0..now' |-> IF s <= now THEN mark[s] ELSE total]
      /\ now \in Nat /\ total \in Nat /\ Burst \in Nat /\ Rate \in Nat
  BY RateAssumption, BurstAssumption DEF WTick, IInv, HistoryOK
<1>2. Refilled \in Nat /\ Refilled <= Burst
  BY <1>1, RefilledType
<1>3. Refilled' = IF Refilled + Rate <= Burst THEN Refilled + Rate ELSE Burst
  BY <1>1, TickEffect DEF Smaller
<1>4. mark' \in [0..now' -> Nat]
  BY <1>1 DEF HistoryOK
<1>5. HistoryOK'
  BY <1>1, <1>4 DEF HistoryOK
<1>6. ASSUME NEW s \in 0..now PROVE Allowed(s)' = Allowed(s) + Rate
  <2>1. /\ s \in Nat /\ now - s \in Nat /\ mark[s] \in Nat
        /\ Rate * (now - s) \in Nat
    BY <1>1, AllowedType
  <2>2. mark'[s] = mark[s] /\ now' - s = (now - s) + 1
    BY <1>1, <2>1
  <2>3. Rate * ((now - s) + 1) = Rate * (now - s) + Rate
    BY <1>1, <2>1
  <2> DEFINE p == Rate * (now - s)
             q == Rate * (now' - s)
  <2>4. q = p + Rate /\ p \in Nat
    BY <2>1, <2>2, <2>3
  <2>5. Allowed(s) = mark[s] + Burst + p /\ Allowed(s)' = mark'[s] + Burst + q
    BY DEF Allowed
  <2> HIDE DEF p, q
  <2> QED BY <1>1, <2>1, <2>2, <2>4, <2>5
<1>7. ASSUME NEW s \in Nat, s = now + 1 PROVE Allowed(s)' = total + Burst
  <2>1. mark'[s] = total
    BY <1>1, <1>7
  <2>2. now' - s = 0 /\ Rate * 0 = 0
    BY <1>1, <1>7
  <2>3. Allowed(s)' = mark'[s] + Burst + Rate * (now' - s)
    BY DEF Allowed
  <2> QED BY <1>1, <2>1, <2>2, <2>3
<1>8. \A s \in 0..now' : s \in 0..now \/ s = now + 1
  BY <1>1
<1>9. \A s \in 0..now : Allowed(s) \in Nat
  BY <1>1, AllowedType
<1>10. Within'
  <2> SUFFICES ASSUME NEW s \in 0..now' PROVE total' + Refilled' <= Allowed(s)'
    BY DEF Within
  <2>1. CASE s \in 0..now
    <3>1. total + Refilled <= Allowed(s)
      BY <2>1 DEF IInv, BucketIsLeastSlack, Within
    <3> QED BY <1>1, <1>2, <1>3, <1>6, <1>9, <2>1, <3>1
  <2>2. CASE s = now + 1
    <3>1. Allowed(s)' = total + Burst
      BY <1>1, <1>7, <2>2
    <3> QED BY <1>1, <1>2, <1>3, <3>1
  <2> QED BY <1>8, <2>1, <2>2
<1>11. Tight'
  <2>1. CASE Refilled + Rate <= Burst
    <3>1. PICK s \in 0..now : total + Refilled = Allowed(s)
      BY DEF IInv, BucketIsLeastSlack, Tight
    <3>2. total' + Refilled' = Allowed(s)' /\ s \in 0..now'
      BY <1>1, <1>2, <1>3, <1>6, <2>1, <3>1
    <3> QED BY <3>2 DEF Tight
  <2>2. CASE ~(Refilled + Rate <= Burst)
    <3>1. PICK s \in 0..now' : s = now + 1
      BY <1>1
    <3>2. Allowed(s)' = total + Burst
      BY <1>1, <1>7, <3>1
    <3>3. total' + Refilled' = Allowed(s)'
      BY <1>1, <1>3, <2>2, <3>2
    <3> QED BY <3>3 DEF Tight
  <2> QED BY <2>1, <2>2
<1> QED BY <1>5, <1>10, <1>11 DEF BucketIsLeastSlack

-----------------------------------------------------------------------------
(* The tasks' variables keep their types.                                  *)
LEMMA PauseType ==
    ASSUME NEW m \in Nat, Rate > 0
    PROVE  Pause(m) \in Nat
<1>1. Rate \in Nat /\ m + Rate - 1 \in Nat
  BY RateAssumption
<1>2. \A x \in Nat, r \in Nat : r > 0 => x \div r \in Nat
  OBVIOUS
<1> QED BY <1>1, <1>2 DEF Pause

TaskTypeOK ==
    /\ pc \in [Task -> {"idle", "trying", "sleeping"}]
    /\ want \in [Task -> Amounts \union {0}]
    /\ \A t \in Task : pc[t] # "idle" => want[t] \in Amounts
    /\ wait \in [Task -> Nat]

(* No step of a task leaves the types of its own variables.                *)
LEMMA TaskTypes ==
    ASSUME TypeOK, NEW t \in Task,
           \/ Try(t) \/ Wake(t) \/ Cancel(t)
           \/ \E n \in Amounts : CheckN(t, n) \/ UntilNReady(t, n)
    PROVE  TaskTypeOK'
<1> USE DEF TypeOK, TaskTypeOK
<1>1. CASE Try(t)
  <2>1. want[t] \in Nat
    <3>1. want[t] \in Amounts
      BY <1>1 DEF Try
    <3> HIDE DEF TypeOK
    <3> QED BY <3>1, AmountsAssumption
  <2>2. CASE reply'.ok
    BY <1>1, <2>2 DEF Try
  <2>3. CASE ~reply'.ok
    <3>1. ~(Refilled >= want[t])
      BY <1>1, <2>3 DEF Try, Request
    <3>2. want[t] - Refilled \in Nat
      BY <2>1, <3>1, RefilledType
    <3>3. Pause(want[t] - Refilled) \in Nat
      BY <1>1, <3>2, PauseType DEF Try
    <3> HIDE DEF TypeOK
    <3>4. wait' = [wait EXCEPT ![t] = Pause(want[t] - Refilled)]
      BY <1>1, <2>3 DEF Try
    <3>5. wait' \in [Task -> Nat]
      BY <3>3, <3>4 DEF TypeOK
    <3>6. want' = want /\ pc' = [pc EXCEPT ![t] = "sleeping"]
      BY <1>1, <2>3 DEF Try
    <3>7. /\ pc' \in [Task -> {"idle", "trying", "sleeping"}]
          /\ want' \in [Task -> Amounts \union {0}]
      BY <3>6 DEF TypeOK
    <3>8. \A u \in Task : pc'[u] # "idle" => want'[u] \in Amounts
      BY <1>1, <3>6 DEF TypeOK, Try
    <3> QED BY <3>5, <3>7, <3>8
  <2> QED BY <2>2, <2>3
<1>2. CASE Wake(t) \/ Cancel(t)
  BY <1>2 DEF Wake, Cancel
<1>3. ASSUME NEW n \in Amounts, CheckN(t, n) \/ UntilNReady(t, n)
      PROVE  TaskTypeOK'
  BY <1>3 DEF CheckN, UntilNReady, taskVars
<1> QED BY <1>1, <1>2, <1>3

(* Initially the bucket is full and nothing has been granted.              *)
LEMMA InitIInv == WInit => IInv
<1> SUFFICES ASSUME WInit PROVE IInv
  OBVIOUS
<1>1. /\ tokens = Burst /\ lag = 0 /\ now = 0 /\ total = 0
      /\ mark = [s \in {0} |-> 0] /\ Burst \in Nat /\ Rate \in Nat
  BY RateAssumption, BurstAssumption DEF WInit, Init
<1>2. TypeOK
  BY <1>1, LagCapAssumption DEF WInit, Init, TypeOK
<1>3. 0..now = {0}
  BY <1>1
<1>4. HistoryOK
  BY <1>1, <1>3 DEF HistoryOK
<1>5. Refilled = Burst
  <2>1. Rate * lag = 0
    BY <1>1
  <2> QED BY <1>1, <1>2, <2>1, RefilledType
<1>6. Allowed(0) = Burst
  <2>1. mark[0] = 0 /\ now - 0 = 0 /\ Rate * 0 = 0
    BY <1>1
  <2>2. Allowed(0) = 0 + Burst + 0
    BY <2>1 DEF Allowed
  <2> QED BY <1>1, <2>2
<1>7. total + Refilled = Allowed(0)
  BY <1>1, <1>5, <1>6
<1>8. BucketIsLeastSlack
  BY <1>1, <1>3, <1>5, <1>6, <1>7 DEF BucketIsLeastSlack, Within, Tight
<1> QED BY <1>2, <1>4, <1>8 DEF IInv

(* A request made by a task, through either operation.                     *)
Asks(t, n) == CheckN(t, n) \/ (Try(t) /\ n = want[t])

(* Every step preserves IInv.                                              *)
LEMMA NextIInv == IInv /\ [WNext]_windowVars => IInv'
<1> SUFFICES ASSUME IInv, [WNext]_windowVars PROVE IInv'
  OBVIOUS
<1>0. TypeOK
  BY DEF IInv
<1>1. ASSUME WTick PROVE IInv'
  <2>1. HistoryOK' /\ BucketIsLeastSlack'
    BY <1>1, TickKeepsSlack
  <2>2. lag' \in 0..LagCap
    BY <1>0, <1>1, TickEffect DEF WTick
  <2>3. wait' \in [Task -> Nat]
    <3>1. wait' = [t \in Task |-> IF wait[t] > 0 THEN wait[t] - 1 ELSE 0]
      BY <1>1 DEF WTick, Tick
    <3> QED BY <1>0, <3>1 DEF TypeOK
  <2>4. TypeOK'
    BY <1>0, <1>1, <2>2, <2>3 DEF TypeOK, WTick, Tick
  <2> QED BY <2>1, <2>4 DEF IInv
<1>2. ASSUME NEW t \in Task, NEW n \in Amounts \union {0}, Asks(t, n), TaskTypeOK',
             total' = (IF reply'.ok THEN total + reply'.n ELSE total),
             UNCHANGED <<now, mark>>
      PROVE  IInv'
  <2>1. Request(n)
    BY <1>2 DEF Asks, CheckN, Try
  <2>2. /\ tokens' \in 0..Burst /\ lag' \in 0..LagCap
        /\ reply' \in [n: Amounts \union {0}, ok: BOOLEAN]
        /\ HistoryOK' /\ BucketIsLeastSlack'
    BY <1>2, <2>1, RequestKeepsIInv
  <2> QED BY <1>2, <2>2 DEF IInv, TypeOK, TaskTypeOK
<1>3. ASSUME UNCHANGED <<tokens, lag, reply, now, total, mark>>, TaskTypeOK'
      PROVE  IInv'
  BY <1>3 DEF IInv, TypeOK, TaskTypeOK, HistoryOK, BucketIsLeastSlack, Within,
              Tight, Allowed, Refilled
<1>4. ASSUME NEW t \in Task, WStep(t) PROVE IInv'
  <2>1. TaskTypeOK'
    BY <1>0, <1>4, TaskTypes DEF WStep
  <2>2. CASE Try(t) /\ total' = IF reply'.ok THEN total + reply'.n ELSE total
    <3>1. want[t] \in Amounts \union {0}
      BY <1>0 DEF TypeOK
    <3> QED BY <1>2, <1>4, <2>1, <2>2, <3>1 DEF Asks, WStep
  <2>3. ASSUME NEW n \in Amounts, CheckN(t, n),
               total' = (IF reply'.ok THEN total + reply'.n ELSE total)
        PROVE  IInv'
    BY <1>2, <1>4, <2>1, <2>3 DEF Asks, WStep
  <2>4. CASE /\ Wake(t) \/ Cancel(t) \/ \E n \in Amounts : UntilNReady(t, n)
             /\ UNCHANGED total
    BY <1>3, <1>4, <2>1, <2>4 DEF Wake, Cancel, UntilNReady, WStep
  <2> QED BY <1>4, <2>2, <2>3, <2>4 DEF WStep
<1>5. CASE UNCHANGED windowVars
  BY <1>0, <1>3, <1>5 DEF windowVars, vars, TypeOK, TaskTypeOK
<1> QED BY <1>1, <1>4, <1>5 DEF WNext

(* IInv holds in every reachable state.                                    *)
LEMMA IInvAlways == WSpec => []IInv
<1> QED BY InitIInv, NextIInv, PTL DEF WSpec

-----------------------------------------------------------------------------
(* The bucket and the interval rule give the same answer.                  *)
LEMMA SameAnswer ==
    ASSUME IInv, NEW n \in Nat
    PROVE  Refilled >= n <=> Window!Conforms(n)
<1>1. /\ total \in Nat /\ Refilled \in Nat
      /\ \A s \in 0..now : Allowed(s) \in Nat
  BY RefilledType, AllowedType DEF IInv, HistoryOK
<1>2. Window!Conforms(n) <=> \A s \in 0..now : total + n <= Allowed(s)
  BY DEF Window!Conforms, Allowed
<1>3. ASSUME Refilled >= n, NEW s \in 0..now PROVE total + n <= Allowed(s)
  <2>1. total + Refilled <= Allowed(s)
    BY DEF IInv, BucketIsLeastSlack, Within
  <2> QED BY <1>1, <1>3, <2>1
<1>4. ASSUME \A s \in 0..now : total + n <= Allowed(s) PROVE Refilled >= n
  <2>1. PICK s \in 0..now : total + Refilled = Allowed(s)
    BY DEF IInv, BucketIsLeastSlack, Tight
  <2>2. total + n <= Allowed(s)
    BY <1>4
  <2> QED BY <1>1, <2>1, <2>2
<1> QED BY <1>2, <1>3, <1>4

(* A step of the bucket is a step, or a stutter, of the promise.           *)
LEMMA StepRefines == IInv /\ [WNext]_windowVars => [Window!Next]_(Window!vars)
<1> SUFFICES ASSUME IInv, [WNext]_windowVars PROVE [Window!Next]_(Window!vars)
  OBVIOUS
<1>1. ASSUME WTick PROVE Window!Tick
  BY <1>1 DEF WTick, Tick, Window!Tick
<1>2. ASSUME NEW n \in Amounts, Request(n),
             total' = (IF reply'.ok THEN total + reply'.n ELSE total),
             UNCHANGED <<now, mark>>
      PROVE  Window!Grant(n) \/ Window!Refuse(n)
  <2>1. n \in Nat /\ (Refilled >= n <=> Window!Conforms(n))
    BY AmountsAssumption, SameAnswer
  <2>2. reply' = [n |-> n, ok |-> Refilled >= n]
    BY <1>2 DEF Request
  <2>3. CASE Refilled >= n
    <3>1. reply' = [n |-> n, ok |-> TRUE]
      BY <2>2, <2>3
    <3>2. total' = total + n
      BY <1>2, <3>1
    <3> QED BY <1>2, <2>1, <2>3, <3>1, <3>2 DEF Window!Grant
  <2>4. CASE ~(Refilled >= n)
    <3>1. reply' = [n |-> n, ok |-> FALSE]
      <4>1. (Refilled >= n) = FALSE
        BY <2>4
      <4> QED BY <2>2, <4>1
    <3>2. total' = total
      BY <1>2, <3>1
    <3> QED BY <1>2, <2>1, <2>4, <3>1, <3>2 DEF Window!Refuse
  <2> QED BY <2>3, <2>4
<1>3. ASSUME NEW t \in Task, WStep(t) PROVE [Window!Next]_(Window!vars)
  <2>1. CASE Try(t) /\ total' = IF reply'.ok THEN total + reply'.n ELSE total
    <3>1. want[t] \in Amounts /\ Request(want[t])
      BY <2>1 DEF Try, IInv, TypeOK
    <3> QED BY <1>2, <1>3, <2>1, <3>1 DEF WStep, Window!Next
  <2>2. ASSUME NEW n \in Amounts, CheckN(t, n),
               total' = (IF reply'.ok THEN total + reply'.n ELSE total)
        PROVE  Window!Next
    BY <1>2, <1>3, <2>2 DEF WStep, CheckN, Window!Next
  <2>3. CASE /\ Wake(t) \/ Cancel(t) \/ \E n \in Amounts : UntilNReady(t, n)
             /\ UNCHANGED total
    BY <1>3, <2>3 DEF Wake, Cancel, UntilNReady, WStep, Window!vars
  <2> QED BY <1>3, <2>1, <2>2, <2>3 DEF WStep
<1>4. CASE UNCHANGED windowVars
  BY <1>4 DEF windowVars, vars, Window!vars
<1> QED BY <1>1, <1>3, <1>4 DEF WNext, Window!Next

(* The bucket never overflows its burst size and is never overdrawn, and   *)
(* every waiter waits for an amount somebody asked for.                    *)
THEOREM BucketTypeCorrect == WSpec => []TypeOK
<1>1. IInv => TypeOK
  BY DEF IInv
<1> QED BY <1>1, IInvAlways, PTL

(* The tokens at hand are at all times the least slack of any interval.    *)
THEOREM BucketExact == WSpec => []BucketIsLeastSlack
<1>1. IInv => BucketIsLeastSlack
  BY DEF IInv
<1> QED BY <1>1, IInvAlways, PTL

(* The bucket implements the interval rule, for every rate and burst.      *)
THEOREM BucketKeepsPromise == WSpec => Promise
<1>1. WInit => Window!Init
  BY DEF WInit, Init, Window!Init
<1> QED BY <1>1, IInvAlways, StepRefines, PTL DEF WSpec, Promise, Window!Spec
=============================================================================
