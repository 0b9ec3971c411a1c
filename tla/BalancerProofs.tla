--------------------------- MODULE BalancerProofs ---------------------------
(***************************************************************************)
(* Theorems about Balancer, BalancerScan and BalancerRoundRobin, for every *)
(* set of tasks, checkers and addresses, every configuration, limit,       *)
(* number of threads and counter width.                                    *)
(***************************************************************************)
EXTENDS BalancerScan, BalancerRoundRobin, TLAPS, FiniteSetTheorems,
        SequenceTheorems, NaturalsInduction, WellFoundedInduction

(* What a task's program counter says of its locals, and that every object *)
(* anything refers to has been allocated.                                  *)
Shape ==
    /\ \A t \in Task : pc[t] \in Scanning => pos[t] < Len(snap[t])
    /\ \A t \in Task : pc[t] \in {"claim", "count", "connected", "release"}
                          => held[t] \in 1..nobj
    /\ \A c \in Checker : chk[c].pc = "swap" => chk[c].obj \in Obj
    /\ \A i \in DOMAIN backends : backends[i] <= nobj
    /\ \A i \in DOMAIN upd.built : upd.built[i] <= nobj
    /\ \A t \in Task : \A i \in DOMAIN snap[t] : snap[t][i] <= nobj

Inv1 == Typed /\ Shape

-----------------------------------------------------------------------------
(* The object under examination is an allocated object.                    *)
LEMMA CandType ==
    ASSUME Inv1, NEW t \in Task, pc[t] \in Scanning
    PROVE  /\ Index(t) + 1 \in DOMAIN snap[t]
           /\ Cand(t) \in 1..nobj
           /\ Cand(t) \in Obj
<1>1. /\ snap[t] \in Seq(Obj) /\ start[t] \in Nat /\ pos[t] \in Nat
      /\ pos[t] < Len(snap[t]) /\ UsizeMod \in Nat \ {0}
  BY UsizeAssumption DEF Inv1, Typed, Shape
<1> DEFINE m == (start[t] + pos[t]) % UsizeMod
           n == Len(snap[t])
<1>2. n \in Nat \ {0}
  BY <1>1
<1>3. m \in Nat
  BY <1>1
<1>4. m % n \in 0..(n - 1)
  <2> HIDE DEF m, n
  <2> QED BY <1>2, <1>3
<1>5. Index(t) + 1 \in 1..n
  <2>1. Index(t) = m % n
    BY DEF Index
  <2> HIDE DEF m, n
  <2> QED BY <2>1, <1>2, <1>4
<1>6. DOMAIN snap[t] = 1..n
  BY <1>1
<1>7. Cand(t) \in Obj /\ Cand(t) <= nobj
  BY <1>1, <1>5, <1>6 DEF Cand, Inv1, Shape
<1> QED
  BY <1>5, <1>6, <1>7 DEF Obj

-----------------------------------------------------------------------------
(* Typed and Shape hold of every reachable state.                          *)

(* The state built by LoadBalancer::new satisfies Inv1.                    *)
LEMMA InitInv1 == Init => Inv1
<1> SUFFICES ASSUME Init PROVE Inv1
  OBVIOUS
<1>1. config \in Seq(BackendConfig) /\ Len(config) \in 0..MaxObj
  BY ConfigsAssumption, MaxObjAssumption DEF Init
<1>2. AnyAddr \in Addr
  BY AddrAssumption DEF AnyAddr
<1>3. nobj = Len(config) /\ nobj \in 0..MaxObj
  BY <1>1 DEF Init
<1>4. \A o \in 1..nobj : config[o].addr \in Addr /\ config[o].drain \in BOOLEAN
  <2> SUFFICES ASSUME NEW o \in 1..nobj
               PROVE  config[o].addr \in Addr /\ config[o].drain \in BOOLEAN
    OBVIOUS
  <2>1. config[o] \in BackendConfig
    BY <1>1, <1>3
  <2> QED BY <2>1 DEF BackendConfig
<1>5. backends \in Seq(Obj) /\ \A i \in DOMAIN backends : backends[i] <= nobj
  <2>1. backends = [i \in 1..nobj |-> i]
    BY <1>3 DEF Init
  <2>2. backends \in [1..nobj -> Obj]
    BY <1>3, <2>1, MaxObjAssumption DEF Obj
  <2>3. backends \in Seq(Obj)
    BY <1>3, <2>2, SeqDef
  <2>4. DOMAIN backends = 1..nobj
    BY <2>1
  <2> QED BY <1>3, <2>1, <2>3, <2>4
<1>6. addr \in [Obj -> Addr] /\ drain \in [Obj -> BOOLEAN]
  <2>1. \A o \in Obj : o <= nobj => o \in 1..nobj
    BY <1>3 DEF Obj
  <2>2. addr = [o \in Obj |-> IF o <= nobj THEN config[o].addr ELSE AnyAddr]
    BY DEF Init
  <2>3. drain = [o \in Obj |-> IF o <= nobj THEN config[o].drain ELSE FALSE]
    BY DEF Init
  <2> QED BY <1>2, <1>4, <2>1, <2>2, <2>3
<1>7. chk \in [Checker -> CheckerState] /\ upd = IdleUpd
  BY <1>2 DEF Init, CheckerState
<1>8. Typed
  <2>1. /\ pc \in [Task -> PC] /\ snap \in [Task -> Seq(Obj)]
        /\ start \in [Task -> Nat] /\ pos \in [Task -> Nat]
        /\ held \in [Task -> Obj \union {0}]
    BY DEF Init, PC
  <2>2. upd \in [busy: BOOLEAN, todo: Seq(BackendConfig), built: Seq(Obj)]
    BY <1>7 DEF IdleUpd
  <2>3. /\ active \in [Obj -> Int] /\ healthy \in [Obj -> BOOLEAN]
        /\ connGauge \in [Addr -> Int] /\ healthGauge \in [Addr -> BOOLEAN]
        /\ current \in 0..(UsizeMod - 1)
    BY UsizeAssumption DEF Init
  <2> QED BY <1>1, <1>3, <1>5, <1>6, <1>7, <2>1, <2>2, <2>3 DEF Typed
<1>9. Shape
  BY <1>5, <1>7 DEF Init, Shape, Scanning, IdleUpd
<1> QED BY <1>8, <1>9 DEF Inv1

(* Leaving the loop clears a task's locals.                                *)
LEMMA LeaveInv1 ==
    ASSUME Inv1, NEW t \in Task, Leave(t, "refused"),
           UNCHANGED <<backends, current, objVars, gaugeVars, held, updVars, chk>>
    PROVE  Inv1'
<1>1. /\ pc' \in [Task -> PC] /\ snap' \in [Task -> Seq(Obj)]
      /\ start' \in [Task -> Nat] /\ pos' \in [Task -> Nat]
  BY DEF Inv1, Typed, Leave, PC
<1>2. Typed'
  BY <1>1 DEF Inv1, Typed, objVars, gaugeVars, updVars
<1>3. pc' = [pc EXCEPT ![t] = "refused"]
  BY DEF Leave
<1>4. \A u \in Task : pc'[u] \in Scanning => pos'[u] < Len(snap'[u])
  BY <1>3 DEF Inv1, Typed, Shape, Leave, Scanning
<1>5. \A u \in Task : pc'[u] \in {"claim", "count", "connected", "release"}
                          => held'[u] \in 1..nobj'
  BY <1>3 DEF Inv1, Typed, Shape, objVars
<1>6. \A u \in Task : \A i \in DOMAIN snap'[u] : snap'[u][i] <= nobj'
  BY DEF Inv1, Typed, Shape, Leave, objVars
<1>7. Shape'
  BY <1>4, <1>5, <1>6 DEF Inv1, Shape, objVars, updVars
<1> QED BY <1>2, <1>7 DEF Inv1

(* `continue` preserves the invariant.                                     *)
LEMMA SkipInv1 ==
    ASSUME Inv1, NEW t \in Task, pc[t] \in Scanning, Skip(t),
           UNCHANGED <<backends, current, objVars, gaugeVars, held, updVars, chk>>
    PROVE  Inv1'
<1>1. snap[t] \in Seq(Obj) /\ pos[t] \in Nat /\ pos[t] < Len(snap[t])
  BY DEF Inv1, Typed, Shape
<1>2. CASE Leave(t, "refused")
  BY <1>2, LeaveInv1 DEF Scanning
<1>3. CASE /\ pos[t] + 1 < Len(snap[t])
           /\ pos' = [pos EXCEPT ![t] = @ + 1]
           /\ pc' = [pc EXCEPT ![t] = "drain"]
           /\ UNCHANGED <<snap, start>>
  <2>1. pos' \in [Task -> Nat] /\ pc' \in [Task -> PC]
    BY <1>1, <1>3 DEF Inv1, Typed, PC, InCode, Scanning
  <2>2. Typed'
    BY <1>3, <2>1 DEF Inv1, Typed, objVars, gaugeVars, updVars
  <2>3. \A u \in Task : pc'[u] \in Scanning => pos'[u] < Len(snap'[u])
    BY <1>1, <1>3 DEF Inv1, Typed, Shape
  <2>4. \A u \in Task : pc'[u] \in {"claim", "count", "connected", "release"}
                            => held'[u] \in 1..nobj'
    BY <1>3 DEF Inv1, Typed, Shape, objVars
  <2>5. Shape'
    BY <1>3, <2>3, <2>4 DEF Inv1, Shape, objVars, updVars
  <2> QED BY <2>2, <2>5 DEF Inv1
<1> QED BY <1>2, <1>3 DEF Skip

(* Moving a checker to its next step.                                      *)
LEMMA CheckerExcept ==
    ASSUME NEW r \in CheckerState, NEW p \in {"idle", "swap"},
           NEW o \in Obj \union {0}
    PROVE  /\ [r EXCEPT !.pc = p, !.obj = o] \in CheckerState
           /\ [r EXCEPT !.pc = p, !.obj = o].pc = p
           /\ [r EXCEPT !.pc = p, !.obj = o].obj = o
  BY DEF CheckerState

(* Every step preserves Inv1.                                              *)
LEMMA NextInv1 == Inv1 /\ [Next]_vars => Inv1'
<1> SUFFICES ASSUME Inv1, [Next]_vars PROVE Inv1'
  OBVIOUS
<1> USE DEF Inv1
<1>1. ASSUME NEW t \in Task, NextBackend(t) PROVE Inv1'
  <2>1. UNCHANGED <<backends, current, objVars, gaugeVars, start, held, updVars, chk>>
    BY <1>1 DEF NextBackend
  <2>2. CASE pc' = [pc EXCEPT ![t] = "refused"] /\ UNCHANGED <<snap, pos>>
    <3>1. pc' \in [Task -> PC]
      BY <2>2 DEF Typed, PC
    <3>2. \A u \in Task : pc'[u] \in Scanning => pc[u] \in Scanning
      BY <2>2 DEF Typed, Scanning
    <3>3. \A u \in Task : pc'[u] \in {"claim", "count", "connected", "release"}
                            => pc[u] = pc'[u]
      BY <2>2 DEF Typed
    <3>4. Typed'
      BY <2>1, <2>2, <3>1 DEF Typed, objVars, gaugeVars, updVars
    <3>5. Shape'
      BY <2>1, <2>2, <3>2, <3>3 DEF Shape, objVars, gaugeVars, updVars
    <3> QED BY <3>4, <3>5
  <2>3. CASE /\ backends # <<>>
             /\ pc' = [pc EXCEPT ![t] = "ticket"]
             /\ snap' = [snap EXCEPT ![t] = backends]
             /\ pos' = [pos EXCEPT ![t] = 0]
    <3>1. backends \in Seq(Obj) /\ Len(backends) > 0
      BY <2>3 DEF Typed
    <3>2. /\ pc' \in [Task -> PC] /\ snap' \in [Task -> Seq(Obj)]
          /\ pos' \in [Task -> Nat]
      BY <2>3, <3>1 DEF Typed, PC, InCode, Scanning
    <3>3. Typed'
      BY <2>1, <3>2 DEF Typed, objVars, gaugeVars, updVars
    <3>4. \A u \in Task : pc'[u] \in Scanning => pos'[u] < Len(snap'[u])
      BY <2>3, <3>1 DEF Typed, Shape
    <3>5. \A u \in Task : pc'[u] \in {"claim", "count", "connected", "release"}
                            => held'[u] \in 1..nobj'
      BY <2>1, <2>3 DEF Typed, Shape, objVars
    <3>6. \A u \in Task : \A i \in DOMAIN snap'[u] : snap'[u][i] <= nobj'
      BY <2>1, <2>3 DEF Typed, Shape, objVars
    <3>7. Shape'
      BY <2>1, <3>4, <3>5, <3>6 DEF Shape, objVars, updVars
    <3> QED BY <3>3, <3>7
  <2> QED BY <1>1, <2>2, <2>3 DEF NextBackend
<1>17. ASSUME NEW t \in Task, TakeTicket(t) PROVE Inv1'
  <2>1. current \in Nat /\ current' \in 0..(UsizeMod - 1)
    BY <1>17, UsizeAssumption DEF TakeTicket, Typed
  <2>2. pc' \in [Task -> PC] /\ start' \in [Task -> Nat]
    BY <1>17, <2>1 DEF TakeTicket, Typed, PC, InCode, Scanning
  <2>3. Typed'
    BY <1>17, <2>1, <2>2 DEF TakeTicket, Typed, objVars, gaugeVars, updVars
  <2>4. Shape'
    BY <1>17 DEF TakeTicket, Typed, Shape, Scanning, objVars, updVars
  <2> QED BY <2>3, <2>4
<1>2. ASSUME NEW t \in Task, CheckDrain(t) PROVE Inv1'
  <2>1. CASE Skip(t)
    BY <1>2, <2>1, SkipInv1 DEF CheckDrain, Scanning
  <2>2. CASE ~Skip(t)
    BY <1>2, <2>2 DEF CheckDrain, Typed, Shape, PC, InCode, Scanning, objVars,
                      gaugeVars, updVars
  <2> QED BY <2>1, <2>2
<1>3. ASSUME NEW t \in Task, CheckHealth(t) PROVE Inv1'
  <2>1. CASE Skip(t)
    BY <1>3, <2>1, SkipInv1 DEF CheckHealth, Scanning
  <2>2. CASE ~Skip(t)
    BY <1>3, <2>2 DEF CheckHealth, Typed, Shape, PC, InCode, Scanning, objVars,
                      gaugeVars, updVars
  <2> QED BY <2>1, <2>2
<1>4. ASSUME NEW t \in Task, CheckLimit(t) PROVE Inv1'
  <2>1. CASE Full(Cand(t)) /\ Skip(t) /\ UNCHANGED held
    BY <1>4, <2>1, SkipInv1 DEF CheckLimit, Scanning
  <2>2. CASE held' = [held EXCEPT ![t] = Cand(t)] /\ Leave(t, "claim")
    <3>1. Cand(t) \in 1..nobj /\ Cand(t) \in Obj
      BY <1>4, CandType DEF CheckLimit, Scanning
    <3>2. Typed'
      BY <1>4, <2>2, <3>1 DEF CheckLimit, Leave, Typed, PC, InCode, Scanning,
                              objVars, gaugeVars, updVars
    <3>3. Shape'
      BY <1>4, <2>2, <3>1 DEF CheckLimit, Leave, Typed, Shape, Scanning,
                              objVars, gaugeVars, updVars
    <3> QED BY <3>2, <3>3
  <2> QED BY <1>4, <2>1, <2>2 DEF CheckLimit
<1>5. ASSUME NEW t \in Task, Claim(t) PROVE Inv1'
  <2>1. held[t] \in Obj
    BY <1>5 DEF Claim, Typed, Shape, Obj
  <2>2. active' \in [Obj -> Int]
    BY <1>5, <2>1 DEF Claim, Typed
  <2>3. pc' \in [Task -> PC]
    BY <1>5 DEF Claim, Typed, PC, InCode
  <2>4. Typed'
    BY <1>5, <2>1, <2>2, <2>3 DEF Claim, Typed, gaugeVars, updVars
  <2>5. Shape'
    BY <1>5 DEF Claim, Typed, Shape, Scanning, gaugeVars, updVars
  <2> QED BY <2>4, <2>5
<1>6. ASSUME NEW t \in Task, Count(t) PROVE Inv1'
  <2>1. held[t] \in Obj /\ addr[held[t]] \in Addr
    BY <1>6 DEF Count, Typed, Shape, Obj
  <2>2. connGauge' \in [Addr -> Int]
    BY <1>6, <2>1 DEF Count, Typed
  <2>3. pc' \in [Task -> PC]
    BY <1>6 DEF Count, Typed, PC, InCode
  <2>4. Typed'
    BY <1>6, <2>1, <2>2, <2>3 DEF Count, Typed, objVars, updVars
  <2>5. Shape'
    BY <1>6 DEF Count, Typed, Shape, Scanning, objVars, updVars
  <2> QED BY <2>4, <2>5
<1>7. ASSUME NEW t \in Task, DropGuard(t) PROVE Inv1'
  <2>1. held[t] \in Obj
    BY <1>7 DEF DropGuard, Typed, Shape, Obj
  <2>2. active' \in [Obj -> Int]
    BY <1>7, <2>1 DEF DropGuard, Typed
  <2>3. pc' \in [Task -> PC]
    BY <1>7 DEF DropGuard, Typed, PC, InCode
  <2>4. Typed'
    BY <1>7, <2>1, <2>2, <2>3 DEF DropGuard, Typed, gaugeVars, updVars
  <2>5. Shape'
    BY <1>7 DEF DropGuard, Typed, Shape, Scanning, gaugeVars, updVars
  <2> QED BY <2>4, <2>5
<1>8. ASSUME NEW t \in Task, DropGauge(t) PROVE Inv1'
  <2>1. held[t] \in Obj /\ addr[held[t]] \in Addr
    BY <1>8 DEF DropGauge, Typed, Shape, Obj
  <2>2. connGauge' \in [Addr -> Int]
    BY <1>8, <2>1 DEF DropGauge, Typed
  <2>3. pc' \in [Task -> PC]
    BY <1>8 DEF DropGauge, Typed, PC, InCode
  <2>4. Typed'
    BY <1>8, <2>1, <2>2, <2>3 DEF DropGauge, Typed, objVars, updVars
  <2>5. Shape'
    BY <1>8 DEF DropGauge, Typed, Shape, Scanning, objVars, updVars
  <2> QED BY <2>4, <2>5
<1>9. ASSUME NEW cfg \in Configs, UpdateBackends(cfg) PROVE Inv1'
  <2>1. cfg \in Seq(BackendConfig)
    BY ConfigsAssumption
  <2> QED
    BY <1>9, <2>1 DEF UpdateBackends, Typed, Shape, objVars, gaugeVars, taskVars
<1>10. ASSUME KeepEntry PROVE Inv1'
  <2>1. PICK i \in DOMAIN backends :
           /\ drain' = [drain EXCEPT ![backends[i]] = Head(upd.todo).drain]
           /\ upd' = [upd EXCEPT !.todo = Tail(@), !.built = Append(@, backends[i])]
    BY <1>10 DEF KeepEntry
  <2>2. /\ upd.todo \in Seq(BackendConfig) /\ upd.todo # <<>>
        /\ upd.built \in Seq(Obj) /\ upd.busy \in BOOLEAN
    BY <1>10 DEF KeepEntry, Typed
  <2>3. Head(upd.todo) \in BackendConfig /\ Tail(upd.todo) \in Seq(BackendConfig)
    BY <2>2
  <2>4. backends[i] \in Obj /\ backends[i] <= nobj
    BY DEF Typed, Shape
  <2>5. drain' \in [Obj -> BOOLEAN]
    BY <2>1, <2>3 DEF Typed, BackendConfig
  <2>6. /\ upd' \in [busy: BOOLEAN, todo: Seq(BackendConfig), built: Seq(Obj)]
        /\ upd'.built = Append(upd.built, backends[i])
    <3>1. Append(upd.built, backends[i]) \in Seq(Obj)
      BY <2>2, <2>4, AppendProperties
    <3>2. upd' = [busy |-> upd.busy, todo |-> Tail(upd.todo),
                  built |-> Append(upd.built, backends[i])]
      BY <2>1 DEF Typed
    <3> QED BY <2>2, <2>3, <3>1, <3>2
  <2>7. \A j \in DOMAIN upd'.built : upd'.built[j] <= nobj
    BY <2>2, <2>4, <2>6 DEF Shape
  <2> QED
    BY <1>10, <2>5, <2>6, <2>7 DEF KeepEntry, Typed, Shape, gaugeVars, taskVars
<1>11. ASSUME NewEntry PROVE Inv1'
  <2> DEFINE o == nobj + 1
             e == Head(upd.todo)
  <2>1. o \in Obj /\ nobj \in Nat
    BY <1>11, MaxObjAssumption DEF NewEntry, Typed, Obj
  <2>2. /\ upd.todo \in Seq(BackendConfig) /\ upd.todo # <<>>
        /\ upd.built \in Seq(Obj) /\ upd.busy \in BOOLEAN
    BY <1>11 DEF NewEntry, Typed
  <2>3. /\ e.addr \in Addr /\ e.drain \in BOOLEAN
        /\ Tail(upd.todo) \in Seq(BackendConfig)
    <3>1. e \in BackendConfig /\ Tail(upd.todo) \in Seq(BackendConfig)
      BY <2>2
    <3> QED BY <3>1 DEF BackendConfig
  <2>4. /\ nobj' = o
        /\ addr' = [addr EXCEPT ![o] = e.addr]
        /\ active' = [active EXCEPT ![o] = 0]
        /\ healthy' = [healthy EXCEPT ![o] = TRUE]
        /\ drain' = [drain EXCEPT ![o] = e.drain]
        /\ connGauge' = [connGauge EXCEPT ![e.addr] = 0]
        /\ healthGauge' = [healthGauge EXCEPT ![e.addr] = TRUE]
        /\ upd' = [upd EXCEPT !.todo = Tail(@), !.built = Append(@, o)]
        /\ UNCHANGED <<backends, current, taskVars, config, chk>>
    BY <1>11 DEF NewEntry
  <2> HIDE DEF o, e
  <2>5. /\ upd' \in [busy: BOOLEAN, todo: Seq(BackendConfig), built: Seq(Obj)]
        /\ upd'.built = Append(upd.built, o)
    <3>1. Append(upd.built, o) \in Seq(Obj)
      BY <2>1, <2>2, AppendProperties
    <3>2. upd' = [busy |-> upd.busy, todo |-> Tail(upd.todo),
                  built |-> Append(upd.built, o)]
      BY <2>4 DEF Typed
    <3> QED BY <2>2, <2>3, <3>1, <3>2
  <2>6. nobj' \in 0..MaxObj /\ nobj <= nobj'
    BY <2>1, <2>4 DEF Obj, o
  <2>0. \A s \in Seq(Obj) : (\A i \in DOMAIN s : s[i] <= nobj)
                               => (\A i \in DOMAIN s : s[i] <= nobj')
    <3> SUFFICES ASSUME NEW s \in Seq(Obj), NEW i \in DOMAIN s, s[i] <= nobj
                 PROVE  s[i] <= nobj'
      OBVIOUS
    <3>1. s[i] \in Obj
      OBVIOUS
    <3> QED BY <2>1, <2>6, <3>1 DEF Obj
  <2>7. \A j \in DOMAIN upd'.built : upd'.built[j] <= nobj'
    <3>1. upd'.built \in Seq(Obj) /\ o <= nobj'
      BY <2>1, <2>2, <2>4, <2>5 DEF Obj
    <3>2. \A j \in DOMAIN upd.built : upd.built[j] <= nobj'
      BY <2>0, <2>2 DEF Shape
    <3> QED BY <2>2, <2>5, <2>1, <3>1, <3>2
  <2>8. Typed'
    BY <2>1, <2>3, <2>4, <2>5, <2>6 DEF Typed, taskVars
  <2>9. Shape'
    <3>1. \A i \in DOMAIN backends : backends[i] <= nobj'
      BY <2>0 DEF Typed, Shape
    <3>2. \A t \in Task : \A i \in DOMAIN snap[t] : snap[t][i] <= nobj'
      BY <2>0 DEF Typed, Shape
    <3>3. \A t \in Task : held[t] \in 1..nobj => held[t] \in 1..nobj'
      BY <2>1, <2>6
    <3> QED
      BY <2>4, <2>7, <3>1, <3>2, <3>3 DEF Shape, taskVars
  <2> QED BY <2>8, <2>9
<1>12. ASSUME StoreBackends PROVE Inv1'
  BY <1>12 DEF StoreBackends, IdleUpd, Typed, Shape, objVars, gaugeVars, taskVars
<1>13. ASSUME NEW c \in Checker, NEW a \in Addr, NEW h \in BOOLEAN,
              SetBackendHealth(c, a, h)
       PROVE Inv1'
  BY <1>13 DEF SetBackendHealth, Typed, Shape, CheckerState, objVars, taskVars,
               updVars
<1>14. ASSUME NEW c \in Checker, FindBackend(c) PROVE Inv1'
  <2>1. chk[c] \in CheckerState
    BY DEF Typed
  <2>2. CASE chk' = [chk EXCEPT ![c].pc = "idle"]
    BY <1>14, <2>1, <2>2 DEF FindBackend, Typed, Shape, CheckerState, objVars,
                             gaugeVars, taskVars, updVars
  <2>3. ASSUME NEW o \in Obj, chk' = [chk EXCEPT ![c] = [@ EXCEPT !.pc = "swap",
                                                              !.obj = o]]
        PROVE  Inv1'
    <3>2. chk' \in [Checker -> CheckerState]
      BY <2>1, <2>3, CheckerExcept DEF Typed
    <3>3. \A d \in Checker : chk'[d].pc = "swap" => chk'[d].obj \in Obj
      <4>1. chk'[c] = [chk[c] EXCEPT !.pc = "swap", !.obj = o]
        BY <2>3 DEF Typed
      <4>2. chk'[c].obj = o
        BY <2>1, <4>1 DEF CheckerState
      <4>3. \A d \in Checker : d # c => chk'[d] = chk[d]
        BY <2>3 DEF Typed
      <4> QED BY <4>2, <4>3 DEF Shape
    <3> QED BY <1>14, <3>2, <3>3 DEF FindBackend, Typed, Shape, objVars, gaugeVars,
                                     taskVars, updVars
  <2>4. \A i \in DOMAIN backends : backends[i] \in Obj
    BY DEF Typed
  <2> QED BY <1>14, <2>2, <2>3, <2>4 DEF FindBackend
<1>15. ASSUME NEW c \in Checker, SwapHealthy(c) PROVE Inv1'
  <2>1. chk[c] \in CheckerState /\ chk[c].obj \in Obj
    BY <1>15 DEF SwapHealthy, Typed, Shape
  <2>2. healthy' \in [Obj -> BOOLEAN]
    <3>1. chk[c].healthy \in BOOLEAN
      BY <2>1 DEF CheckerState
    <3> QED BY <1>15, <2>1, <3>1 DEF SwapHealthy, Typed
  <2>3. chk' \in [Checker -> CheckerState]
    BY <1>15, <2>1, CheckerExcept DEF SwapHealthy, Typed
  <2>4. \A d \in Checker : chk'[d].pc = "swap" => chk'[d].obj \in Obj
    <3>1. chk'[c] = [chk[c] EXCEPT !.pc = "idle", !.obj = 0]
      BY <1>15 DEF SwapHealthy, Typed
    <3>2. chk'[c].pc = "idle"
      BY <2>1, <3>1 DEF CheckerState
    <3>3. \A d \in Checker : d # c => chk'[d] = chk[d]
      BY <1>15 DEF SwapHealthy, Typed
    <3> QED BY <3>2, <3>3 DEF Shape
  <2> QED BY <1>15, <2>2, <2>3, <2>4 DEF SwapHealthy, Typed, Shape, gaugeVars, taskVars,
                                   updVars
<1>16. ASSUME UNCHANGED vars PROVE Inv1'
  BY <1>16 DEF vars, Typed, Shape, objVars, gaugeVars, taskVars, updVars
<1> QED
  BY <1>1, <1>2, <1>3, <1>4, <1>5, <1>6, <1>7, <1>8, <1>9, <1>10, <1>11, <1>12,
     <1>13, <1>14, <1>15, <1>16, <1>17
     DEF Next, TaskStep, Scan, UpdateStep, CheckerStep

-----------------------------------------------------------------------------
(* The counters.  The invariant follows three sets of tasks: the threads   *)
(* in use, the holders of an object, and its takers, which are its holders *)
(* and the tasks that have passed its limit check but not yet counted.     *)

Counted == {"count", "connected"}
Taking  == {"claim"} \union Counted

Takers(o) == {t \in Task : held[t] = o /\ pc[t] \in Taking}

(* No more tasks are in synchronous code than there are threads.           *)
ThreadsBound == Cardinality(Running) <= NumWorkers

(* The takers of an object, too, keep to the bound LimitOvershoot states.  *)
TakersBound ==
    ConnLimit # NoLimit =>
        \A o \in Obj : Cardinality(Takers(o)) <= ConnLimit + NumWorkers - 1

Inv2 == Inv1 /\ ActiveCountsGuards /\ ThreadsBound /\ TakersBound

(* Every set of tasks is finite, and a smaller set has fewer members.      *)
LEMMA TaskSets ==
    ASSUME NEW S \in SUBSET Task
    PROVE  /\ IsFiniteSet(S) /\ Cardinality(S) \in Nat
           /\ \A R \in SUBSET S : IsFiniteSet(R) /\ Cardinality(R) \in Nat
                                    /\ Cardinality(R) <= Cardinality(S)
           /\ \A t \in Task : /\ Cardinality(S \union {t}) <= Cardinality(S) + 1
                              /\ t \notin S => Cardinality(S \union {t})
                                                  = Cardinality(S) + 1
                              /\ t \in S => Cardinality(S \ {t})
                                                  = Cardinality(S) - 1
<1>1. IsFiniteSet(S)
  BY TaskAssumption, FS_Subset
<1>2. Cardinality(S) \in Nat
  BY <1>1, FS_CardinalityType
<1>3. ASSUME NEW R \in SUBSET S
      PROVE  IsFiniteSet(R) /\ Cardinality(R) \in Nat
             /\ Cardinality(R) <= Cardinality(S)
  BY <1>1, FS_Subset, FS_CardinalityType
<1>4. ASSUME NEW t \in Task
      PROVE  /\ Cardinality(S \union {t}) <= Cardinality(S) + 1
             /\ t \notin S => Cardinality(S \union {t}) = Cardinality(S) + 1
             /\ t \in S => Cardinality(S \ {t}) = Cardinality(S) - 1
  <2>1. Cardinality(S \union {t})
          = IF t \in S THEN Cardinality(S) ELSE Cardinality(S) + 1
    BY <1>1, FS_AddElement
  <2>2. Cardinality(S \ {t})
          = IF t \in S THEN Cardinality(S) - 1 ELSE Cardinality(S)
    BY <1>1, FS_RemoveElement
  <2> QED BY <1>2, <2>1, <2>2
<1> QED BY <1>1, <1>2, <1>3, <1>4

(* Steps that move no task into or out of the counted region.              *)
LEMMA CountersFrame ==
    ASSUME ActiveCountsGuards, active' = active,
           \A u \in Task : /\ pc'[u] \in Counted <=> pc[u] \in Counted
                           /\ pc[u] \in Counted => held'[u] = held[u]
    PROVE  ActiveCountsGuards'
<1>1. ASSUME NEW o \in Obj PROVE Holders(o)' = Holders(o)
  BY DEF Holders, Counted
<1> QED BY <1>1 DEF ActiveCountsGuards

(* Steps that bring no task onto a thread.                                 *)
LEMMA ThreadsFrame ==
    ASSUME ThreadsBound, \A u \in Task : pc'[u] \in InCode => pc[u] \in InCode
    PROVE  ThreadsBound'
<1>1. Running' \subseteq Running /\ Running \subseteq Task
  BY DEF Running
<1>2. /\ Cardinality(Running') <= Cardinality(Running)
      /\ Cardinality(Running') \in Nat /\ Cardinality(Running) \in Nat
  BY <1>1, TaskSets
<1> QED BY <1>2, WorkersAssumption DEF ThreadsBound

(* Steps that make no task a taker.                                        *)
LEMMA TakersFrame ==
    ASSUME TakersBound,
           \A u \in Task : pc'[u] \in Taking => /\ pc[u] \in Taking
                                                /\ held'[u] = held[u]
    PROVE  TakersBound'
<1> SUFFICES ASSUME ConnLimit # NoLimit, NEW o \in Obj
             PROVE  Cardinality(Takers(o)') <= ConnLimit + NumWorkers - 1
  BY DEF TakersBound
<1>1. Takers(o)' \subseteq Takers(o) /\ Takers(o) \subseteq Task
  BY DEF Takers
<1>2. /\ Cardinality(Takers(o)') <= Cardinality(Takers(o))
      /\ Cardinality(Takers(o)') \in Nat /\ Cardinality(Takers(o)) \in Nat
  BY <1>1, TaskSets
<1>3. Cardinality(Takers(o)) <= ConnLimit + NumWorkers - 1
  BY DEF TakersBound
<1> QED BY <1>2, <1>3, WorkersAssumption, LimitAssumption

(* Claim and the guard's drop move the counter with the set of holders.    *)
LEMMA ClaimCounts ==
    ASSUME Inv1, ActiveCountsGuards, NEW t \in Task, Claim(t)
    PROVE  ActiveCountsGuards'
<1>1. /\ held[t] \in Obj /\ pc[t] = "claim" /\ held' = held
      /\ pc' = [pc EXCEPT ![t] = "count"]
      /\ active' = [active EXCEPT ![held[t]] = active[held[t]] + 1]
  BY DEF Claim, Inv1, Typed, Shape, Obj
<1>2. pc \in [Task -> PC] /\ active \in [Obj -> Int]
  BY DEF Inv1, Typed
<1> SUFFICES ASSUME NEW o \in Obj
             PROVE  active'[o] = Cardinality(Holders(o)')
  BY DEF ActiveCountsGuards
<1>3. Holders(o) \subseteq Task /\ t \notin Holders(o)
  BY <1>1 DEF Holders
<1>4. active[o] = Cardinality(Holders(o))
  BY DEF ActiveCountsGuards
<1>5. CASE o = held[t]
  <2>1. Holders(o)' = Holders(o) \union {t}
    BY <1>1, <1>2, <1>5 DEF Holders
  <2>2. Cardinality(Holders(o)') = Cardinality(Holders(o)) + 1
    BY <1>3, <2>1, TaskSets
  <2> QED BY <1>1, <1>2, <1>4, <1>5, <2>2
<1>6. CASE o # held[t]
  <2>1. Holders(o)' = Holders(o)
    BY <1>1, <1>2, <1>6 DEF Holders
  <2> QED BY <1>1, <1>2, <1>4, <1>6, <2>1
<1> QED BY <1>5, <1>6

(* The guard's drop takes away one holder and subtracts one.               *)
LEMMA DropCounts ==
    ASSUME Inv1, ActiveCountsGuards, NEW t \in Task, DropGuard(t)
    PROVE  ActiveCountsGuards'
<1>1. /\ held[t] \in Obj /\ pc[t] = "connected" /\ held' = held
      /\ pc' = [pc EXCEPT ![t] = "release"]
      /\ active' = [active EXCEPT ![held[t]] = active[held[t]] - 1]
  BY DEF DropGuard, Inv1, Typed, Shape, Obj
<1>2. pc \in [Task -> PC] /\ active \in [Obj -> Int]
  BY DEF Inv1, Typed
<1> SUFFICES ASSUME NEW o \in Obj
             PROVE  active'[o] = Cardinality(Holders(o)')
  BY DEF ActiveCountsGuards
<1>3. Holders(o) \subseteq Task
  BY DEF Holders
<1>4. active[o] = Cardinality(Holders(o))
  BY DEF ActiveCountsGuards
<1>5. CASE o = held[t]
  <2>1. Holders(o)' = Holders(o) \ {t} /\ t \in Holders(o)
    BY <1>1, <1>2, <1>5 DEF Holders
  <2>2. Cardinality(Holders(o)') = Cardinality(Holders(o)) - 1
    BY <1>3, <2>1, TaskSets
  <2> QED BY <1>1, <1>2, <1>4, <1>5, <2>2
<1>6. CASE o # held[t]
  <2>1. Holders(o)' = Holders(o)
    BY <1>1, <1>2, <1>6 DEF Holders
  <2> QED BY <1>1, <1>2, <1>4, <1>6, <2>1
<1> QED BY <1>5, <1>6

(* A new object has no holder: no task refers to it yet.                   *)
LEMMA NewEntryCounts ==
    ASSUME Inv1, ActiveCountsGuards, NewEntry
    PROVE  ActiveCountsGuards'
<1>1. /\ nobj + 1 \in Obj /\ nobj \in Nat /\ pc' = pc /\ held' = held
      /\ active' = [active EXCEPT ![nobj + 1] = 0] /\ active \in [Obj -> Int]
  BY MaxObjAssumption DEF NewEntry, Inv1, Typed, Obj, taskVars
<1> SUFFICES ASSUME NEW o \in Obj
             PROVE  active'[o] = Cardinality(Holders(o)')
  BY DEF ActiveCountsGuards
<1>2. Holders(o)' = Holders(o)
  BY <1>1 DEF Holders
<1>3. CASE o = nobj + 1
  <2>1. \A t \in Task : pc[t] \in Counted => held[t] \in 1..nobj
    BY DEF Inv1, Shape, Counted
  <2>2. Holders(o) = {}
    BY <1>1, <1>3, <2>1 DEF Holders, Counted
  <2> QED BY <1>1, <1>2, <1>3, <2>2, FS_EmptySet
<1>4. CASE o # nobj + 1
  BY <1>1, <1>2, <1>4 DEF ActiveCountsGuards
<1> QED BY <1>3, <1>4

(* A step by which a task moves onto a thread takes a free one.            *)
LEMMA ThreadTaken ==
    ASSUME Inv1, ThreadsBound, ThreadFree, NEW t \in Task,
           \A u \in Task : u # t => pc'[u] = pc[u]
    PROVE  ThreadsBound'
<1>1. Running' \subseteq Running \union {t} /\ Running \subseteq Task
  BY DEF Running
<1>2. /\ Cardinality(Running') <= Cardinality(Running \union {t})
      /\ Cardinality(Running \union {t}) <= Cardinality(Running) + 1
      /\ Cardinality(Running') \in Nat /\ Cardinality(Running) \in Nat
      /\ Cardinality(Running \union {t}) \in Nat
  <2>1. Running \union {t} \subseteq Task
    BY <1>1
  <2> QED BY <1>1, <2>1, TaskSets
<1> QED BY <1>2, WorkersAssumption DEF ThreadsBound, ThreadFree

(* The takers of an object after its limit check was passed: its holders,  *)
(* of which there are fewer than the limit, and tasks that are running.    *)
LEMMA PassingTheLimit ==
    ASSUME Inv2, NEW t \in Task, pc[t] = "limit", ThreadsBound',
           ~Full(Cand(t)), held' = [held EXCEPT ![t] = Cand(t)],
           pc' = [pc EXCEPT ![t] = "claim"]
    PROVE  TakersBound'
<1> SUFFICES ASSUME ConnLimit # NoLimit, NEW o \in Obj
             PROVE  Cardinality(Takers(o)') <= ConnLimit + NumWorkers - 1
  BY DEF TakersBound
<1>1. pc \in [Task -> PC] /\ held \in [Task -> Obj \union {0}]
  BY DEF Inv2, Inv1, Typed
<1>2. CASE o = Cand(t)
  <2>1. /\ Takers(o)' \subseteq Holders(o) \union Running'
        /\ Holders(o) \subseteq Task /\ Running' \subseteq Task
        /\ Holders(o) \union Running' \subseteq Task
    BY <1>1 DEF Takers, Taking, Counted, Holders, Running, InCode
  <2>2. /\ IsFiniteSet(Holders(o)) /\ IsFiniteSet(Running')
        /\ Cardinality(Holders(o)) \in Nat /\ Cardinality(Running') \in Nat
        /\ Cardinality(Takers(o)') \in Nat
        /\ Cardinality(Takers(o)') <= Cardinality(Holders(o) \union Running')
    BY <2>1, TaskSets
  <2>3. /\ Cardinality(Holders(o) \union Running')
             = Cardinality(Holders(o)) + Cardinality(Running')
               - Cardinality(Holders(o) \cap Running')
        /\ Cardinality(Holders(o) \cap Running') \in Nat
    <3>1. Holders(o) \cap Running' \in SUBSET Task
      BY <2>1
    <3> QED BY <2>2, <3>1, FS_Union, TaskSets
  <2>4. Cardinality(Holders(o)) < ConnLimit /\ ConnLimit \in Nat
    BY <1>2, <2>2, LimitAssumption DEF Inv2, ActiveCountsGuards, Full
  <2>5. Cardinality(Running') <= NumWorkers
    BY DEF ThreadsBound
  <2> QED BY <2>2, <2>3, <2>4, <2>5, WorkersAssumption
<1>3. CASE o # Cand(t)
  <2>1. Takers(o)' \subseteq Takers(o) /\ Takers(o) \subseteq Task
    BY <1>1, <1>3 DEF Takers
  <2>2. /\ Cardinality(Takers(o)') <= Cardinality(Takers(o))
        /\ Cardinality(Takers(o)') \in Nat /\ Cardinality(Takers(o)) \in Nat
    BY <2>1, TaskSets
  <2>3. Cardinality(Takers(o)) <= ConnLimit + NumWorkers - 1
    BY DEF Inv2, TakersBound
  <2> QED BY <2>2, <2>3, WorkersAssumption, LimitAssumption
<1> QED BY <1>2, <1>3

(* Steps of a task that neither count nor take: everything is framed.      *)
LEMMA QuietStep ==
    ASSUME Inv2, active' = active,
           \A u \in Task :
              \/ pc'[u] = pc[u] /\ held'[u] = held[u]
              \/ /\ pc[u] \in Scanning \union {"release"}
                 /\ pc'[u] \in Scanning \union {"idle", "refused"}
    PROVE  ActiveCountsGuards' /\ ThreadsBound' /\ TakersBound'
<1>1. \A u \in Task : /\ pc'[u] \in Counted <=> pc[u] \in Counted
                      /\ pc[u] \in Counted => held'[u] = held[u]
  BY DEF Counted, Scanning
<1>2. \A u \in Task : pc'[u] \in InCode => pc[u] \in InCode
  BY DEF InCode, Scanning
<1>3. \A u \in Task : pc'[u] \in Taking => pc[u] \in Taking /\ held'[u] = held[u]
  BY DEF Taking, Counted, Scanning
<1> QED BY <1>1, <1>2, <1>3, CountersFrame, ThreadsFrame, TakersFrame DEF Inv2

(* Where the `continue` of the loop may take a task.                       *)
LEMMA SkipGoes ==
    ASSUME Inv1, NEW t \in Task, Skip(t)
    PROVE  /\ \A u \in Task : u # t => pc'[u] = pc[u]
           /\ pc'[t] \in {"drain", "refused"}
  BY DEF Inv1, Typed, Skip, Leave

(* Every step preserves Inv2.                                              *)
LEMMA NextInv2 == Inv2 /\ [Next]_vars => Inv2'
<1> SUFFICES ASSUME Inv2, [Next]_vars
             PROVE  ActiveCountsGuards' /\ ThreadsBound' /\ TakersBound'
  BY NextInv1 DEF Inv2
<1>0. pc \in [Task -> PC] /\ held \in [Task -> Obj \union {0}]
  BY DEF Inv2, Inv1, Typed
<1>1. ASSUME NEW t \in Task, NextBackend(t)
      PROVE  ActiveCountsGuards' /\ ThreadsBound' /\ TakersBound'
  <2>1. /\ ThreadFree /\ active' = active /\ held' = held
        /\ pc[t] \in {"idle", "refused"} /\ pc'[t] \in {"ticket", "refused"}
        /\ \A u \in Task : u # t => pc'[u] = pc[u]
    BY <1>0, <1>1 DEF NextBackend, objVars
  <2>2. ThreadsBound'
    BY <2>1, ThreadTaken DEF Inv2
  <2>3. \A u \in Task : /\ pc'[u] \in Counted <=> pc[u] \in Counted
                        /\ pc[u] \in Counted => held'[u] = held[u]
    BY <2>1 DEF Counted
  <2>4. \A u \in Task : pc'[u] \in Taking => pc[u] \in Taking /\ held'[u] = held[u]
    BY <2>1 DEF Taking, Counted
  <2>5. active' = active
    BY <2>1
  <2>6. ActiveCountsGuards'
    BY <2>3, <2>5, CountersFrame DEF Inv2
  <2> QED BY <2>2, <2>4, <2>6, TakersFrame DEF Inv2
<1>2. ASSUME NEW t \in Task, TakeTicket(t) \/ CheckDrain(t) \/ CheckHealth(t)
      PROVE  ActiveCountsGuards' /\ ThreadsBound' /\ TakersBound'
  <2>1. /\ active' = active /\ held' = held /\ pc[t] \in Scanning
        /\ Skip(t) \/ pc' = [pc EXCEPT ![t] = "drain"]
                   \/ pc' = [pc EXCEPT ![t] = "health"]
                   \/ pc' = [pc EXCEPT ![t] = "limit"]
    BY <1>2 DEF TakeTicket, CheckDrain, CheckHealth, Scanning, objVars
  <2>2. /\ \A u \in Task : u # t => pc'[u] = pc[u]
        /\ pc'[t] \in Scanning \union {"refused"}
    BY <1>0, <2>1, SkipGoes DEF Inv2, Scanning
  <2> QED BY <2>1, <2>2, QuietStep
<1>3. ASSUME NEW t \in Task, CheckLimit(t)
      PROVE  ActiveCountsGuards' /\ ThreadsBound' /\ TakersBound'
  <2>1. pc[t] = "limit" /\ active' = active
    BY <1>3 DEF CheckLimit, objVars
  <2>2. CASE Skip(t) /\ UNCHANGED held
    <3>1. /\ \A u \in Task : u # t => pc'[u] = pc[u]
          /\ pc'[t] \in Scanning \union {"refused"}
      BY <2>2, SkipGoes DEF Inv2, Scanning
    <3> QED BY <2>1, <2>2, <3>1, QuietStep DEF Scanning
  <2>3. CASE /\ ~Full(Cand(t)) /\ held' = [held EXCEPT ![t] = Cand(t)]
             /\ Leave(t, "claim")
    <3>1. pc' = [pc EXCEPT ![t] = "claim"]
      BY <2>3 DEF Leave
    <3>2. /\ pc'[t] = "claim"
          /\ \A u \in Task : u # t => pc'[u] = pc[u] /\ held'[u] = held[u]
      BY <1>0, <2>3, <3>1
    <3>3. \A u \in Task : /\ pc'[u] \in Counted <=> pc[u] \in Counted
                          /\ pc[u] \in Counted => held'[u] = held[u]
      BY <2>1, <3>2 DEF Counted
    <3>4. \A u \in Task : pc'[u] \in InCode => pc[u] \in InCode
      BY <2>1, <3>2 DEF InCode, Scanning
    <3>5. ActiveCountsGuards'
      BY <2>1, <3>3, CountersFrame DEF Inv2
    <3>6. ThreadsBound'
      BY <3>4, ThreadsFrame DEF Inv2
    <3> QED BY <2>1, <2>3, <3>1, <3>5, <3>6, PassingTheLimit
  <2> QED BY <1>3, <2>2, <2>3 DEF CheckLimit
<1>4. ASSUME NEW t \in Task, Claim(t)
      PROVE  ActiveCountsGuards' /\ ThreadsBound' /\ TakersBound'
  <2>1. /\ \A u \in Task : pc'[u] \in InCode => pc[u] \in InCode
        /\ \A u \in Task : pc'[u] \in Taking => pc[u] \in Taking /\ held'[u] = held[u]
    BY <1>0, <1>4 DEF Claim, InCode, Taking, Counted
  <2> QED BY <1>4, <2>1, ClaimCounts, ThreadsFrame, TakersFrame DEF Inv2
<1>5. ASSUME NEW t \in Task, Count(t)
      PROVE  ActiveCountsGuards' /\ ThreadsBound' /\ TakersBound'
  <2>1. active' = active /\ held' = held /\ pc[t] = "count"
        /\ pc' = [pc EXCEPT ![t] = "connected"]
    BY <1>5 DEF Count, objVars
  <2>2. \A u \in Task : /\ pc'[u] \in Counted <=> pc[u] \in Counted
                        /\ pc[u] \in Counted => held'[u] = held[u]
    BY <1>0, <2>1 DEF Counted
  <2>3. \A u \in Task : pc'[u] \in InCode => pc[u] \in InCode
    BY <1>0, <2>1 DEF InCode, Scanning
  <2>4. \A u \in Task : pc'[u] \in Taking => pc[u] \in Taking /\ held'[u] = held[u]
    BY <1>0, <2>1 DEF Taking, Counted
  <2>5. active' = active
    BY <2>1
  <2>6. ActiveCountsGuards'
    BY <2>2, <2>5, CountersFrame DEF Inv2
  <2>7. ThreadsBound'
    BY <2>3, ThreadsFrame DEF Inv2
  <2> QED BY <2>4, <2>6, <2>7, TakersFrame DEF Inv2
<1>6. ASSUME NEW t \in Task, DropGuard(t)
      PROVE  ActiveCountsGuards' /\ ThreadsBound' /\ TakersBound'
  <2>1. /\ ThreadFree /\ \A u \in Task : u # t => pc'[u] = pc[u]
        /\ \A u \in Task : pc'[u] \in Taking => pc[u] \in Taking /\ held'[u] = held[u]
    BY <1>0, <1>6 DEF DropGuard, Taking, Counted
  <2> QED BY <1>6, <2>1, DropCounts, ThreadTaken, TakersFrame DEF Inv2
<1>7. ASSUME NEW t \in Task, DropGauge(t)
      PROVE  ActiveCountsGuards' /\ ThreadsBound' /\ TakersBound'
  <2>1. /\ active' = active /\ pc[t] = "release" /\ pc'[t] = "idle"
        /\ \A u \in Task : u # t => pc'[u] = pc[u] /\ held'[u] = held[u]
    BY <1>0, <1>7 DEF DropGauge, objVars
  <2> QED BY <2>1, QuietStep
<1>8. ASSUME NewEntry
      PROVE  ActiveCountsGuards' /\ ThreadsBound' /\ TakersBound'
  <2>1. pc' = pc /\ held' = held
    BY <1>8 DEF NewEntry, taskVars
  <2> QED BY <1>8, <2>1, NewEntryCounts, ThreadsFrame, TakersFrame DEF Inv2
<1>9. ASSUME active' = active /\ pc' = pc /\ held' = held
      PROVE  ActiveCountsGuards' /\ ThreadsBound' /\ TakersBound'
  BY <1>9, QuietStep
<1>10. ASSUME \/ \E cfg \in Configs : UpdateBackends(cfg)
              \/ KeepEntry \/ StoreBackends
              \/ \E c \in Checker, a \in Addr, h \in BOOLEAN :
                    SetBackendHealth(c, a, h)
              \/ \E c \in Checker : CheckerStep(c)
              \/ UNCHANGED vars
       PROVE  active' = active /\ pc' = pc /\ held' = held
  BY <1>10 DEF UpdateBackends, KeepEntry, StoreBackends, SetBackendHealth,
               CheckerStep, FindBackend, SwapHealthy, vars, objVars, taskVars
<1> QED
  BY <1>1, <1>2, <1>3, <1>4, <1>5, <1>6, <1>7, <1>8, <1>9, <1>10
     DEF Next, TaskStep, Scan, UpdateStep

(* The initial state satisfies Inv2: there is no connection yet.           *)
LEMMA InitInv2 == Init => Inv2
<1> SUFFICES ASSUME Init PROVE Inv2
  OBVIOUS
<1>1. /\ \A t \in Task : pc[t] = "idle"
      /\ \A o \in Obj : active[o] = 0
  BY DEF Init
<1>2. /\ Running = {} /\ \A o \in Obj : Holders(o) = {} /\ Takers(o) = {}
  BY <1>1 DEF Running, InCode, Scanning, Holders, Takers, Taking, Counted
<1>3. ActiveCountsGuards
  BY <1>1, <1>2, FS_EmptySet DEF ActiveCountsGuards
<1>4. ThreadsBound /\ TakersBound
  <2>1. Cardinality(Running) = 0 /\ \A o \in Obj : Cardinality(Takers(o)) = 0
    BY <1>2, FS_EmptySet
  <2> QED BY <2>1, WorkersAssumption, LimitAssumption DEF ThreadsBound, TakersBound
<1> QED BY <1>3, <1>4, InitInv1 DEF Inv2

(* What Inv2 implies: the counters are natural numbers, and overshoot the  *)
(* limit by no more than the other threads.                                *)
LEMMA Inv2Implies == Inv2 => TypeOK /\ LimitOvershoot
<1> SUFFICES ASSUME Inv2 PROVE TypeOK /\ LimitOvershoot
  OBVIOUS
<1>1. ASSUME NEW o \in Obj
      PROVE  /\ active[o] \in Nat
             /\ ConnLimit # NoLimit => active[o] <= ConnLimit + NumWorkers - 1
  <2>1. Holders(o) \subseteq Takers(o) /\ Takers(o) \subseteq Task
    BY DEF Holders, Takers, Taking, Counted
  <2>2. /\ Cardinality(Holders(o)) <= Cardinality(Takers(o))
        /\ Cardinality(Holders(o)) \in Nat /\ Cardinality(Takers(o)) \in Nat
    BY <2>1, TaskSets
  <2>3. active[o] = Cardinality(Holders(o))
    BY DEF Inv2, ActiveCountsGuards
  <2>4. ConnLimit # NoLimit =>
           Cardinality(Takers(o)) <= ConnLimit + NumWorkers - 1
    BY DEF Inv2, TakersBound
  <2> QED BY <2>2, <2>3, <2>4, WorkersAssumption, LimitAssumption
<1>2. active \in [Obj -> Nat]
  BY <1>1 DEF Inv2, Inv1, Typed
<1> QED BY <1>1, <1>2 DEF TypeOK, LimitOvershoot, Inv2, Inv1

-----------------------------------------------------------------------------
(* Inv2 holds in every reachable state.                                    *)
LEMMA Inv2Always == Spec => []Inv2
<1> QED BY InitInv2, NextInv2, PTL DEF Spec

(* Every variable keeps its type; in particular no connection counter is   *)
(* ever decremented below zero, where the AtomicUsize would wrap.          *)
THEOREM TypeCorrect == Spec => []TypeOK
<1> QED BY Inv2Always, Inv2Implies, PTL

(* Through any sequence of reloads, each object's counter is the number of *)
(* its live connection guards: no slot is leaked and none is freed twice.  *)
THEOREM CountersExact == Spec => []ActiveCountsGuards
<1>1. Inv2 => ActiveCountsGuards
  BY DEF Inv2
<1> QED BY <1>1, Inv2Always, PTL

(* The unsynchronised limit check lets a backend exceed its limit by at    *)
(* most the number of runtime threads minus one, whatever the load.        *)
THEOREM OvershootBounded == Spec => []LimitOvershoot
<1> QED BY Inv2Always, Inv2Implies, PTL

-----------------------------------------------------------------------------
(* The refinement of Pool.                                                 *)

(* A step that moves no task into or out of the counted region leaves every*)
(* slot as it is.                                                          *)
LEMMA SlotsFrame ==
    ASSUME \A u \in Task : /\ pc'[u] \in Counted <=> pc[u] \in Counted
                           /\ pc[u] \in Counted => held'[u] = held[u]
    PROVE  SlotMap' = SlotMap
  BY DEF SlotMap, Counted

(* The fetch_add acquires a slot: its task had passed the limit check, and *)
(* the bound on the takers of an object leaves room for it.                *)
LEMMA ClaimAcquires ==
    ASSUME Inv2, NEW t \in Task, Claim(t)
    PROVE  \E o \in Obj : Slots!Acquire(t, o)
<1> DEFINE o == held[t]
<1>1. /\ pc \in [Task -> PC] /\ held' = held /\ pc[t] = "claim"
      /\ pc' = [pc EXCEPT ![t] = "count"]
  BY DEF Claim, Inv2, Inv1, Typed
<1>2. o \in Obj /\ o # 0
  BY <1>1, MaxObjAssumption DEF Inv2, Inv1, Typed, Shape, Obj
<1>3. SlotMap[t] = 0
  BY <1>1 DEF SlotMap
<1>4. SlotMap' = [SlotMap EXCEPT ![t] = o]
  BY <1>1 DEF SlotMap
<1>5. Slots!Room(o)
  <2>1. Slots!Holders(o) = Holders(o)
    BY <1>2 DEF Slots!Holders, Holders, SlotMap
  <2>2. /\ Takers(o) \subseteq Task /\ t \in Takers(o)
        /\ Holders(o) \subseteq Takers(o) \ {t}
    BY <1>1 DEF Holders, Takers, Taking, Counted
  <2>3. /\ Cardinality(Takers(o) \ {t}) = Cardinality(Takers(o)) - 1
        /\ Cardinality(Takers(o)) \in Nat
    BY <2>2, TaskSets
  <2>4. /\ Cardinality(Holders(o)) <= Cardinality(Takers(o) \ {t})
        /\ Cardinality(Holders(o)) \in Nat
    <3>1. Takers(o) \ {t} \subseteq Task
      BY <2>2
    <3> QED BY <2>2, <3>1, TaskSets
  <2>5. ConnLimit # NoLimit =>
           Cardinality(Takers(o)) <= ConnLimit + NumWorkers - 1
    BY <1>2 DEF Inv2, TakersBound
  <2>6. Slots!Cardinality(Holders(o)) = Cardinality(Holders(o))
    BY DEF Slots!Cardinality, Cardinality
  <2> HIDE DEF o
  <2> QED BY <2>1, <2>3, <2>4, <2>5, <2>6, WorkersAssumption, LimitAssumption
          DEF Slots!Room
<1> QED BY <1>2, <1>3, <1>4, <1>5 DEF Slots!Acquire

(* The fetch_sub of a guard releases its slot and no other.                *)
LEMMA DropReleases ==
    ASSUME Inv2, NEW t \in Task, DropGuard(t)
    PROVE  Slots!Release(t)
<1>1. /\ pc \in [Task -> PC] /\ held' = held /\ pc[t] = "connected"
      /\ pc' = [pc EXCEPT ![t] = "release"]
  BY DEF DropGuard, Inv2, Inv1, Typed
<1>2. held[t] # 0
  BY <1>1 DEF Inv2, Inv1, Typed, Shape
<1>3. SlotMap[t] # 0
  BY <1>1, <1>2 DEF SlotMap
<1>4. SlotMap' = [SlotMap EXCEPT ![t] = 0]
  BY <1>1 DEF SlotMap
<1> QED BY <1>3, <1>4 DEF Slots!Release

(* Every step of the balancer is a step of the pool, or leaves it alone.   *)
LEMMA StepOfPool == Inv2 /\ [Next]_vars => [Slots!PoolNext]_SlotMap
<1> SUFFICES ASSUME Inv2, [Next]_vars PROVE Slots!PoolNext \/ SlotMap' = SlotMap
  OBVIOUS
<1>0. pc \in [Task -> PC] /\ held \in [Task -> Obj \union {0}]
  BY DEF Inv2, Inv1, Typed
<1>1. ASSUME NEW t \in Task, Claim(t) PROVE Slots!PoolNext
  BY <1>1, ClaimAcquires DEF Slots!PoolNext
<1>2. ASSUME NEW t \in Task, DropGuard(t) PROVE Slots!PoolNext
  BY <1>2, DropReleases DEF Slots!PoolNext
<1>3. ASSUME NEW t \in Task, NextBackend(t) \/ Count(t) \/ DropGauge(t)
      PROVE  SlotMap' = SlotMap
  BY <1>0, <1>3, SlotsFrame DEF NextBackend, Count, DropGauge, Counted
<1>4. ASSUME NEW t \in Task, Scan(t) PROVE SlotMap' = SlotMap
  <2>1. /\ pc[t] \in Scanning
        /\ \/ Skip(t) /\ held' = held
           \/ held' = held /\ pc' = [pc EXCEPT ![t] = "drain"]
           \/ held' = held /\ pc' = [pc EXCEPT ![t] = "health"]
           \/ held' = held /\ pc' = [pc EXCEPT ![t] = "limit"]
           \/ /\ held' = [held EXCEPT ![t] = Cand(t)]
              /\ pc' = [pc EXCEPT ![t] = "claim"]
    BY <1>4 DEF Scan, TakeTicket, CheckDrain, CheckHealth, CheckLimit, Leave,
                Scanning
  <2>2. \A u \in Task : u # t => pc'[u] = pc[u] /\ held'[u] = held[u]
    BY <1>0, <2>1, SkipGoes DEF Inv2
  <2>3. pc[t] \notin Counted /\ pc'[t] \notin Counted
    BY <1>0, <2>1, SkipGoes DEF Inv2, Counted, Scanning
  <2> QED BY <2>2, <2>3, SlotsFrame
<1>5. ASSUME pc' = pc /\ held' = held PROVE SlotMap' = SlotMap
  BY <1>5, SlotsFrame
<1>6. ASSUME \/ \E cfg \in Configs : UpdateBackends(cfg)
             \/ UpdateStep
             \/ \E c \in Checker, a \in Addr, h \in BOOLEAN :
                   SetBackendHealth(c, a, h)
             \/ \E c \in Checker : CheckerStep(c)
             \/ UNCHANGED vars
      PROVE  pc' = pc /\ held' = held
  BY <1>6 DEF UpdateBackends, UpdateStep, KeepEntry, NewEntry, StoreBackends,
              SetBackendHealth, CheckerStep, FindBackend, SwapHealthy, vars,
              taskVars
<1> QED
  BY <1>1, <1>2, <1>3, <1>4, <1>5, <1>6 DEF Next, TaskStep

(* Before the first connection every slot is free.                         *)
LEMMA InitOfPool == Init => Slots!PoolInit
  BY DEF Init, Slots!PoolInit, SlotMap

(* The balancer implements Pool for every configuration, limit and number  *)
(* of threads: lists, scans, reloads and health reports never move or lose *)
(* a slot, and no object ends up with more than the limit plus the threads *)
(* that can have passed the check together.                                *)
THEOREM PoolImplemented == Spec => ImplementsPool
<1> QED BY InitOfPool, StepOfPool, Inv2Always, PTL
       DEF Spec, ImplementsPool, Slots!PoolSpec

-----------------------------------------------------------------------------
(* The connection gauges.  A connection is shown between the gauge's inc   *)
(* and its dec; the address it is shown under never changes meanwhile,     *)
(* because an object's address is written before anything refers to it.    *)

Shown == {"connected", "release"}

(* How much the gauge of an address differs from the truth.                *)
Excess(a) == connGauge[a] - Cardinality(Gauged(a))

(* Both are whole numbers.                                                 *)
LEMMA GaugeNumbers ==
    ASSUME Inv1, NEW a \in Addr
    PROVE  /\ connGauge[a] \in Int /\ Gauged(a) \subseteq Task
           /\ Cardinality(Gauged(a)) \in Nat
<1>1. Gauged(a) \subseteq Task
  BY DEF Gauged
<1> QED BY <1>1, TaskSets DEF Inv1, Typed

(* Steps that move no task into or out of the shown region.                *)
LEMMA GaugeFrame ==
    ASSUME connGauge' = connGauge,
           \A u \in Task : /\ pc'[u] \in Shown <=> pc[u] \in Shown
                           /\ pc[u] \in Shown => addr'[held'[u]] = addr[held[u]],
           NEW a \in Addr
    PROVE  Excess(a)' = Excess(a)
<1>1. Gauged(a)' = Gauged(a)
  BY DEF Gauged, Shown
<1> QED BY <1>1 DEF Excess

(* The inc shows one connection more, on the gauge and in truth.           *)
LEMMA CountShows ==
    ASSUME Inv1, NEW t \in Task, Count(t), NEW a \in Addr
    PROVE  Excess(a)' = Excess(a)
<1> DEFINE x == addr[held[t]]
<1>1. /\ pc[t] = "count" /\ held' = held /\ addr' = addr
      /\ pc' = [pc EXCEPT ![t] = "connected"]
      /\ connGauge' = [connGauge EXCEPT ![x] = connGauge[x] + 1]
  BY DEF Count, objVars
<1>2. pc \in [Task -> PC] /\ connGauge \in [Addr -> Int]
  BY DEF Inv1, Typed
<1> HIDE DEF x
<1>3. Gauged(a) \subseteq Task /\ t \notin Gauged(a) /\ Cardinality(Gauged(a)) \in Nat
  BY <1>1, GaugeNumbers DEF Gauged
<1>5. CASE a = x
  <2>1. Gauged(a)' = Gauged(a) \union {t}
    BY <1>1, <1>2, <1>5 DEF Gauged, x
  <2>2. Cardinality(Gauged(a)') = Cardinality(Gauged(a)) + 1
    BY <1>3, <2>1, TaskSets
  <2> QED BY <1>1, <1>2, <1>3, <1>5, <2>2 DEF Excess
<1>6. CASE a # x
  <2>1. Gauged(a)' = Gauged(a)
    BY <1>1, <1>2, <1>6 DEF Gauged, x
  <2> QED BY <1>1, <1>2, <1>6, <2>1 DEF Excess
<1> QED BY <1>5, <1>6

(* The dec hides one connection, on the gauge and in truth.                *)
LEMMA DropHides ==
    ASSUME Inv1, NEW t \in Task, DropGauge(t), NEW a \in Addr
    PROVE  Excess(a)' = Excess(a)
<1> DEFINE x == addr[held[t]]
<1>1. /\ pc[t] = "release" /\ held' = [held EXCEPT ![t] = 0] /\ addr' = addr
      /\ pc' = [pc EXCEPT ![t] = "idle"]
      /\ connGauge' = [connGauge EXCEPT ![x] = connGauge[x] - 1]
  BY DEF DropGauge, objVars
<1>2. /\ pc \in [Task -> PC] /\ connGauge \in [Addr -> Int]
      /\ held \in [Task -> Obj \union {0}]
  BY DEF Inv1, Typed
<1> HIDE DEF x
<1>3. Gauged(a) \subseteq Task /\ Cardinality(Gauged(a)) \in Nat
  BY GaugeNumbers
<1>5. CASE a = x
  <2>1. Gauged(a)' = Gauged(a) \ {t} /\ t \in Gauged(a)
    BY <1>1, <1>2, <1>5 DEF Gauged, x
  <2>2. Cardinality(Gauged(a)') = Cardinality(Gauged(a)) - 1
    BY <1>3, <2>1, TaskSets
  <2> QED BY <1>1, <1>2, <1>3, <1>5, <2>2 DEF Excess
<1>6. CASE a # x
  <2>1. Gauged(a)' = Gauged(a)
    BY <1>1, <1>2, <1>6 DEF Gauged, x
  <2> QED BY <1>1, <1>2, <1>6, <2>1 DEF Excess
<1> QED BY <1>5, <1>6

(* A new entry resets the gauge of its address, whatever connections its   *)
(* older objects have; those keep their addresses.                         *)
LEMMA NewEntryResets ==
    ASSUME Inv1, NewEntry, NEW a \in Addr
    PROVE  /\ Gauged(a)' = Gauged(a)
           /\ connGauge'[a] = IF a = Head(upd.todo).addr THEN 0 ELSE connGauge[a]
<1> DEFINE x == Head(upd.todo).addr
           o == nobj + 1
<1>1. /\ nobj \in Nat /\ pc' = pc /\ held' = held /\ addr' = [addr EXCEPT ![o] = x]
      /\ connGauge' = [connGauge EXCEPT ![x] = 0]
      /\ connGauge \in [Addr -> Int] /\ addr \in [Obj -> Addr]
  BY DEF NewEntry, Inv1, Typed, taskVars
<1> HIDE DEF x
<1>2. \A t \in Task : pc[t] \in Shown => addr'[held'[t]] = addr[held[t]]
  <2> SUFFICES ASSUME NEW t \in Task, pc[t] \in Shown
               PROVE  addr'[held[t]] = addr[held[t]]
    BY <1>1
  <2>1. held[t] \in 1..nobj /\ held[t] \in Obj
    BY DEF Inv1, Typed, Shape, Shown
  <2> QED BY <1>1, <2>1
<1>3. Gauged(a)' = Gauged(a)
  BY <1>1, <1>2 DEF Gauged, Shown
<1>4. connGauge'[a] = IF a = x THEN 0 ELSE connGauge[a]
  BY <1>1
<1> QED BY <1>3, <1>4 DEF x

(* No other step changes the difference between gauge and truth.           *)
LEMMA ExcessKept ==
    ASSUME Inv1, [Next]_vars, ~NewEntry, NEW a \in Addr
    PROVE  Excess(a)' = Excess(a)
<1>0. pc \in [Task -> PC] /\ held \in [Task -> Obj \union {0}]
  BY DEF Inv1, Typed
<1>2. ASSUME NEW t \in Task, NextBackend(t) \/ Claim(t) \/ DropGuard(t)
      PROVE  Excess(a)' = Excess(a)
  <2>1. connGauge' = connGauge /\ addr' = addr /\ held' = held
    BY <1>2 DEF NextBackend, Claim, DropGuard, objVars, gaugeVars
  <2>2. \A u \in Task : u # t => pc'[u] = pc[u]
    BY <1>0, <1>2 DEF NextBackend, Claim, DropGuard
  <2>3. pc[t] \in Shown <=> pc'[t] \in Shown
    BY <1>0, <1>2 DEF NextBackend, Claim, DropGuard, Shown
  <2> QED BY <2>1, <2>2, <2>3, GaugeFrame
<1>3. ASSUME NEW t \in Task, Scan(t) PROVE Excess(a)' = Excess(a)
  <2>1. connGauge' = connGauge /\ addr' = addr /\ pc[t] \in Scanning
    BY <1>3 DEF Scan, TakeTicket, CheckDrain, CheckHealth, CheckLimit, objVars,
                gaugeVars, Scanning
  <2>2. \/ Skip(t) /\ held' = held
        \/ held' = held /\ pc' = [pc EXCEPT ![t] = "drain"]
        \/ held' = held /\ pc' = [pc EXCEPT ![t] = "health"]
        \/ held' = held /\ pc' = [pc EXCEPT ![t] = "limit"]
        \/ /\ held' = [held EXCEPT ![t] = Cand(t)]
           /\ pc' = [pc EXCEPT ![t] = "claim"]
    BY <1>3 DEF Scan, TakeTicket, CheckDrain, CheckHealth, CheckLimit, Leave
  <2>3. \A u \in Task : u # t => pc'[u] = pc[u] /\ held'[u] = held[u]
    BY <1>0, <2>2, SkipGoes
  <2>4. pc[t] \notin Shown /\ pc'[t] \notin Shown
    BY <1>0, <2>1, <2>2, SkipGoes DEF Shown, Scanning
  <2> QED BY <2>1, <2>3, <2>4, GaugeFrame
<1>4. ASSUME connGauge' = connGauge, addr' = addr, pc' = pc, held' = held
      PROVE  Excess(a)' = Excess(a)
  BY <1>4, GaugeFrame
<1>5. ASSUME \/ \E cfg \in Configs : UpdateBackends(cfg)
             \/ KeepEntry \/ StoreBackends
             \/ \E c \in Checker, x \in Addr, h \in BOOLEAN :
                   SetBackendHealth(c, x, h)
             \/ \E c \in Checker : CheckerStep(c)
             \/ UNCHANGED vars
      PROVE  connGauge' = connGauge /\ addr' = addr /\ pc' = pc /\ held' = held
  BY <1>5 DEF UpdateBackends, KeepEntry, StoreBackends, SetBackendHealth,
              CheckerStep, FindBackend, SwapHealthy, vars, objVars, gaugeVars,
              taskVars
<1> QED
  BY <1>2, <1>3, <1>4, <1>5, CountShows, DropHides DEF Next, TaskStep, UpdateStep

(* At the start every gauge is right.                                      *)
LEMMA InitGauge ==
    ASSUME Init, NEW a \in Addr
    PROVE  connGauge[a] = 0 /\ Cardinality(Gauged(a)) = 0
<1>1. Gauged(a) = {} /\ connGauge[a] = 0
  BY DEF Init, Gauged
<1> QED BY <1>1, FS_EmptySet

(* No gauge shows connections that do not exist, through any sequence of   *)
(* reloads, removals and returns of a backend.                             *)
THEOREM GaugesNeverHigh == Spec => []GaugeNeverHigh
<1>1. Init => GaugeNeverHigh
  BY InitGauge DEF GaugeNeverHigh
<1>2. Inv2 => Inv1
  BY DEF Inv2
<1>3. ASSUME Inv1, Inv1', GaugeNeverHigh, [Next]_vars PROVE GaugeNeverHigh'
  <2> SUFFICES ASSUME NEW a \in Addr
               PROVE  connGauge'[a] <= Cardinality(Gauged(a)')
    BY DEF GaugeNeverHigh
  <2>1. /\ connGauge[a] \in Int /\ Cardinality(Gauged(a)) \in Nat
        /\ connGauge'[a] \in Int /\ Cardinality(Gauged(a)') \in Nat
        /\ connGauge[a] <= Cardinality(Gauged(a))
    <3>1. connGauge'[a] \in Int
      BY <1>3 DEF Inv1, Typed
    <3>2. Cardinality(Gauged(a)') \in Nat
      <4>1. Gauged(a)' \subseteq Task
        BY DEF Gauged
      <4> QED BY <4>1, TaskSets
    <3> QED BY <1>3, <3>1, <3>2, GaugeNumbers DEF GaugeNeverHigh
  <2>2. CASE NewEntry
    <3>1. /\ Gauged(a)' = Gauged(a)
          /\ connGauge'[a] = 0 \/ connGauge'[a] = connGauge[a]
      BY <1>3, <2>2, NewEntryResets
    <3> QED BY <2>1, <3>1
  <2>3. CASE ~NewEntry
    <3>1. Excess(a)' = Excess(a)
      BY <1>3, <2>3, ExcessKept
    <3>2. connGauge'[a] - Cardinality(Gauged(a)') = connGauge[a] - Cardinality(Gauged(a))
      BY <3>1 DEF Excess
    <3> QED BY <2>1, <3>2
  <2> QED BY <2>2, <2>3
<1>4. Inv1 /\ Inv1' /\ GaugeNeverHigh /\ [Next]_vars => GaugeNeverHigh'
  BY <1>3
<1> QED BY <1>1, <1>2, <1>4, Inv2Always, PTL DEF Spec

(* An address is configured anew only while it has no connection.          *)
NewWhenUnused == NewEntry => Gauged(Head(upd.todo).addr) = {}

(* The gauge of every address is exact in the behaviours in which backends *)
(* are added only when no connection of an older object of their address   *)
(* is left: the reset of balancer.rs:72 is the one source of error.        *)
THEOREM GaugesExact == Spec /\ [][NewWhenUnused]_vars => []ConnGaugeExact
<1>1. Init => ConnGaugeExact
  BY InitGauge DEF ConnGaugeExact
<1>2. Inv2 => Inv1
  BY DEF Inv2
<1>3. ASSUME Inv1, Inv1', ConnGaugeExact, [Next]_vars, [NewWhenUnused]_vars
      PROVE  ConnGaugeExact'
  <2> SUFFICES ASSUME NEW a \in Addr
               PROVE  connGauge'[a] = Cardinality(Gauged(a)')
    BY DEF ConnGaugeExact
  <2>1. /\ connGauge[a] \in Int /\ Cardinality(Gauged(a)) \in Nat
        /\ connGauge'[a] \in Int /\ Cardinality(Gauged(a)') \in Nat
        /\ connGauge[a] = Cardinality(Gauged(a))
    <3>1. connGauge'[a] \in Int
      BY <1>3 DEF Inv1, Typed
    <3>2. Cardinality(Gauged(a)') \in Nat
      <4>1. Gauged(a)' \subseteq Task
        BY DEF Gauged
      <4> QED BY <4>1, TaskSets
    <3> QED BY <1>3, <3>1, <3>2, GaugeNumbers DEF ConnGaugeExact
  <2>2. CASE NewEntry
    <3>1. /\ Gauged(a)' = Gauged(a)
          /\ connGauge'[a] = IF a = Head(upd.todo).addr THEN 0 ELSE connGauge[a]
      BY <1>3, <2>2, NewEntryResets
    <3>2. a = Head(upd.todo).addr => Gauged(a) = {}
      <4>1. nobj' = nobj + 1 /\ nobj \in Nat
        BY <1>3, <2>2 DEF NewEntry, Inv1, Typed
      <4>2. ~UNCHANGED vars
        BY <4>1 DEF vars, objVars
      <4> QED BY <1>3, <2>2, <4>2 DEF NewWhenUnused
    <3> QED BY <2>1, <3>1, <3>2, FS_EmptySet
  <2>3. CASE ~NewEntry
    <3>1. Excess(a)' = Excess(a)
      BY <1>3, <2>3, ExcessKept
    <3>2. connGauge'[a] - Cardinality(Gauged(a)') = connGauge[a] - Cardinality(Gauged(a))
      BY <3>1 DEF Excess
    <3> QED BY <2>1, <3>2
  <2> QED BY <2>2, <2>3
<1>4. Inv1 /\ Inv1' /\ ConnGaugeExact /\ [Next]_vars /\ [NewWhenUnused]_vars
         => ConnGaugeExact'
  BY <1>3
<1> QED BY <1>1, <1>2, <1>4, Inv2Always, PTL DEF Spec

-----------------------------------------------------------------------------
(* Retired objects.  Inv1 suffices: the lists, the list being built and    *)
(* the snapshots are copied from one another, and a new entry's object is  *)
(* numbered above every object allocated before.                           *)

(* A retired object is not in the list a task scans, so the task cannot    *)
(* select it.                                                              *)
LEMMA RetiredUnselected ==
    ASSUME Inv1, NEW o \in Obj, Retired(o), NEW t \in Task, pc[t] \in Scanning
    PROVE  Cand(t) # o
<1>1. Index(t) + 1 \in DOMAIN snap[t]
  BY CandType
<1> QED BY <1>1 DEF Cand, Retired

(* Steps that leave the lists alone, shorten snapshots or copy the         *)
(* published list, and claim no retired object.                            *)
LEMMA RetiredFrame ==
    ASSUME NEW o \in Obj, Retired(o), nobj' = nobj, backends' = backends, upd' = upd,
           \A u \in Task : \/ snap'[u] = snap[u]
                           \/ snap'[u] = backends
                           \/ snap'[u] = <<>>,
           \A u \in Task : pc'[u] = "claim" /\ held'[u] = o =>
                              pc[u] = "claim" /\ held[u] = o
    PROVE  Retired(o)'
  BY DEF Retired

(* A step of a connection task neither revives nor claims a retired object.*)
LEMMA TaskRetired ==
    ASSUME Inv1, NEW o \in Obj, Retired(o), NEW t \in Task,
           NextBackend(t) \/ TaskStep(t) \/ DropGuard(t)
    PROVE  Retired(o)' /\ active'[o] <= active[o]
<1>0. /\ pc \in [Task -> PC] /\ held \in [Task -> Obj \union {0}]
      /\ snap \in [Task -> Seq(Obj)] /\ active \in [Obj -> Int]
  BY DEF Inv1, Typed
<1>1. ASSUME NextBackend(t) PROVE Retired(o)' /\ active'[o] <= active[o]
  <2>1. /\ active' = active /\ held' = held /\ backends' = backends /\ upd' = upd
        /\ nobj' = nobj
    BY <1>1 DEF NextBackend, objVars, updVars
  <2>2. \A u \in Task : snap'[u] = snap[u] \/ snap'[u] = backends
    BY <1>0, <1>1 DEF NextBackend
  <2>3. \A u \in Task : pc'[u] = "claim" => pc[u] = "claim"
    BY <1>0, <1>1 DEF NextBackend
  <2>4. Retired(o)'
    BY <2>1, <2>2, <2>3, RetiredFrame
  <2> QED BY <1>0, <2>1, <2>4
<1>2. ASSUME Scan(t) PROVE Retired(o)' /\ active'[o] <= active[o]
  <2>1. /\ active' = active /\ backends' = backends /\ upd' = upd /\ nobj' = nobj
        /\ pc[t] \in Scanning
    BY <1>2 DEF Scan, TakeTicket, CheckDrain, CheckHealth, CheckLimit, objVars,
                updVars, Scanning
  <2>2. \A u \in Task : snap'[u] = snap[u] \/ snap'[u] = <<>>
    BY <1>0, <1>2 DEF Scan, TakeTicket, CheckDrain, CheckHealth, CheckLimit, Skip,
                      Leave
  <2>3. \/ Skip(t) /\ held' = held
        \/ held' = held /\ pc' = [pc EXCEPT ![t] = "drain"]
        \/ held' = held /\ pc' = [pc EXCEPT ![t] = "health"]
        \/ held' = held /\ pc' = [pc EXCEPT ![t] = "limit"]
        \/ /\ held' = [held EXCEPT ![t] = Cand(t)]
           /\ pc' = [pc EXCEPT ![t] = "claim"]
    BY <1>2 DEF Scan, TakeTicket, CheckDrain, CheckHealth, CheckLimit, Leave
  <2>4. \A u \in Task : u # t => pc'[u] = pc[u] /\ held'[u] = held[u]
    BY <1>0, <2>3, SkipGoes
  <2>5. pc'[t] = "claim" => held'[t] = Cand(t)
    BY <1>0, <2>3, SkipGoes
  <2>6. Cand(t) # o
    BY <2>1, RetiredUnselected
  <2>7. Retired(o)'
    BY <2>1, <2>2, <2>4, <2>5, <2>6, RetiredFrame
  <2> QED BY <1>0, <2>1, <2>7
<1>3. ASSUME Claim(t) PROVE Retired(o)' /\ active'[o] <= active[o]
  <2>1. /\ held' = held /\ backends' = backends /\ upd' = upd /\ nobj' = nobj
        /\ snap' = snap /\ pc[t] = "claim" /\ pc' = [pc EXCEPT ![t] = "count"]
        /\ active' = [active EXCEPT ![held[t]] = active[held[t]] + 1]
    BY <1>3 DEF Claim, updVars
  <2>2. held[t] # o
    BY <2>1 DEF Retired
  <2>3. Retired(o)'
    BY <1>0, <2>1, RetiredFrame
  <2> QED BY <1>0, <2>1, <2>2, <2>3
<1>4. ASSUME DropGuard(t) PROVE Retired(o)' /\ active'[o] <= active[o]
  <2>1. /\ held' = held /\ backends' = backends /\ upd' = upd /\ nobj' = nobj
        /\ snap' = snap /\ pc' = [pc EXCEPT ![t] = "release"]
        /\ active' = [active EXCEPT ![held[t]] = active[held[t]] - 1]
    BY <1>4 DEF DropGuard, updVars
  <2>2. Retired(o)'
    BY <1>0, <2>1, RetiredFrame
  <2> QED BY <1>0, <2>1, <2>2
<1>5. ASSUME Count(t) \/ DropGauge(t) PROVE Retired(o)' /\ active'[o] <= active[o]
  <2>1. /\ backends' = backends /\ upd' = upd /\ nobj' = nobj /\ snap' = snap
        /\ active' = active
    BY <1>5 DEF Count, DropGauge, objVars, updVars
  <2>2. \A u \in Task : pc'[u] = "claim" => pc[u] = "claim" /\ held'[u] = held[u]
    BY <1>0, <1>5 DEF Count, DropGauge
  <2>3. Retired(o)'
    BY <2>1, <2>2, RetiredFrame
  <2> QED BY <1>0, <2>1, <2>3
<1> QED BY <1>1, <1>2, <1>3, <1>4, <1>5 DEF TaskStep

(* A reload neither revives a retired object nor touches its counter.      *)
LEMMA UpdateRetired ==
    ASSUME Inv1, NEW o \in Obj, Retired(o),
           (\E cfg \in Configs : UpdateBackends(cfg)) \/ UpdateStep
    PROVE  Retired(o)' /\ active'[o] <= active[o]
<1>0. /\ active \in [Obj -> Int] /\ nobj \in Nat /\ o \in Nat /\ o <= nobj
      /\ backends \in Seq(Obj) /\ upd.built \in Seq(Obj)
      /\ upd \in [busy: BOOLEAN, todo: Seq(BackendConfig), built: Seq(Obj)]
  BY DEF Inv1, Typed, Retired, Obj
<1>1. ASSUME NEW cfg \in Configs, UpdateBackends(cfg)
      PROVE  Retired(o)' /\ active'[o] <= active[o]
  <2>1. /\ backends' = backends /\ upd'.built = <<>> /\ nobj' = nobj
        /\ snap' = snap /\ pc' = pc /\ held' = held /\ active' = active
    BY <1>1 DEF UpdateBackends, objVars, taskVars
  <2>2. Retired(o)'
    BY <2>1 DEF Retired
  <2> QED BY <1>0, <2>1, <2>2
<1>2. ASSUME NEW x \in Obj, x # o, upd' = [upd EXCEPT !.todo = Tail(@),
                                                      !.built = Append(@, x)]
      PROVE  \A i \in DOMAIN upd'.built : upd'.built[i] # o
  <2>1. upd'.built = Append(upd.built, x)
    BY <1>0, <1>2
  <2>2. (\A i \in DOMAIN upd.built : upd.built[i] # o) /\ x # o
    BY <1>2 DEF Retired
  <2>3. upd.built \in Seq(Obj)
    BY <1>0
  <2> QED BY <2>1, <2>2, <2>3
<1>3. ASSUME KeepEntry PROVE Retired(o)' /\ active'[o] <= active[o]
  <2>1. /\ backends' = backends /\ nobj' = nobj /\ snap' = snap /\ pc' = pc
        /\ held' = held /\ active' = active
    BY <1>3 DEF KeepEntry, taskVars
  <2>2. PICK i \in DOMAIN backends : upd' = [upd EXCEPT !.todo = Tail(@),
                                               !.built = Append(@, backends[i])]
    BY <1>3 DEF KeepEntry
  <2>3. backends[i] \in Obj /\ backends[i] # o
    BY <1>0 DEF Retired
  <2>4. Retired(o)'
    BY <1>2, <2>1, <2>2, <2>3 DEF Retired
  <2> QED BY <1>0, <2>1, <2>4
<1>4. ASSUME NewEntry PROVE Retired(o)' /\ active'[o] <= active[o]
  <2>1. /\ backends' = backends /\ nobj' = nobj + 1 /\ snap' = snap /\ pc' = pc
        /\ held' = held /\ active' = [active EXCEPT ![nobj + 1] = 0]
        /\ upd' = [upd EXCEPT !.todo = Tail(@), !.built = Append(@, nobj + 1)]
    BY <1>4 DEF NewEntry, taskVars
  <2>2. nobj + 1 \in Obj /\ nobj + 1 # o
    BY <1>0, <1>4, MaxObjAssumption DEF NewEntry, Obj
  <2>3. \A i \in DOMAIN upd'.built : upd'.built[i] # o
    BY <1>2, <2>1, <2>2
  <2>4. Retired(o)'
    BY <1>0, <2>1, <2>3 DEF Retired
  <2> QED BY <1>0, <2>1, <2>2, <2>4
<1>5. ASSUME StoreBackends PROVE Retired(o)' /\ active'[o] <= active[o]
  <2>1. /\ backends' = upd.built /\ upd'.built = <<>> /\ nobj' = nobj
        /\ snap' = snap /\ pc' = pc /\ held' = held /\ active' = active
    BY <1>5 DEF StoreBackends, IdleUpd, objVars, taskVars
  <2>2. Retired(o)'
    BY <2>1 DEF Retired
  <2> QED BY <1>0, <2>1, <2>2
<1> QED BY <1>1, <1>3, <1>4, <1>5 DEF UpdateStep

(* A removed backend never comes back and only loses connections, for any  *)
(* number of reloads, also ones that configure its address again.          *)
THEOREM RemovedForGood == Spec => RetiredForGood
<1>1. ASSUME Inv1, [Next]_vars, NEW o \in Obj, Retired(o)
      PROVE  Retired(o)' /\ active'[o] <= active[o]
  <2>1. ASSUME \/ \E c \in Checker, a \in Addr, h \in BOOLEAN :
                     SetBackendHealth(c, a, h)
               \/ \E c \in Checker : CheckerStep(c)
               \/ UNCHANGED vars
        PROVE  Retired(o)' /\ active'[o] <= active[o]
    <3>1. /\ backends' = backends /\ upd' = upd /\ nobj' = nobj /\ snap' = snap
          /\ pc' = pc /\ held' = held /\ active' = active
      BY <2>1 DEF SetBackendHealth, CheckerStep, FindBackend, SwapHealthy, vars,
                  objVars, taskVars, updVars
    <3>2. Retired(o)'
      BY <1>1, <3>1, RetiredFrame
    <3>3. active[o] \in Int
      BY <1>1 DEF Inv1, Typed
    <3> QED BY <3>1, <3>2, <3>3
  <2> QED BY <1>1, <2>1, TaskRetired, UpdateRetired DEF Next
<1>2. Inv2 => Inv1
  BY DEF Inv2
<1>3. Inv1 /\ [Next]_vars =>
         [\A o \in Obj : Retired(o) => Retired(o)' /\ active'[o] <= active[o]]_vars
  BY <1>1
<1> QED BY <1>2, <1>3, Inv2Always, PTL DEF Spec, RetiredForGood

-----------------------------------------------------------------------------
(* The remainder of a number written as a multiple plus a rest.            *)
LEMMA ModUnique ==
    ASSUME NEW n \in Nat \ {0}, NEW q \in Int, NEW k \in 0..(n - 1),
           NEW m \in Int, m = q * n + k
    PROVE  m % n = k
<1> DEFINE d == m \div n
           r == m % n
<1>1. d \in Int /\ r \in 0..(n - 1) /\ m = n * d + r
  OBVIOUS
<1> HIDE DEF d, r
<1>2. n * (q - d) = r - k
  BY <1>1
<1>3. q = d
  <2>1. ASSUME q > d PROVE FALSE
    <3>1. PICK x \in Nat : q - d = x + 1
      <4>1. q - d - 1 \in Nat /\ q - d = (q - d - 1) + 1
        BY <1>1, <2>1
      <4> QED BY <4>1
    <3>2. n * (x + 1) = n * x + n /\ n * x >= 0
      OBVIOUS
    <3>3. n * x + n = r - k
      BY <1>2, <3>1, <3>2
    <3> QED BY <1>1, <3>2, <3>3
  <2>2. ASSUME q < d PROVE FALSE
    <3>1. PICK x \in Nat : d - q = x + 1
      <4>1. d - q - 1 \in Nat /\ d - q = (d - q - 1) + 1
        BY <1>1, <2>2
      <4> QED BY <4>1
    <3>2. n * (x + 1) = n * x + n /\ n * x >= 0
      OBVIOUS
    <3>4. n * (d - q) = k - r
      BY <1>1
    <3>3. n * x + n = k - r
      BY <3>1, <3>2, <3>4
    <3> QED BY <1>1, <3>2, <3>3
  <2> QED BY <1>1, <2>1, <2>2
<1>4. n * (q - d) = 0
  BY <1>1, <1>3
<1>5. r = k
  BY <1>1, <1>2, <1>4
<1> QED BY <1>5 DEF r

(* Among n consecutive numbers one has the remainder k.                    *)
LEMMA ModCovers ==
    ASSUME NEW n \in Nat \ {0}, NEW s \in Nat, NEW k \in 0..(n - 1)
    PROVE  \E i \in 0..(n - 1) : (s + i) % n = k
<1> DEFINE q == s \div n
           r == s % n
<1>1. q \in Nat /\ r \in 0..(n - 1) /\ s = q * n + r
  OBVIOUS
<1> HIDE DEF q, r
<1>2. CASE k >= r
  <2>1. k - r \in 0..(n - 1) /\ s + (k - r) = q * n + k /\ s + (k - r) \in Int
    BY <1>1, <1>2
  <2>2. (s + (k - r)) % n = k
    BY <1>1, <2>1, ModUnique
  <2> QED BY <2>1, <2>2
<1>3. CASE k < r
  <2>1. /\ k - r + n \in 0..(n - 1) /\ s + (k - r + n) = (q + 1) * n + k
        /\ s + (k - r + n) \in Int
    BY <1>1, <1>3
  <2>2. (s + (k - r + n)) % n = k
    BY <1>1, <2>1, ModUnique
  <2> QED BY <2>1, <2>2
<1> QED BY <1>1, <1>2, <1>3

(* Reducing modulo a multiple of n first changes no remainder.             *)
LEMMA ModMod ==
    ASSUME NEW n \in Nat \ {0}, NEW u \in Nat \ {0}, u % n = 0, NEW m \in Nat
    PROVE  (m % u) % n = m % n
<1> DEFINE a == u \div n
           b == m \div u
           r == m % u
           c == r \div n
           k == r % n
<1>1. a \in Int /\ u = a * n
  OBVIOUS
<1>2. b \in Int /\ r \in Nat /\ m = b * u + r
  OBVIOUS
<1>3. c \in Int /\ k \in 0..(n - 1) /\ r = c * n + k
  <2> HIDE DEF r
  <2> QED BY <1>2
<1> HIDE DEF a, b, r, c, k
<1>4. m = b * (a * n) + (c * n + k)
  BY <1>1, <1>2, <1>3
<1>5. b * (a * n) = (b * a) * n /\ b * a \in Int
  BY <1>1, <1>2
<1> DEFINE e == b * a + c
<1>6. m = e * n + k /\ e \in Int
  BY <1>3, <1>4, <1>5
<1>7. m % n = k
  <2> HIDE DEF e
  <2> QED BY <1>3, <1>6, ModUnique
<1> QED BY <1>7 DEF k, r

-----------------------------------------------------------------------------
(* The loop of a call visits every entry of its list, provided that the    *)
(* usize sum start_index + i does not wrap during the call, or that it     *)
(* wraps at a multiple of the length.                                      *)

Looping == {"drain", "health", "limit"}

(* No call is in its loop with a ticket so close to the end of usize that  *)
(* the sum wraps, unless the length of its list divides 2^w.               *)
ScansWhole ==
    \A t \in Task : pc[t] \in Looping =>
        \/ start[t] + Len(snap[t]) <= UsizeMod
        \/ UsizeMod % Len(snap[t]) = 0

(* The loop has still to examine object o.                                 *)
Ahead(t, o) ==
    \E k \in pos[t]..(Len(snap[t]) - 1) :
        snap[t][(((start[t] + k) % UsizeMod) % Len(snap[t])) + 1] = o

(* What has been eligible throughout a call is still ahead of it.          *)
SteadyAhead(t) ==
    /\ pc[t] = "ticket" =>
          /\ pos[t] = 0
          /\ \A o \in steady[t] : \E i \in DOMAIN snap[t] : snap[t][i] = o
    /\ pc[t] \in Looping => \A o \in steady[t] : Ahead(t, o)
    /\ pc[t] \notin Scanning => steady[t] = {}

ScanInv == \A t \in Task : SteadyAhead(t)

(* At its start the loop has every entry of the list ahead.                *)
LEMMA LoopCovers ==
    ASSUME NEW s \in Seq(Obj), NEW b \in Nat, NEW i \in DOMAIN s,
           \/ b + Len(s) <= UsizeMod
           \/ UsizeMod % Len(s) = 0
    PROVE  \E k \in 0..(Len(s) - 1) : (((b + k) % UsizeMod) % Len(s)) + 1 = i
<1> DEFINE n == Len(s)
<1>1. n \in Nat \ {0} /\ i - 1 \in 0..(n - 1) /\ i \in Nat /\ i = (i - 1) + 1
  OBVIOUS
<1>2. UsizeMod \in Nat \ {0}
  BY UsizeAssumption
<1>3. b + n <= UsizeMod \/ UsizeMod % n = 0
  OBVIOUS
<1> HIDE DEF n
<1>4. PICK k \in 0..(n - 1) : (b + k) % n = i - 1
  BY <1>1, ModCovers
<1>5. ((b + k) % UsizeMod) % n = (b + k) % n
  <2>1. CASE b + n <= UsizeMod
    <3>1. b + k \in 0..(UsizeMod - 1)
      BY <1>1, <1>2, <2>1
    <3>2. (b + k) % UsizeMod = b + k
      BY <1>2, <3>1
    <3> QED BY <3>2
  <2>2. CASE UsizeMod % n = 0
    <3>1. b + k \in Nat
      BY <1>1
    <3> QED BY <1>1, <1>2, <2>2, <3>1, ModMod
  <2> QED BY <1>3, <2>1, <2>2
<1>6. (((b + k) % UsizeMod) % n) + 1 = i
  BY <1>1, <1>4, <1>5
<1> QED BY <1>6 DEF n

(* What a step does to the sets of steady objects.                         *)
LEMMA SteadyStep ==
    ASSUME ScanNext, NEW t \in Task
    PROVE  /\ pc'[t] \notin Scanning \union {"refused"} => steady'[t] = {}
           /\ ~Starts(t) => \A o \in steady'[t] : o \in steady[t] /\ Eligible(o)'
           /\ Starts(t) => \A o \in steady'[t] : \E i \in DOMAIN backends : backends[i] = o
  BY DEF ScanNext

(* A task whose own variables do not change.                               *)
LEMMA ScanStill ==
    ASSUME ScanNext, NEW t \in Task, SteadyAhead(t), pc'[t] = pc[t],
           snap'[t] = snap[t], start'[t] = start[t], pos'[t] = pos[t]
    PROVE  SteadyAhead(t)'
<1>1. ~Starts(t)
  BY DEF Starts
<1>2. \A o \in steady'[t] : o \in steady[t]
  BY <1>1, SteadyStep
<1>3. \A o : Ahead(t, o)' <=> Ahead(t, o)
  BY DEF Ahead
<1> QED BY <1>2, <1>3 DEF SteadyAhead

(* `continue`: the entry examined is not eligible after all, so what stays *)
(* steady is further ahead, and after the last entry there is nothing left.*)
LEMMA SkipScan ==
    ASSUME Inv1, ScanNext, NEW t \in Task, SteadyAhead(t), pc[t] \in Looping,
           Skip(t), ~Eligible(Cand(t)), UNCHANGED <<drain, healthy, active>>
    PROVE  SteadyAhead(t)'
<1>0. /\ pc \in [Task -> PC] /\ snap \in [Task -> Seq(Obj)] /\ pos \in [Task -> Nat]
      /\ start \in [Task -> Nat] /\ snap[t] \in Seq(Obj) /\ pos[t] \in Nat
  BY DEF Inv1, Typed
<1>1. ~Starts(t)
  BY DEF Starts, Looping
<1>2. ASSUME NEW o \in steady'[t]
      PROVE  \E k \in (pos[t] + 1)..(Len(snap[t]) - 1) :
                snap[t][(((start[t] + k) % UsizeMod) % Len(snap[t])) + 1] = o
  <2>0. o \in steady[t] /\ Eligible(o)'
    BY <1>1, <1>2, SteadyStep
  <2>5. Eligible(o)
    BY <2>0 DEF Eligible, Full
  <2>1. o \in steady[t] /\ o # Cand(t)
    BY <2>0, <2>5
  <2>2. PICK k \in pos[t]..(Len(snap[t]) - 1) :
           snap[t][(((start[t] + k) % UsizeMod) % Len(snap[t])) + 1] = o
    BY <2>1 DEF SteadyAhead, Ahead
  <2>3. k # pos[t]
    BY <2>1, <2>2 DEF Cand, Index
  <2>4. k \in (pos[t] + 1)..(Len(snap[t]) - 1)
    BY <1>0, <2>3
  <2> QED BY <2>2, <2>4
<1>3. CASE /\ pos' = [pos EXCEPT ![t] = @ + 1]
           /\ pc' = [pc EXCEPT ![t] = "drain"]
           /\ UNCHANGED <<snap, start>>
  <2>1. pc'[t] = "drain" /\ pos'[t] = pos[t] + 1 /\ snap' = snap /\ start' = start
    BY <1>0, <1>3
  <2>2. \A o \in steady'[t] : Ahead(t, o)'
    BY <1>2, <2>1 DEF Ahead
  <2> QED BY <2>1, <2>2 DEF SteadyAhead, Looping, Scanning
<1>4. CASE pos[t] + 1 >= Len(snap[t]) /\ Leave(t, "refused")
  <2>1. pc'[t] = "refused"
    BY <1>0, <1>4 DEF Leave
  <2>2. Len(snap[t]) \in Nat
    BY <1>0
  <2>3. \A k \in (pos[t] + 1)..(Len(snap[t]) - 1) : FALSE
    BY <1>0, <1>4, <2>2
  <2>4. steady'[t] = {}
    BY <1>2, <2>3
  <2> QED BY <2>1, <2>4 DEF SteadyAhead, Looping, Scanning
<1> QED BY <1>3, <1>4 DEF Skip

(* The call loads the list: what can stay steady is in it.                 *)
LEMMA LoadScan ==
    ASSUME Inv1, ScanNext, NEW t \in Task, SteadyAhead(t), NextBackend(t)
    PROVE  SteadyAhead(t)'
<1>0. /\ pc \in [Task -> PC] /\ snap \in [Task -> Seq(Obj)] /\ pos \in [Task -> Nat]
  BY DEF Inv1, Typed
<1>1. pc[t] \in {"idle", "refused"}
  BY DEF NextBackend
<1>2. CASE pc' = [pc EXCEPT ![t] = "refused"]
  <2>1. pc'[t] = "refused" /\ ~Starts(t)
    BY <1>0, <1>2 DEF Starts
  <2>2. steady'[t] = {}
    BY <1>1, <2>1, SteadyStep DEF SteadyAhead, Scanning
  <2> QED BY <2>1, <2>2 DEF SteadyAhead, Looping
<1>3. CASE /\ pc' = [pc EXCEPT ![t] = "ticket"]
           /\ snap' = [snap EXCEPT ![t] = backends]
           /\ pos' = [pos EXCEPT ![t] = 0]
  <2>1. pc'[t] = "ticket" /\ snap'[t] = backends /\ pos'[t] = 0
    BY <1>0, <1>3
  <2>2. Starts(t)
    BY <1>1, <2>1 DEF Starts
  <2>3. \A o \in steady'[t] : \E i \in DOMAIN snap'[t] : snap'[t][i] = o
    BY <2>1, <2>2, SteadyStep
  <2> QED BY <2>1, <2>3 DEF SteadyAhead, Looping, Scanning
<1> QED BY <1>2, <1>3 DEF NextBackend

(* The ticket decides where the loop starts; all entries are ahead.        *)
LEMMA TicketScan ==
    ASSUME Inv1, Inv1', ScanNext, ScansWhole', NEW t \in Task, SteadyAhead(t),
           TakeTicket(t)
    PROVE  SteadyAhead(t)'
<1>1. /\ pc[t] = "ticket" /\ pc'[t] = "drain" /\ snap' = snap /\ pos' = pos
      /\ snap[t] \in Seq(Obj) /\ start'[t] \in Nat /\ pos[t] = 0
  BY DEF TakeTicket, Inv1, Typed, SteadyAhead
<1>2. ~Starts(t)
  BY <1>1 DEF Starts
<1>3. start'[t] + Len(snap[t]) <= UsizeMod \/ UsizeMod % Len(snap[t]) = 0
  BY <1>1 DEF ScansWhole, Looping
<1>4. ASSUME NEW o \in steady'[t] PROVE Ahead(t, o)'
  <2>1. PICK i \in DOMAIN snap[t] : snap[t][i] = o
    BY <1>1, <1>2, SteadyStep DEF SteadyAhead
  <2>2. PICK k \in 0..(Len(snap[t]) - 1) :
           (((start'[t] + k) % UsizeMod) % Len(snap[t])) + 1 = i
    BY <1>1, <1>3, LoopCovers
  <2> QED BY <1>1, <2>1, <2>2 DEF Ahead
<1> QED BY <1>1, <1>4 DEF SteadyAhead, Scanning, Looping

(* The three checks of the loop body.                                      *)
LEMMA CheckScan ==
    ASSUME Inv1, ScanNext, NEW t \in Task, SteadyAhead(t),
           CheckDrain(t) \/ CheckHealth(t) \/ CheckLimit(t)
    PROVE  SteadyAhead(t)'
<1>0. pc \in [Task -> PC] /\ pc[t] \in Looping
  BY DEF Inv1, Typed, CheckDrain, CheckHealth, CheckLimit, Looping
<1>1. drain' = drain /\ healthy' = healthy /\ active' = active
  BY DEF CheckDrain, CheckHealth, CheckLimit, objVars
<1>2. CASE Skip(t) /\ ~Eligible(Cand(t))
  BY <1>0, <1>1, <1>2, SkipScan
<1>3. CASE /\ pc'[t] \in Looping /\ UNCHANGED <<snap, start, pos>>
  <2>1. ~Starts(t)
    BY <1>0 DEF Starts, Looping
  <2>2. \A o \in steady'[t] : o \in steady[t]
    BY <2>1, SteadyStep
  <2>3. \A o : Ahead(t, o)' <=> Ahead(t, o)
    BY <1>3 DEF Ahead
  <2> QED BY <1>0, <1>3, <2>2, <2>3 DEF SteadyAhead, Looping, Scanning
<1>4. CASE pc'[t] = "claim"
  <2>1. steady'[t] = {}
    BY <1>4, SteadyStep DEF Scanning
  <2> QED BY <1>4, <2>1 DEF SteadyAhead, Looping
<1>5. CASE CheckDrain(t)
  <2>1. CASE drain[Cand(t)] /\ Skip(t)
    BY <1>2, <2>1 DEF Eligible
  <2>2. CASE pc' = [pc EXCEPT ![t] = "health"] /\ UNCHANGED <<snap, start, pos>>
    BY <1>0, <1>3, <2>2 DEF Looping
  <2> QED BY <1>5, <2>1, <2>2 DEF CheckDrain
<1>6. CASE CheckHealth(t)
  <2>1. CASE ~healthy[Cand(t)] /\ Skip(t)
    BY <1>2, <2>1 DEF Eligible
  <2>2. CASE pc' = [pc EXCEPT ![t] = "limit"] /\ UNCHANGED <<snap, start, pos>>
    BY <1>0, <1>3, <2>2 DEF Looping
  <2> QED BY <1>6, <2>1, <2>2 DEF CheckHealth
<1>7. CASE CheckLimit(t)
  <2>1. CASE Full(Cand(t)) /\ Skip(t)
    BY <1>2, <2>1 DEF Eligible
  <2>2. CASE Leave(t, "claim")
    BY <1>0, <1>4, <2>2 DEF Leave
  <2> QED BY <1>7, <2>1, <2>2 DEF CheckLimit
<1> QED BY <1>5, <1>6, <1>7

(* Every step keeps what is steady ahead of the calls, or makes the call   *)
(* end with nothing steady.                                                *)
LEMMA NextScan ==
    Inv1 /\ Inv1' /\ ScanInv /\ ScansWhole' /\ [ScanNext]_<<vars, steady>> => ScanInv'
<1> SUFFICES ASSUME Inv1, Inv1', ScanInv, ScansWhole', [ScanNext]_<<vars, steady>>,
                    NEW u \in Task
             PROVE  SteadyAhead(u)'
  BY DEF ScanInv
<1>0. SteadyAhead(u)
  BY DEF ScanInv
<1>1. CASE UNCHANGED <<vars, steady>>
  BY <1>0, <1>1 DEF vars, taskVars, SteadyAhead, Ahead
<1>2. CASE ScanNext
  <2>0. /\ pc \in [Task -> PC] /\ snap \in [Task -> Seq(Obj)]
        /\ start \in [Task -> Nat] /\ pos \in [Task -> Nat]
    BY DEF Inv1, Typed
  <2>1. ASSUME NEW t \in Task, NextBackend(t) \/ TaskStep(t) \/ DropGuard(t), u # t
        PROVE  SteadyAhead(u)'
    <3>1. /\ pc'[u] = pc[u] /\ snap'[u] = snap[u] /\ start'[u] = start[u]
          /\ pos'[u] = pos[u]
      BY <2>0, <2>1 DEF NextBackend, TaskStep, Scan, TakeTicket, CheckDrain,
                        CheckHealth, CheckLimit, Skip, Leave, Claim, Count,
                        DropGuard, DropGauge
    <3> QED BY <1>0, <1>2, <3>1, ScanStill
  <2>2. ASSUME Claim(u) \/ Count(u) \/ DropGuard(u) \/ DropGauge(u)
        PROVE  SteadyAhead(u)'
    <3>1. pc'[u] \in {"count", "connected", "release", "idle"}
      BY <2>0, <2>2 DEF Claim, Count, DropGuard, DropGauge
    <3>2. steady'[u] = {}
      BY <1>2, <3>1, SteadyStep DEF Scanning
    <3> QED BY <3>1, <3>2 DEF SteadyAhead, Looping
  <2>3. ASSUME NextBackend(u) \/ TaskStep(u) \/ DropGuard(u)
        PROVE  SteadyAhead(u)'
    BY <1>0, <1>2, <2>2, <2>3, LoadScan, TicketScan, CheckScan DEF TaskStep, Scan
  <2>4. ASSUME \/ \E cfg \in Configs : UpdateBackends(cfg)
               \/ UpdateStep
               \/ \E c \in Checker, a \in Addr, h \in BOOLEAN :
                     SetBackendHealth(c, a, h)
               \/ \E c \in Checker : CheckerStep(c)
        PROVE  SteadyAhead(u)'
    <3>1. pc' = pc /\ snap' = snap /\ start' = start /\ pos' = pos
      BY <2>4 DEF UpdateBackends, UpdateStep, KeepEntry, NewEntry, StoreBackends,
                  SetBackendHealth, CheckerStep, FindBackend, SwapHealthy, taskVars
    <3> QED BY <1>0, <1>2, <3>1, ScanStill
  <2>5. Next
    BY <1>2 DEF ScanNext
  <2> QED BY <2>1, <2>3, <2>4, <2>5 DEF Next
<1> QED BY <1>1, <1>2

(* The recording of steady objects does not restrict the balancer.         *)
LEMMA ScanIsBalancer == ScanSpec => Spec
<1>1. ScanInit => Init
  BY DEF ScanInit
<1>2. [ScanNext]_<<vars, steady>> => [Next]_vars
  BY DEF ScanNext
<1> QED BY <1>1, <1>2, PTL DEF ScanSpec, Spec

(* In every behaviour in which no scan comes so close to the end of usize  *)
(* that start_index + i wraps (or the lengths divide 2^w), a call is       *)
(* refused only if no backend of its list stayed eligible throughout.      *)
THEOREM RefusalsJustified ==
    ScanSpec /\ []ScansWhole => []RefusedOnlyIfUnavailable
<1>1. ScanInit => ScanInv
  BY DEF ScanInit, Init, ScanInv, SteadyAhead, Looping, Scanning
<1>2. ScanInv => RefusedOnlyIfUnavailable
  BY DEF ScanInv, SteadyAhead, RefusedOnlyIfUnavailable, Scanning
<1>3. Inv2 => Inv1
  BY DEF Inv2
<1>4. ScanSpec => []Inv1
  BY <1>3, ScanIsBalancer, Inv2Always, PTL
<1>5. ScanSpec /\ []ScansWhole => []ScanInv
  BY <1>1, <1>4, NextScan, PTL DEF ScanSpec
<1> QED BY <1>2, <1>5, PTL

-----------------------------------------------------------------------------
(* Round robin.  The theorem is about stretches in which the start-up list *)
(* stays in force with every backend eligible, and the ticket counter does *)
(* not wrap, unless the length of the list divides 2^w.                    *)
Undisturbed ==
    /\ backends = [i \in DOMAIN picks |-> i]
    /\ \A o \in DOMAIN picks : Eligible(o)
    /\ UsizeMod % Len(backends) = 0 \/ current + 1 < UsizeMod

(* The calls whose ticket has decided for object o, but that have not      *)
(* selected it yet.                                                        *)
Owed(o) ==
    {t \in Task : pc[t] \in Looping /\ (start[t] % Len(backends)) + 1 = o}

(* One for the objects the present round of tickets has reached.           *)
Reached(o) == IF o <= current % Len(backends) THEN 1 ELSE 0

(* Selections made and owed are, up to the present round, the same for all.*)
Balanced ==
    \E c \in Int : \A o \in DOMAIN picks :
        picks[o] + Cardinality(Owed(o)) = c + Reached(o)

(* Every call scans the list in force from its ticket on and has skipped   *)
(* nothing.                                                                *)
Straight ==
    /\ \A t \in Task : pc[t] \in Scanning => snap[t] = backends /\ pos[t] = 0
    /\ \A t \in Task : pc[t] \in Looping => start[t] \in 0..(UsizeMod - 1)

RRInv ==
    /\ picks \in [DOMAIN picks -> Nat] /\ DOMAIN picks # {}
    /\ Straight
    /\ Balanced

(* A set of natural numbers has a least one.                               *)
LEMMA MinNat ==
    ASSUME NEW S \in SUBSET Nat, S # {}
    PROVE  Min(S) \in S /\ \A y \in S : Min(S) <= y
<1> DEFINE R == OpToRel(<, Nat)
<1>1. IsWellFoundedOn(R, Nat)
  BY NatLessThanWellFounded
<1>2. \A x, y \in Nat : y < x => <<y, x>> \in R
  BY DEF OpToRel
<1> HIDE DEF R
<1>3. PICK x \in S : \A y \in S : ~ (<<y, x>> \in R)
  BY <1>1, WFMin, Zenon
<1>4. ASSUME NEW y \in S PROVE x <= y
  <2>1. x \in Nat /\ y \in Nat
    OBVIOUS
  <2>2. ~(y < x)
    BY <1>2, <1>3, <2>1
  <2> QED BY <2>1, <2>2
<1> QED BY <1>4 DEF Min

(* The list and what Undisturbed says of it.                               *)
LEMMA ListFixed ==
    ASSUME Inv1, Undisturbed
    PROVE  /\ Len(backends) \in Nat
           /\ DOMAIN picks = 1..Len(backends)
           /\ \A o \in 1..Len(backends) : backends[o] = o /\ Eligible(o)
<1>1. backends \in Seq(Obj)
  BY DEF Inv1, Typed
<1>2. DOMAIN backends = DOMAIN picks /\ \A o \in DOMAIN picks : backends[o] = o
  BY DEF Undisturbed
<1> QED BY <1>1, <1>2 DEF Undisturbed

(* What a step does to the counts.                                         *)
LEMMA PicksStep ==
    ASSUME Inv1, Undisturbed, RRInv, RRNext
    PROVE  /\ picks' \in [DOMAIN picks -> Nat]
           /\ DOMAIN picks' = DOMAIN picks
           /\ \E m \in Nat : \A o \in DOMAIN picks :
                 picks'[o] = (IF Picked(o) THEN picks[o] + 1 ELSE picks[o]) - m
<1> DEFINE D == DOMAIN picks
           raw == [o \in D |-> IF Picked(o) THEN picks[o] + 1 ELSE picks[o]]
<1>1. D # {}
  BY DEF RRInv
<1>2. raw \in [D -> Nat] /\ DOMAIN raw = D
  BY DEF RRInv
<1>3. picks' = [o \in D |-> raw[o] - Min({raw[p] : p \in D})]
  BY <1>2 DEF RRNext
<1>4. \A o \in D : raw[o] = IF Picked(o) THEN picks[o] + 1 ELSE picks[o]
  OBVIOUS
<1> DEFINE S == {raw[o] : o \in D}
           m == Min(S)
<1> HIDE DEF raw, D
<1>5. S \in SUBSET Nat /\ S # {}
  BY <1>1, <1>2
<1>6. \A o \in D : raw[o] \in S
  OBVIOUS
<1>7. picks' = [o \in D |-> raw[o] - m]
  BY <1>3
<1> HIDE DEF S
<1>8. m \in S /\ \A y \in S : m <= y
  BY <1>5, MinNat
<1>9. m \in Nat
  BY <1>5, <1>8
<1> HIDE DEF m
<1>10. \A o \in D : raw[o] - m \in Nat
  <2> SUFFICES ASSUME NEW o \in D PROVE raw[o] - m \in Nat
    OBVIOUS
  <2>1. m <= raw[o] /\ raw[o] \in Nat
    BY <1>2, <1>6, <1>8
  <2> QED BY <1>9, <2>1
<1>11. picks' \in [D -> Nat] /\ \A o \in D : picks'[o] = raw[o] - m
  BY <1>7, <1>10
<1>12. \A o \in D :
          picks'[o] = (IF Picked(o) THEN picks[o] + 1 ELSE picks[o]) - m
  BY <1>4, <1>11
<1> QED BY <1>9, <1>11, <1>12 DEF D

(* The list is the same before and after a step, and not empty.            *)
LEMMA ListKept ==
    ASSUME Inv1, Undisturbed, Undisturbed', RRInv, RRNext
    PROVE  /\ backends' = backends /\ DOMAIN picks' = DOMAIN picks
           /\ Len(backends) \in Nat \ {0} /\ DOMAIN picks = 1..Len(backends)
           /\ \A o \in 1..Len(backends) : backends[o] = o /\ Eligible(o)
<1>1. DOMAIN picks' = DOMAIN picks
  BY PicksStep
<1>2. backends' = backends
  BY <1>1 DEF Undisturbed
<1>3. /\ Len(backends) \in Nat /\ DOMAIN picks = 1..Len(backends)
      /\ \A o \in 1..Len(backends) : backends[o] = o /\ Eligible(o)
  BY ListFixed
<1>4. Len(backends) # 0
  BY <1>3 DEF RRInv
<1> QED BY <1>1, <1>2, <1>3, <1>4

(* If counts and debts together grow alike for all objects, they stay      *)
(* balanced.                                                               *)
LEMMA BalancedStep ==
    ASSUME Inv1, Undisturbed, Undisturbed', RRInv, RRNext, NEW e \in Int,
           \A o \in DOMAIN picks :
              /\ Cardinality(Owed(o)) \in Nat /\ Cardinality(Owed(o)') \in Nat
              /\ Reached(o) \in Int /\ Reached(o)' \in Int
              /\ (IF Picked(o) THEN 1 ELSE 0) + Cardinality(Owed(o)')
                   = Cardinality(Owed(o)) + e + Reached(o)' - Reached(o)
    PROVE  Balanced'
<1> DEFINE D == DOMAIN picks
<1>1. PICK c \in Int : \A o \in D : picks[o] + Cardinality(Owed(o)) = c + Reached(o)
  BY DEF RRInv, Balanced
<1>2. PICK m \in Nat : \A o \in D :
         picks'[o] = (IF Picked(o) THEN picks[o] + 1 ELSE picks[o]) - m
  BY PicksStep
<1>3. DOMAIN picks' = D
  BY PicksStep
<1>4. ASSUME NEW o \in D
      PROVE  picks'[o] + Cardinality(Owed(o)') = (c + e - m) + Reached(o)'
  <2> DEFINE w  == Cardinality(Owed(o))
             w2 == Cardinality(Owed(o)')
             r  == Reached(o)
             r2 == Reached(o)'
             q  == IF Picked(o) THEN 1 ELSE 0
             x  == picks[o]
             x2 == picks'[o]
  <2>1. w \in Nat /\ w2 \in Nat /\ r \in Int /\ r2 \in Int
    OBVIOUS
  <2>2. q + w2 = w + e + r2 - r /\ q \in {0, 1}
    OBVIOUS
  <2>3. x \in Nat
    BY DEF RRInv
  <2>4. x + w = c + r
    BY <1>1
  <2>5. x2 = x + q - m
    <3>1. CASE Picked(o)
      BY <1>2, <2>3, <3>1
    <3>2. CASE ~Picked(o)
      BY <1>2, <2>3, <3>2
    <3> QED BY <3>1, <3>2
  <2> HIDE DEF w, w2, r, r2, q, x, x2
  <2>6. x2 + w2 = (c + e - m) + r2
    BY <2>1, <2>2, <2>3, <2>4, <2>5
  <2> QED BY <2>6 DEF w2, r2, x2
<1>5. c + e - m \in Int
  OBVIOUS
<1> QED BY <1>3, <1>4, <1>5 DEF Balanced

(* The debts and the progress of the round are numbers.                    *)
LEMMA OwedNumbers ==
    ASSUME NEW o
    PROVE  /\ Owed(o) \subseteq Task /\ Owed(o)' \subseteq Task
           /\ Cardinality(Owed(o)) \in Nat /\ Cardinality(Owed(o)') \in Nat
           /\ Reached(o) \in {0, 1} /\ Reached(o)' \in {0, 1}
<1>1. Owed(o) \subseteq Task /\ Owed(o)' \subseteq Task
  BY DEF Owed
<1>2. Cardinality(Owed(o)) \in Nat /\ Cardinality(Owed(o)') \in Nat
  BY <1>1, TaskSets
<1> QED BY <1>1, <1>2 DEF Reached

(* Steps that take no ticket and select nothing.                           *)
LEMMA SameRound ==
    ASSUME Inv1, Undisturbed, Undisturbed', RRInv, RRNext, current' = current,
           \A u \in Task : /\ pc'[u] \in Looping <=> pc[u] \in Looping
                           /\ pc[u] \in Looping => start'[u] = start[u]
    PROVE  Balanced'
<1>1. backends' = backends
  BY ListKept
<1>2. ASSUME NEW o \in DOMAIN picks
      PROVE  Owed(o)' = Owed(o) /\ Reached(o)' = Reached(o) /\ ~Picked(o)
  BY <1>1 DEF Owed, Reached, Picked, Looping
<1>3. ASSUME NEW o \in DOMAIN picks
      PROVE  /\ Cardinality(Owed(o)) \in Nat /\ Cardinality(Owed(o)') \in Nat
             /\ Reached(o) \in Int /\ Reached(o)' \in Int
             /\ (IF Picked(o) THEN 1 ELSE 0) + Cardinality(Owed(o)')
                  = Cardinality(Owed(o)) + 0 + Reached(o)' - Reached(o)
  BY <1>2, OwedNumbers
<1> QED BY <1>3, BalancedStep

(* The next ticket is the next one of the round, or begins a new round.    *)
LEMMA NextTicket ==
    ASSUME NEW n \in Nat \ {0}, NEW c \in 0..(UsizeMod - 1),
           UsizeMod % n = 0 \/ c + 1 < UsizeMod
    PROVE  ((c + 1) % UsizeMod) % n = IF (c % n) + 1 = n THEN 0 ELSE (c % n) + 1
<1>0. UsizeMod \in Nat \ {0} /\ c \in Nat /\ c + 1 \in Nat
  BY UsizeAssumption
<1>1. ((c + 1) % UsizeMod) % n = (c + 1) % n
  <2>1. CASE UsizeMod % n = 0
    BY <1>0, <2>1, ModMod
  <2>2. CASE c + 1 < UsizeMod
    <3>1. (c + 1) % UsizeMod = c + 1
      BY <1>0, <2>2
    <3> QED BY <3>1
  <2> QED BY <2>1, <2>2
<1> DEFINE q == c \div n
           k == c % n
<1>2. q \in Int /\ k \in 0..(n - 1) /\ c = q * n + k
  BY <1>0
<1> HIDE DEF q, k
<1>3. CASE k + 1 = n
  <2> DEFINE q1 == q + 1
             m == c + 1
             z == 0
  <2>1. q1 \in Int /\ m \in Int /\ m = q1 * n + z /\ z \in 0..(n - 1)
    <3>1. (q + 1) * n = q * n + n
      BY <1>2
    <3> QED BY <1>0, <1>2, <1>3, <3>1
  <2> HIDE DEF q1, m, z
  <2>2. m % n = z
    BY <2>1, ModUnique
  <2> QED BY <1>1, <1>3, <2>2 DEF k, m, z
<1>4. CASE k + 1 # n
  <2> DEFINE k1 == k + 1
  <2>1. k1 \in 0..(n - 1) /\ c + 1 = q * n + k1
    BY <1>2, <1>4
  <2> HIDE DEF k1
  <2>2. (c + 1) % n = k1
    BY <1>0, <1>2, <2>1, ModUnique
  <2> QED BY <1>1, <1>4, <2>2 DEF k, k1
<1> QED BY <1>3, <1>4

(* A ticket makes its call owe a selection to the next object in turn.     *)
LEMMA TicketRound ==
    ASSUME Inv1, Undisturbed, Undisturbed', RRInv, RRNext, NEW t \in Task,
           TakeTicket(t)
    PROVE  Balanced'
<1> DEFINE n == Len(backends)
           k == current % n
<1>1. /\ backends' = backends /\ n \in Nat \ {0} /\ DOMAIN picks = 1..n
  BY ListKept
<1>2. /\ pc[t] = "ticket" /\ pc' = [pc EXCEPT ![t] = "drain"]
      /\ start' = [start EXCEPT ![t] = current]
      /\ current' = (current + 1) % UsizeMod
      /\ current \in 0..(UsizeMod - 1)
      /\ pc \in [Task -> PC] /\ start \in [Task -> Nat]
  BY DEF TakeTicket, Inv1, Typed
<1>3. k \in 0..(n - 1)
  <2>1. current \in Nat
    BY <1>2, UsizeAssumption
  <2> HIDE DEF n
  <2> QED BY <1>1, <2>1
<1>4. current' % n = IF k + 1 = n THEN 0 ELSE k + 1
  <2>1. UsizeMod % n = 0 \/ current + 1 < UsizeMod
    BY DEF Undisturbed
  <2> QED BY <1>1, <1>2, <2>1, NextTicket
<1>5. ASSUME NEW o \in DOMAIN picks
      PROVE  /\ Reached(o) = IF o <= k THEN 1 ELSE 0
             /\ Reached(o)' = IF o <= (IF k + 1 = n THEN 0 ELSE k + 1) THEN 1 ELSE 0
  BY <1>1, <1>4 DEF Reached
<1>6. ASSUME NEW o \in DOMAIN picks
      PROVE  ~Picked(o)
  BY <1>2 DEF Picked
<1>7. ASSUME NEW o \in DOMAIN picks
      PROVE  /\ o = k + 1 => Cardinality(Owed(o)') = Cardinality(Owed(o)) + 1
             /\ o # k + 1 => Cardinality(Owed(o)') = Cardinality(Owed(o))
  <2>1. pc'[t] \in Looping /\ pc[t] \notin Looping /\ start'[t] = current
    BY <1>2 DEF Looping
  <2>2. \A u \in Task : u # t => pc'[u] = pc[u] /\ start'[u] = start[u]
    BY <1>2
  <2>3. CASE o = k + 1
    <3>1. Owed(o)' = Owed(o) \union {t} /\ t \notin Owed(o)
      BY <1>1, <2>1, <2>2, <2>3 DEF Owed
    <3> QED BY <2>3, <3>1, OwedNumbers, TaskSets
  <2>4. CASE o # k + 1
    <3>1. Owed(o)' = Owed(o)
      BY <1>1, <2>1, <2>2, <2>4 DEF Owed
    <3> QED BY <2>4, <3>1
  <2> QED BY <2>3, <2>4
<1> DEFINE e == IF k + 1 = n THEN 1 ELSE 0
<1>8. ASSUME NEW o \in DOMAIN picks
      PROVE  /\ Cardinality(Owed(o)) \in Nat /\ Cardinality(Owed(o)') \in Nat
             /\ Reached(o) \in Int /\ Reached(o)' \in Int
             /\ (IF Picked(o) THEN 1 ELSE 0) + Cardinality(Owed(o)')
                  = Cardinality(Owed(o)) + e + Reached(o)' - Reached(o)
  <2>1. Cardinality(Owed(o)) \in Nat /\ Cardinality(Owed(o)') \in Nat
        /\ Reached(o) \in {0, 1} /\ Reached(o)' \in {0, 1}
    BY OwedNumbers
  <2>2. (IF Picked(o) THEN 1 ELSE 0) = 0
    BY <1>6
  <2> DEFINE w  == Cardinality(Owed(o))
             w2 == Cardinality(Owed(o)')
             r  == Reached(o)
             r2 == Reached(o)'
  <2>3. /\ w \in Nat /\ w2 \in Nat
        /\ r = IF o <= k THEN 1 ELSE 0
        /\ r2 = IF o <= (IF k + 1 = n THEN 0 ELSE k + 1) THEN 1 ELSE 0
        /\ o = k + 1 => w2 = w + 1
        /\ o # k + 1 => w2 = w
        /\ o \in 1..n
    BY <1>1, <1>5, <1>7, <2>1
  <2> HIDE DEF w, w2, r, r2, k, n
  <2>4. 0 + w2 = w + e + r2 - r
    <3>1. CASE k + 1 = n
      BY <1>1, <1>3, <2>3, <3>1
    <3>2. CASE k + 1 # n
      BY <1>1, <1>3, <2>3, <3>2
    <3> QED BY <3>1, <3>2
  <2> QED BY <2>1, <2>2, <2>4 DEF w, w2, r, r2
<1>9. e \in Int
  OBVIOUS
<1> HIDE DEF e, k, n
<1> QED BY <1>8, <1>9, BalancedStep

(* The first candidate of a call is the object its ticket stands for, and  *)
(* it is eligible.                                                         *)
LEMMA FirstServes ==
    ASSUME Inv1, Undisturbed, RRInv, NEW t \in Task, pc[t] \in Looping,
           Len(backends) # 0
    PROVE  /\ Cand(t) = (start[t] % Len(backends)) + 1
           /\ Cand(t) \in DOMAIN picks /\ Eligible(Cand(t))
<1> DEFINE n == Len(backends)
<1>1. /\ snap[t] = backends /\ pos[t] = 0 /\ start[t] \in 0..(UsizeMod - 1)
  BY DEF RRInv, Straight, Looping, Scanning
<1>2. /\ n \in Nat \ {0} /\ DOMAIN picks = 1..n /\ start[t] \in Nat
      /\ \A o \in 1..n : backends[o] = o /\ Eligible(o)
  BY <1>1, ListFixed, UsizeAssumption
<1>3. Index(t) = start[t] % n
  <2>1. (start[t] + pos[t]) % UsizeMod = start[t]
    BY <1>1, UsizeAssumption
  <2> QED BY <1>1, <2>1 DEF Index
<1> HIDE DEF n
<1>4. (start[t] % n) + 1 \in 1..n
  BY <1>2
<1>5. Cand(t) = (start[t] % n) + 1
  BY <1>1, <1>2, <1>3, <1>4 DEF Cand
<1> QED BY <1>2, <1>4, <1>5 DEF n

(* A selection pays what the call owes.                                    *)
LEMMA SelectRound ==
    ASSUME Inv1, Undisturbed, Undisturbed', RRInv, RRNext, NEW t \in Task,
           pc[t] = "limit", Leave(t, "claim"), current' = current
    PROVE  Balanced'
<1> DEFINE x == Cand(t)
<1>1. backends' = backends /\ Len(backends) # 0
  BY ListKept
<1>2. /\ x = (start[t] % Len(backends)) + 1
  BY <1>1, FirstServes DEF Looping
<1>3. /\ pc' = [pc EXCEPT ![t] = "claim"] /\ start' = [start EXCEPT ![t] = 0]
      /\ pc \in [Task -> PC] /\ start \in [Task -> Nat]
  BY DEF Leave, Inv1, Typed
<1>4. ASSUME NEW o \in DOMAIN picks
      PROVE  /\ Picked(o) <=> o = x
             /\ o = x => Cardinality(Owed(o)') = Cardinality(Owed(o)) - 1
             /\ o # x => Cardinality(Owed(o)') = Cardinality(Owed(o))
             /\ Reached(o)' = Reached(o)
  <2>1. Picked(o) <=> o = x
    BY <1>3 DEF Picked
  <2>2. Reached(o)' = Reached(o)
    BY <1>1 DEF Reached
  <2>3. pc[t] \in Looping /\ pc'[t] \notin Looping
    BY <1>3 DEF Looping
  <2>4. \A u \in Task : u # t => pc'[u] = pc[u] /\ start'[u] = start[u]
    BY <1>3
  <2>5. CASE o = x
    <3>1. Owed(o)' = Owed(o) \ {t} /\ t \in Owed(o)
      BY <1>1, <1>2, <2>3, <2>4, <2>5 DEF Owed
    <3> QED BY <2>1, <2>2, <2>5, <3>1, OwedNumbers, TaskSets
  <2>6. CASE o # x
    <3>1. Owed(o)' = Owed(o)
      BY <1>1, <1>2, <2>3, <2>4, <2>6 DEF Owed
    <3> QED BY <2>1, <2>2, <2>6, <3>1
  <2> QED BY <2>5, <2>6
<1> HIDE DEF x
<1>5. ASSUME NEW o \in DOMAIN picks
      PROVE  /\ Cardinality(Owed(o)) \in Nat /\ Cardinality(Owed(o)') \in Nat
             /\ Reached(o) \in Int /\ Reached(o)' \in Int
             /\ (IF Picked(o) THEN 1 ELSE 0) + Cardinality(Owed(o)')
                  = Cardinality(Owed(o)) + 0 + Reached(o)' - Reached(o)
  <2>1. Cardinality(Owed(o)) \in Nat /\ Cardinality(Owed(o)') \in Nat
        /\ Reached(o) \in {0, 1} /\ Reached(o)' \in {0, 1}
    BY OwedNumbers
  <2>2. CASE o = x
    BY <1>4, <2>1, <2>2
  <2>3. CASE o # x
    BY <1>4, <2>1, <2>3
  <2> QED BY <2>2, <2>3
<1> QED BY <1>5, BalancedStep

(* While nothing disturbs the list, no call skips an entry.                *)
LEMMA NextStraight ==
    ASSUME Inv1, Inv1', Undisturbed, Undisturbed', RRInv, RRNext
    PROVE  Straight' /\ Balanced'
<1>0. /\ backends' = backends /\ Len(backends) # 0 /\ Straight
      /\ pc \in [Task -> PC] /\ snap \in [Task -> Seq(Obj)]
      /\ start \in [Task -> Nat] /\ pos \in [Task -> Nat]
  BY ListKept DEF RRInv, Inv1, Typed
<1>1. ASSUME NEW t \in Task, NextBackend(t) PROVE Straight' /\ Balanced'
  <2>1. start' = start /\ current' = current /\ pc[t] \in {"idle", "refused"}
    BY <1>1 DEF NextBackend
  <2>2. /\ \A u \in Task : u # t => /\ pc'[u] = pc[u] /\ snap'[u] = snap[u]
                                    /\ pos'[u] = pos[u]
        /\ \/ pc'[t] = "refused"
           \/ pc'[t] = "ticket" /\ snap'[t] = backends /\ pos'[t] = 0
    BY <1>0, <1>1 DEF NextBackend
  <2>3. \A u \in Task : /\ pc'[u] \in Looping <=> pc[u] \in Looping
                        /\ pc[u] \in Looping => start'[u] = start[u]
    BY <2>1, <2>2 DEF Looping
  <2>4. Straight'
    BY <1>0, <2>1, <2>2, <2>3 DEF Straight, Scanning
  <2> QED BY <2>1, <2>3, <2>4, SameRound
<1>2. ASSUME NEW t \in Task, TakeTicket(t) PROVE Straight' /\ Balanced'
  <2>1. /\ pc[t] = "ticket" /\ pc' = [pc EXCEPT ![t] = "drain"]
        /\ start' = [start EXCEPT ![t] = current] /\ UNCHANGED <<snap, pos>>
        /\ current \in 0..(UsizeMod - 1)
    BY <1>2 DEF TakeTicket, Inv1, Typed
  <2>2. \A u \in Task : pc'[u] \in Scanning => snap'[u] = backends' /\ pos'[u] = 0
    BY <1>0, <2>1 DEF Straight, Scanning
  <2>3. \A u \in Task : pc'[u] \in Looping => start'[u] \in 0..(UsizeMod - 1)
    BY <1>0, <2>1 DEF Straight
  <2> QED BY <1>2, <2>2, <2>3, TicketRound DEF Straight
<1>3. ASSUME NEW t \in Task, CheckDrain(t) \/ CheckHealth(t) \/ CheckLimit(t)
      PROVE  Straight' /\ Balanced'
  <2>0. pc[t] \in Looping /\ current' = current
    BY <1>3 DEF CheckDrain, CheckHealth, CheckLimit, Looping
  <2>1. ~drain[Cand(t)] /\ healthy[Cand(t)] /\ ~Full(Cand(t))
    BY <1>0, <2>0, FirstServes DEF Eligible
  <2>2. \/ /\ \/ pc' = [pc EXCEPT ![t] = "health"]
              \/ pc' = [pc EXCEPT ![t] = "limit"]
           /\ UNCHANGED <<snap, start, pos>>
        \/ pc[t] = "limit" /\ Leave(t, "claim")
    BY <1>3, <2>1 DEF CheckDrain, CheckHealth, CheckLimit
  <2>3. CASE /\ \/ pc' = [pc EXCEPT ![t] = "health"]
                \/ pc' = [pc EXCEPT ![t] = "limit"]
             /\ UNCHANGED <<snap, start, pos>>
    <3>1. /\ \A u \in Task : pc'[u] \in Looping <=> pc[u] \in Looping
          /\ \A u \in Task : pc'[u] \in Scanning <=> pc[u] \in Scanning
      BY <1>0, <2>0, <2>3 DEF Looping, Scanning
    <3>2. Straight'
      BY <1>0, <2>3, <3>1 DEF Straight
    <3> QED BY <2>0, <2>3, <3>1, <3>2, SameRound
  <2>4. CASE pc[t] = "limit" /\ Leave(t, "claim")
    <3>1. /\ pc'[t] = "claim"
          /\ \A u \in Task : u # t => /\ pc'[u] = pc[u] /\ snap'[u] = snap[u]
                                      /\ pos'[u] = pos[u] /\ start'[u] = start[u]
      BY <1>0, <2>4 DEF Leave
    <3>2. Straight'
      BY <1>0, <3>1 DEF Straight, Scanning, Looping
    <3> QED BY <2>0, <2>4, <3>2, SelectRound
  <2> QED BY <2>2, <2>3, <2>4
<1>4. ASSUME UNCHANGED <<snap, start, pos, current>>,
             \A u \in Task : \/ pc'[u] = pc[u]
                             \/ pc[u] \notin Scanning /\ pc'[u] \notin Scanning
      PROVE  Straight' /\ Balanced'
  <2>1. \A u \in Task : pc'[u] \in Looping <=> pc[u] \in Looping
    BY <1>4 DEF Looping, Scanning
  <2>2. Straight'
    BY <1>0, <1>4, <2>1 DEF Straight
  <2>3. \A u \in Task : /\ pc'[u] \in Looping <=> pc[u] \in Looping
                        /\ pc[u] \in Looping => start'[u] = start[u]
    BY <1>4, <2>1
  <2>4. current' = current
    BY <1>4
  <2> QED BY <2>2, <2>3, <2>4, SameRound
<1>5. ASSUME NEW t \in Task, Claim(t) \/ Count(t) \/ DropGuard(t) \/ DropGauge(t)
      PROVE  Straight' /\ Balanced'
  <2>1. UNCHANGED <<snap, start, pos, current>>
    BY <1>5 DEF Claim, Count, DropGuard, DropGauge
  <2>2. \A u \in Task : \/ pc'[u] = pc[u]
                        \/ pc[u] \notin Scanning /\ pc'[u] \notin Scanning
    BY <1>0, <1>5 DEF Claim, Count, DropGuard, DropGauge, Scanning
  <2> QED BY <1>4, <2>1, <2>2
<1>6. ASSUME \/ \E cfg \in Configs : UpdateBackends(cfg)
             \/ UpdateStep
             \/ \E c \in Checker, a \in Addr, h \in BOOLEAN :
                   SetBackendHealth(c, a, h)
             \/ \E c \in Checker : CheckerStep(c)
      PROVE  Straight' /\ Balanced'
  <2>1. UNCHANGED <<snap, start, pos, current, pc>>
    BY <1>6 DEF UpdateBackends, UpdateStep, KeepEntry, NewEntry, StoreBackends,
                SetBackendHealth, CheckerStep, FindBackend, SwapHealthy, taskVars
  <2> QED BY <1>4, <2>1
<1>7. Next
  BY DEF RRNext
<1> QED
  BY <1>1, <1>2, <1>3, <1>5, <1>6, <1>7 DEF Next, TaskStep, Scan

(* Balanced counts are even shares.                                        *)
LEMMA BalancedIsEven == RRInv => EvenShares
<1> SUFFICES ASSUME RRInv, NEW o \in DOMAIN picks, NEW p \in DOMAIN picks
             PROVE  picks[o] - picks[p] <= 1 + Cardinality(InScan)
  BY DEF EvenShares
<1>1. PICK c \in Int : \A x \in DOMAIN picks :
         picks[x] + Cardinality(Owed(x)) = c + Reached(x)
  BY DEF RRInv, Balanced
<1>2. /\ Cardinality(Owed(o)) \in Nat /\ Cardinality(Owed(p)) \in Nat
      /\ Reached(o) \in {0, 1} /\ Reached(p) \in {0, 1}
      /\ picks[o] \in Nat /\ picks[p] \in Nat
  BY OwedNumbers DEF RRInv
<1>3. Cardinality(Owed(p)) <= Cardinality(InScan) /\ Cardinality(InScan) \in Nat
  <2>1. Owed(p) \subseteq InScan /\ InScan \subseteq Task
    BY DEF Owed, InScan, Looping
  <2> QED BY <2>1, TaskSets
<1>4. /\ picks[o] + Cardinality(Owed(o)) = c + Reached(o)
      /\ picks[p] + Cardinality(Owed(p)) = c + Reached(p)
  BY <1>1
<1> QED BY <1>2, <1>3, <1>4

(* Before the first call nothing is selected and nothing owed.             *)
LEMMA InitRR == RRInit /\ Undisturbed => RRInv
<1> SUFFICES ASSUME RRInit, Undisturbed PROVE RRInv
  OBVIOUS
<1>1. Init /\ picks = [o \in 1..Len(config) |-> 0]
  BY DEF RRInit
<1>2. config \in Seq(BackendConfig) /\ Len(config) \in Nat \ {0}
  BY <1>1, ConfigsAssumption DEF Init, Validated
<1>3. picks \in [DOMAIN picks -> Nat] /\ DOMAIN picks # {}
  BY <1>1, <1>2
<1>4. Straight
  BY <1>1 DEF Init, Straight, Scanning, Looping
<1>5. ASSUME NEW o \in DOMAIN picks
      PROVE  picks[o] + Cardinality(Owed(o)) = 0 + Reached(o)
  <2>1. Owed(o) = {}
    BY <1>1 DEF Init, Owed, Looping
  <2>2. Cardinality(Owed(o)) = 0
    BY <2>1, FS_EmptySet
  <2>3. Reached(o) = 0
    <3>1. Len(backends) \in Nat \ {0} /\ o \in 1..Len(backends)
      BY <1>1, <1>2, InitInv1, ListFixed
    <3>2. 0 % Len(backends) = 0
      BY <3>1
    <3> QED BY <1>1, <3>1, <3>2 DEF Reached, Init
  <2>4. picks[o] = 0
    BY <1>1
  <2> QED BY <2>2, <2>3, <2>4
<1>6. Balanced
  BY <1>5 DEF Balanced
<1> QED BY <1>3, <1>4, <1>6 DEF RRInv

(* As long as nothing disturbs the list, two backends' shares differ by at *)
(* most one plus the calls still in their scan: for any number of backends *)
(* and of overlapping calls.                                               *)
THEOREM SharesEven == RRSpec /\ []Undisturbed => []EvenShares
<1>1. Inv1 /\ Inv1' /\ Undisturbed /\ Undisturbed' /\ RRInv
         /\ [RRNext]_<<vars, picks>> => RRInv'
  <2> SUFFICES ASSUME Inv1, Inv1', Undisturbed, Undisturbed', RRInv,
                      [RRNext]_<<vars, picks>>
               PROVE  RRInv'
    OBVIOUS
  <2>1. CASE RRNext
    <3>1. picks' \in [DOMAIN picks' -> Nat] /\ DOMAIN picks' # {}
      BY <2>1, PicksStep DEF RRInv
    <3> QED BY <2>1, <3>1, NextStraight DEF RRInv
  <2>2. CASE UNCHANGED <<vars, picks>>
    BY <2>2 DEF RRInv, Straight, Balanced, Owed, Reached, vars, taskVars
  <2> QED BY <2>1, <2>2
<1>2. RRSpec => Spec
  <2>1. RRInit => Init
    BY DEF RRInit
  <2>2. [RRNext]_<<vars, picks>> => [Next]_vars
    BY DEF RRNext
  <2> QED BY <2>1, <2>2, PTL DEF RRSpec, Spec
<1>3. Inv2 => Inv1
  BY DEF Inv2
<1>4. RRSpec => []Inv1
  BY <1>2, <1>3, Inv2Always, PTL
<1>5. RRSpec /\ []Undisturbed => []RRInv
  BY <1>1, <1>4, InitRR, PTL DEF RRSpec
<1> QED BY <1>5, BalancedIsEven, PTL
=============================================================================
