----------------------------- MODULE ReloadProofs -----------------------------
(***************************************************************************)
(* Theorems about update_backends, and about the watcher, the reload loop  *)
(* and the health checkers that drive the balancer, for every set of       *)
(* configurations, files, checkers and tasks.                              *)
(***************************************************************************)
EXTENDS Reload, BalancerProofs

-----------------------------------------------------------------------------
(* update_backends.  While a list is being built, each of its entries for  *)
(* an address of the old list is the object the old list finds for it.     *)
BuiltKeeps ==
    \A j \in DOMAIN upd.built : \A i \in DOMAIN backends :
        Finds(backends, addr[upd.built[j]], i) => upd.built[j] = backends[i]

(* The entries of a list agree with the configuration, position by         *)
(* position, as far as the list goes.                                      *)
Follows(list) ==
    \A i \in DOMAIN list : /\ addr[list[i]] = config[i].addr
                           /\ drain[list[i]] = config[i].drain

(* The list being built is the configuration up to the entries still to do.*)
ConfigTracked ==
    DistinctAddrs(config) =>
        /\ ~upd.busy => Len(backends) = Len(config) /\ Follows(backends)
        /\ upd.busy =>
             /\ Len(upd.built) + Len(upd.todo) = Len(config)
             /\ \A i \in DOMAIN upd.todo :
                   upd.todo[i] = config[Len(upd.built) + i]
             /\ Follows(upd.built)

(* The first object of an address is found at one position only.           *)
LEMMA FindsOnce ==
    ASSUME NEW s \in Seq(Obj), NEW a, NEW i, NEW j, Finds(s, a, i), Finds(s, a, j)
    PROVE  i = j
<1>1. i \in Nat /\ j \in Nat /\ i >= 1 /\ j >= 1
  BY DEF Finds
<1>2. ~(i < j) /\ ~(j < i)
  BY <1>1 DEF Finds
<1> QED BY <1>1, <1>2

(* Allocating an object changes nothing for lists of older objects.        *)
LEMMA OldEntries ==
    ASSUME Inv1, NewEntry, NEW s \in Seq(Obj), \A i \in DOMAIN s : s[i] <= nobj
    PROVE  \A i \in DOMAIN s : addr'[s[i]] = addr[s[i]] /\ drain'[s[i]] = drain[s[i]]
<1>1. /\ addr' = [addr EXCEPT ![nobj + 1] = Head(upd.todo).addr]
      /\ drain' = [drain EXCEPT ![nobj + 1] = Head(upd.todo).drain]
      /\ nobj \in Nat /\ addr \in [Obj -> Addr] /\ drain \in [Obj -> BOOLEAN]
  BY DEF NewEntry, Inv1, Typed
<1> SUFFICES ASSUME NEW i \in DOMAIN s
             PROVE  addr'[s[i]] = addr[s[i]] /\ drain'[s[i]] = drain[s[i]]
  OBVIOUS
<1>2. s[i] \in Obj /\ s[i] <= nobj
  OBVIOUS
<1>3. s[i] # nobj + 1
  BY <1>1, <1>2, MaxObjAssumption DEF Obj
<1> QED BY <1>1, <1>2, <1>3

(* The same for the search of an address in the published list.            *)
LEMMA OldFinds ==
    ASSUME Inv1, NewEntry, NEW a, NEW i
    PROVE  Finds(backends, a, i)' <=> Finds(backends, a, i)
<1>1. backends \in Seq(Obj) /\ \A j \in DOMAIN backends : backends[j] <= nobj
  BY DEF Inv1, Typed, Shape
<1>2. \A j \in DOMAIN backends : addr'[backends[j]] = addr[backends[j]]
  BY <1>1, OldEntries
<1>3. backends' = backends
  BY DEF NewEntry
<1>4. i \in DOMAIN backends => \A j \in 1..(i - 1) : j \in DOMAIN backends
  BY <1>1
<1> QED BY <1>2, <1>3, <1>4 DEF Finds

(* What one step of the loop over the configuration does to upd.           *)
LEMMA EntryBuilt ==
    ASSUME Inv1, NEW x \in Obj, upd.todo # <<>>,
           upd' = [upd EXCEPT !.todo = Tail(@), !.built = Append(@, x)]
    PROVE  /\ upd'.busy = upd.busy
           /\ upd'.todo = Tail(upd.todo)
           /\ upd'.built = Append(upd.built, x)
           /\ Len(upd'.built) = Len(upd.built) + 1
           /\ Len(upd'.todo) = Len(upd.todo) - 1
           /\ DOMAIN upd'.built = 1..(Len(upd.built) + 1)
           /\ \A j \in DOMAIN upd.built : upd'.built[j] = upd.built[j]
           /\ upd'.built[Len(upd.built) + 1] = x
           /\ \A i \in DOMAIN upd'.todo : /\ i + 1 \in DOMAIN upd.todo
                                          /\ upd'.todo[i] = upd.todo[i + 1]
           /\ 1 \in DOMAIN upd.todo /\ Head(upd.todo) = upd.todo[1]
           /\ DOMAIN upd.built = 1..Len(upd.built)
           /\ Len(upd.built) \in Nat /\ Len(upd.todo) \in Nat
<1>1. /\ upd \in [busy: BOOLEAN, todo: Seq(BackendConfig), built: Seq(Obj)]
      /\ upd.todo \in Seq(BackendConfig) /\ upd.built \in Seq(Obj)
  BY DEF Inv1, Typed
<1>2. /\ upd'.busy = upd.busy /\ upd'.todo = Tail(upd.todo)
      /\ upd'.built = Append(upd.built, x)
  BY <1>1
<1>3. /\ Len(upd'.built) = Len(upd.built) + 1
      /\ DOMAIN upd'.built = 1..(Len(upd.built) + 1)
      /\ \A j \in DOMAIN upd.built : upd'.built[j] = upd.built[j]
      /\ upd'.built[Len(upd.built) + 1] = x
      /\ DOMAIN upd.built = 1..Len(upd.built)
      /\ Len(upd.built) \in Nat
  BY <1>1, <1>2
<1>4. /\ Len(upd'.todo) = Len(upd.todo) - 1
      /\ \A i \in DOMAIN upd'.todo : /\ i + 1 \in DOMAIN upd.todo
                                     /\ upd'.todo[i] = upd.todo[i + 1]
      /\ 1 \in DOMAIN upd.todo /\ Head(upd.todo) = upd.todo[1]
      /\ Len(upd.todo) \in Nat
  BY <1>1, <1>2
<1> QED BY <1>2, <1>3, <1>4

(* Every step preserves BuiltKeeps.                                        *)
LEMMA NextBuilt == Inv1 /\ BuiltKeeps /\ [Next]_vars => BuiltKeeps'
<1> SUFFICES ASSUME Inv1, BuiltKeeps, [Next]_vars PROVE BuiltKeeps'
  OBVIOUS
<1>0. backends \in Seq(Obj) /\ upd.built \in Seq(Obj)
  BY DEF Inv1, Typed
<1>1. ASSUME upd'.built = <<>> PROVE BuiltKeeps'
  BY <1>1 DEF BuiltKeeps
<1>2. ASSUME KeepEntry PROVE BuiltKeeps'
  <2>1. PICK k \in DOMAIN backends :
           /\ Finds(backends, Head(upd.todo).addr, k)
           /\ upd' = [upd EXCEPT !.todo = Tail(@), !.built = Append(@, backends[k])]
    BY <1>2 DEF KeepEntry
  <2>2. backends' = backends /\ addr' = addr /\ upd.todo # <<>>
    BY <1>2 DEF KeepEntry
  <2>3. backends[k] \in Obj /\ addr[backends[k]] = Head(upd.todo).addr
    BY <1>0, <2>1 DEF Finds
  <2> SUFFICES ASSUME NEW j \in DOMAIN upd'.built, NEW i \in DOMAIN backends,
                      Finds(backends, addr[upd'.built[j]], i)
               PROVE  upd'.built[j] = backends[i]
    BY <2>2 DEF BuiltKeeps, Finds
  <2>4. CASE j \in DOMAIN upd.built
    <3>1. upd'.built[j] = upd.built[j]
      BY <2>1, <2>2, <2>3, <2>4, EntryBuilt
    <3> QED BY <2>4, <3>1 DEF BuiltKeeps
  <2>5. CASE upd'.built[j] = backends[k]
    <3>1. Finds(backends, addr[backends[k]], i) /\ Finds(backends, addr[backends[k]], k)
      BY <2>1, <2>3, <2>5
    <3>2. i = k
      BY <1>0, <3>1, FindsOnce
    <3> QED BY <2>5, <3>2
  <2>6. j \in DOMAIN upd.built \/ upd'.built[j] = backends[k]
    <3>1. /\ DOMAIN upd'.built = 1..(Len(upd.built) + 1)
          /\ upd'.built[Len(upd.built) + 1] = backends[k]
          /\ DOMAIN upd.built = 1..Len(upd.built) /\ Len(upd.built) \in Nat
      BY <2>1, <2>2, <2>3, EntryBuilt
    <3> QED BY <3>1
  <2> QED BY <2>4, <2>5, <2>6
<1>3. ASSUME NewEntry PROVE BuiltKeeps'
  <2> DEFINE o == nobj + 1
  <2>1. /\ backends' = backends /\ upd.todo # <<>>
        /\ upd' = [upd EXCEPT !.todo = Tail(@), !.built = Append(@, o)]
        /\ ~Listed(backends, Head(upd.todo).addr)
        /\ addr' = [addr EXCEPT ![o] = Head(upd.todo).addr]
    BY <1>3 DEF NewEntry
  <2>2. o \in Obj /\ addr \in [Obj -> Addr]
    BY <1>3, MaxObjAssumption DEF NewEntry, Inv1, Typed, Obj
  <2>3. \A i \in DOMAIN upd.built : addr'[upd.built[i]] = addr[upd.built[i]]
    BY <1>0, <1>3, OldEntries DEF Inv1, Shape
  <2>4. addr'[o] = Head(upd.todo).addr
    BY <2>1, <2>2
  <2> HIDE DEF o
  <2> SUFFICES ASSUME NEW j \in DOMAIN upd'.built, NEW i \in DOMAIN backends,
                      Finds(backends, addr'[upd'.built[j]], i)
               PROVE  upd'.built[j] = backends[i]
    <3> SUFFICES ASSUME NEW j \in DOMAIN upd'.built, NEW i \in DOMAIN backends',
                        Finds(backends, addr[upd.built[j]], i)'
                 PROVE  upd'.built[j] = backends'[i]
      BY DEF BuiltKeeps
    <3>1. Finds(backends, addr'[upd'.built[j]], i)
      BY <1>3, OldFinds
    <3> QED BY <2>1, <3>1
  <2>5. CASE j \in DOMAIN upd.built
    <3>1. upd'.built[j] = upd.built[j]
      BY <2>1, <2>2, <2>5, EntryBuilt
    <3> QED BY <2>3, <2>5, <3>1 DEF BuiltKeeps
  <2>6. CASE upd'.built[j] = o
    BY <2>1, <2>4, <2>6 DEF Finds, Listed
  <2>7. j \in DOMAIN upd.built \/ upd'.built[j] = o
    <3>1. /\ DOMAIN upd'.built = 1..(Len(upd.built) + 1)
          /\ upd'.built[Len(upd.built) + 1] = o
          /\ DOMAIN upd.built = 1..Len(upd.built) /\ Len(upd.built) \in Nat
      BY <2>1, <2>2, EntryBuilt
    <3> QED BY <3>1
  <2> QED BY <2>5, <2>6, <2>7
<1>4. ASSUME backends' = backends /\ addr' = addr /\ upd' = upd PROVE BuiltKeeps'
  BY <1>4 DEF BuiltKeeps, Finds
<1>5. ASSUME (\E cfg \in Configs : UpdateBackends(cfg)) \/ StoreBackends
      PROVE  upd'.built = <<>>
  <2>1. CASE \E cfg \in Configs : UpdateBackends(cfg)
    BY <2>1 DEF UpdateBackends
  <2>2. CASE StoreBackends
    BY <2>2 DEF StoreBackends, IdleUpd
  <2> QED BY <1>5, <2>1, <2>2
<1>6. ASSUME \/ \E t \in Task : NextBackend(t) \/ TaskStep(t) \/ DropGuard(t)
             \/ \E c \in Checker, a \in Addr, h \in BOOLEAN :
                   SetBackendHealth(c, a, h)
             \/ \E c \in Checker : CheckerStep(c)
             \/ UNCHANGED vars
      PROVE  backends' = backends /\ addr' = addr /\ upd' = upd
  BY <1>6 DEF NextBackend, TaskStep, Scan, TakeTicket, CheckDrain, CheckHealth,
              CheckLimit, Claim, Count, DropGuard, DropGauge, SetBackendHealth,
              CheckerStep, FindBackend, SwapHealthy, vars, objVars, updVars
<1> QED
  BY <1>1, <1>2, <1>3, <1>4, <1>5, <1>6 DEF Next, UpdateStep

(* What FirstObj contains.                                                 *)
LEMMA FirstObjFound ==
    ASSUME NEW a, NEW o
    PROVE  o \in FirstObj(a) <=>
               \E i \in DOMAIN backends : Finds(backends, a, i) /\ o = backends[i]
  BY DEF FirstObj

(* Publishing the list that was built keeps the object of every address    *)
(* that the old list has too.                                              *)
LEMMA StoreKeeps ==
    ASSUME Inv1, BuiltKeeps, StoreBackends, NEW a \in Addr,
           FirstObj(a) # {}, FirstObj(a)' # {}
    PROVE  FirstObj(a)' = FirstObj(a)
<1>1. /\ backends' = upd.built /\ addr' = addr
      /\ backends \in Seq(Obj) /\ upd.built \in Seq(Obj)
  BY DEF StoreBackends, objVars, Inv1, Typed
<1>2. PICK i \in DOMAIN backends : Finds(backends, a, i)
  BY FirstObjFound
<1>3. ASSUME NEW o PROVE o \in FirstObj(a) <=> o = backends[i]
  BY <1>1, <1>2, FirstObjFound, FindsOnce
<1>4. ASSUME NEW o, o \in FirstObj(a)' PROVE o = backends[i]
  <2>1. PICK j \in DOMAIN upd.built : addr[upd.built[j]] = a /\ o = upd.built[j]
    BY <1>1, <1>4 DEF FirstObj, Finds
  <2> QED BY <1>2, <2>1 DEF BuiltKeeps
<1> QED BY <1>3, <1>4

(* A reload that keeps an address keeps its object, hence its counter and  *)
(* its health: for every pair of old and new lists, duplicates included.   *)
THEOREM IdentityKept == Spec => KeepsIdentity
<1>1. Init => BuiltKeeps
  BY DEF Init, IdleUpd, BuiltKeeps
<1>2. ASSUME Inv1, BuiltKeeps, [Next]_vars, NEW a \in Addr,
             FirstObj(a) # {}, FirstObj(a)' # {}
      PROVE  FirstObj(a)' = FirstObj(a)
  <2>1. CASE StoreBackends
    BY <1>2, <2>1, StoreKeeps
  <2>2. CASE NewEntry
    <3>1. \A i : Finds(backends, a, i)' <=> Finds(backends, a, i)
      BY <1>2, <2>2, OldFinds
    <3>2. backends' = backends
      BY <2>2 DEF NewEntry
    <3> QED BY <3>1, <3>2 DEF FirstObj
  <2>3. CASE backends' = backends /\ addr' = addr
    BY <2>3 DEF FirstObj, Finds
  <2>4. ASSUME \/ \E t \in Task : NextBackend(t) \/ TaskStep(t) \/ DropGuard(t)
               \/ \E cfg \in Configs : UpdateBackends(cfg)
               \/ KeepEntry
               \/ \E c \in Checker, x \in Addr, h \in BOOLEAN :
                     SetBackendHealth(c, x, h)
               \/ \E c \in Checker : CheckerStep(c)
               \/ UNCHANGED vars
        PROVE  backends' = backends /\ addr' = addr
    BY <2>4 DEF NextBackend, TaskStep, Scan, TakeTicket, CheckDrain, CheckHealth,
                CheckLimit, Claim, Count, DropGuard, DropGauge, UpdateBackends,
                KeepEntry, SetBackendHealth, CheckerStep, FindBackend, SwapHealthy,
                vars, objVars
  <2> QED BY <1>2, <2>1, <2>2, <2>3, <2>4 DEF Next, UpdateStep
<1>3. Inv1 /\ BuiltKeeps /\ [Next]_vars =>
         [\A a \in Addr : (FirstObj(a) # {} /\ FirstObj(a)' # {}) =>
                              FirstObj(a)' = FirstObj(a)]_vars
  BY <1>2
<1>4. Inv2 => Inv1
  BY DEF Inv2
<1> QED BY <1>1, <1>3, <1>4, NextBuilt, Inv2Always, PTL DEF Spec, KeepsIdentity

-----------------------------------------------------------------------------
(* One entry more: the object appended for it has its address and its      *)
(* drain flag, and the entries before it are not disturbed.                *)
LEMMA EntryTracked ==
    ASSUME Inv1, ConfigTracked, DistinctAddrs(config), NEW x \in Obj,
           upd.busy, upd.todo # <<>>, config' = config,
           upd' = [upd EXCEPT !.todo = Tail(@), !.built = Append(@, x)],
           addr'[x] = Head(upd.todo).addr, drain'[x] = Head(upd.todo).drain,
           \A j \in DOMAIN upd.built :
              /\ addr'[upd.built[j]] = addr[upd.built[j]]
              /\ addr[upd.built[j]] # Head(upd.todo).addr
                    => drain'[upd.built[j]] = drain[upd.built[j]]
    PROVE  ConfigTracked'
<1> DEFINE n == Len(upd.built)
<1>1. /\ n + Len(upd.todo) = Len(config)
      /\ \A i \in DOMAIN upd.todo : upd.todo[i] = config[n + i]
      /\ Follows(upd.built)
  BY DEF ConfigTracked
<1>2. /\ upd'.busy = upd.busy
      /\ Len(upd'.built) = n + 1
      /\ Len(upd'.todo) = Len(upd.todo) - 1
      /\ DOMAIN upd'.built = 1..(n + 1)
      /\ \A j \in DOMAIN upd.built : upd'.built[j] = upd.built[j]
      /\ upd'.built[n + 1] = x
      /\ \A i \in DOMAIN upd'.todo : /\ i + 1 \in DOMAIN upd.todo
                                     /\ upd'.todo[i] = upd.todo[i + 1]
      /\ 1 \in DOMAIN upd.todo /\ Head(upd.todo) = upd.todo[1]
      /\ DOMAIN upd.built = 1..n
      /\ n \in Nat /\ Len(upd.todo) \in Nat
  BY EntryBuilt
<1>3. /\ config \in Seq(BackendConfig) /\ upd.todo \in Seq(BackendConfig)
      /\ upd'.todo \in Seq(BackendConfig)
  <2>1. config \in Seq(BackendConfig) /\ upd.todo \in Seq(BackendConfig)
    BY DEF Inv1, Typed
  <2>2. upd'.todo = Tail(upd.todo)
    BY EntryBuilt
  <2> QED BY <2>1, <2>2
<1> HIDE DEF n
<1>4. Head(upd.todo) = config[n + 1] /\ n + 1 \in DOMAIN config
  BY <1>1, <1>2, <1>3
<1>9. /\ Len(upd'.built) = n + 1 /\ Len(upd'.todo) = Len(upd.todo) - 1
      /\ n \in Nat /\ Len(upd.todo) \in Nat /\ n + Len(upd.todo) = Len(config)
  BY <1>1, <1>2
<1>5. Len(upd'.built) + Len(upd'.todo) = Len(config)
  <2>1. \A m, l \in Nat : (m + 1) + (l - 1) = m + l
    OBVIOUS
  <2> QED BY ONLY <1>9, <2>1, Zenon
<1>6. ASSUME NEW i \in DOMAIN upd'.todo
      PROVE  upd'.todo[i] = config[Len(upd'.built) + i]
  <2>1. upd'.todo[i] = config[n + (i + 1)] /\ i \in Nat
    BY <1>1, <1>2, <1>3
  <2>2. n + (i + 1) = Len(upd'.built) + i
    BY ONLY <1>9, <2>1
  <2> QED BY <2>1, <2>2
<1>7. ASSUME NEW j \in DOMAIN upd'.built
      PROVE  /\ addr'[upd'.built[j]] = config[j].addr
             /\ drain'[upd'.built[j]] = config[j].drain
  <2>1. CASE j = n + 1
    BY <1>2, <1>4, <2>1
  <2>2. CASE j \in DOMAIN upd.built
    <3>1. /\ addr[upd.built[j]] = config[j].addr
          /\ drain[upd.built[j]] = config[j].drain
      BY <1>1, <2>2 DEF Follows
    <3>2. j \in DOMAIN config /\ j # n + 1
      BY <1>1, <1>2, <1>3, <2>2
    <3>3. config[j].addr # config[n + 1].addr
      BY <1>4, <3>2 DEF DistinctAddrs
    <3> QED BY <1>2, <1>4, <2>2, <3>1, <3>3
  <2> QED BY <1>2, <1>7, <2>1, <2>2
<1>8. upd'.busy
  BY <1>2
<1> QED BY <1>5, <1>6, <1>7, <1>8 DEF ConfigTracked, Follows

(* Every step preserves ConfigTracked.                                     *)
LEMMA NextTracked == Inv1 /\ ConfigTracked /\ [Next]_vars => ConfigTracked'
<1> SUFFICES ASSUME Inv1, ConfigTracked, [Next]_vars, DistinctAddrs(config)'
             PROVE  ConfigTracked'
  BY DEF ConfigTracked
<1>0. /\ backends \in Seq(Obj) /\ upd.built \in Seq(Obj)
      /\ addr \in [Obj -> Addr] /\ drain \in [Obj -> BOOLEAN]
  BY DEF Inv1, Typed
<1>1. ASSUME NEW cfg \in Configs, UpdateBackends(cfg) PROVE ConfigTracked'
  <2>1. upd'.busy /\ upd'.todo = cfg /\ upd'.built = <<>> /\ config' = cfg
    BY <1>1 DEF UpdateBackends
  <2>2. cfg \in Seq(BackendConfig)
    BY ConfigsAssumption
  <2>3. /\ Len(upd'.built) + Len(upd'.todo) = Len(config')
        /\ \A i \in DOMAIN upd'.todo : upd'.todo[i] = config'[Len(upd'.built) + i]
    BY <2>1, <2>2
  <2>4. Follows(upd.built)'
    BY <2>1 DEF Follows
  <2> QED BY <2>1, <2>3, <2>4 DEF ConfigTracked
<1>2. ASSUME KeepEntry PROVE ConfigTracked'
  <2>1. PICK k \in DOMAIN backends :
           /\ addr[backends[k]] = Head(upd.todo).addr
           /\ drain' = [drain EXCEPT ![backends[k]] = Head(upd.todo).drain]
           /\ upd' = [upd EXCEPT !.todo = Tail(@), !.built = Append(@, backends[k])]
    BY <1>2 DEF KeepEntry, Finds
  <2>2. upd.busy /\ upd.todo # <<>> /\ config' = config /\ addr' = addr
    BY <1>2 DEF KeepEntry
  <2>3. backends[k] \in Obj
    BY <1>0
  <2>4. /\ addr'[backends[k]] = Head(upd.todo).addr
        /\ drain'[backends[k]] = Head(upd.todo).drain
    BY <1>0, <2>1, <2>2, <2>3
  <2>5. ASSUME NEW j \in DOMAIN upd.built
        PROVE  /\ addr'[upd.built[j]] = addr[upd.built[j]]
               /\ addr[upd.built[j]] # Head(upd.todo).addr
                     => drain'[upd.built[j]] = drain[upd.built[j]]
    <3>1. upd.built[j] \in Obj
      BY <1>0
    <3> QED BY <1>0, <2>1, <2>2, <3>1
  <2>6. DistinctAddrs(config)
    BY <2>2 DEF DistinctAddrs
  <2> QED BY <2>1, <2>2, <2>3, <2>4, <2>5, <2>6, EntryTracked
<1>3. ASSUME NewEntry PROVE ConfigTracked'
  <2> DEFINE o == nobj + 1
  <2>1. /\ upd.busy /\ upd.todo # <<>> /\ config' = config
        /\ upd' = [upd EXCEPT !.todo = Tail(@), !.built = Append(@, o)]
        /\ addr' = [addr EXCEPT ![o] = Head(upd.todo).addr]
        /\ drain' = [drain EXCEPT ![o] = Head(upd.todo).drain]
    BY <1>3 DEF NewEntry
  <2>2. o \in Obj
    BY <1>3, MaxObjAssumption DEF NewEntry, Inv1, Typed, Obj
  <2>3. \A j \in DOMAIN upd.built : /\ addr'[upd.built[j]] = addr[upd.built[j]]
                                    /\ drain'[upd.built[j]] = drain[upd.built[j]]
    BY <1>0, <1>3, OldEntries DEF Inv1, Shape
  <2>4. addr'[o] = Head(upd.todo).addr /\ drain'[o] = Head(upd.todo).drain
    BY <1>0, <2>1, <2>2
  <2>5. DistinctAddrs(config)
    BY <2>1 DEF DistinctAddrs
  <2> HIDE DEF o
  <2> QED BY <2>1, <2>2, <2>3, <2>4, <2>5, EntryTracked
<1>4. ASSUME StoreBackends PROVE ConfigTracked'
  <2>1. /\ upd.busy /\ upd.todo = <<>> /\ backends' = upd.built /\ ~upd'.busy
        /\ config' = config /\ addr' = addr /\ drain' = drain
    BY <1>4 DEF StoreBackends, IdleUpd, objVars
  <2>2. DistinctAddrs(config)
    BY <2>1 DEF DistinctAddrs
  <2>3. Len(upd.built) + Len(upd.todo) = Len(config) /\ Follows(upd.built)
    BY <2>1, <2>2 DEF ConfigTracked
  <2>4. Len(backends') = Len(config')
    BY <1>0, <2>1, <2>3
  <2>5. Follows(backends)'
    BY <2>1, <2>3 DEF Follows
  <2> QED BY <2>1, <2>4, <2>5 DEF ConfigTracked
<1>5. ASSUME backends' = backends /\ upd' = upd /\ config' = config
             /\ addr' = addr /\ drain' = drain
      PROVE  ConfigTracked'
  <2>1. Follows(backends)' = Follows(backends) /\ Follows(upd.built)' = Follows(upd.built)
    BY <1>5 DEF Follows
  <2>2. DistinctAddrs(config)
    BY <1>5 DEF DistinctAddrs
  <2> QED BY <1>5, <2>1, <2>2 DEF ConfigTracked
<1>6. ASSUME \/ \E t \in Task : NextBackend(t) \/ TaskStep(t) \/ DropGuard(t)
             \/ \E c \in Checker, a \in Addr, h \in BOOLEAN :
                   SetBackendHealth(c, a, h)
             \/ \E c \in Checker : CheckerStep(c)
             \/ UNCHANGED vars
      PROVE  backends' = backends /\ upd' = upd /\ config' = config
             /\ addr' = addr /\ drain' = drain
  BY <1>6 DEF NextBackend, TaskStep, Scan, TakeTicket, CheckDrain, CheckHealth,
              CheckLimit, Claim, Count, DropGuard, DropGauge, SetBackendHealth,
              CheckerStep, FindBackend, SwapHealthy, vars, objVars, updVars
<1> QED
  BY <1>1, <1>2, <1>3, <1>4, <1>5, <1>6 DEF Next, UpdateStep

(* The list LoadBalancer::new builds is the configuration.                 *)
LEMMA InitTracked == Init => ConfigTracked
<1> SUFFICES ASSUME Init PROVE ConfigTracked
  OBVIOUS
<1>1. config \in Seq(BackendConfig) /\ Len(config) \in 0..MaxObj /\ nobj = Len(config)
  BY ConfigsAssumption, MaxObjAssumption DEF Init
<1>2. backends = [i \in 1..Len(config) |-> i] /\ ~upd.busy
  BY DEF Init, IdleUpd
<1>3. DOMAIN backends = 1..Len(config) /\ Len(backends) = Len(config)
  BY <1>1, <1>2
<1>4. ASSUME NEW i \in DOMAIN backends
      PROVE  addr[backends[i]] = config[i].addr /\ drain[backends[i]] = config[i].drain
  <2>1. backends[i] = i /\ i \in Obj /\ i <= nobj
    BY <1>1, <1>2, <1>3, MaxObjAssumption DEF Obj
  <2> QED BY <2>1 DEF Init
<1> QED BY <1>2, <1>3, <1>4 DEF ConfigTracked, Follows

(* Between two reloads the published list is the configuration, for every  *)
(* configuration that names each address once.                             *)
THEOREM ConfigurationApplied == Spec => []ConfigApplied
<1>1. Inv1 /\ ConfigTracked => ConfigApplied
  <2> SUFFICES ASSUME Inv1, ConfigTracked, ~upd.busy, DistinctAddrs(config)
               PROVE  /\ Len(backends) = Len(config)
                      /\ \A i \in DOMAIN config :
                            /\ addr[backends[i]] = config[i].addr
                            /\ drain[backends[i]] = config[i].drain
    BY DEF ConfigApplied
  <2>1. Len(backends) = Len(config) /\ Follows(backends)
    BY DEF ConfigTracked
  <2>2. DOMAIN backends = DOMAIN config
    <3>1. backends \in Seq(Obj) /\ config \in Seq(BackendConfig)
      BY DEF Inv1, Typed
    <3> QED BY <2>1, <3>1
  <2> QED BY <2>1, <2>2 DEF Follows
<1>2. Inv2 => Inv1
  BY DEF Inv2
<1> QED BY <1>1, <1>2, InitTracked, NextTracked, Inv2Always, PTL DEF Spec

-----------------------------------------------------------------------------
(* The reload loop and the health checkers.                                *)

(* The edits that nobody watched, and those whose event the loop has       *)
(* consumed and dealt with.                                                *)
Done == edits - raised - chan - (IF loop \in {"start", "recv"} THEN 0 ELSE 1)

(* Where the loop is, and how many edits are on their way to it: it is in  *)
(* update_backends exactly while a list is being built.                    *)
LoopInv ==
    /\ file \in Files /\ missed \in BOOLEAN
    /\ edits \in 0..MaxEdits /\ raised \in 0..MaxEdits /\ chan \in 0..1
    /\ Done \in Nat
    /\ loop \in {"start", "recv", "read", "update", "spawn"}
    /\ upd.busy <=> loop = "update"

(* The file in force is the present one, unless an event is under way or   *)
(* it was last written before the watcher watched it.                      *)
FileInv ==
    (raised = 0 /\ chan = 0 /\ loop # "read" /\ file \in Parsed /\ ~missed) =>
        config = file.backends

(* The checkers: start-up and each edit dealt with have spawned at most    *)
(* PerReload of them, and only spawned ones have the outcome of a probe.   *)
MonInv ==
    /\ mon \in Seq(Addr)
    /\ hc \in BOOLEAN
    /\ hc => Len(config) <= PerReload
    /\ Len(mon) <= PerReload * (Done + 1)
    /\ probe \in [Checker -> {"none", "up", "down"}]
    /\ up \in [Addr -> BOOLEAN]
    /\ \A k \in Checker : probe[k] # "none" => k \in DOMAIN mon

ReloadInv == LoopInv /\ FileInv /\ MonInv /\ AllMonitored

-----------------------------------------------------------------------------
(* There are enough names for the checkers that can be spawned.            *)
LEMMA NamesSuffice ==
    /\ PerReload \in Nat /\ Cardinality(Checker) \in Nat
    /\ \A d \in 0..MaxEdits : PerReload * (d + 1) <= Cardinality(Checker)
<1> DEFINE n == Cardinality(Checker)
           m == MaxEdits + 1
           q == n \div m
<1>1. n \in Nat /\ m \in Nat \ {0} /\ MaxEdits \in Nat
  BY CheckerAssumption, FS_CardinalityType, MaxEditsAssumption
<1> HIDE DEF n, m
<1>2. q \in Nat /\ q * m <= n
  BY <1>1
<1>3. PerReload = q
  BY DEF PerReload, n, m
<1> HIDE DEF q
<1>4. ASSUME NEW d \in 0..MaxEdits PROVE q * (d + 1) <= n
  <2>1. d + 1 \in Nat /\ d + 1 <= m
    BY <1>1 DEF m
  <2>2. q * (d + 1) <= q * m
    <3> DEFINE e == d + 1
               r == m - e
    <3>1. e \in Nat /\ r \in Nat /\ m = e + r
      BY <1>1, <2>1
    <3> HIDE DEF e, r
    <3>2. q * m = q * e + q * r /\ q * r >= 0 /\ q * e \in Nat
      BY <1>2, <3>1
    <3>3. q * e <= q * m
      BY <1>1, <1>2, <3>1, <3>2
    <3> QED BY <3>3 DEF e
  <2>3. q * (d + 1) \in Nat /\ q * m \in Nat
    BY <1>1, <1>2, <2>1
  <2> HIDE DEF q
  <2> QED BY <1>1, <1>2, <2>2, <2>3
<1> QED BY <1>1, <1>2, <1>3, <1>4 DEF n

(* The addresses of a configuration.                                       *)
LEMMA AddrsType ==
    ASSUME NEW cfg \in Seq(BackendConfig)
    PROVE  /\ Addrs(cfg) \in Seq(Addr) /\ Len(Addrs(cfg)) = Len(cfg)
           /\ \A i \in DOMAIN cfg : i \in DOMAIN Addrs(cfg) /\ Addrs(cfg)[i] = cfg[i].addr
<1>1. \A i \in DOMAIN cfg : cfg[i].addr \in Addr
  <2>1. \A i \in DOMAIN cfg : cfg[i] \in BackendConfig
    OBVIOUS
  <2> QED BY <2>1 DEF BackendConfig
<1>2. DOMAIN cfg = 1..Len(cfg) /\ Len(cfg) \in Nat
  OBVIOUS
<1>3. Addrs(cfg) \in [1..Len(cfg) -> Addr]
  BY <1>1, <1>2 DEF Addrs
<1> QED BY <1>2, <1>3 DEF Addrs

(* A parsed file holds a list of backends.                                 *)
LEMMA ParsedType ==
    ASSUME NEW f \in Parsed
    PROVE  /\ f.backends \in Configs /\ f.backends \in Seq(BackendConfig)
           /\ f.hc \in BOOLEAN
           /\ f.hc => Len(f.backends) <= PerReload
  BY FilesAssumption, ConfigsAssumption, PerReloadAssumption

(* The start-up of main.rs.                                                *)
LEMMA InitReload == ReloadInit => ReloadInv
<1> SUFFICES ASSUME ReloadInit PROVE ReloadInv
  OBVIOUS
<1>0. /\ Init /\ file \in Parsed /\ file.backends = config /\ hc = file.hc
      /\ edits = 0 /\ raised = 0 /\ chan = 0 /\ loop = "start"
      /\ mon = IF hc THEN Addrs(config) ELSE <<>>
      /\ probe = [k \in Checker |-> "none"] /\ up \in [Addr -> BOOLEAN]
  BY DEF ReloadInit
<1>1. config \in Seq(BackendConfig) /\ hc \in BOOLEAN /\ (hc => Len(config) <= PerReload)
  BY <1>0, ParsedType
<1>2. Done = 0
  <2>1. edits = 0 /\ raised = 0 /\ chan = 0 /\ loop = "start"
    BY <1>0
  <2>2. (IF loop \in {"start", "recv"} THEN 0 ELSE 1) = 0
    BY <2>1
  <2>3. Done = 0 - 0 - 0 - 0
    BY <2>1, <2>2, Zenon DEF Done
  <2> QED BY <2>3
<1>3. LoopInv
  <2>1. missed \in BOOLEAN
    BY DEF ReloadInit
  <2>2. 0 \in 0..MaxEdits /\ 0 \in 0..1 /\ 0 \in Nat
    BY MaxEditsAssumption
  <2>3. ~upd.busy
    BY <1>0 DEF Init, IdleUpd
  <2> QED BY <1>0, <1>2, <2>1, <2>2, <2>3 DEF LoopInv, Parsed
<1>4. FileInv
  BY <1>0 DEF FileInv
<1>5. mon \in Seq(Addr) /\ Len(mon) <= PerReload
  <2>1. CASE hc
    BY <1>0, <1>1, <2>1, AddrsType
  <2>2. CASE ~hc
    BY <1>0, <2>2, NamesSuffice
  <2> QED BY <2>1, <2>2
<1>6. PerReload * (Done + 1) = PerReload
  BY <1>2, NamesSuffice
<1>7. MonInv
  BY <1>0, <1>1, <1>5, <1>6 DEF MonInv
<1>8. AllMonitored
  <2> SUFFICES ASSUME hc, NEW i \in DOMAIN config PROVE Monitored(config[i].addr)
    BY DEF AllMonitored
  <2>1. i \in DOMAIN mon /\ mon[i] = config[i].addr
    BY <1>0, <1>1, AddrsType
  <2> QED BY <2>1 DEF Monitored
<1> QED BY <1>3, <1>4, <1>7, <1>8 DEF ReloadInv

-----------------------------------------------------------------------------
(* Every step of the reloading system is a step of the balancer or leaves  *)
(* it alone: the loop hands it lists of Configs only, and checkers report  *)
(* on addresses.                                                           *)
LEMMA StepOfBalancer == ReloadInv /\ [ReloadNext]_reloadVars => [Next]_vars
<1> SUFFICES ASSUME ReloadInv, [ReloadNext]_reloadVars PROVE Next \/ vars' = vars
  OBVIOUS
<1>1. ASSUME ReadFile PROVE Next \/ vars' = vars
  <2>1. CASE file \in Parsed /\ UpdateBackends(file.backends)
    BY <2>1, ParsedType DEF Next
  <2> QED BY <1>1, <2>1 DEF ReadFile
<1>2. ASSUME NEW k \in Checker, Report(k) PROVE Next
  <2>1. probe[k] # "none" /\ SetBackendHealth(k, mon[k], probe[k] = "up")
    BY <1>2 DEF Report
  <2>2. mon[k] \in Addr
    <3>1. k \in DOMAIN mon /\ mon \in Seq(Addr)
      BY <2>1 DEF ReloadInv, MonInv
    <3> QED BY <3>1
  <2>3. (probe[k] = "up") \in BOOLEAN
    OBVIOUS
  <2>4. \E c \in Checker, a \in Addr, h \in BOOLEAN : SetBackendHealth(c, a, h)
    <3> DEFINE hh == (probe[k] = "up")
    <3>1. hh \in BOOLEAN /\ SetBackendHealth(k, mon[k], hh)
      BY <2>1
    <3> HIDE DEF hh
    <3> QED BY <2>2, <3>1
  <2> QED BY <2>4 DEF Next
<1>3. ASSUME ApplyEntry \/ ApplyList PROVE Next
  BY <1>3 DEF ApplyEntry, ApplyList, Next, UpdateStep
<1>4. ASSUME NEW k \in Checker, Mark(k) PROVE Next
  BY <1>4 DEF Mark, Next
<1>5. ASSUME \/ \E f \in Files : EditFile(f)
             \/ SendEvent \/ Watch \/ RecvEvent \/ SpawnCheckers
             \/ \E k \in Checker : Probe(k)
             \/ \E x \in Addr : FlipBackend(x)
             \/ UNCHANGED reloadVars
      PROVE  vars' = vars
  BY <1>5 DEF EditFile, SendEvent, Watch, RecvEvent, SpawnCheckers, Probe,
              FlipBackend, reloadVars
<1> QED
  BY <1>1, <1>2, <1>3, <1>4, <1>5 DEF ReloadNext, LoopStep, HealthStep

(* Steps that leave the checkers alone and take no edit off the list of    *)
(* those dealt with.                                                       *)
LEMMA MonFrame ==
    ASSUME MonInv, UNCHANGED <<mon, hc, config, probe, up>>, Done' = Done
    PROVE  MonInv'
<1>1. Len(mon') <= PerReload * (Done' + 1)
  BY DEF MonInv
<1> QED BY <1>1 DEF MonInv

(* Steps that leave the checkers alone while one more edit is dealt with.  *)
LEMMA MonSlack ==
    ASSUME MonInv, UNCHANGED <<mon, hc, config, probe, up>>, Done \in Nat,
           Done' = Done + 1
    PROVE  MonInv'
<1>1. Len(mon) <= PerReload * (Done + 1) /\ Len(mon) \in Nat /\ PerReload \in Nat
  BY NamesSuffice DEF MonInv
<1> DEFINE d == Done + 1
<1>2. d \in Nat /\ Done' + 1 = d + 1
  OBVIOUS
<1>3. Len(mon) <= PerReload * d
  BY <1>1
<1> HIDE DEF d
<1>4. PerReload * (d + 1) = PerReload * d + PerReload /\ PerReload * d \in Nat
  BY <1>1, <1>2
<1>5. Len(mon) <= PerReload * (d + 1)
  BY <1>1, <1>3, <1>4
<1>6. Len(mon') <= PerReload * (Done' + 1)
  BY <1>2, <1>5
<1> QED BY <1>6 DEF MonInv

(* Steps of the loop and the watcher other than a spawn.                   *)
LEMMA MonitoredFrame ==
    ASSUME AllMonitored, UNCHANGED <<mon, hc, config>>,
           loop' \in {"start", "recv", "read"} => loop \in {"start", "recv", "read"}
    PROVE  AllMonitored'
  BY DEF AllMonitored, Monitored

(* The file is written, and the event raised if it is watched.             *)
LEMMA EditReload ==
    ASSUME Inv1, ReloadInv, NEW f \in Files, EditFile(f)
    PROVE  ReloadInv'
<1>1. /\ edits < MaxEdits /\ file' = f /\ edits' = edits + 1
      /\ raised' = IF loop = "start" THEN raised ELSE raised + 1
      /\ missed' = (loop = "start")
      /\ UNCHANGED <<chan, loop, hc, mon, probe, up, config, upd>>
  BY DEF EditFile, vars, updVars, loopVars, healthVars
<1>2. /\ edits \in 0..MaxEdits /\ raised \in 0..MaxEdits /\ chan \in 0..1 /\ Done \in Nat
      /\ MaxEdits \in Nat
  BY MaxEditsAssumption DEF ReloadInv, LoopInv
<1>3. Done' = IF loop = "start" THEN Done + 1 ELSE Done
  BY <1>1, <1>2 DEF Done
<1>4. raised' \in 0..MaxEdits /\ edits' \in 0..MaxEdits /\ Done' \in Nat
  BY <1>1, <1>2, <1>3 DEF Done
<1>5. LoopInv'
  BY <1>1, <1>2, <1>4 DEF ReloadInv, LoopInv
<1>6. FileInv'
  <2>1. CASE loop = "start"
    <3>1. missed'
      BY <2>1 DEF EditFile
    <3> QED BY <3>1 DEF FileInv
  <2>2. CASE loop # "start"
    <3>1. raised' = raised + 1
      BY <2>2 DEF EditFile
    <3>2. raised' # 0
      BY <1>2, <3>1
    <3> QED BY <3>2 DEF FileInv
  <2> QED BY <2>1, <2>2
<1>7. MonInv'
  <2>1. CASE loop = "start"
    BY <1>1, <1>2, <1>3, <2>1, MonSlack DEF ReloadInv
  <2>2. CASE loop # "start"
    BY <1>1, <1>3, <2>2, MonFrame DEF ReloadInv
  <2> QED BY <2>1, <2>2
<1>8. AllMonitored'
  BY <1>1, MonitoredFrame DEF ReloadInv
<1> QED BY <1>5, <1>6, <1>7, <1>8 DEF ReloadInv

(* The watcher is registered.                                              *)
LEMMA WatchReload ==
    ASSUME Inv1, ReloadInv, Watch
    PROVE  ReloadInv'
<1>1. /\ loop = "start" /\ loop' = "recv"
      /\ UNCHANGED <<file, edits, missed, raised, chan, hc, mon, probe, up, config, upd>>
  BY DEF Watch, vars, updVars, fileVars, diskVars, healthVars
<1>2. Done' = Done
  BY <1>1 DEF Done
<1>3. LoopInv' /\ FileInv'
  BY <1>1, <1>2 DEF ReloadInv, LoopInv, FileInv
<1>4. MonInv' /\ AllMonitored'
  BY <1>1, <1>2, MonFrame, MonitoredFrame DEF ReloadInv
<1> QED BY <1>3, <1>4 DEF ReloadInv

(* The event enters the channel, and leaves it.                            *)
LEMMA SignalReload ==
    ASSUME Inv1, ReloadInv, SendEvent \/ RecvEvent
    PROVE  ReloadInv'
<1>1. UNCHANGED <<file, edits, missed, hc, mon, probe, up, config, upd>>
  BY DEF SendEvent, RecvEvent, vars, updVars, diskVars, loopVars, healthVars
<1>2. \/ /\ raised > 0 /\ chan = 0 /\ raised' = raised - 1 /\ chan' = 1 /\ loop' = loop
      \/ /\ loop = "recv" /\ chan = 1 /\ chan' = 0 /\ loop' = "read" /\ raised' = raised
  BY DEF SendEvent, RecvEvent, loopVars
<1>3. /\ edits \in 0..MaxEdits /\ raised \in 0..MaxEdits /\ chan \in 0..1 /\ Done \in Nat
      /\ MaxEdits \in Nat
  BY MaxEditsAssumption DEF ReloadInv, LoopInv
<1>4. Done' = Done
  BY <1>1, <1>2, <1>3 DEF Done
<1>5. raised' \in 0..MaxEdits /\ chan' \in 0..1
  BY <1>2, <1>3
<1>6. LoopInv'
  <2>1. /\ loop' \in {"start", "recv", "read", "update", "spawn"}
        /\ loop' = "update" <=> loop = "update"
    BY <1>2 DEF ReloadInv, LoopInv
  <2> QED BY <1>1, <1>3, <1>4, <1>5, <2>1 DEF ReloadInv, LoopInv
<1>7. FileInv'
  <2>1. chan' # 0 \/ loop' = "read"
    BY <1>2
  <2> QED BY <2>1 DEF FileInv
<1>8. MonInv'
  BY <1>1, <1>4, MonFrame DEF ReloadInv
<1>9. AllMonitored'
  <2>1. loop' \in {"start", "recv", "read"} => loop \in {"start", "recv", "read"}
    BY <1>2
  <2> QED BY <1>1, <2>1, MonitoredFrame DEF ReloadInv
<1> QED BY <1>6, <1>7, <1>8, <1>9 DEF ReloadInv

(* A reading that fails is dealt with; one that succeeds puts its list and *)
(* its health_check section in force.                                      *)
LEMMA ReadReload ==
    ASSUME Inv1, ReloadInv, ReadFile
    PROVE  ReloadInv'
<1>1. /\ loop = "read"
      /\ UNCHANGED <<file, edits, missed, raised, chan, mon, probe, up>>
  BY DEF ReadFile, fileVars, diskVars, healthVars
<1>2. /\ edits \in 0..MaxEdits /\ raised \in 0..MaxEdits /\ chan \in 0..1 /\ Done \in Nat
      /\ MaxEdits \in Nat /\ PerReload \in Nat
  BY MaxEditsAssumption, NamesSuffice DEF ReloadInv, LoopInv
<1>3. CASE file \in {Malformed, RuleMissing} /\ loop' = "recv" /\ UNCHANGED <<vars, hc>>
  <2>1. UNCHANGED <<config, upd, hc>>
    BY <1>3 DEF vars, updVars
  <2>2. Done' = Done + 1
    BY <1>1, <1>2, <1>3 DEF Done
  <2>3. MonInv'
    BY <1>1, <1>2, <2>1, <2>2, MonSlack DEF ReloadInv
  <2>4. LoopInv'
    <3>1. Done' \in Nat
      BY <1>2, <2>2
    <3> QED BY <1>1, <1>2, <1>3, <2>1, <3>1 DEF ReloadInv, LoopInv
  <2>5. FileInv'
    BY <1>1, <1>3 DEF FileInv, Parsed
  <2>6. AllMonitored'
    BY <1>1, <2>1, MonitoredFrame DEF ReloadInv
  <2> QED BY <2>3, <2>4, <2>5, <2>6 DEF ReloadInv
<1>4. CASE /\ file \in Parsed /\ UpdateBackends(file.backends) /\ hc' = file.hc
           /\ loop' = "update"
  <2>1. config' = file.backends /\ upd'.busy
    BY <1>4 DEF UpdateBackends
  <2>2. Done' = Done
    BY <1>1, <1>2, <1>4 DEF Done
  <2>3. LoopInv'
    BY <1>1, <1>2, <1>4, <2>1, <2>2 DEF ReloadInv, LoopInv
  <2>4. FileInv'
    BY <1>1, <2>1 DEF FileInv
  <2>5. MonInv'
    <3>1. hc' \in BOOLEAN /\ (hc' => Len(config') <= PerReload)
      BY <1>4, <2>1, ParsedType
    <3>2. Len(mon') <= PerReload * (Done' + 1)
      BY <1>1, <2>2 DEF ReloadInv, MonInv
    <3> QED BY <1>1, <3>1, <3>2 DEF ReloadInv, MonInv
  <2>6. AllMonitored'
    BY <1>4 DEF AllMonitored
  <2> QED BY <2>3, <2>4, <2>5, <2>6 DEF ReloadInv
<1> QED BY <1>3, <1>4 DEF ReadFile

(* update_backends at work, and its end.                                   *)
LEMMA ApplyReload ==
    ASSUME Inv1, ReloadInv, ApplyEntry \/ ApplyList
    PROVE  ReloadInv'
<1>1. UNCHANGED <<file, edits, missed, raised, chan, hc, mon, probe, up, config>>
  BY DEF ApplyEntry, ApplyList, KeepEntry, NewEntry, StoreBackends, fileVars,
         diskVars, loopVars, healthVars
<1>2. upd.busy /\ loop = "update"
  BY DEF ReloadInv, LoopInv, ApplyEntry, ApplyList, KeepEntry, NewEntry,
         StoreBackends
<1>3. /\ upd'.busy <=> loop' = "update"
      /\ loop' \in {"update", "spawn"}
  <2>1. CASE ApplyList
    BY <2>1 DEF ApplyList, StoreBackends, IdleUpd
  <2>2. CASE ApplyEntry
    <3>1. loop' = loop
      BY <2>2 DEF ApplyEntry, loopVars
    <3>2. upd'.busy = upd.busy
      <4>1. upd \in [busy: BOOLEAN, todo: Seq(BackendConfig), built: Seq(Obj)]
        BY DEF Inv1, Typed
      <4>2. \E x : upd' = [upd EXCEPT !.todo = Tail(@), !.built = Append(@, x)]
        BY <2>2 DEF ApplyEntry, KeepEntry, NewEntry
      <4> QED BY <4>1, <4>2
    <3> QED BY <1>2, <3>1, <3>2
  <2> QED BY <2>1, <2>2
<1>4. Done' = Done
  BY <1>1, <1>2, <1>3 DEF Done
<1>5. LoopInv'
  BY <1>1, <1>3, <1>4 DEF ReloadInv, LoopInv
<1>6. FileInv'
  BY <1>1, <1>2 DEF ReloadInv, FileInv
<1>7. MonInv'
  BY <1>1, <1>4, MonFrame DEF ReloadInv
<1>8. AllMonitored'
  BY <1>3 DEF AllMonitored
<1> QED BY <1>5, <1>6, <1>7, <1>8 DEF ReloadInv

(* What a list appended to another contributes.                            *)
LEMMA AppendedList ==
    ASSUME NEW s \in Seq(Addr), NEW r \in Seq(Addr)
    PROVE  /\ s \o r \in Seq(Addr) /\ Len(s \o r) = Len(s) + Len(r)
           /\ \A k \in DOMAIN s : k \in DOMAIN (s \o r)
           /\ \A i \in DOMAIN r : /\ Len(s) + i \in DOMAIN (s \o r)
                                  /\ (s \o r)[Len(s) + i] = r[i]
<1>1. s \o r \in Seq(Addr) /\ Len(s \o r) = Len(s) + Len(r)
  OBVIOUS
<1>2. \A i \in 1..(Len(s) + Len(r)) :
         (s \o r)[i] = IF i <= Len(s) THEN s[i] ELSE r[i - Len(s)]
  OBVIOUS
<1>3. /\ DOMAIN s = 1..Len(s) /\ DOMAIN r = 1..Len(r)
      /\ DOMAIN (s \o r) = 1..(Len(s) + Len(r))
      /\ Len(s) \in Nat /\ Len(r) \in Nat
  BY <1>1
<1>4. ASSUME NEW i \in DOMAIN r
      PROVE  Len(s) + i \in DOMAIN (s \o r) /\ (s \o r)[Len(s) + i] = r[i]
  <2>1. /\ Len(s) + i \in 1..(Len(s) + Len(r)) /\ ~(Len(s) + i <= Len(s))
        /\ (Len(s) + i) - Len(s) = i
    BY <1>3
  <2> QED BY <1>2, <1>3, <2>1
<1>5. \A k \in DOMAIN s : k \in DOMAIN (s \o r)
  BY <1>3
<1> QED BY <1>1, <1>4, <1>5

(* The spawns of a reload: every backend in force has a checker now, and   *)
(* the checkers are no more than PerReload for each edit dealt with.       *)
LEMMA SpawnReload ==
    ASSUME Inv1, ReloadInv, SpawnCheckers
    PROVE  ReloadInv'
<1>1. /\ loop = "spawn" /\ loop' = "recv"
      /\ mon' = IF hc THEN mon \o Addrs(config) ELSE mon
      /\ UNCHANGED <<file, edits, missed, raised, chan, hc, probe, up, config, upd>>
  BY DEF SpawnCheckers, vars, updVars, fileVars, diskVars
<1>2. /\ edits \in 0..MaxEdits /\ raised \in 0..MaxEdits /\ chan \in 0..1 /\ Done \in Nat
      /\ MaxEdits \in Nat /\ PerReload \in Nat
  BY MaxEditsAssumption, NamesSuffice DEF ReloadInv, LoopInv
<1>3. Done' = Done + 1
  BY <1>1, <1>2 DEF Done
<1>4. /\ mon \in Seq(Addr) /\ Addrs(config) \in Seq(Addr)
      /\ Len(Addrs(config)) = Len(config) /\ Len(config) \in Nat
      /\ hc => Len(config) <= PerReload
      /\ hc \in BOOLEAN
  <2>1. config \in Seq(BackendConfig)
    BY DEF Inv1, Typed
  <2> QED BY <2>1, AddrsType DEF ReloadInv, MonInv
<1>5. /\ mon' \in Seq(Addr) /\ Len(mon') <= Len(mon) + PerReload
      /\ Len(mon) \in Nat /\ Len(mon') \in Nat
      /\ \A k \in DOMAIN mon : k \in DOMAIN mon'
      /\ hc => \A i \in DOMAIN Addrs(config) :
                  /\ Len(mon) + i \in DOMAIN mon'
                  /\ mon'[Len(mon) + i] = Addrs(config)[i]
  <2>1. CASE hc
    <3>1. mon' = mon \o Addrs(config)
      BY <1>1, <2>1
    <3>2. /\ mon' \in Seq(Addr) /\ Len(mon') = Len(mon) + Len(Addrs(config))
          /\ \A k \in DOMAIN mon : k \in DOMAIN mon'
          /\ \A i \in DOMAIN Addrs(config) :
                  /\ Len(mon) + i \in DOMAIN mon'
                  /\ mon'[Len(mon) + i] = Addrs(config)[i]
      BY <1>4, <3>1, AppendedList
    <3>3. Len(mon') <= Len(mon) + PerReload /\ Len(mon) \in Nat /\ Len(mon') \in Nat
      BY <1>2, <1>4, <2>1, <3>2
    <3> QED BY <3>2, <3>3
  <2>2. CASE ~hc
    <3>1. mon' = mon
      BY <1>1, <2>2
    <3> QED BY <1>2, <1>4, <2>2, <3>1
  <2> QED BY <2>1, <2>2
<1>6. LoopInv'
  <2>1. Done' \in Nat
    BY <1>2, <1>3
  <2> QED BY <1>1, <1>2, <2>1 DEF ReloadInv, LoopInv
<1>7. FileInv'
  BY <1>1 DEF ReloadInv, FileInv
<1>8. MonInv'
  <2>1. Len(mon') <= PerReload * (Done' + 1)
    <3>1. Len(mon) <= PerReload * (Done + 1)
      BY DEF ReloadInv, MonInv
    <3> DEFINE d == Done + 1
    <3>2. d \in Nat /\ Done' + 1 = d + 1
      BY <1>2, <1>3
    <3>3. Len(mon) <= PerReload * d
      BY <3>1
    <3> HIDE DEF d
    <3>4. PerReload * (d + 1) = PerReload * d + PerReload /\ PerReload * d \in Nat
      BY <1>2, <3>2
    <3>5. Len(mon') <= PerReload * (d + 1)
      BY <1>2, <1>5, <3>3, <3>4
    <3> QED BY <3>2, <3>5
  <2> QED BY <1>1, <1>5, <2>1 DEF ReloadInv, MonInv
<1>9. AllMonitored'
  <2> SUFFICES ASSUME hc, NEW i \in DOMAIN config
               PROVE  \E k \in DOMAIN mon' : mon'[k] = config[i].addr
    BY <1>1 DEF AllMonitored, Monitored
  <2>1. i \in DOMAIN Addrs(config) /\ Addrs(config)[i] = config[i].addr
    <3>1. config \in Seq(BackendConfig)
      BY DEF Inv1, Typed
    <3> QED BY <3>1, AddrsType
  <2> QED BY <1>5, <2>1
<1> QED BY <1>6, <1>7, <1>8, <1>9 DEF ReloadInv

(* Probes, reports and failures concern only the checkers.                 *)
LEMMA HealthReload ==
    ASSUME Inv1, ReloadInv,
           \/ \E k \in Checker : HealthStep(k)
           \/ \E x \in Addr : FlipBackend(x)
           \/ UNCHANGED reloadVars
    PROVE  ReloadInv'
<1>1. UNCHANGED <<file, edits, missed, raised, chan, loop, hc, mon, config, upd>>
  BY DEF HealthStep, Probe, Report, Mark, CheckerStep, FindBackend, SwapHealthy,
         SetBackendHealth, FlipBackend, reloadVars, vars, updVars, fileVars,
         diskVars, loopVars, healthVars
<1>2. Done' = Done
  BY <1>1 DEF Done
<1>3. LoopInv'
  BY <1>1, <1>2 DEF ReloadInv, LoopInv
<1>4. FileInv'
  BY <1>1 DEF ReloadInv, FileInv
<1>5. up' \in [Addr -> BOOLEAN]
  <2>0. up \in [Addr -> BOOLEAN]
    BY DEF ReloadInv, MonInv
  <2>1. CASE \E x \in Addr : FlipBackend(x)
    BY <2>0, <2>1 DEF FlipBackend
  <2>2. CASE up' = up
    BY <2>0, <2>2
  <2>3. CASE (\E k \in Checker : HealthStep(k)) \/ UNCHANGED reloadVars
    BY <2>2, <2>3 DEF HealthStep, Probe, Report, Mark, reloadVars
  <2> QED BY <2>1, <2>3
<1>6. /\ probe' \in [Checker -> {"none", "up", "down"}]
      /\ \A k \in Checker : probe'[k] # "none" => k \in DOMAIN mon
  <2>0. /\ probe \in [Checker -> {"none", "up", "down"}]
        /\ \A k \in Checker : probe[k] # "none" => k \in DOMAIN mon
    BY DEF ReloadInv, MonInv
  <2>1. ASSUME NEW k \in Checker, Probe(k)
        PROVE  /\ probe' \in [Checker -> {"none", "up", "down"}]
               /\ \A j \in Checker : probe'[j] # "none" => j \in DOMAIN mon
    <3>1. /\ k \in DOMAIN mon
          /\ \/ probe' = [probe EXCEPT ![k] = "up"]
             \/ probe' = [probe EXCEPT ![k] = "down"]
      BY <2>1 DEF Probe
    <3> QED BY <2>0, <3>1
  <2>2. ASSUME NEW k \in Checker, Report(k)
        PROVE  /\ probe' \in [Checker -> {"none", "up", "down"}]
               /\ \A j \in Checker : probe'[j] # "none" => j \in DOMAIN mon
    <3>1. probe' = [probe EXCEPT ![k] = "none"]
      BY <2>2 DEF Report
    <3> QED BY <2>0, <3>1
  <2>3. ASSUME \/ \E k \in Checker : Mark(k)
               \/ \E x \in Addr : FlipBackend(x)
               \/ UNCHANGED reloadVars
        PROVE  probe' = probe
    BY <2>3 DEF Mark, FlipBackend, reloadVars, healthVars
  <2> QED BY <2>0, <2>1, <2>2, <2>3 DEF HealthStep
<1>7. MonInv'
  <2>1. Len(mon') <= PerReload * (Done' + 1)
    BY <1>1, <1>2 DEF ReloadInv, MonInv
  <2> QED BY <1>1, <1>5, <1>6, <2>1 DEF ReloadInv, MonInv
<1>8. AllMonitored'
  BY <1>1, MonitoredFrame DEF ReloadInv
<1> QED BY <1>3, <1>4, <1>7, <1>8 DEF ReloadInv

(* Every step preserves ReloadInv.                                         *)
LEMMA NextReload == Inv1 /\ ReloadInv /\ [ReloadNext]_reloadVars => ReloadInv'
<1> SUFFICES ASSUME Inv1, ReloadInv, [ReloadNext]_reloadVars PROVE ReloadInv'
  OBVIOUS
<1> QED
  BY EditReload, WatchReload, SignalReload, ReadReload, ApplyReload, SpawnReload, HealthReload
     DEF ReloadNext, LoopStep

(* The watcher, the reload loop and the checkers drive the balancer only   *)
(* through its operations: every theorem about Spec holds of them.         *)
THEOREM ReloadDrivesBalancer == ReloadSpec => Spec /\ []ReloadInv
<1>1. ReloadInit => Init /\ Inv1 /\ ReloadInv
  BY InitReload, InitInv1 DEF ReloadInit
<1>2. Inv1 /\ ReloadInv /\ [ReloadNext]_reloadVars =>
         Inv1' /\ ReloadInv' /\ [Next]_vars
  BY NextInv1, NextReload, StepOfBalancer
<1> QED BY <1>1, <1>2, PTL DEF ReloadSpec, Spec

(* Every variable of the reloading system keeps its type; the signals in   *)
(* the channel and the checkers never exceed their bounds.                 *)
THEOREM ReloadTypeCorrect == ReloadSpec => []ReloadTypeOK
<1>1. Inv1 /\ ReloadInv => ReloadTypeOK
  <2> SUFFICES ASSUME Inv1, ReloadInv PROVE ReloadTypeOK
    OBVIOUS
  <2>1. /\ edits \in 0..MaxEdits /\ raised \in 0..MaxEdits /\ chan \in 0..1
        /\ Done \in Nat /\ MaxEdits \in Nat
    BY MaxEditsAssumption DEF ReloadInv, LoopInv
  <2>2. Done \in 0..MaxEdits
    <3>1. Done <= edits
      BY <2>1 DEF Done
    <3> QED BY <2>1, <3>1
  <2>3. Len(mon) <= Cardinality(Checker)
    <3>1. /\ PerReload * (Done + 1) <= Cardinality(Checker)
          /\ Len(mon) <= PerReload * (Done + 1)
          /\ Len(mon) \in Nat /\ PerReload \in Nat /\ Cardinality(Checker) \in Nat
      BY <2>2, NamesSuffice DEF ReloadInv, MonInv
    <3> DEFINE m == PerReload * (Done + 1)
    <3>2. m \in Nat
      BY <2>1, <3>1
    <3>3. Len(mon) <= m /\ m <= Cardinality(Checker)
      BY <3>1
    <3> HIDE DEF m
    <3> QED BY <3>1, <3>2, <3>3
  <2> QED BY <2>3 DEF Inv1, ReloadInv, LoopInv, MonInv, ReloadTypeOK
<1>2. Inv2 => Inv1
  BY DEF Inv2
<1> QED BY <1>1, <1>2, ReloadDrivesBalancer, Inv2Always, PTL

(* No edit of the watched file is lost, however edits, events and reloads  *)
(* overlap, also after edits that nobody watched.                          *)
THEOREM EditsKept == ReloadSpec => []NoEditLost
<1>1. ReloadInv => NoEditLost
  BY DEF ReloadInv, FileInv, LoopInv, NoEditLost
<1> QED BY <1>1, ReloadDrivesBalancer, PTL

(* Every backend in force has a checker between reloads.                   *)
THEOREM BackendsMonitored == ReloadSpec => []AllMonitored
<1>1. ReloadInv => AllMonitored
  BY DEF ReloadInv
<1> QED BY <1>1, ReloadDrivesBalancer, PTL
===============================================================================
