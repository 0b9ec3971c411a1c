------------------------------ MODULE Balancer ------------------------------
(***************************************************************************)
(* The load balancer of one rule (core/balancer.rs), shared without locks  *)
(* by the connection tasks, the health-check tasks and the reload loop.    *)
(*                                                                         *)
(* A Backend is a heap object whose counters and flags outlive the list    *)
(* that names it, so backends are object numbers here and an address may   *)
(* have several objects: one listed now, older ones kept alive by the      *)
(* ConnectionGuards of their connections.  Each access to shared memory    *)
(* (an ArcSwap load or store, an atomic read, write or read-modify-write,  *)
(* a gauge update) is a step of its own; two accesses are joined in a step *)
(* only when they touch different variables and nothing observes the       *)
(* order.  Atomics are sequentially consistent in the model.               *)
(***************************************************************************)
EXTENDS Integers, Sequences, FiniteSets

CONSTANTS
    Addr,        \* backend addresses
    Task,        \* connection tasks (slots, reused by later connections)
    Checker,     \* health-check tasks
    Configs,     \* the backend lists a configuration file may hold
    NumWorkers,  \* runtime threads: tasks that can be in synchronous code
    ConnLimit,   \* backend_connection_limit: a number or NoLimit
    NoLimit,     \* None
    UsizeMod,    \* 2^w, the range of the usize round-robin counter
    MaxObj       \* bound: Backend objects allocated in a behaviour

BackendConfig == [addr: Addr, drain: BOOLEAN]

Obj == 1..MaxObj

ASSUME ConfigsAssumption == Configs \subseteq Seq(BackendConfig)
ASSUME WorkersAssumption == NumWorkers \in Nat \ {0}
ASSUME LimitAssumption   == ConnLimit \in Nat \/ ConnLimit = NoLimit
ASSUME NoLimitAssumption == NoLimit \notin Nat
ASSUME UsizeAssumption   == UsizeMod \in Nat \ {0}
ASSUME MaxObjAssumption  == MaxObj \in Nat \ {0}
ASSUME AddrAssumption    == Addr # {}
ASSUME TaskAssumption    == IsFiniteSet(Task)

VARIABLES
    backends,    \* the published list: a sequence of objects
    current,     \* the round-robin counter
    nobj,        \* objects 1..nobj have been allocated
    addr,        \* Backend.addr
    active,      \* Backend.active_connections
    healthy,     \* Backend.healthy
    drain,       \* Backend.drain
    connGauge,   \* BACKEND_ACTIVE_CONNECTIONS of each address
    healthGauge, \* BACKEND_HEALTH_STATUS of each address (1.0 is TRUE)
    pc,          \* where each connection task is
    snap,        \* the list a scanning task has loaded
    start,       \* its start_index
    pos,         \* its loop variable i
    held,        \* the object a task selected; its guard keeps it alive
    config,      \* the backend configurations last given to the balancer
    upd,         \* update_backends in progress
    chk          \* set_backend_health in progress, by checker

objVars   == <<nobj, addr, active, healthy, drain>>
gaugeVars == <<connGauge, healthGauge>>
taskVars  == <<pc, snap, start, pos, held>>
updVars   == <<config, upd>>
vars == <<backends, current, objVars, gaugeVars, taskVars, updVars, chk>>

Scanning == {"ticket", "drain", "health", "limit"}
InCode   == Scanning \union {"claim", "count", "release"}
PC       == InCode \union {"idle", "refused", "connected"}

(* Tasks that occupy a runtime thread: next_backend and the guard's drop   *)
(* contain no await, so there are never more of them than threads.         *)
Running == {t \in Task : pc[t] \in InCode}

CheckerState == [pc: {"idle", "find", "swap"}, addr: Addr, healthy: BOOLEAN,
                 obj: Obj \union {0}]

IdleUpd == [busy |-> FALSE, todo |-> <<>>, built |-> <<>>]

Typed ==
    /\ backends \in Seq(Obj)
    /\ current \in 0..(UsizeMod - 1)
    /\ nobj \in 0..MaxObj
    /\ addr \in [Obj -> Addr]
    /\ active \in [Obj -> Int]
    /\ healthy \in [Obj -> BOOLEAN]
    /\ drain \in [Obj -> BOOLEAN]
    /\ connGauge \in [Addr -> Int]
    /\ healthGauge \in [Addr -> BOOLEAN]
    /\ pc \in [Task -> PC]
    /\ snap \in [Task -> Seq(Obj)]
    /\ start \in [Task -> Nat]
    /\ pos \in [Task -> Nat]
    /\ held \in [Task -> Obj \union {0}]
    /\ config \in Seq(BackendConfig)
    /\ upd \in [busy: BOOLEAN, todo: Seq(BackendConfig), built: Seq(Obj)]
    /\ chk \in [Checker -> CheckerState]

(* The connection counters are unsigned: a fetch_sub below zero would wrap.*)
TypeOK == Typed /\ active \in [Obj -> Nat]

-----------------------------------------------------------------------------
(* LoadBalancer::new.  The configuration read at start-up, and no later    *)
(* one, has been validated; equal addresses get separate objects.  Slots   *)
(* of the object table that are not allocated yet hold any address.        *)

AnyAddr == CHOOSE a \in Addr : TRUE

(* Config::validate, as far as it concerns a rule's backends.              *)
Validated(cfg) == cfg # <<>>

Init ==
    /\ config \in {c \in Configs : Validated(c) /\ Len(c) <= MaxObj}
    /\ backends = [i \in 1..Len(config) |-> i]
    /\ current = 0
    /\ nobj = Len(config)
    /\ addr = [o \in Obj |-> IF o <= nobj THEN config[o].addr ELSE AnyAddr]
    /\ active = [o \in Obj |-> 0]
    /\ healthy = [o \in Obj |-> TRUE]
    /\ drain = [o \in Obj |-> IF o <= nobj THEN config[o].drain ELSE FALSE]
    /\ connGauge = [a \in Addr |-> 0]
    /\ healthGauge = [a \in Addr |-> \E o \in 1..nobj : addr[o] = a]
    /\ pc = [t \in Task |-> "idle"]
    /\ snap = [t \in Task |-> <<>>]
    /\ start = [t \in Task |-> 0]
    /\ pos = [t \in Task |-> 0]
    /\ held = [t \in Task |-> 0]
    /\ upd = IdleUpd
    /\ chk = [c \in Checker |-> [pc |-> "idle", addr |-> AnyAddr,
                                 healthy |-> TRUE, obj |-> 0]]

-----------------------------------------------------------------------------
(* next_backend.                                                           *)

(* idx = (start_index + i) % len, the sum wrapping as release builds do.   *)
Index(t) == ((start[t] + pos[t]) % UsizeMod) % Len(snap[t])
Cand(t)  == snap[t][Index(t) + 1]

(* A thread is free to run synchronous code of another task.               *)
ThreadFree == Cardinality(Running) < NumWorkers

Leave(t, to) ==
    /\ pc' = [pc EXCEPT ![t] = to]
    /\ snap' = [snap EXCEPT ![t] = <<>>]
    /\ start' = [start EXCEPT ![t] = 0]
    /\ pos' = [pos EXCEPT ![t] = 0]

(* Load the list; None at once when it is empty.                           *)
NextBackend(t) ==
    /\ pc[t] \in {"idle", "refused"}
    /\ ThreadFree
    /\ \/ /\ backends = <<>>
          /\ pc' = [pc EXCEPT ![t] = "refused"]
          /\ UNCHANGED <<snap, pos>>
       \/ /\ backends # <<>>
          /\ pc' = [pc EXCEPT ![t] = "ticket"]
          /\ snap' = [snap EXCEPT ![t] = backends]
          /\ pos' = [pos EXCEPT ![t] = 0]
    /\ UNCHANGED <<backends, current, objVars, gaugeVars, start, held, updVars,
                   chk>>

(* Mutant: the ticket is read and not taken.                               *)
TakeTicketShared(t) ==
    /\ pc[t] = "ticket"
    /\ pc' = [pc EXCEPT ![t] = "drain"]
    /\ start' = [start EXCEPT ![t] = current]
    /\ UNCHANGED <<backends, current, objVars, gaugeVars, snap, pos, held,
                   updVars, chk>>

(* current.fetch_add(1); another list may have been published meanwhile.   *)
TakeTicket(t) ==
    /\ pc[t] = "ticket"
    /\ pc' = [pc EXCEPT ![t] = "drain"]
    /\ start' = [start EXCEPT ![t] = current]
    /\ current' = (current + 1) % UsizeMod
    /\ UNCHANGED <<backends, objVars, gaugeVars, snap, pos, held, updVars, chk>>

(* Mutant: the last entry is not examined.                                 *)
SkipLast(t) ==
    \/ /\ pos[t] + 2 < Len(snap[t])
       /\ pos' = [pos EXCEPT ![t] = @ + 1]
       /\ pc' = [pc EXCEPT ![t] = "drain"]
       /\ UNCHANGED <<snap, start>>
    \/ /\ pos[t] + 2 >= Len(snap[t])
       /\ Leave(t, "refused")

(* `continue`: examine the next entry, or give up after the last one.      *)
Skip(t) ==
    \/ /\ pos[t] + 1 < Len(snap[t])
       /\ pos' = [pos EXCEPT ![t] = @ + 1]
       /\ pc' = [pc EXCEPT ![t] = "drain"]
       /\ UNCHANGED <<snap, start>>
    \/ /\ pos[t] + 1 >= Len(snap[t])
       /\ Leave(t, "refused")

CheckDrain(t) ==
    /\ pc[t] = "drain"
    /\ \/ drain[Cand(t)] /\ Skip(t)
       \/ /\ ~drain[Cand(t)]
          /\ pc' = [pc EXCEPT ![t] = "health"]
          /\ UNCHANGED <<snap, start, pos>>
    /\ UNCHANGED <<backends, current, objVars, gaugeVars, held, updVars, chk>>

CheckHealth(t) ==
    /\ pc[t] = "health"
    /\ \/ ~healthy[Cand(t)] /\ Skip(t)
       \/ /\ healthy[Cand(t)]
          /\ pc' = [pc EXCEPT ![t] = "limit"]
          /\ UNCHANGED <<snap, start, pos>>
    /\ UNCHANGED <<backends, current, objVars, gaugeVars, held, updVars, chk>>

(* Mutant: off by one.                                                     *)
FullAbove(o) == ConnLimit # NoLimit /\ active[o] > ConnLimit

Full(o) == ConnLimit # NoLimit /\ active[o] >= ConnLimit

CheckLimit(t) ==
    /\ pc[t] = "limit"
    /\ \/ Full(Cand(t)) /\ Skip(t) /\ UNCHANGED held
       \/ /\ ~Full(Cand(t))
          /\ held' = [held EXCEPT ![t] = Cand(t)]
          /\ Leave(t, "claim")
    /\ UNCHANGED <<backends, current, objVars, gaugeVars, updVars, chk>>

(* Mutant: the connection is not counted.                                  *)
ClaimUncounted(t) ==
    /\ pc[t] = "claim"
    /\ pc' = [pc EXCEPT ![t] = "count"]
    /\ UNCHANGED <<backends, current, objVars, gaugeVars, snap, start, pos,
                   held, updVars, chk>>

(* active_connections.fetch_add(1)                                         *)
Claim(t) ==
    /\ pc[t] = "claim"
    /\ active' = [active EXCEPT ![held[t]] = @ + 1]
    /\ pc' = [pc EXCEPT ![t] = "count"]
    /\ UNCHANGED <<backends, current, nobj, addr, healthy, drain, gaugeVars,
                   snap, start, pos, held, updVars, chk>>

(* The gauge's inc, and the return of the address with its guard.          *)
Count(t) ==
    /\ pc[t] = "count"
    /\ connGauge' = [connGauge EXCEPT ![addr[held[t]]] = @ + 1]
    /\ pc' = [pc EXCEPT ![t] = "connected"]
    /\ UNCHANGED <<backends, current, objVars, healthGauge, snap, start, pos,
                   held, updVars, chk>>

(* ConnectionGuard::drop, when the connection ends for any reason.         *)
DropGuard(t) ==
    /\ pc[t] = "connected"
    /\ ThreadFree
    /\ active' = [active EXCEPT ![held[t]] = @ - 1]
    /\ pc' = [pc EXCEPT ![t] = "release"]
    /\ UNCHANGED <<backends, current, nobj, addr, healthy, drain, gaugeVars,
                   snap, start, pos, held, updVars, chk>>

(* Mutant: the gauge's dec is forgotten.                                   *)
DropGaugeStuck(t) ==
    /\ pc[t] = "release"
    /\ pc' = [pc EXCEPT ![t] = "idle"]
    /\ held' = [held EXCEPT ![t] = 0]
    /\ UNCHANGED <<backends, current, objVars, gaugeVars, snap, start, pos,
                   updVars, chk>>

DropGauge(t) ==
    /\ pc[t] = "release"
    /\ connGauge' = [connGauge EXCEPT ![addr[held[t]]] = @ - 1]
    /\ pc' = [pc EXCEPT ![t] = "idle"]
    /\ held' = [held EXCEPT ![t] = 0]
    /\ UNCHANGED <<backends, current, objVars, healthGauge, snap, start, pos,
                   updVars, chk>>

-----------------------------------------------------------------------------
(* update_backends, called by the reload loop only: one call at a time, so *)
(* the list it loaded stays the published one until it stores its own.     *)

(* iter().find(|b| b.addr == a) returns the object at position i.          *)
Finds(list, a, i) ==
    /\ i \in DOMAIN list
    /\ addr[list[i]] = a
    /\ \A j \in 1..(i - 1) : addr[list[j]] # a

Listed(list, a) == \E i \in DOMAIN list : addr[list[i]] = a

(* The guard bounds the objects a behaviour may allocate.                  *)
UpdateBackends(cfg) ==
    /\ ~upd.busy
    /\ nobj + Cardinality({i \in DOMAIN cfg : ~Listed(backends, cfg[i].addr)})
         <= MaxObj
    /\ config' = cfg
    /\ upd' = [busy |-> TRUE, todo |-> cfg, built |-> <<>>]
    /\ UNCHANGED <<backends, current, objVars, gaugeVars, taskVars, chk>>

(* Mutants: a kept backend's counter starts again at zero; its new drain   *)
(* flag is ignored; it is replaced by a new object.                        *)
KeepEntryReset ==
    /\ upd.busy /\ upd.todo # <<>>
    /\ \E i \in DOMAIN backends :
          /\ Finds(backends, Head(upd.todo).addr, i)
          /\ drain' = [drain EXCEPT ![backends[i]] = Head(upd.todo).drain]
          /\ active' = [active EXCEPT ![backends[i]] = 0]
          /\ upd' = [upd EXCEPT !.todo = Tail(@),
                                !.built = Append(@, backends[i])]
    /\ UNCHANGED <<backends, current, nobj, addr, healthy, gaugeVars,
                   taskVars, config, chk>>

KeepEntryUndrained ==
    /\ upd.busy /\ upd.todo # <<>>
    /\ \E i \in DOMAIN backends :
          /\ Finds(backends, Head(upd.todo).addr, i)
          /\ upd' = [upd EXCEPT !.todo = Tail(@),
                                !.built = Append(@, backends[i])]
    /\ UNCHANGED <<backends, current, objVars, gaugeVars, taskVars, config, chk>>

KeepEntryRenewed ==
    /\ upd.busy /\ upd.todo # <<>>
    /\ nobj < MaxObj
    /\ Listed(backends, Head(upd.todo).addr)
    /\ nobj' = nobj + 1
    /\ addr' = [addr EXCEPT ![nobj + 1] = Head(upd.todo).addr]
    /\ drain' = [drain EXCEPT ![nobj + 1] = Head(upd.todo).drain]
    /\ upd' = [upd EXCEPT !.todo = Tail(@), !.built = Append(@, nobj + 1)]
    /\ UNCHANGED <<backends, current, active, healthy, gaugeVars, taskVars,
                   config, chk>>

(* An entry whose address is in the old list keeps that object, and its    *)
(* drain flag takes effect here, before the new list is published.         *)
KeepEntry ==
    /\ upd.busy /\ upd.todo # <<>>
    /\ LET e == Head(upd.todo) IN
       \E i \in DOMAIN backends :
          /\ Finds(backends, e.addr, i)
          /\ drain' = [drain EXCEPT ![backends[i]] = e.drain]
          /\ upd' = [upd EXCEPT !.todo = Tail(@),
                                !.built = Append(@, backends[i])]
    /\ UNCHANGED <<backends, current, nobj, addr, active, healthy, gaugeVars,
                   taskVars, config, chk>>

(* Mutant: the object an address had before it was removed is used again.  *)
NewEntryRevived ==
    /\ upd.busy /\ upd.todo # <<>>
    /\ ~Listed(backends, Head(upd.todo).addr)
    /\ \E o \in 1..nobj :
          /\ addr[o] = Head(upd.todo).addr
          /\ upd' = [upd EXCEPT !.todo = Tail(@), !.built = Append(@, o)]
    /\ UNCHANGED <<backends, current, objVars, gaugeVars, taskVars, config, chk>>

(* A new address gets a new object, and both of its gauges are reset.      *)
NewEntry ==
    /\ upd.busy /\ upd.todo # <<>>
    /\ nobj < MaxObj
    /\ LET e == Head(upd.todo)
           o == nobj + 1
       IN /\ ~Listed(backends, e.addr)
          /\ nobj' = o
          /\ addr' = [addr EXCEPT ![o] = e.addr]
          /\ active' = [active EXCEPT ![o] = 0]
          /\ healthy' = [healthy EXCEPT ![o] = TRUE]
          /\ drain' = [drain EXCEPT ![o] = e.drain]
          /\ connGauge' = [connGauge EXCEPT ![e.addr] = 0]
          /\ healthGauge' = [healthGauge EXCEPT ![e.addr] = TRUE]
          /\ upd' = [upd EXCEPT !.todo = Tail(@), !.built = Append(@, o)]
    /\ UNCHANGED <<backends, current, taskVars, config, chk>>

StoreBackends ==
    /\ upd.busy /\ upd.todo = <<>>
    /\ backends' = upd.built
    /\ upd' = IdleUpd
    /\ UNCHANGED <<current, objVars, gaugeVars, taskVars, config, chk>>

-----------------------------------------------------------------------------
(* set_backend_health, called by the health-check tasks.                   *)

(* Mutant: a report that agrees with the gauge is taken for old news.      *)
SetBackendHealthIfNew(c, a, h) ==
    /\ chk[c].pc = "idle"
    /\ healthGauge' = [healthGauge EXCEPT ![a] = h]
    /\ \/ /\ healthGauge[a] # h
          /\ chk' = [chk EXCEPT ![c] = [pc |-> "find", addr |-> a,
                                        healthy |-> h, obj |-> 0]]
       \/ /\ healthGauge[a] = h
          /\ UNCHANGED chk
    /\ UNCHANGED <<backends, current, objVars, connGauge, taskVars, updVars>>

SetBackendHealth(c, a, h) ==
    /\ chk[c].pc = "idle"
    /\ healthGauge' = [healthGauge EXCEPT ![a] = h]
    /\ chk' = [chk EXCEPT ![c] = [pc |-> "find", addr |-> a, healthy |-> h,
                                  obj |-> 0]]
    /\ UNCHANGED <<backends, current, objVars, connGauge, taskVars, updVars>>

FindBackend(c) ==
    /\ chk[c].pc = "find"
    /\ \/ /\ ~Listed(backends, chk[c].addr)
          /\ chk' = [chk EXCEPT ![c].pc = "idle"]
       \/ \E i \in DOMAIN backends :
             /\ Finds(backends, chk[c].addr, i)
             /\ chk' = [chk EXCEPT ![c] = [@ EXCEPT !.pc = "swap",
                                                 !.obj = backends[i]]]
    /\ UNCHANGED <<backends, current, objVars, gaugeVars, taskVars, updVars>>

SwapHealthy(c) ==
    /\ chk[c].pc = "swap"
    /\ healthy' = [healthy EXCEPT ![chk[c].obj] = chk[c].healthy]
    /\ chk' = [chk EXCEPT ![c] = [@ EXCEPT !.pc = "idle", !.obj = 0]]
    /\ UNCHANGED <<backends, current, nobj, addr, active, drain, gaugeVars,
                   taskVars, updVars>>

-----------------------------------------------------------------------------
Scan(t) == TakeTicket(t) \/ CheckDrain(t) \/ CheckHealth(t) \/ CheckLimit(t)
TaskStep(t) == Scan(t) \/ Claim(t) \/ Count(t) \/ DropGauge(t)
UpdateStep  == KeepEntry \/ NewEntry \/ StoreBackends
CheckerStep(c) == FindBackend(c) \/ SwapHealthy(c)

Next ==
    \/ \E t \in Task : NextBackend(t) \/ TaskStep(t) \/ DropGuard(t)
    \/ \E cfg \in Configs : UpdateBackends(cfg)
    \/ UpdateStep
    \/ \E c \in Checker, a \in Addr, h \in BOOLEAN : SetBackendHealth(c, a, h)
    \/ \E c \in Checker : CheckerStep(c)

Spec == Init /\ [][Next]_vars

-----------------------------------------------------------------------------
(* Properties.                                                             *)

(* Connections that count against object o: their fetch_add has happened   *)
(* and their guard's fetch_sub has not.                                    *)
Holders(o) == {t \in Task : held[t] = o /\ pc[t] \in {"count", "connected"}}

(* Every counter is exact: it is the number of live guards of its object,  *)
(* whatever reloads have happened between a guard's creation and its drop. *)
(* It follows that fetch_sub never wraps and that no slot of a backend is  *)
(* leaked or freed twice (balancer.rs:144 and :173).                       *)
ActiveCountsGuards == \A o \in Obj : active[o] = Cardinality(Holders(o))

(* The limit is read (balancer.rs:136) before it is taken (:144), so it    *)
(* can be overshot, but only by tasks that were on other threads meanwhile:*)
(* at most one connection for each runtime thread but one.                 *)
LimitOvershoot ==
    ConnLimit # NoLimit =>
        \A o \in Obj : active[o] <= ConnLimit + NumWorkers - 1

(* What the documented meaning of backend_connection_limit asks of every   *)
(* backend object.                                                         *)
MaxConnsPerBackend ==
    ConnLimit # NoLimit => \A o \in Obj : active[o] <= ConnLimit

(* The slots of the connections, as their tasks see them: a slot is taken  *)
(* by the fetch_add and given back by the fetch_sub.                       *)
SlotMap == [t \in Task |-> IF pc[t] \in {"count", "connected"} THEN held[t] ELSE 0]

Slots == INSTANCE Pool WITH
    Limit <- ConnLimit, Slack <- NumWorkers - 1, None <- 0, slot <- SlotMap

(* The balancer keeps the promise of Pool: whatever lists are published,   *)
(* scanned and replaced meanwhile, a slot stays with the object it was     *)
(* taken on until its own task returns it, and no object exceeds the limit *)
(* by more than the threads that can be inside next_backend.               *)
ImplementsPool == Slots!PoolSpec

(* The connections of address a, over all its objects, between the gauge's *)
(* inc (balancer.rs:147) and dec (:175).                                   *)
Gauged(a) == {t \in Task : /\ pc[t] \in {"connected", "release"}
                           /\ addr[held[t]] = a}

(* The connection gauge of an address is the number of its connections, as *)
(* long as no address is removed and configured again.                     *)
ConnGaugeExact == \A a \in Addr : connGauge[a] = Cardinality(Gauged(a))

(* The gauge never shows connections that do not exist.  A backend that is *)
(* configured again has its gauge reset under the connections of its old   *)
(* object (balancer.rs:72), whose ends then take it below the truth, and   *)
(* below zero; no order of removals and ends takes it above.               *)
GaugeNeverHigh == \A a \in Addr : connGauge[a] <= Cardinality(Gauged(a))

DistinctAddrs(cfg) ==
    \A i, j \in DOMAIN cfg : cfg[i].addr = cfg[j].addr => i = j

(* Between two reloads the published list is the configuration: the same   *)
(* addresses in the same order, each with its configured drain flag, even  *)
(* though update_backends writes the flags one by one into shared objects. *)
ConfigApplied ==
    (~upd.busy /\ DistinctAddrs(config)) =>
        /\ Len(backends) = Len(config)
        /\ \A i \in DOMAIN config : /\ addr[backends[i]] = config[i].addr
                                    /\ drain[backends[i]] = config[i].drain

FirstObj(a) == {backends[i] : i \in {j \in DOMAIN backends :
                                         Finds(backends, a, j)}}

(* A reload that keeps an address keeps its object, hence its connection   *)
(* counter and its health (balancer.rs:54 and :65-68).                     *)
KeepsIdentity ==
    [][\A a \in Addr : (FirstObj(a) # {} /\ FirstObj(a)' # {}) =>
                           FirstObj(a)' = FirstObj(a)]_vars

(* An object that is in no list, and that no task can still select.        *)
Retired(o) ==
    /\ o <= nobj
    /\ \A i \in DOMAIN backends : backends[i] # o
    /\ \A i \in DOMAIN upd.built : upd.built[i] # o
    /\ \A t \in Task : /\ \A i \in DOMAIN snap[t] : snap[t][i] # o
                       /\ ~(pc[t] = "claim" /\ held[t] = o)

(* A removed backend only ever loses connections, and it never comes back: *)
(* once unlisted and out of every snapshot it stays so, for ever, also if  *)
(* its address is configured again.                                        *)
RetiredForGood ==
    [][\A o \in Obj : Retired(o) => Retired(o)' /\ active'[o] <= active[o]]_vars
=============================================================================
