# A TLA+ model of layer4-lb

layer4-lb is a TCP load balancer in Rust on the tokio runtime. This directory
holds TLA+ modules for its parts, from the start of a rule to the end of its
connections, with the reloads, timers, health checks and peers they meet, TLC
configurations that check them on small instances, and TLAPS proofs of the
main results for every instance. `PROJECT.json` lists the components, the runs,
the source lines each definition models, the findings, the hazards and the
theorems.

    tlc -config balancer_reload.cfg MCBalancer     # a run
    tlapm BalancerProofs.tla                       # the proofs of a module

File names below are relative to the repository's `src/` directory.

## 1. The system

| Component | State | Operations | Talks to |
|---|---|---|---|
| LoadBalancer (`core/balancer.rs`) | the published list (ArcSwap), a ticket counter, per Backend object a connection counter, a health and a drain flag, two gauges per address | `new`, `next_backend`, `ConnectionGuard::drop`, `update_backends`, `set_backend_health` | called by connection tasks, the reload loop and the health checkers, without a lock |
| Health checks (`core/health.rs`) | one task for each backend of each load of the file | probe, report, sleep, for ever | `set_backend_health` |
| Hot reload (`main.rs:313-365`) | a channel of capacity 1 | watcher callback, reload loop | `update_backends`, `start_health_check` |
| Token bucket (`traffic/limiter.rs:11-82`) | tokens and the time of the last refill, under a mutex | `check_n`, `until_n_ready` | shared by all connections of a client |
| Limiter maps (`traffic/limiter.rs:86-176`) | five DashMaps from client addresses to buckets | `RateLimiter::check`, `get_or_create_limiter` | acceptors and connection tasks |
| RateLimitedStream (`traffic/bandwidth.rs`) | a pending permit future for each direction | `poll_read`, `poll_write` | polled by tokio's `copy_bidirectional`; draws on a bucket |
| Acceptors, connection tasks (`main.rs:57-243`, `networking/proxy.rs`) | per-rule metrics, the socket to the backend | start-up, accept, ACL, rate limit, choose, TLS, connect, header, copy, record, drops | everything above and below |
| AccessControl (`networking/acl.rs`) | two lists of networks, fixed at start-up | `new`, `is_allowed` | acceptors |
| Proxy protocol, TLS (`networking/`) | none that changes | `create_v2_header`, `load_tls_config` | connection tasks, start-up |
| Cluster (`cluster/mod.rs`, `main.rs:246-278`) | a foca instance, a UDP socket, two bounded channels | gossip tick, datagram, command | its updates are only logged |
| Metrics (`metrics/mod.rs`) | Prometheus registry | scrape | gauges are written by the balancer and the proxy |

What is hard here:

* **Lock-free sharing.** `next_backend` reads the list, the ticket counter and
  three fields of each backend one after the other, while other threads change
  all of them. Its limit check is a check followed by an act.
* **Objects that outlive their list entry.** A connection holds its Backend's
  counter after a reload removed the backend. An address that comes back has a
  second object.
* **Late information.** A probe's result is reported after the fact, perhaps to
  an object that a reload has just replaced, and reloads multiply the checkers
  of a backend.
* **Edits that race with reloads.** Signals queue in a channel of capacity 1
  while the loop reads a file that may be half-written; and the file is read at
  the beginning of the start-up and watched only at its end.
* **Time.** A bucket refilled by several tasks must credit every instant once;
  a waiter sleeps outside the lock and may be overtaken.
* **Early returns.** A connection may end at each of a dozen points, some of
  them awaits without a timeout; its socket, its metric and its slot are given
  back by drops whose order the language fixes and the code does not show.
* **An unreliable network between nodes that restart.** Updates are repeated,
  reordered and passed on by third parties, also after their author is gone.
* **Repeated payment.** A stream pays for a transfer before it knows whether the
  socket is ready, and pays again on the next poll.

## 2. The modules

    Pool <-- implemented by -- Balancer <-- extended by -- BalancerScan,
      ^                                                    BalancerRoundRobin, Reload
      '-- used by -- Connection -- extends --> LimiterMap, AccessControl, ProxyProtocol
    TokenWindow <-- implemented by -- LimiterWindow -- extends --> Limiter
    Stream, Cluster: on their own

### Pool, Balancer, BalancerScan, BalancerRoundRobin (`core/balancer.rs`)

`Pool` is what the balancer promises the connection tasks, with no list, scan or
counter: a task holds a slot on at most one backend and keeps it until it gives
it back itself, and no backend has more than `Limit + Slack` holders. `Balancer`
implements it (`ImplementsPool`; the slot of a task is the object it holds
between its `fetch_add` and its `fetch_sub`, and the slack is the number of
threads minus one). `Connection` is built over `Pool`.

`Balancer` models one rule's LoadBalancer. Backends are *object numbers*,
because two objects of one address must be told apart; `addr`, `active`,
`healthy` and `drain` are the fields of each object, `backends` the published
list, `current` the ticket counter modulo `UsizeMod`.

| Action | Code |
|---|---|
| `NextBackend`, `TakeTicket` | load the list, return at once if it is empty; `fetch_add` on `current` |
| `CheckDrain`, `CheckHealth`, `CheckLimit` | the three tests of the loop body; `Skip` is `continue`, or leaving the loop after the last entry |
| `Claim`, `Count` | the counter's `fetch_add`, the gauge's `inc` and the return of the guard |
| `DropGuard`, `DropGauge` | the guard's drop, whenever the connection ends |
| `UpdateBackends`, `KeepEntry`, `NewEntry`, `StoreBackends` | a reload: one step for each entry, then the publication |
| `SetBackendHealth`, `FindBackend`, `SwapHealthy` | a report: the gauge, the lookup, the swap |

Each access to shared memory is a step. `NewEntry` joins the construction of an
object nobody can see yet with the reset of its gauges. `next_backend` and the
drop contain no await point, so at most `NumWorkers` tasks are inside them:
that is `ThreadFree`, and the overshoot bound depends on it. Atomics are
sequentially consistent in the model although the code uses `Relaxed`. A
counter's read-modify-writes stay exact under `Relaxed`; what the model does not
show is a store of one variable that another thread sees later than a store of a
second one. The sequence of objects a scan sees is not affected: it goes
through the ArcSwap, which synchronises.

`BalancerScan` adds a history variable: for each call, the listed objects that
were eligible in every state since the call loaded the list.
`BalancerRoundRobin` adds the counts of selections, normalised so that the
smallest is 0.

### Reload (`main.rs`, `core/health.rs`)

Composes `Balancer`'s `update_backends` and `set_backend_health` with their
callers: `EditFile` and `SendEvent` (the watcher's `blocking_send`),
`Watch`, `RecvEvent`, `ReadFile`, `ApplyEntry`, `ApplyList`, `SpawnCheckers`
(the main task) and `Probe`, `Report`, `Mark` (a health checker). `FlipBackend`
is the environment. The model begins when the file has been read (`main.rs:37`)
and the rule set up; the loop is then at `start`, while other rules and the
cluster are set up, until `Watch` (`watcher.watch`, `main.rs:328`). An edit at
`start` raises no event, and the history variable `missed` records whether the
last edit was such a one. An error of the start-up ends the process
(`Connection!Exit`) and with it this module's behaviours. A file is a list with or without a health-check section, a file
that cannot be parsed, or one that no longer has the rule. Checkers are never
stopped and so need ever more names: `PerReload` bounds what one reading of the
file may spawn, so that there is a name for all of them. One rule is modelled:
the loop treats rules one after the other and independently. Connection tasks
are left out of this module, since nothing in it reads what they write.

### Limiter, TokenWindow, LimiterWindow (`traffic/limiter.rs:11-82`)

`Limiter` is the bucket. No request exceeds its burst: a permit is asked for at
most a chunk of 16384 bytes, and the burst of a bandwidth bucket is fixed at 65536
(`limiter.rs:147`). Time passes in ticks, and tokens are counted in a unit
of which a tick adds a whole number, so `f64` rounding is not modelled; the
mutex makes a refill and its test one step. `until_n_ready` is `UntilNReady`,
then turns of `Try` and `Wake`; `Cancel` is the drop of the future with its
stream, when `proxy_connection` returns. `TokenWindow` is the abstract promise, stated without a bucket: a
request is granted exactly if no interval ending now would exceed
`Burst + Rate * length`. `LimiterWindow` adds the history this speaks of and
states the refinement, `Promise`.

### Connection, LimiterMap, AccessControl, ProxyProtocol

`Connection` follows a rule from its start to the end of its connections
(`main.rs:57-243`, `networking/proxy.rs`, `networking/tls.rs`).

| Action | Code |
|---|---|
| `LoadTlsConfig`, `SetUp`, `Listen`, `Listening`, `StartOthers`, `StartWatcher` | the start of the rule, then later rules and the cluster, then the file watcher; `Exit` is any `?` or `expect` on the way, which ends the process with the connections it already serves |
| `Arrive`, `Accept`, `AcceptError`, `Check` | the acceptor: accept and ACL, or the failure of accept, then the rate limiter's single `or_insert_with` and the verdict of its bucket |
| `Select` | `next_backend`, as an acquisition from `Pool` or None |
| `GetClient`, `InsertClient`, `GetBackend`, `InsertBackend` | `get_or_create_limiter`, in two steps, since the code's `get` and `entry` are two operations |
| `Handshake`, `Enter`, `Connect`, `SendHeader`, `BackendTls`, `Copy`, `Record` | the client's TLS, then `proxy_connection` up to its metrics; `Fail` is its `?` |
| `CloseUpstream`, `DropMetricGuard`, `DropGuard` | the drops, in the reverse order of the declarations |

The branch with backend TLS and the one without repeat the copy and its metrics
and share `Copy` and `Record`. A connection slot is used once in a behaviour. A
verdict of the rate limiter is either answer: which one is `Limiter`'s subject,
as what happens during the copy is `Stream`'s. An exit of `main` needs no
clean-up in the model because the process is gone. A header whose write fails is
taken not to have reached the backend.

`LimiterMap` holds the maps themselves. Upload and download maps are treated
alike and one stands for both; a DashMap entry operation is atomic.
`AccessControl` models the parsing of the lists and `is_allowed` for addresses
of `AddrBits` bits (a parsed list is only searched and tested for emptiness, so a
set stands for it); `Named` and `Excluded` are the reference, written from the
bits of an address. `ProxyProtocol` builds the header byte by byte; `IsHeader`,
`HeaderLen`, `Source` and `Payload` are a receiver written from the protocol.

### Cluster (`cluster/mod.rs`, `main.rs:246-278`)

Each node is the actor with its command channel, the handler and the task that
reads its reports. `Start` is `Cluster::new`, which may fail and leave the node
without a cluster; `TakeCommand`, `Gossip` and `HandleData`/`HandleOther` are
the three branches of the `select!`; `ReceiveItem` is the handler, whose
`try_send` drops what finds the channel full; `LogUpdate` is the reader. foca is
external and modelled from its use: it remembers who has written to it, keeps a
backlog of broadcasts that are sent `MaxTx` times, and lets an item replace the
pending one that its key invalidates. `net` only grows, so a datagram may come
late, again, out of order or never. `Crash` may happen at any time; the next
`Start` draws a new id. The program has no caller of `BroadcastUsage` yet;
`SendCommand` is that future caller.

### Stream (`traffic/bandwidth.rs`)

One direction of a proxied connection. `ReadUnpaid`, `ReadBlocked` and
`ReadReady` are the outcomes of `poll_read` (waiting for tokens, waiting for the
socket after having paid, done), and likewise for `poll_write`; `Fill`, `Write`,
`TopUp` and `Emptied` are the copy loop of tokio 1.x's `copy_bidirectional`,
modelled from its documented behaviour and marked external. Bytes are counted,
not distinguished. The bucket is represented by its answers, of which none has to
be a grant; `ready` says whether the sink's socket takes bytes, and `SinkDrains` is
its peer reading on. `permit` and `moved` are what the last `poll_read` paid and
returned.

## 3. The runs

Every property has a mutant: a definition of the same module, marked *Mutant*,
that replaces a mapped definition the way a plausible bug would, and under which
TLC finds the property violated.

| Run | Question | Bounds |
|---|---|---|
| `balancer_reload` | counters, limit, gauge, identity of kept and removed objects under reloads; is `Pool` implemented? | 3 connections, 2 threads, 2 addresses, lists with one, two or no backends, limit 1, 3 objects |
| `scan_refusal` | are refusals justified; is the gauge right; is the configuration applied? | 2 connections, a checker, 2 lists, limit 1 |
| `round_robin` | are the shares even? | 3 overlapping calls, 2 backends, 4-valued counter |
| `limiter_window` | is the bucket the interval rule? | 2 tasks, amounts 1 and 3, rate 2, burst 4, 4 ticks |
| `limiter_progress` | are tokens used while somebody waits? | 3 tasks, amounts 1 and 3, rate 1, burst 3 |
| `reload_health` | is an edit ever lost and the last one applied; has every backend a checker; are up and down backends noticed? | 2 edits, before or after the watcher is there, 3 checkers, 2 addresses, files that are malformed, lack the rule or the health_check section or list nothing |
| `connection` | who shares which bucket; what do excluded clients get; do sockets, slots and metrics agree on every path; do slots come back and acceptors go on? | 2 connections, 3 clients of which one is silent, 1 backend with limit 1 and slack 1, 1 acceptor, 3 rules: limits only; TLS on both sides with the header, an unparsable allow list and a denied client; an allowed network with an exception |
| `cluster` | are only real updates reported; does the backlog stay bounded; can the reader stop the actor? | 2 nodes, 2 starts each, 2 updates of one key, channels of 2 and 1, 2 transmissions |
| `stream_copy` | are bytes conserved; does the copy end if its permits are granted? | 4 bytes, buffer 3, chunk 2, with and without limiters |

The bounds let the interesting cases happen. Three objects are enough for an
address to have an old and a new one next to another backend. Two threads
suffice for every race between a check and its act, and the third connection can
be holding a slot meanwhile. A limit of 1 is reached and overshot. Two edits let
one arrive during the reload of the other and bring a removed backend back. Four
bytes through a buffer of three make the buffer wrap, and the chunk of two makes
a transfer take several permits. Two connections are what a race for a bucket, an
overshoot and a silent peer beside a prompt one need; the third client lets one
be allowed, one denied and one on neither list. With a report channel of one
item every second update meets a full one, and two starts let a node hear of its
own former life. `UsizeMod` is a power of two, as on every machine, and wraps
during the runs.

`MaxObj`, `MaxEdits`, `MaxBucket`, `MaxNow`, `LagCap`, `MaxSaid` and `MaxStarts`
are bounds of the model and not of the code; `MaxBucket` is all the connections
can ask for. `LagCap` hides nothing: after that many ticks the bucket is full
anyway. `MaxObj` guards `UpdateBackends` as a whole, so no reload is ever stopped
half-way.

### Disagreements with the documentation

Three runs check what a document or a comment says and find it violated by the code; the findings in `PROJECT.json` quote the lines.

| Run | Shows |
|---|---|
| `limit_race` | two connections that pass the limit check together exceed the limit; `LimitOvershoot` is the bound that does hold |
| `backend_bandwidth` | backend bandwidth limits are per client: two clients of one backend draw on different buckets |
| `stream_underpaid` | a read that waited for its permit may read more than the permit covers, contrary to a comment's assumption (a write may too, of which no comment says otherwise) |

Other consequences that can be read off the models and have no run of their own:

* a backend removed and configured again may have the limit's number of
  connections twice (`NewEntry` starts a new counter), and its connection gauge
  is reset under the connections of its old object, so that it ends below the
  number `metrics/mod.rs:35` describes and can become negative;
  `GaugeNeverHigh` is what remains true;
* the warning "All backends are at capacity, unhealthy, or draining" may be true
  of no single moment, since `RefusedOnlyIfUnavailable` is all that holds;
* an edit of the file during the start-up, after it was read and before it is
  watched, raises no event and has no effect until the next edit (`missed`, which
  `NoEditLost` and `LastEditApplied` except);
* once in 2^w connections the scan over a list whose length is no power of two
  misses an entry (`Index`);
* a waiter on a shared bucket can be overtaken for ever by smaller requests, so
  only `KeepsGranting` holds, and `CopyEnds` has to assume that the permits of its
  stream are granted;
* a reload applies an empty list, which start-up validation rejects
  (`ReadFile`); `LastEditApplied` includes the edit that repairs it;
* of an address listed twice only the first entry is ever marked unhealthy
  (`Finds`);
* between the reports of two checkers of a backend its gauge and its flag may
  differ, and only settle as `Recovers` and `DownIsDetected` say;
* an allow list of which no entry parses allows everybody (`IsAllowed`);
* a connection that waits for a silent peer keeps its slot for ever
  (`SlotsReturned` has to except it), and "Total number of connections accepted"
  (`metrics/mod.rs:17`) counts those that reached `proxy_connection`;
* the traffic of a connection that ends with an error is in no metric
  (`MetricsAddUp` counts such connections apart);
* a header for addresses of different families has a byte too many
  (`CreateV2Header`); the IPv4 listener never produces one;
* the cluster's seeds are ignored and foca's timers are never driven, so nodes do
  not "discover each other via seed peers" (`docs/technical_overview.md:202`) and
  nothing detects dead ones (`docs/LLD.md:171`); a late copy of an old update
  replaces a newer pending one (`Pend`), so "Eventual consistency"
  (`docs/LLD.md:172`) is not what the gossip gives.

### Fairness

* `Limiter!FairSpec`: time passes, and tokio polls a task whose timer has fired.
  No waiter is assumed to win a race for tokens, which is why
  `KeepsGranting` speaks of grants to anybody.
* `Reload!FairReloadSpec`: the watcher's thread, the main task (its start-up
  included) and each checker are scheduled. Nobody has to edit the file, and backends fail and recover as
  they like; `Recovers` and `DownIsDetected` are about backends that settle.
* `Stream!FairSpec`: the task is polled again, since whatever made a poll pending
  has its waker, and the sink's peer reads on (`SinkDrains`). Nobody has to send or
  to close. Nothing is assumed of the bucket, which is the program's own and may
  starve a waiter: that the permits this stream waits for are granted (`Granted`)
  is a hypothesis of `CopyEnds`, and without it TLC finds the copy that waits for
  ever. The hypothesis holds of a bucket that the stream has for itself, by
  `KeepsGranting`.
* `Connection!Spec`: the start-up and the tasks are scheduled (`Own`), and an
  await ends, with success or failure, when both peers of the connection are
  among the prompt ones (`Prompt`). For the copy this includes its permits: a
  bucket's tokens go to somebody (`KeepsGranting`), and of the finitely many
  connections of a behaviour none can be overtaken for ever by others that end.
  accept is taken not to fail for ever with the connection still in the backlog,
  as it would if file descriptors never became free again: the loop retries
  (`main.rs:238`), and `KeepsAccepting` rests on a retry that succeeds. Nothing is
  assumed of silent peers, and nobody has to connect.
* `Cluster!Spec`: `select!` picks at random among the branches that are ready, so
  a command is not passed over for ever. Nothing is assumed of the network, of
  the reader of the reports or of restarts.

Deadlock is checked everywhere except where the system may stop: when the copy of
`Stream` has ended, when all connections of `Connection` are closed or `main` has
exited, and when the nodes of `Cluster` have used up their starts.

## 4. The proofs

Eight modules hold theorems: `BalancerProofs`, `ReloadProofs`, `LimiterProofs`,
`AccessControlProofs`, `ProxyProtocolProofs`, `ConnectionProofs`, `ClusterProofs`
and `StreamProofs`. tlapm checks them to the last leaf, for every value of the
constants that satisfies the named assumptions. Every invariant and every action
property of the runs is the subject of a theorem, and so are both refinements;
what rests on fairness is not.

### BalancerProofs

For any addresses, configurations and checkers, finitely many tasks, any number of
threads, any limit and any counter width:

| Theorem | Statement |
|---|---|
| `TypeCorrect` | `Spec => []TypeOK` |
| `CountersExact` | `Spec => []ActiveCountsGuards` |
| `OvershootBounded` | `Spec => []LimitOvershoot` |
| `PoolImplemented` | `Spec => ImplementsPool` |
| `GaugesNeverHigh` | `Spec => []GaugeNeverHigh` |
| `GaugesExact` | `Spec /\ [][NewWhenUnused]_vars => []ConnGaugeExact` |
| `RemovedForGood` | `Spec => RetiredForGood` |
| `RefusalsJustified` | `ScanSpec /\ []ScansWhole => []RefusedOnlyIfUnavailable` |
| `SharesEven` | `RRSpec /\ []Undisturbed => []EvenShares` |

None of the invariants is inductive. `Inv1` adds to the types what a task's program
counter says of its locals, that the loop variable is below the length of the
loaded list, and that every object anything refers to has been allocated; a new
object therefore has no holder. `Inv2` adds that no more tasks are in
synchronous code than there are threads, and bounds the *takers* of an object:
its holders and the tasks that have passed its limit check without having
counted yet. When a task passes the check, fewer tasks than the limit hold the
object; the other takers are at `claim`, hence on threads, and so is the task
itself, which gives limit + threads - 1. `TypeOK` says that counters are
naturals, which is the absence of wrap-around in `fetch_sub`, and follows from
their being cardinalities. For the refinement, `Claim` is the pool's `Acquire`:
the task is itself among the takers of its object, so its holders are fewer than
the bound on the takers, which is `Room`; `DropGuard` is `Release`, and every
other step leaves the slots alone. `Connection` may therefore use `Pool` in the
balancer's place for every number of threads and every limit.

The gauge theorems follow the difference between an address's gauge and the tasks
it counts: every step but `NewEntry` keeps it, and `NewEntry` makes it zero or
negative. It stays zero if `NewEntry` meets no counted task, which is the
hypothesis `NewWhenUnused` and what the configurations of `scan_refusal`, in which
no address is removed and comes back, satisfy; without it the gauge is wrong
(section 3).

A refusal is justified because what was eligible throughout a call is still ahead
of its loop (`SteadyAhead`): when the loop ends nothing is ahead. That the loop
covers the list is arithmetic on `(start + i) % UsizeMod % Len`, and it is false
for a ticket so close to the end of `usize` that the sum wraps, unless the length
of the list divides 2^w; `ScansWhole` says that no call is in that place. A counter
of 64 bits reaches it once in 2^64 connections, which is why this is a hypothesis
about the behaviour and not an assumption about the constants.

The shares are even because tickets are: selections made and owed are, up to the
present round of tickets, the same for all objects (`Balanced`), and what is owed
is at most the calls in their scan. `Undisturbed` says that the start-up list is in
force with every backend eligible, and that the counter does not wrap in the middle
of a round; otherwise an unhealthy backend's share goes to its successor and the
code promises nothing. The hypotheses are not vacuous: `Undisturbed` holds in all
reachable states of the instance of `round_robin`, and `ScansWhole` in those of
`scan_refusal`, wrap-around included (TLC, with each added to the invariants).

### ReloadProofs

`IdentityKept` (`Spec => KeepsIdentity`), `ConfigurationApplied`
(`Spec => []ConfigApplied`), and for the watcher, the loop and the checkers
`ReloadDrivesBalancer` (`ReloadSpec => Spec /\ []ReloadInv`), `ReloadTypeCorrect`
(`ReloadSpec => []ReloadTypeOK`), `EditsKept` (`ReloadSpec => []NoEditLost`) and
`BackendsMonitored` (`ReloadSpec => []AllMonitored`).

Both results on `update_backends` need to know what it has built so far. An entry
of the unfinished list for an address of the old list is the object the old list
finds for it (`BuiltKeeps`), and the unfinished list agrees with the configuration
position by position (`Follows`), which keeping an object does not spoil because
the addresses are distinct. `ReloadDrivesBalancer` makes the theorems of
`BalancerProofs` available under the loop and the checkers. `ReloadInv` ties the
loop's place to whether an update is under way, and says that an edit not applied
yet is known: an event is raised, or a signal is in the channel, or the loop has
received it and not yet read the file, or it is the last edit and nobody watched.
It bounds the checkers by the edits the loop has dealt with or never heard of
(`Done`), so that there is always a name for the next.

### LimiterProofs

`BucketTypeCorrect` (`WSpec => []TypeOK`), `BucketExact`
(`WSpec => []BucketIsLeastSlack`) and `BucketKeepsPromise` (`WSpec => Promise`),
for any tasks, amounts, rate and burst. The invariant `IInv` says that the
tokens a refill would leave are exactly the least slack of all intervals ending
now. `Within` alone would show that the bucket grants nothing it should not;
`Tight` is needed for the other half, that it refuses nothing it should grant. A
tick either fills the bucket, and then the interval that begins now is the
tightest, or adds `Rate` to the tokens and to every slack. `LagCapAssumption`
makes the cap on the recorded lag harmless.

### AccessControlProofs, ProxyProtocolProofs

`AclExact`: for addresses of any width and all lists, `IsAllowed` answers as
`Excluded` says. The code compares quotients by a power of two where `Named`
compares bits; that these agree is an induction over the length of the prefix
(`PrefixBits`), done with `SetInduction`, a form of induction whose predicate is a
set and which the provers can therefore use.

`HeaderDecodes`: whatever follows the header, a receiver recognises it, reads the
source's address and takes for payload exactly what follows, for all pairs of IPv4
and all pairs of IPv6 addresses. For a pair of different families it is false, as
section 3 says.

### ConnectionProofs

`Spec => []P` for each invariant of `Connection`: `ConnectionTypeCorrect`
(`TypeOK`), `BucketsShared` (`ClientShares`), `BucketsSeparate` (`ClientsApart`),
`SocketsGuarded` (`SocketsCounted`), `MetricsExact` (`MetricsAddUp`), `HeaderFirst`
(`BackendReadsHeader`) and `ExcludedStayOut` (`ExcludedGetNothing`), for finitely
many connections, any clients, backends, rules, acceptors and limits. The
invariant says what each stage implies: which stages hold a slot, a socket and a
count in the gauge; that a bucket a connection got is the map's entry for its key,
which is never replaced, and that no two entries have the same bucket (of the
backend maps `ClientsApart` asks nothing and `ClientShares` only what holds under
either reading of their key, section 3); that a
connection beyond the access control is of a client the lists do not exclude
(`AclExact`); and what has been written to the backend (`Wires`, with
`HeaderDecodes`).

### ClusterProofs, StreamProofs

`ClusterTypeCorrect` (`TypeOK`), `UpdatesGenuine` (`OnlyRealUpdates`) and
`BacklogByKey` (`OnePerKey`), for any nodes, keys and channel capacities. Reported
updates are genuine because every item anywhere is: the invariant extends the claim
to the datagrams on the network.

`StreamTypeCorrect` (`TypeOK`) and `NoByteLost` (`Conserved`), for every length,
buffer and chunk. The invariant adds that the end of the stream is seen only when
nothing is in flight, and that the buffer has room whenever it is filled.

### Assumptions, and what is only model-checked

The proofs assume what the `ASSUME`s of the modules say: the constants have their
types, `Task`, `Checker` and `Conn` are finite, lists in files are short enough for
the names of the checkers (`PerReloadAssumption`, a bound of the model), no backend
is the value `NoBackend`. `PowersAssumption` is no assumption on the program: it
states that 2^k is a positive natural number and 2^(k+1) twice as much, which the
provers do not know; TLC evaluates it for the widths of the runs.

Only model-checked is what rests on fairness: `KeepsGranting`, `LastEditApplied`,
`Recovers`, `DownIsDetected`, `CopyEnds`, `SlotsReturned`, `KeepsAccepting` and
`CommandsTaken`. Liveness under fairness is outside this prover's reach; `EditsKept`
and `BackendsMonitored` are the safety halves of `LastEditApplied` and
`DownIsDetected`.

## 5. Not modelled, and the plan

Not modelled: YAML parsing (serde's), the cryptography of TLS and the certificate
verifier that accepts everything, metrics registration and the scrape endpoint
(I/O without state of their own), the error types (names without behaviour), and
the throughput utility, a load generator that is no part of the balancer. Weak
memory and `f64` rounding are outside the models, as said above. Several rules
are not composed: the reload loop treats them one after the other, and they share
no state but the process, whose end `Exit` models; two rules of one name, of
which only the later one is ever reloaded, are therefore not covered. The editor
that replaces the file by renaming another over it, after which the watcher may
watch a file that is gone, is a matter of the notify library and the platform.

What is left of the plan: the safety halves of the other liveness properties, such
as that a waiter of the bucket always has a timer or a turn to come, and that a
slot is held only by a connection in a stage that ends; and that a connection task
is in the same stage whether its slots come from `Pool` or from `Balancer`, which
would compose the two models in one specification.
