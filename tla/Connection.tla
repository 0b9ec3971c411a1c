----------------------------- MODULE Connection -----------------------------
(***************************************************************************)
(* A rule from its start to the end of its connections: the set-up and the *)
(* acceptors of main.rs and the connection tasks, through proxy_connection *)
(* (networking/proxy.rs) to the drop of their guards.                      *)
(*                                                                         *)
(* The balancer is the Pool it implements, the buckets are those of        *)
(* LimiterMap, what passes through the copy is Stream's subject.  Each     *)
(* await is a point where the task may stay for ever if its peer is silent:*)
(* nothing here has a timeout.                                             *)
(***************************************************************************)
EXTENDS LimiterMap, AccessControl, ProxyProtocol, FiniteSets

CONSTANTS
    Backend,       \* the backends of the rule
    NoBackend,
    Limit, NoLimit, Slack,
    NumAcceptors,  \* NUM_ACCEPTORS
    Rules,         \* the configurations the rule may have
    Silent         \* clients and backends that stop answering

(* The limits a rule has: rate_limit, and the sections of bandwidth_limit. *)
Limits == SUBSET Maps

(* The settings a rule keeps for its life: reloads change its backends.    *)
RuleConfig == [tls: BOOLEAN, backendTls: BOOLEAN, proxyProtocol: BOOLEAN,
               limits: Limits, allow: Seq(Entry), deny: Seq(Entry)]

ASSUME RulesAssumption == Rules \subseteq RuleConfig
ASSUME ClientAssumption == Client # {} /\ Client \subseteq IpAddr
ASSUME ConnAssumption == IsFiniteSet(Conn)
ASSUME BackendAssumption == NoBackend \notin Backend
ASSUME AcceptorsAssumption == NumAcceptors \in Nat
ASSUME LimitAssumption ==
    Slack \in Nat /\ (Limit \in Nat \/ Limit = NoLimit) /\ NoLimit \notin Nat

VARIABLES
    rule,      \* the rule as it was read at start-up
    proc,      \* how far the start of the process has come
    tried,     \* listening sockets attempted
    acceptors, \* acceptor tasks of this rule
    pc,        \* where each connection is
    from,      \* the address of its client
    to,        \* the backend next_backend chose for it
    slot,      \* the backend whose guard it holds
    open,      \* the connections with a socket to their backend
    wire,      \* what was written to that socket
    gauge,     \* ACTIVE_CONNECTIONS
    total,     \* TOTAL_CONNECTIONS
    recorded,  \* observations of CONNECTION_DURATION and TRAFFIC_BYTES
    failed     \* history: the connections proxy_connection gave up with an error

procVars   == <<rule, proc, tried, acceptors>>
peerVars   == <<from, to>>
sockVars   == <<open, wire>>
metricVars == <<gauge, total, recorded, failed>>
others == <<rule, mapVars, pc, peerVars, slot, sockVars, metricVars>>
vars == <<procVars, mapVars, pc, peerVars, slot, sockVars, metricVars>>

Slots == INSTANCE Pool WITH Task <- Conn, Obj <- Backend, None <- NoBackend

(* Inside proxy_connection: still under way, and after its outcome.        *)
Proxying == {"connect", "header", "backend_tls", "copy", "record"}
Leaving  == {"close", "uncount"}
At == Proxying \union Leaving \union
      {"none", "backlog", "rate", "select", "client_get", "client_insert",
       "backend_get", "backend_insert", "tls", "proxy", "drop", "closed"}

TypeOK ==
    /\ MapTypeOK
    /\ rule \in Rules
    /\ proc \in {"setup", "parse", "listen", "later", "watch", "running", "exited"}
    /\ acceptors \in 0..tried /\ tried \in 0..NumAcceptors
    /\ pc \in [Conn -> At]
    /\ from \in [Conn -> Client]
    /\ to \in [Conn -> Backend \union {NoBackend}]
    /\ slot \in [Conn -> Backend \union {NoBackend}]
    /\ open \subseteq Conn /\ failed \subseteq Conn
    /\ gauge \in Nat /\ total \in Nat /\ recorded \in Nat

Init ==
    /\ MapInit
    /\ rule \in Rules
    /\ proc = "setup" /\ tried = 0 /\ acceptors = 0
    /\ pc = [c \in Conn |-> "none"]
    /\ from = [c \in Conn |-> CHOOSE ip \in Client : TRUE]
    /\ to = [c \in Conn |-> NoBackend]
    /\ Slots!PoolInit
    /\ open = {} /\ wire = [c \in Conn |-> <<>>]
    /\ gauge = 0 /\ total = 0 /\ recorded = 0 /\ failed = {}

-----------------------------------------------------------------------------
(* Start-up.  Rules are set up one after the other, and an acceptor takes  *)
(* connections as soon as it is spawned; an error of this or of any later  *)
(* rule ends main and the process with every connection.                   *)

Exit ==
    /\ proc' = "exited"
    /\ pc' = [c \in Conn |-> "closed"]
    /\ slot' = [c \in Conn |-> NoBackend]
    /\ open' = {}
    /\ UNCHANGED <<rule, tried, acceptors, mapVars, peerVars, wire, metricVars>>

(* load_tls_config: the certificate and the key are read, and an error of  *)
(* either file, or no key in it, ends the process.                         *)
LoadTlsConfig ==
    /\ proc = "setup"
    /\ \/ rule.tls /\ Exit
       \/ /\ proc' = "parse"
          /\ UNCHANGED <<tried, acceptors, others>>

(* The parse of the listen address.                                        *)
SetUp ==
    /\ proc = "parse"
    /\ \/ Exit
       \/ /\ proc' = "listen"
          /\ UNCHANGED <<tried, acceptors, others>>

(* One socket: bound, listening and handed to tokio, or skipped when that  *)
(* last conversion fails; any other error ends the process.                *)
Listen ==
    /\ proc = "listen" /\ tried < NumAcceptors
    /\ \/ Exit
       \/ /\ tried' = tried + 1
          /\ acceptors' \in {acceptors, acceptors + 1}
          /\ UNCHANGED <<proc, others>>

Listening ==
    /\ proc = "listen" /\ tried = NumAcceptors
    /\ proc' = "later"
    /\ UNCHANGED <<tried, acceptors, others>>

(* The rules that follow, then the cluster: an address of it that does not *)
(* parse ends the process, a failure to start it is only logged.           *)
StartOthers ==
    /\ proc = "later"
    /\ \/ Exit
       \/ /\ proc' = "watch"
          /\ UNCHANGED <<tried, acceptors, others>>

(* The watcher of the configuration file; an error of it ends the process, *)
(* and after it main is in its reload loop.                                *)
StartWatcher ==
    /\ proc = "watch"
    /\ \/ Exit
       \/ /\ proc' = "running"
          /\ UNCHANGED <<tried, acceptors, others>>

-----------------------------------------------------------------------------
(* The acceptor: accept, access control, rate limit, spawn.                *)

Go(c, stage) == pc' = [pc EXCEPT ![c] = stage]
OnlyPc == UNCHANGED <<procVars, mapVars, peerVars, slot, sockVars, metricVars>>

(* A client connects; the kernel queues the connection.                    *)
Arrive(c, ip) ==
    /\ pc[c] = "none" /\ acceptors > 0 /\ proc # "exited"
    /\ from' = [from EXCEPT ![c] = ip]
    /\ Go(c, "backlog")
    /\ UNCHANGED <<procVars, mapVars, to, slot, sockVars, metricVars>>

(* Mutant: the acceptor itself awaits the handshake.                       *)
AcceptingSerially == {c \in Conn : pc[c] \in {"rate", "tls"}}

(* The connections an acceptor is busy with.                               *)
Accepting == {c \in Conn : pc[c] = "rate"}

Accept(c) ==
    /\ pc[c] = "backlog"
    /\ Cardinality(Accepting) < acceptors
    /\ Go(c, IF IsAllowed(Acl(rule.allow, rule.deny), from[c])
             THEN "rate" ELSE "closed")
    /\ OnlyPc

(* accept fails because the client has gone, which is logged.  (Errors     *)
(* that leave the connection in the backlog, such as a want of file        *)
(* descriptors, change nothing: the loop calls accept again.)              *)
AcceptError(c) ==
    /\ pc[c] = "backlog"
    /\ Cardinality(Accepting) < acceptors
    /\ Go(c, "closed")
    /\ OnlyPc

(* RateLimiter::check: one or_insert_with, then check_n of the bucket.     *)
Check(c) ==
    /\ pc[c] = "rate"
    /\ \/ "rate" \notin rule.limits /\ Go(c, "select") /\ UNCHANGED mapVars
       \/ /\ "rate" \in rule.limits
          /\ OrInsert(c, "rate", from[c])
          /\ Go(c, "select") \/ Go(c, "closed")
    /\ UNCHANGED <<procVars, peerVars, slot, sockVars, metricVars>>

-----------------------------------------------------------------------------
(* The connection task.                                                    *)

(* next_backend: a backend and its guard, or None.                         *)
Select(c) ==
    /\ pc[c] = "select"
    /\ \/ \E b \in Backend : /\ Slots!Acquire(c, b)
                             /\ to' = [to EXCEPT ![c] = b]
                             /\ Go(c, "client_get")
       \/ Go(c, "closed") /\ UNCHANGED <<to, slot>>
    /\ UNCHANGED <<procVars, mapVars, from, sockVars, metricVars>>

(* Mutant: one key for everybody.                                          *)
KeyShared(c, m) == CHOOSE x \in Client : TRUE

(* Every map is keyed by the client's address; so are the backend maps,    *)
(* whose key is client_addr.ip().to_string() (main.rs:214-215).            *)
Key(c, m) == from[c]

(* get_or_create_limiter, first half.                                      *)
Get(c, m, here, miss, hit) ==
    /\ pc[c] = here
    /\ \/ m \notin rule.limits /\ Go(c, hit) /\ UNCHANGED mapVars
       \/ m \in rule.limits /\ Find(c, m, Key(c, m)) /\ Go(c, hit)
       \/ m \in rule.limits /\ Misses(m, Key(c, m)) /\ Go(c, miss)
    /\ UNCHANGED <<procVars, peerVars, slot, sockVars, metricVars>>

(* Second half, after a miss: another connection may have been faster.     *)
Insert(c, m, here, next) ==
    /\ pc[c] = here
    /\ OrInsert(c, m, Key(c, m))
    /\ Go(c, next)
    /\ UNCHANGED <<procVars, peerVars, slot, sockVars, metricVars>>

Limited(c) == IF rule.tls THEN "tls" ELSE "proxy"

GetClient(c)     == Get(c, "client", "client_get", "client_insert", "backend_get")
InsertClient(c)  == Insert(c, "client", "client_insert", "backend_get")
GetBackend(c)    == Get(c, "backend", "backend_get", "backend_insert", Limited(c))
InsertBackend(c) == Insert(c, "backend", "backend_insert", Limited(c))

(* Mutant: the guard is lost when the handshake fails.                     *)
HandshakeLosesGuard(c) ==
    /\ pc[c] = "tls"
    /\ Go(c, "proxy") \/ Go(c, "closed")
    /\ OnlyPc

(* The client's TLS handshake; when it fails only the guard is dropped.    *)
Handshake(c) ==
    /\ pc[c] = "tls"
    /\ Go(c, "proxy") \/ Go(c, "drop")
    /\ OnlyPc

(* proxy_connection begins: the two metrics and the metric guard.          *)
Enter(c) ==
    /\ pc[c] = "proxy"
    /\ gauge' = gauge + 1
    /\ total' = total + 1
    /\ Go(c, "connect")
    /\ UNCHANGED <<procVars, mapVars, peerVars, slot, sockVars, recorded, failed>>

(* Mutants: an error decrements the gauge that the guard decrements too;   *)
(* an error leaves the stream and the metric as they are.                  *)
FailTwice(c) ==
    /\ Go(c, "close")
    /\ failed' = failed \union {c}
    /\ gauge' = gauge - 1
    /\ UNCHANGED <<total, recorded>>

FailBare(c) ==
    /\ Go(c, "drop")
    /\ failed' = failed \union {c}
    /\ UNCHANGED <<gauge, total, recorded>>

(* `?`: return with the error; the guards' drops follow.                   *)
Fail(c) ==
    /\ Go(c, "close")
    /\ failed' = failed \union {c}
    /\ UNCHANGED <<gauge, total, recorded>>

Connect(c) ==
    /\ pc[c] = "connect"
    /\ \/ Fail(c) /\ UNCHANGED open
       \/ /\ open' = open \union {c}
          /\ Go(c, "header")
          /\ UNCHANGED metricVars
    /\ UNCHANGED <<procVars, mapVars, peerVars, slot, wire>>

WriteTo(c, bytes) == wire' = [wire EXCEPT ![c] = @ \o bytes]

(* Addresses of the connection: the listener is IPv4 only.                 *)
ClientAddr(c) == [octets |-> <<10, 0, 0, from[c]>>, port |-> 40000]
LocalAddr     == [octets |-> <<10, 0, 1, 1>>, port |-> 443]

(* The PROXY header, in the clear, before anything else.                   *)
SendHeader(c) ==
    /\ pc[c] = "header"
    /\ \/ ~rule.proxyProtocol /\ Go(c, "backend_tls") /\ UNCHANGED <<wire, metricVars>>
       \/ rule.proxyProtocol /\ Fail(c) /\ UNCHANGED wire
       \/ /\ rule.proxyProtocol
          /\ WriteTo(c, CreateV2Header(ClientAddr(c), LocalAddr))
          /\ Go(c, "backend_tls")
          /\ UNCHANGED metricVars
    /\ UNCHANGED <<procVars, mapVars, peerVars, slot, open>>

(* The TLS handshake with the backend begins with a record of type 22.     *)
BackendTls(c) ==
    /\ pc[c] = "backend_tls"
    /\ \/ ~rule.backendTls /\ Go(c, "copy") /\ UNCHANGED <<wire, metricVars>>
       \/ /\ rule.backendTls
          /\ WriteTo(c, <<22>>)
          /\ Fail(c) \/ (Go(c, "copy") /\ UNCHANGED metricVars)
    /\ UNCHANGED <<procVars, mapVars, peerVars, slot, open>>

Data == <<71, 69, 84>>

(* copy_bidirectional ends: both sides have closed, or one has failed.     *)
Copy(c) ==
    /\ pc[c] = "copy"
    /\ WriteTo(c, Data)
    /\ Fail(c) \/ (Go(c, "record") /\ UNCHANGED metricVars)
    /\ UNCHANGED <<procVars, mapVars, peerVars, slot, open>>

(* Traffic and duration, after a copy that ended well.                     *)
Record(c) ==
    /\ pc[c] = "record"
    /\ recorded' = recorded + 1
    /\ Go(c, "close")
    /\ UNCHANGED <<procVars, mapVars, peerVars, slot, sockVars, gauge, total,
                   failed>>

(* Locals are dropped in the reverse order of their declaration: the       *)
(* streams, then the metric guard, and after the return the balancer's.    *)
CloseUpstream(c) ==
    /\ pc[c] = "close"
    /\ open' = open \ {c}
    /\ Go(c, "uncount")
    /\ UNCHANGED <<procVars, mapVars, peerVars, slot, wire, metricVars>>

DropMetricGuard(c) ==
    /\ pc[c] = "uncount"
    /\ gauge' = gauge - 1
    /\ Go(c, "drop")
    /\ UNCHANGED <<procVars, mapVars, peerVars, slot, sockVars, total, recorded,
                   failed>>

DropGuard(c) ==
    /\ pc[c] = "drop"
    /\ Slots!Release(c)
    /\ Go(c, "closed")
    /\ UNCHANGED <<procVars, mapVars, peerVars, sockVars, metricVars>>

-----------------------------------------------------------------------------
StartUp == LoadTlsConfig \/ SetUp \/ Listen \/ Listening \/ StartOthers
           \/ StartWatcher

(* Code that runs without waiting for a peer.                              *)
Own(c) ==
    \/ Accept(c) \/ AcceptError(c) \/ Check(c) \/ Select(c)
    \/ GetClient(c) \/ InsertClient(c) \/ GetBackend(c) \/ InsertBackend(c)
    \/ Enter(c) \/ Record(c) \/ CloseUpstream(c) \/ DropMetricGuard(c)
    \/ DropGuard(c)

(* Awaits that end when a peer, or the kernel for it, answers.             *)
Awaited(c) ==
    Handshake(c) \/ Connect(c) \/ SendHeader(c) \/ BackendTls(c) \/ Copy(c)

Next ==
    \/ StartUp
    \/ \E c \in Conn : \/ Own(c) \/ Awaited(c)
                       \/ \E ip \in Client : Arrive(c, ip)

Prompt(c) == from[c] \notin Silent /\ to[c] \notin Silent

(* Tasks are scheduled, and peers that are not silent answer, close or     *)
(* fail in the end.  accept does not fail for ever with the connection     *)
(* still in the backlog.  Nobody has to connect.                           *)
Spec ==
    /\ Init /\ [][Next]_vars
    /\ WF_vars(StartUp)
    /\ \A c \in Conn : WF_vars(Own(c)) /\ WF_vars(Prompt(c) /\ Awaited(c))

-----------------------------------------------------------------------------
(* Properties.                                                             *)

(* The buckets of a client's connections are the same ones: opening many   *)
(* connections at once does not multiply a client's budget, although each  *)
(* may have missed the entry another was inserting (limiter.rs:142-150).   *)
(* Of a backend's bucket no more is asked than that a client's connections *)
(* to that backend share it.                                               *)
ClientShares ==
    \A c, d \in Conn : \A m \in Maps :
        (/\ from[c] = from[d] /\ (m = "backend" => to[c] = to[d])
         /\ got[c][m] # 0 /\ got[d][m] # 0)
            => got[c][m] = got[d][m]

(* The rate and bandwidth buckets of different clients are different: no   *)
(* client is slowed down by another (main.rs:187 and :212-213).  (What is  *)
(* due for the backend maps is BackendShares.)                             *)
ClientsApart ==
    \A c, d \in Conn : \A m \in {"rate", "client"} :
        (from[c] # from[d] /\ got[c][m] # 0) => got[c][m] # got[d][m]

(* A bucket limits a backend's bandwidth ("per client or backend",         *)
(* README.md:13): connections to one backend share its bucket.             *)
BackendShares ==
    \A c, d \in Conn :
        (to[c] = to[d] /\ got[c]["backend"] # 0 /\ got[d]["backend"] # 0)
            => got[c]["backend"] = got[d]["backend"]

(* A client that the lists exclude gets nothing: not a backend, and not an *)
(* entry in a map that is never emptied (main.rs:181-189).  Being denied   *)
(* outweighs being allowed, whatever the order of the entries; a list of   *)
(* allowed addresses excludes the others, provided an entry of it parses.  *)
ExcludedGetNothing ==
    \A x \in Client :
        Excluded(rule.allow, rule.deny, x) =>
           /\ \A m \in Maps : entry[m][x] = 0
           /\ \A c \in Conn : from[c] = x => to[c] = NoBackend

(* The limit on a backend's slots is one on its sockets: a connection has  *)
(* a socket to a backend only while its guard counts there, also when it   *)
(* fails half-way (proxy.rs:55-110, main.rs:207).                          *)
SocketsCounted == \A c \in open : slot[c] = to[c]

(* The metrics add up whichever way connections end: the gauge counts the  *)
(* ones inside proxy_connection, and the total those under way, those      *)
(* whose duration and traffic were recorded and those that failed, whose   *)
(* traffic is in no metric (proxy.rs:38-51 and :110-117).                  *)
MetricsAddUp ==
    LET In(stages) == {c \in Conn : pc[c] \in stages}
    IN proc # "exited" =>
         /\ gauge = Cardinality(In(Proxying \union Leaving))
         /\ total = Cardinality(In(Proxying)) + recorded + Cardinality(failed)

(* A backend that expects the PROXY header finds it first, reads the       *)
(* client's address in it, and reads behind it exactly what follows: the   *)
(* TLS handshake if there is one, then the client's bytes.                 *)
BackendReadsHeader ==
    \A c \in Conn : (rule.proxyProtocol /\ wire[c] # <<>>) =>
        /\ IsHeader(wire[c])
        /\ Source(wire[c]) = ClientAddr(c).octets
        /\ \E p \in {<<>>, IF rule.backendTls THEN <<22>> ELSE <<>>},
              q \in {<<>>, Data} : Payload(wire[c]) = p \o q

(* A slot comes back from every connection whose peers are not silent, on  *)
(* every path through the task, whatever silent peers do to others.  One   *)
(* that waits for a silent peer keeps its slot for ever: the awaits of     *)
(* main.rs:223 and proxy.rs:55-110 have no timeout.                        *)
SlotsReturned ==
    \A c \in Conn : slot[c] # NoBackend ~> (slot[c] = NoBackend \/ ~Prompt(c))

(* No silent client keeps an acceptor from taking the next connection: the *)
(* handshake is awaited in a task of its own (main.rs:197 and :223).       *)
KeepsAccepting == \A c \in Conn : pc[c] = "backlog" ~> pc[c] # "backlog"
=============================================================================
