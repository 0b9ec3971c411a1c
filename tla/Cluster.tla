------------------------------ MODULE Cluster -------------------------------
(***************************************************************************)
(* The gossip actor (cluster/mod.rs) of each node, with its start and the  *)
(* reader of its reports in main.rs.  foca, the membership library, is     *)
(* modelled from how this code uses it: it knows members, keeps a backlog  *)
(* of broadcasts, each to be sent a number of times, and calls the handler *)
(* for every item it is given or receives.                                 *)
(*                                                                         *)
(* run ignores its seeds, so a node knows members only once somebody has   *)
(* written to it (HandleOther).  foca's timers are never run: no member is *)
(* probed, and none is ever dropped.  UDP loses, repeats and reorders; a   *)
(* datagram with several items behaves as one for each item.               *)
(***************************************************************************)
EXTENDS Naturals, Sequences, FiniteSets

CONSTANTS
    Node, Key, Usage,
    CmdCap,      \* capacity of the command channel (100)
    ReportCap,   \* capacity of the report channel (1000)
    MaxTx,       \* foca: how often an item is sent
    MaxSaid,     \* bound: broadcasts of a behaviour, all different
    MaxStarts    \* bound: starts of each node

ASSUME BoundsAssumption ==
    {CmdCap, ReportCap, MaxTx, MaxSaid, MaxStarts} \subseteq Nat \ {0}

VARIABLES
    state,    \* is the actor running?
    starts,   \* starts of a node; each draws a new identity.id
    cmds,     \* rx_cmd
    members,  \* foca: the members a node knows
    backlog,  \* foca: broadcasts still to be sent, and how often
    reports,  \* tx_state, towards the task that logs them
    net,      \* the datagrams sent so far
    said      \* history: the updates that nodes have broadcast

nodeVars == <<state, starts, cmds, members, backlog, reports>>
vars == <<nodeVars, net, said>>

(* UsageUpdate, and the key under which a newer one replaces it.           *)
Item == [id: Node \X (1..MaxStarts), key: Key, usage: Usage]

(* Mutant: the key of an update is the whole update.                       *)
BroadcastKeyOfAll(item) == item

BroadcastKey(item) == <<item.id, item.key>>

Datagram == [from: Node, to: Node, item: Item]

(* A node's identity: its address and the id drawn at its start.           *)
Identity(n) == <<n, starts[n]>>

TypeOK ==
    /\ state \in [Node -> {"off", "up", "failed"}]
    /\ starts \in [Node -> 0..MaxStarts]
    /\ \A n \in Node : /\ cmds[n] \in Seq(Key \X Usage) /\ Len(cmds[n]) <= CmdCap
                       /\ reports[n] \in Seq(Item) /\ Len(reports[n]) <= ReportCap
    /\ members \in [Node -> SUBSET Node]
    /\ \A n \in Node : backlog[n] \subseteq [item: Item, left: 1..MaxTx]
    /\ net \subseteq Datagram
    /\ said \subseteq Item

Init ==
    /\ state = [n \in Node |-> "off"]
    /\ starts = [n \in Node |-> 0]
    /\ cmds = [n \in Node |-> <<>>]
    /\ members = [n \in Node |-> {}]
    /\ backlog = [n \in Node |-> {}]
    /\ reports = [n \in Node |-> <<>>]
    /\ net = {}
    /\ said = {}

-----------------------------------------------------------------------------
(* Cluster::new: the socket is bound, or the error is logged and the node  *)
(* goes on without a cluster.                                              *)
Start(n) ==
    /\ state[n] = "off" /\ starts[n] < MaxStarts
    /\ starts' = [starts EXCEPT ![n] = @ + 1]
    /\ \E s \in {"up", "failed"} : state' = [state EXCEPT ![n] = s]
    /\ UNCHANGED <<cmds, members, backlog, reports, net, said>>

(* The process ends; what it knew is gone, what it sent is not.            *)
Crash(n) ==
    /\ state[n] # "off"
    /\ state' = [state EXCEPT ![n] = "off"]
    /\ cmds' = [cmds EXCEPT ![n] = <<>>]
    /\ members' = [members EXCEPT ![n] = {}]
    /\ backlog' = [backlog EXCEPT ![n] = {}]
    /\ reports' = [reports EXCEPT ![n] = <<>>]
    /\ UNCHANGED <<starts, net, said>>

(* The application sends BroadcastUsage (the command has no caller yet).   *)
SendCommand(n, k, u) ==
    /\ state[n] = "up" /\ Len(cmds[n]) < CmdCap
    /\ cmds' = [cmds EXCEPT ![n] = Append(@, <<k, u>>)]
    /\ said' = said \union {[id |-> Identity(n), key |-> k, usage |-> u]}
    /\ Cardinality(said) < MaxSaid /\ said' # said
    /\ UNCHANGED <<state, starts, members, backlog, reports, net>>

(* Mutants: the actor waits for room; the channel has no bound.            *)
ReportWaiting(n, item) ==
    /\ Len(reports[n]) < ReportCap
    /\ reports' = [reports EXCEPT ![n] = Append(@, item)]

ReportUnbounded(n, item) == reports' = [reports EXCEPT ![n] = Append(@, item)]

(* tx_state.try_send: an update that finds the channel full is not         *)
(* reported.                                                               *)
Report(n, item) ==
    \/ Len(reports[n]) = ReportCap /\ UNCHANGED reports
    \/ /\ Len(reports[n]) < ReportCap
       /\ reports' = [reports EXCEPT ![n] = Append(@, item)]

(* foca: an item takes the place of the pending one that its key           *)
(* invalidates, be it older or newer, and is to be sent MaxTx times.       *)
Pend(n, item) ==
    backlog' = [backlog EXCEPT ![n] =
        {b \in @ : BroadcastKey(b.item) # BroadcastKey(item)}
        \union {[item |-> item, left |-> MaxTx]}]

(* receive_item: the update is reported, and its key tells foca to send it *)
(* on.                                                                     *)
ReceiveItem(n, item) == Report(n, item) /\ Pend(n, item)

(* The actor's loop: a command, a tick of the gossip timer, a datagram.    *)
TakeCommand(n) ==
    /\ state[n] = "up" /\ cmds[n] # <<>>
    /\ LET c == Head(cmds[n])
       IN ReceiveItem(n, [id |-> Identity(n), key |-> c[1], usage |-> c[2]])
    /\ cmds' = [cmds EXCEPT ![n] = Tail(@)]
    /\ UNCHANGED <<state, starts, members, net, said>>

Gossip(n) ==
    /\ state[n] = "up"
    /\ \E m \in members[n] \ {n}, b \in backlog[n] :
          /\ net' = net \union {[from |-> n, to |-> m, item |-> b.item]}
          /\ backlog' = [backlog EXCEPT ![n] = (@ \ {b}) \union
                 {[item |-> b.item, left |-> k] : k \in {b.left - 1} \ {0}}]
    /\ UNCHANGED <<state, starts, cmds, members, reports, said>>

(* Mutant: an update is passed on as if this node had made it.             *)
HandleDataRelabelled(n, d) ==
    /\ state[n] = "up" /\ d.to = n
    /\ members' = [members EXCEPT ![n] = @ \union {d.from}]
    /\ ReceiveItem(n, [d.item EXCEPT !.id = Identity(n)])
    /\ UNCHANGED <<state, starts, cmds, net, said>>

(* handle_data: the sender becomes a member and the item is received.  The *)
(* datagram may come again, and one that never comes is lost.              *)
HandleData(n, d) ==
    /\ state[n] = "up" /\ d.to = n
    /\ members' = [members EXCEPT ![n] = @ \union {d.from}]
    /\ ReceiveItem(n, d.item)
    /\ UNCHANGED <<state, starts, cmds, net, said>>

(* A datagram without an item, or with one that does not decode, which     *)
(* makes the call fail; that is ignored.                                   *)
HandleOther(n, m) ==
    /\ state[n] = "up" /\ m # n
    /\ members' = [members EXCEPT ![n] = @ \union {m}]
    /\ UNCHANGED <<state, starts, cmds, backlog, reports, net, said>>

(* The task of main that logs the updates.                                 *)
LogUpdate(n) ==
    /\ reports[n] # <<>>
    /\ reports' = [reports EXCEPT ![n] = Tail(@)]
    /\ UNCHANGED <<state, starts, cmds, members, backlog, net, said>>

Next ==
    \/ \E n \in Node :
          \/ Start(n) \/ Crash(n) \/ TakeCommand(n) \/ Gossip(n) \/ LogUpdate(n)
          \/ \E k \in Key, u \in Usage : SendCommand(n, k, u)
          \/ \E m \in Node : HandleOther(n, m)
          \/ \E d \in net : HandleData(n, d)

(* select! chooses among the branches that are ready, so a command is not  *)
(* passed over for ever.  Nothing is assumed of the reader of the reports. *)
Spec == Init /\ [][Next]_vars /\ \A n \in Node : WF_vars(TakeCommand(n))

-----------------------------------------------------------------------------
(* Properties.                                                             *)

(* Whatever the network loses, repeats, delays or garbles beyond decoding, *)
(* and whoever crashes: an update that is reported or passed on was made,  *)
(* with that usage, by the very incarnation it names (mod.rs:98-114 and    *)
(* :203-213).                                                              *)
OnlyRealUpdates ==
    \A n \in Node : /\ \A i \in DOMAIN reports[n] : reports[n][i] \in said
                    /\ \A b \in backlog[n] : b.item \in said

(* The backlog holds one item for each key of each incarnation, so it does *)
(* not grow with the rate of updates or with what others repeat            *)
(* (mod.rs:25-34).                                                         *)
OnePerKey ==
    \A n \in Node : \A b, d \in backlog[n] :
        (b.item.id = d.item.id /\ b.item.key = d.item.key) => b = d

(* A command is taken even if nobody reads the reports: the actor never    *)
(* waits for its reader, who may be waiting for it (mod.rs:110).           *)
CommandsTaken == \A n \in Node : cmds[n] # <<>> ~> cmds[n] = <<>>
=============================================================================
