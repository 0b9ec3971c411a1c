--------------------------- MODULE ClusterProofs ----------------------------
(***************************************************************************)
(* What nodes tell each other is what some node has said, for every number *)
(* of nodes, keys and restarts and every capacity of the channels, and     *)
(* whatever the network does.                                              *)
(***************************************************************************)
EXTENDS Cluster, TLAPS, SequenceTheorems

Pending == [item: Item, left: 1..MaxTx]

Typed ==
    /\ state \in [Node -> {"off", "up", "failed"}]
    /\ starts \in [Node -> 0..MaxStarts]
    /\ cmds \in [Node -> Seq(Key \X Usage)]
    /\ reports \in [Node -> Seq(Item)]
    /\ members \in [Node -> SUBSET Node]
    /\ backlog \in [Node -> SUBSET Pending]
    /\ net \subseteq Datagram
    /\ said \subseteq Item

Bounded ==
    \A n \in Node : Len(cmds[n]) <= CmdCap /\ Len(reports[n]) <= ReportCap

(* A node that is off has no commands, and one that is not has been        *)
(* started: so no command outlives the incarnation it was given to.        *)
Alive ==
    \A n \in Node : /\ state[n] = "off" => cmds[n] = <<>>
                    /\ state[n] # "off" => starts[n] # 0

(* The update that a node makes of a command.                              *)
Update(n, c) == [id |-> Identity(n), key |-> c[1], usage |-> c[2]]

(* Commands in the channel and datagrams in the network carry updates that *)
(* were said, so what is made of them was said too.                        *)
Waiting == \A n \in Node : \A i \in 1..Len(cmds[n]) : Update(n, cmds[n][i]) \in said
Sent    == \A d \in net : d.item \in said

Inv == Typed /\ Bounded /\ Alive /\ Waiting /\ Sent /\ OnlyRealUpdates /\ OnePerKey

-----------------------------------------------------------------------------
(* A node that has been started has an identity.                           *)
LEMMA IdentityType ==
    ASSUME Typed, NEW n \in Node, starts[n] # 0
    PROVE  Identity(n) \in Node \X (1..MaxStarts)
  BY BoundsAssumption DEF Typed, Identity

(* The report channel takes the item or stays as it is.                    *)
LEMMA ReportKeeps ==
    ASSUME Typed, Bounded, OnlyRealUpdates, NEW n \in Node, NEW item \in said,
           Report(n, item)
    PROVE  /\ reports' \in [Node -> Seq(Item)]
           /\ \A m \in Node : Len(reports'[m]) <= ReportCap
           /\ \A m \in Node : \A i \in DOMAIN reports'[m] : reports'[m][i] \in said
  <1> USE DEF Typed, Bounded, OnlyRealUpdates
  <1>1. CASE UNCHANGED reports
    BY <1>1
  <1>2. CASE /\ Len(reports[n]) < ReportCap
             /\ reports' = [reports EXCEPT ![n] = Append(@, item)]
    <2>1. /\ Append(reports[n], item) \in Seq(Item)
          /\ Len(Append(reports[n], item)) <= ReportCap
          /\ \A i \in DOMAIN Append(reports[n], item) :
                Append(reports[n], item)[i] \in said
      <3>1. reports[n] \in Seq(Item) /\ item \in Item
        OBVIOUS
      <3>2. Len(reports[n]) \in Nat /\ ReportCap \in Nat
        BY <3>1, BoundsAssumption
      <3>3. /\ Append(reports[n], item) \in Seq(Item)
            /\ Len(Append(reports[n], item)) = Len(reports[n]) + 1
            /\ \A i \in 1..Len(reports[n]) :
                  Append(reports[n], item)[i] = reports[n][i]
            /\ Append(reports[n], item)[Len(reports[n]) + 1] = item
        BY <3>1, AppendProperties
      <3>4. /\ DOMAIN Append(reports[n], item) = 1..(Len(reports[n]) + 1)
            /\ DOMAIN reports[n] = 1..Len(reports[n])
        BY <3>1, <3>3, LenProperties
      <3> QED
        BY <1>2, <3>2, <3>3, <3>4
    <2> QED
      BY <1>2, <2>1
  <1> QED
    BY <1>1, <1>2 DEF Report

(* The backlog takes the item in place of the one with its key.            *)
LEMMA PendKeeps ==
    ASSUME Typed, OnlyRealUpdates, OnePerKey, NEW n \in Node, NEW item \in said,
           Pend(n, item)
    PROVE  /\ backlog' \in [Node -> SUBSET Pending]
           /\ \A m \in Node : \A b \in backlog'[m] : b.item \in said
           /\ OnePerKey'
  <1> DEFINE new == [item |-> item, left |-> MaxTx]
  <1>1. new \in Pending
    BY BoundsAssumption DEF Typed, Pending
  <1>2. \A b \in backlog[n] : BroadcastKey(b.item) # BroadcastKey(item) =>
            ~(b.item.id = item.id /\ b.item.key = item.key)
    BY DEF BroadcastKey
  <1>3. \A b \in backlog'[n] :
            \/ b = new
            \/ b \in backlog[n] /\ ~(b.item.id = item.id /\ b.item.key = item.key)
    BY <1>2 DEF Pend, Typed
  <1>4. new.item = item
    OBVIOUS
  <1> HIDE DEF new
  <1>5. \A m \in Node \ {n} : backlog'[m] = backlog[m]
    BY DEF Pend, Typed
  <1>6. backlog' \in [Node -> SUBSET Pending]
    <2>1. {b \in backlog[n] : BroadcastKey(b.item) # BroadcastKey(item)}
              \union {new} \subseteq Pending
      BY <1>1 DEF Typed
    <2> QED
      BY <2>1 DEF Pend, Typed, new
  <1>7. \A m \in Node : \A b \in backlog'[m] : b.item \in said
    BY <1>3, <1>4, <1>5 DEF OnlyRealUpdates
  <1>8. OnePerKey'
    BY <1>3, <1>4, <1>5 DEF OnePerKey
  <1> QED
    BY <1>6, <1>7, <1>8

-----------------------------------------------------------------------------
(* Nobody has started and nothing was said.                                *)
LEMMA InitInv == Init => Inv
  <1> SUFFICES ASSUME Init PROVE Inv
    OBVIOUS
  <1>1. Typed
    BY BoundsAssumption DEF Init, Typed
  <1>2. Bounded
    BY BoundsAssumption DEF Init, Bounded
  <1>3. Alive /\ Waiting /\ Sent /\ OnlyRealUpdates /\ OnePerKey
    BY DEF Init, Alive, Waiting, Sent, OnlyRealUpdates, OnePerKey
  <1> QED
    BY <1>1, <1>2, <1>3 DEF Inv

(* Every step keeps the invariant.                                         *)
LEMMA NextInv == Inv /\ [Next]_vars => Inv'
  <1> SUFFICES ASSUME Inv, [Next]_vars PROVE Inv'
    OBVIOUS
  <1> USE DEF Inv
  <1>1. ASSUME NEW n \in Node, Start(n)
        PROVE  Inv'
    <2>1. Typed' /\ Alive'
      BY <1>1, BoundsAssumption DEF Start, Typed, Alive
    <2>2. \A m \in Node : cmds[m] # <<>> => starts'[m] = starts[m]
      BY <1>1 DEF Start, Typed, Alive
    <2>3. Waiting'
      <3> SUFFICES ASSUME NEW m \in Node, NEW i \in 1..Len(cmds[m])
                   PROVE  Update(m, cmds[m][i])' \in said
        BY <1>1 DEF Start, Waiting
      <3>1. cmds[m] # <<>>
        BY DEF Typed
      <3> QED
        BY <1>1, <2>2, <3>1 DEF Start, Waiting, Update, Identity
    <2>4. Bounded' /\ Sent' /\ OnlyRealUpdates' /\ OnePerKey'
      BY <1>1 DEF Start, Bounded, Sent, OnlyRealUpdates, OnePerKey
    <2> QED
      BY <2>1, <2>3, <2>4
  <1>2. ASSUME NEW n \in Node, Crash(n)
        PROVE  Inv'
    <2>1. Typed' /\ Alive'
      BY <1>2 DEF Crash, Typed, Alive
    <2>2. Bounded'
      BY <1>2, BoundsAssumption DEF Crash, Bounded, Typed
    <2>3. Waiting'
      BY <1>2 DEF Crash, Waiting, Update, Identity, Typed
    <2>4. Sent' /\ OnlyRealUpdates' /\ OnePerKey'
      BY <1>2 DEF Crash, Sent, OnlyRealUpdates, OnePerKey, Typed
    <2> QED
      BY <2>1, <2>2, <2>3, <2>4
  <1>3. ASSUME NEW n \in Node, NEW k \in Key, NEW u \in Usage, SendCommand(n, k, u)
        PROVE  Inv'
    <2> DEFINE c == <<k, u>>
    <2>1. c \in Key \X Usage /\ cmds[n] \in Seq(Key \X Usage)
      BY DEF Typed
    <2>2. Update(n, c) \in Item /\ said' = said \union {Update(n, c)}
      BY <1>3, IdentityType DEF SendCommand, Alive, Item, Update
    <2>3. /\ Append(cmds[n], c) \in Seq(Key \X Usage)
          /\ Len(Append(cmds[n], c)) = Len(cmds[n]) + 1
          /\ \A i \in 1..Len(cmds[n]) : Append(cmds[n], c)[i] = cmds[n][i]
          /\ Append(cmds[n], c)[Len(cmds[n]) + 1] = c
      BY <2>1, AppendProperties
    <2>4. cmds' = [cmds EXCEPT ![n] = Append(cmds[n], c)]
      BY <1>3 DEF SendCommand
    <2> HIDE DEF c
    <2>5. Len(cmds[n]) \in Nat /\ CmdCap \in Nat
      BY <2>1, BoundsAssumption
    <2>6. Typed'
      BY <1>3, <2>2, <2>3, <2>4 DEF SendCommand, Typed
    <2>7. Bounded'
      BY <1>3, <2>3, <2>4, <2>5 DEF SendCommand, Bounded, Typed
    <2>8. Alive'
      BY <1>3, <2>4 DEF SendCommand, Alive, Typed
    <2>9. Waiting'
      <3> SUFFICES ASSUME NEW m \in Node, NEW i \in 1..Len(cmds'[m])
                   PROVE  Update(m, cmds'[m][i]) \in said'
        BY <1>3 DEF SendCommand, Waiting, Update, Identity
      <3>1. CASE m # n
        BY <2>2, <2>4, <3>1 DEF Waiting, Typed
      <3>2. CASE m = n
        <4>1. cmds'[n] = Append(cmds[n], c)
          BY <2>4 DEF Typed
        <4>2. i \in 1..Len(cmds[n]) \/ i = Len(cmds[n]) + 1
          BY <2>3, <2>5, <3>2, <4>1
        <4> QED
          BY <2>2, <2>3, <3>2, <4>1, <4>2 DEF Waiting
      <3> QED
        BY <3>1, <3>2
    <2>10. Sent' /\ OnlyRealUpdates' /\ OnePerKey'
      BY <1>3, <2>2 DEF SendCommand, Sent, OnlyRealUpdates, OnePerKey
    <2> QED
      BY <2>6, <2>7, <2>8, <2>9, <2>10
  <1>4. ASSUME NEW n \in Node, TakeCommand(n)
        PROVE  Inv'
    <2>1. cmds[n] \in Seq(Key \X Usage) /\ cmds[n] # <<>>
      BY <1>4 DEF TakeCommand, Typed
    <2>2. /\ Head(cmds[n]) = cmds[n][1] /\ 1 \in 1..Len(cmds[n])
          /\ Tail(cmds[n]) \in Seq(Key \X Usage)
          /\ Len(Tail(cmds[n])) = Len(cmds[n]) - 1 /\ Len(cmds[n]) \in Nat
          /\ \A i \in 1..Len(Tail(cmds[n])) : Tail(cmds[n])[i] = cmds[n][i + 1]
      BY <2>1
    <2>3. ReceiveItem(n, Update(n, cmds[n][1])) /\ Update(n, cmds[n][1]) \in said
      BY <1>4, <2>2 DEF TakeCommand, Waiting, Update
    <2>4. OnePerKey' /\ OnlyRealUpdates'
      BY <1>4, <2>3, ReportKeeps, PendKeeps
      DEF TakeCommand, ReceiveItem, OnlyRealUpdates
    <2>5. Typed'
      BY <1>4, <2>2, <2>3, ReportKeeps, PendKeeps DEF TakeCommand, ReceiveItem, Typed
    <2>6. cmds'[n] = Tail(cmds[n]) /\ \A m \in Node \ {n} : cmds'[m] = cmds[m]
      BY <1>4 DEF TakeCommand, Typed
    <2>7. Bounded'
      <3>1. \A m \in Node : Len(cmds'[m]) <= CmdCap
        <4> SUFFICES ASSUME NEW m \in Node PROVE Len(cmds'[m]) <= CmdCap
          OBVIOUS
        <4>1. CmdCap \in Nat /\ Len(cmds[n]) - 1 <= CmdCap
          BY <2>2, BoundsAssumption DEF Bounded
        <4> QED
          BY <2>2, <2>6, <4>1 DEF Bounded
      <3>2. \A m \in Node : Len(reports'[m]) <= ReportCap
        BY <2>3, ReportKeeps DEF ReceiveItem
      <3> QED
        BY <3>1, <3>2 DEF Bounded
    <2>8. Alive'
      BY <1>4, <2>6 DEF TakeCommand, Alive
    <2>9. Waiting'
      <3> SUFFICES ASSUME NEW m \in Node, NEW i \in 1..Len(cmds'[m])
                   PROVE  Update(m, cmds'[m][i]) \in said
        BY <1>4 DEF TakeCommand, Waiting, Update, Identity
      <3>1. CASE m = n
        <4>1. i \in 1..(Len(cmds[n]) - 1)
          BY <2>2, <2>6, <3>1
        <4>2. i + 1 \in 1..Len(cmds[n]) /\ Tail(cmds[n])[i] = cmds[n][i + 1]
          BY <2>2, <4>1
        <4> QED
          BY <2>6, <3>1, <4>2 DEF Waiting
      <3>2. CASE m # n
        BY <2>6, <3>2 DEF Waiting
      <3> QED
        BY <3>1, <3>2
    <2>10. Sent'
      BY <1>4 DEF TakeCommand, Sent
    <2> QED
      BY <2>4, <2>5, <2>7, <2>8, <2>9, <2>10
  <1>5. ASSUME NEW n \in Node, Gossip(n)
        PROVE  Inv'
    <2>1. PICK m \in members[n] \ {n}, b \in backlog[n] :
              /\ net' = net \union {[from |-> n, to |-> m, item |-> b.item]}
              /\ backlog' = [backlog EXCEPT ![n] = (@ \ {b}) \union
                     {[item |-> b.item, left |-> k] : k \in {b.left - 1} \ {0}}]
      BY <1>5 DEF Gossip
    <2>2. b \in Pending /\ b.item \in said /\ m \in Node
      BY DEF Typed, OnlyRealUpdates
    <2> DEFINE again == {[item |-> b.item, left |-> k] : k \in {b.left - 1} \ {0}}
    <2>3. again \subseteq Pending
      BY <2>2, BoundsAssumption DEF Pending
    <2>4. \A d, e \in again : d = e /\ d.item = b.item
      OBVIOUS
    <2>5. /\ backlog'[n] = (backlog[n] \ {b}) \union again
          /\ \A j \in Node \ {n} : backlog'[j] = backlog[j]
      BY <2>1 DEF Typed
    <2>6. backlog' \in [Node -> SUBSET Pending]
      BY <2>1, <2>3 DEF Typed
    <2> HIDE DEF again
    <2>7. Typed'
      <3>1. [from |-> n, to |-> m, item |-> b.item] \in Datagram
        BY <2>2 DEF Datagram, Typed
      <3> QED
        BY <1>5, <2>1, <2>6, <3>1 DEF Gossip, Typed
    <2>8. Sent'
      BY <1>5, <2>1, <2>2 DEF Gossip, Sent
    <2>9. OnlyRealUpdates'
      BY <1>5, <2>2, <2>4, <2>5 DEF Gossip, OnlyRealUpdates
    <2>10. OnePerKey'
      BY <2>4, <2>5 DEF OnePerKey
    <2>11. Bounded' /\ Alive' /\ Waiting'
      BY <1>5 DEF Gossip, Bounded, Alive, Waiting, Update, Identity
    <2> QED
      BY <2>7, <2>8, <2>9, <2>10, <2>11
  <1>6. ASSUME NEW n \in Node, NEW d \in net, HandleData(n, d)
        PROVE  Inv'
    <2>1. ReceiveItem(n, d.item) /\ d.item \in said /\ d.from \in Node
      BY <1>6 DEF HandleData, Sent, Typed, Datagram
    <2>2. OnePerKey' /\ OnlyRealUpdates'
      BY <1>6, <2>1, ReportKeeps, PendKeeps
      DEF HandleData, ReceiveItem, OnlyRealUpdates
    <2>3. Typed'
      BY <1>6, <2>1, ReportKeeps, PendKeeps DEF HandleData, ReceiveItem, Typed
    <2>4. Bounded'
      BY <1>6, <2>1, ReportKeeps DEF HandleData, ReceiveItem, Bounded
    <2>5. Alive' /\ Waiting' /\ Sent'
      BY <1>6 DEF HandleData, Alive, Waiting, Sent, Update, Identity
    <2> QED
      BY <2>2, <2>3, <2>4, <2>5
  <1>7. ASSUME NEW n \in Node, NEW m \in Node, HandleOther(n, m)
        PROVE  Inv'
    <2>1. Typed'
      BY <1>7 DEF HandleOther, Typed
    <2> QED
      BY <1>7, <2>1 DEF HandleOther, Bounded, Alive, Waiting, Sent, Update,
                        Identity, OnlyRealUpdates, OnePerKey
  <1>8. ASSUME NEW n \in Node, LogUpdate(n)
        PROVE  Inv'
    <2>1. /\ Tail(reports[n]) \in Seq(Item)
          /\ Len(Tail(reports[n])) = Len(reports[n]) - 1 /\ Len(reports[n]) \in Nat
          /\ \A i \in DOMAIN Tail(reports[n]) :
                /\ Tail(reports[n])[i] = reports[n][i + 1]
                /\ i + 1 \in DOMAIN reports[n]
      BY <1>8 DEF LogUpdate, Typed
    <2>2. /\ reports'[n] = Tail(reports[n])
          /\ \A m \in Node \ {n} : reports'[m] = reports[m]
      BY <1>8 DEF LogUpdate, Typed
    <2>3. Typed'
      BY <1>8, <2>1 DEF LogUpdate, Typed
    <2>4. Bounded'
      BY <1>8, <2>1, <2>2, BoundsAssumption DEF LogUpdate, Bounded
    <2>5. OnlyRealUpdates'
      BY <1>8, <2>1, <2>2 DEF LogUpdate, OnlyRealUpdates
    <2>6. Alive' /\ Waiting' /\ Sent' /\ OnePerKey'
      BY <1>8 DEF LogUpdate, Alive, Waiting, Sent, Update, Identity, OnePerKey
    <2> QED
      BY <2>3, <2>4, <2>5, <2>6
  <1>9. CASE UNCHANGED vars
    BY <1>9 DEF vars, nodeVars, Typed, Bounded, Alive, Waiting, Sent, Update,
                Identity, OnlyRealUpdates, OnePerKey
  <1> QED
    BY <1>1, <1>2, <1>3, <1>4, <1>5, <1>6, <1>7, <1>8, <1>9 DEF Next

(* The inductive invariant holds throughout.                               *)
LEMMA InvAlways == Spec => []Inv
  BY InitInv, NextInv, PTL DEF Spec

-----------------------------------------------------------------------------
(* The channels of a node never hold more than their capacity, and every   *)
(* update names a node and one of its starts (mod.rs:110).                 *)
THEOREM ClusterTypeCorrect == Spec => []TypeOK
  <1>1. Inv => TypeOK
    BY DEF Inv, Typed, Bounded, TypeOK, Pending
  <1> QED
    BY <1>1, InvAlways, PTL

(* An update that is reported or passed on was made, with that usage, by   *)
(* the incarnation it names, whatever the network does and whoever crashes *)
(* (mod.rs:98-114 and :203-213).                                           *)
THEOREM UpdatesGenuine == Spec => []OnlyRealUpdates
  <1>1. Inv => OnlyRealUpdates
    BY DEF Inv
  <1> QED
    BY <1>1, InvAlways, PTL

(* A node never has two updates of one key of one incarnation to send      *)
(* (mod.rs:25-34).                                                         *)
THEOREM BacklogByKey == Spec => []OnePerKey
  <1>1. Inv => OnePerKey
    BY DEF Inv
  <1> QED
    BY <1>1, InvAlways, PTL
=============================================================================
