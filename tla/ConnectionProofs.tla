-------------------------- MODULE ConnectionProofs --------------------------
(***************************************************************************)
(* What holds of the connections of a rule for every number of them, of    *)
(* clients, backends and acceptors, and whatever the peers do.             *)
(***************************************************************************)
EXTENDS Connection, ProxyProtocolProofs, AccessControlProofs, FiniteSetTheorems

(* A bucket has one key, no bucket is handed out before it was created,    *)
(* and what a connection obtained from a map is still the entry of its     *)
(* client there.  A connection that nobody has opened has no bucket, so    *)
(* that it may still become anybody's.                                     *)
Buckets ==
    /\ \A m \in Maps : \A k \in Client : entry[m][k] <= nbucket
    /\ \A m \in Maps : \A k, l \in Client :
          (entry[m][k] # 0 /\ entry[m][k] = entry[m][l]) => k = l
    /\ \A c \in Conn : \A m \in Maps :
          got[c][m] # 0 => got[c][m] = entry[m][from[c]]
    /\ \A c \in Conn : pc[c] = "none" => \A m \in Maps : got[c][m] = 0

(* The stages at which a task owns a guard, and a socket to its backend.   *)
Guarded == {"client_get", "client_insert", "backend_get", "backend_insert",
            "tls", "proxy", "drop"} \union Proxying \union Leaving
Connected == {"header", "backend_tls", "copy", "record", "close"}

(* The guard is of the backend that was chosen, and is there exactly as    *)
(* long as the task may use it.                                            *)
Guards ==
    \A c \in Conn :
        /\ pc[c] \in Guarded => slot[c] = to[c] /\ slot[c] # NoBackend
        /\ pc[c] \notin Guarded => slot[c] = NoBackend
        /\ c \in open => pc[c] \in Connected

(* Each connection fails once, and none does anything after the exit.      *)
FailedLeft == \A c \in failed : pc[c] \in Leaving \union {"drop", "closed"}
AllEnded   == proc = "exited" => \A c \in Conn : pc[c] = "closed"

Inv == TypeOK /\ Buckets /\ Guards /\ FailedLeft /\ AllEnded /\ MetricsAddUp

-----------------------------------------------------------------------------
(* The maps.                                                               *)

(* or_insert_with and get leave maps of buckets.                           *)
LEMMA MapTypes ==
    ASSUME MapTypeOK, NEW c \in Conn, NEW m \in Maps, NEW k \in Client,
           OrInsert(c, m, k) \/ Find(c, m, k) \/ Misses(m, k) \/ UNCHANGED mapVars
    PROVE  MapTypeOK'
  <1>1. CASE OrInsert(c, m, k)
    BY <1>1, MaxBucketAssumption DEF OrInsert, MapTypeOK, Bucket
  <1>2. CASE Find(c, m, k)
    BY <1>2 DEF Find, MapTypeOK
  <1>3. CASE Misses(m, k) \/ UNCHANGED mapVars
    BY <1>3 DEF Misses, MapTypeOK, mapVars
  <1> QED
    BY <1>1, <1>2, <1>3

(* They leave each bucket with its one key, and a connection with the      *)
(* entry of its own client, whoever was faster.                            *)
LEMMA MapKeeps ==
    ASSUME TypeOK, Buckets, NEW c \in Conn, NEW m \in Maps,
           \/ OrInsert(c, m, from[c]) \/ Find(c, m, from[c])
           \/ Misses(m, from[c]) \/ UNCHANGED mapVars,
           UNCHANGED from, NEW s \in At \ {"none"}, Go(c, s), pc[c] # "none"
    PROVE  Buckets'
  <1> USE DEF TypeOK, MapTypeOK, Buckets
  <1>0. \A d \in Conn : pc'[d] = "none" => d # c /\ pc[d] = "none"
    BY DEF Go
  <1>1. CASE OrInsert(c, m, from[c])
    <2> DEFINE k == from[c]
               b == IF entry[m][k] # 0 THEN entry[m][k] ELSE nbucket + 1
    <2>1. /\ k \in Client /\ b \in Nat /\ b # 0 /\ nbucket \in Nat
          /\ entry' = [entry EXCEPT ![m][k] = b]
          /\ nbucket' = IF b > nbucket THEN b ELSE nbucket
          /\ got' = [got EXCEPT ![c][m] = b]
      BY <1>1 DEF OrInsert, Bucket
    <2>2. /\ \A n \in Maps : \A l \in Client :
                entry'[n][l] = IF n = m /\ l = k THEN b ELSE entry[n][l]
          /\ \A d \in Conn : \A n \in Maps :
                got'[d][n] = IF d = c /\ n = m THEN b ELSE got[d][n]
      BY <2>1
    <2>3. entry[m][k] = b \/ (b = nbucket + 1 /\ entry[m][k] = 0)
      OBVIOUS
    <2>4. \A n \in Maps : \A l \in Client : entry[n][l] \in Nat /\ entry[n][l] <= nbucket
      OBVIOUS
    <2> HIDE DEF b, k
    <2>5. \A n \in Maps : \A l \in Client : entry'[n][l] <= nbucket'
      BY <2>1, <2>2, <2>4
    <2>6. \A n \in Maps : \A l, j \in Client :
              (entry'[n][l] # 0 /\ entry'[n][l] = entry'[n][j]) => l = j
      BY <2>1, <2>2, <2>3, <2>4
    <2>7. \A d \in Conn : \A n \in Maps :
              got'[d][n] # 0 => got'[d][n] = entry'[n][from'[d]]
      BY <2>1, <2>2, <2>3 DEF k
    <2>8. \A d \in Conn : pc'[d] = "none" => \A n \in Maps : got'[d][n] = 0
      BY <1>0, <2>2
    <2> QED
      BY <2>5, <2>6, <2>7, <2>8
  <1>2. CASE Find(c, m, from[c])
    <2>1. /\ UNCHANGED <<entry, nbucket>>
          /\ \A d \in Conn : \A n \in Maps :
                got'[d][n] = IF d = c /\ n = m THEN entry[m][from[c]] ELSE got[d][n]
      BY <1>2 DEF Find
    <2> QED
      BY <1>0, <2>1
  <1>3. CASE Misses(m, from[c]) \/ UNCHANGED mapVars
    BY <1>0, <1>3 DEF Misses, mapVars
  <1> QED
    BY <1>1, <1>2, <1>3

(* A step that leaves the maps and the clients alone.                      *)
LEMMA MapsFrame ==
    ASSUME Buckets, UNCHANGED <<mapVars, from>>,
           \A c \in Conn : pc'[c] = "none" => pc[c] = "none"
    PROVE  Buckets'
  BY DEF Buckets, mapVars

-----------------------------------------------------------------------------
(* Counting connections.                                                   *)

In(stages) == {c \in Conn : pc[c] \in stages}

(* Moving one connection changes a count by at most one.                   *)
LEMMA Counts ==
    ASSUME pc \in [Conn -> At], NEW c \in Conn, NEW s \in At, Go(c, s),
           NEW S
    PROVE  /\ Cardinality(In(S)) \in Nat
           /\ (pc[c] \in S <=> s \in S) => Cardinality(In(S)') = Cardinality(In(S))
           /\ (pc[c] \notin S /\ s \in S) =>
                 Cardinality(In(S)') = Cardinality(In(S)) + 1
           /\ (pc[c] \in S /\ s \notin S) =>
                 /\ Cardinality(In(S)') = Cardinality(In(S)) - 1
                 /\ Cardinality(In(S)) > 0
  <1>1. IsFiniteSet(In(S)) /\ IsFiniteSet(In(S)')
    BY ConnAssumption, FS_Subset DEF In
  <1>2. Cardinality(In(S)) \in Nat /\ Cardinality(In(S)') \in Nat
    BY <1>1, FS_CardinalityType
  <1>3. pc'[c] = s /\ \A d \in Conn : d # c => pc'[d] = pc[d]
    BY DEF Go
  <1>4. CASE pc[c] \in S <=> s \in S
    <2>1. In(S)' = In(S)
      BY <1>3, <1>4 DEF In
    <2> QED
      BY <1>2, <1>4, <2>1
  <1>5. CASE pc[c] \notin S /\ s \in S
    <2>1. In(S)' = In(S) \union {c} /\ c \notin In(S)
      BY <1>3, <1>5 DEF In
    <2> QED
      BY <1>1, <1>2, <1>5, <2>1, FS_AddElement
  <1>6. CASE pc[c] \in S /\ s \notin S
    <2>1. In(S)' = In(S) \ {c} /\ c \in In(S)
      BY <1>3, <1>6 DEF In
    <2>2. Cardinality(In(S)') = Cardinality(In(S)) - 1
      BY <1>1, <2>1, FS_RemoveElement
    <2> QED
      BY <1>2, <1>6, <2>2
  <1> QED
    BY <1>4, <1>5, <1>6

Inside == Proxying \union Leaving

(* The metrics in terms of these counts.                                   *)
Metrics ==
    proc # "exited" =>
        /\ gauge = Cardinality(In(Inside))
        /\ total = Cardinality(In(Proxying)) + recorded + Cardinality(failed)

LEMMA MetricsIn == (MetricsAddUp <=> Metrics) /\ (MetricsAddUp' <=> Metrics')
  BY DEF MetricsAddUp, Metrics, In, Inside

(* Adding a connection to the failed ones counts it.                       *)
LEMMA FailedCounts ==
    ASSUME failed \subseteq Conn, NEW c \in Conn, c \notin failed
    PROVE  /\ Cardinality(failed) \in Nat
           /\ Cardinality(failed \union {c}) = Cardinality(failed) + 1
  BY ConnAssumption, FS_Subset, FS_CardinalityType, FS_AddElement

-----------------------------------------------------------------------------
(* Steps between stages that are alike: of a connection that has not yet   *)
(* come to an end, and neither taking nor giving back anything.            *)
Alike(a, b) ==
    /\ a \notin Leaving \union {"none", "drop", "closed"}
    /\ b \notin Leaving \union {"none"}
    /\ a \in Guarded <=> b \in Guarded
    /\ a \in Proxying <=> b \in Proxying
    /\ a \in Connected => b \in Connected

(* Such a step keeps the invariant, whatever it finds or inserts.          *)
LEMMA QuietStep ==
    ASSUME Inv, NEW c \in Conn, NEW s \in At, Go(c, s), Alike(pc[c], s),
           NEW m \in Maps,
           \/ OrInsert(c, m, from[c]) \/ Find(c, m, from[c])
           \/ Misses(m, from[c]) \/ UNCHANGED mapVars,
           UNCHANGED <<procVars, peerVars, slot, open, metricVars>>
    PROVE  Inv'
  <1> USE DEF procVars, peerVars, metricVars
  <1>1. TypeOK'
    <2>1. MapTypeOK'
      BY MapTypes DEF Inv, TypeOK
    <2> QED
      BY <2>1 DEF Inv, TypeOK, Go
  <1>2. Buckets'
    BY MapKeeps DEF Inv, Alike
  <1>3. pc'[c] = s /\ \A d \in Conn : d # c => pc'[d] = pc[d]
    BY DEF Go, Inv, TypeOK
  <1>4. Guards'
    BY <1>3 DEF Inv, Guards, Alike
  <1>5. FailedLeft' /\ AllEnded'
    BY <1>3 DEF Inv, FailedLeft, AllEnded, Alike, TypeOK
  <1>6. MetricsAddUp'
    <2>1. /\ Cardinality(In(Inside)') = Cardinality(In(Inside))
          /\ Cardinality(In(Proxying)') = Cardinality(In(Proxying))
      BY Counts DEF Inv, TypeOK, Alike, Inside
    <2> QED
      BY <2>1, MetricsIn DEF Inv, Metrics
  <1> QED
    BY <1>1, <1>2, <1>4, <1>5, <1>6 DEF Inv

(* A return with an error from inside proxy_connection.                    *)
LEMMA FailStep ==
    ASSUME Inv, NEW c \in Conn, Fail(c), pc[c] \in Proxying,
           UNCHANGED <<procVars, mapVars, peerVars, slot, open>>
    PROVE  Inv'
  <1> USE DEF procVars, peerVars
  <1>1. /\ Go(c, "close") /\ "close" \in At
        /\ failed' = failed \union {c} /\ UNCHANGED <<gauge, total, recorded>>
    BY DEF Fail, At, Leaving
  <1>2. pc'[c] = "close" /\ \A d \in Conn : d # c => pc'[d] = pc[d]
    BY <1>1 DEF Go, Inv, TypeOK
  <1>3. c \notin failed /\ proc # "exited"
    BY DEF Inv, FailedLeft, AllEnded, Proxying, Leaving
  <1>4. TypeOK'
    BY <1>1 DEF Inv, TypeOK, MapTypeOK, mapVars, Go
  <1>5. Buckets'
    BY <1>2, MapsFrame DEF Inv
  <1>6. Guards'
    BY <1>2 DEF Inv, Guards, Guarded, Connected, Leaving
  <1>7. FailedLeft' /\ AllEnded'
    BY <1>1, <1>2, <1>3 DEF Inv, FailedLeft, AllEnded, TypeOK, Leaving
  <1>8. MetricsAddUp'
    <2>1. /\ Cardinality(In(Inside)') = Cardinality(In(Inside))
          /\ Cardinality(In(Proxying)') = Cardinality(In(Proxying)) - 1
          /\ Cardinality(In(Proxying)) \in Nat
      BY <1>1, Counts DEF Inv, TypeOK, Inside, Proxying, Leaving
    <2>2. Cardinality(failed') = Cardinality(failed) + 1 /\ Cardinality(failed) \in Nat
      BY <1>1, <1>3, FailedCounts DEF Inv, TypeOK
    <2> QED
      BY <1>1, <1>3, <2>1, <2>2, MetricsIn DEF Inv, TypeOK, Metrics
  <1> QED
    BY <1>4, <1>5, <1>6, <1>7, <1>8 DEF Inv

(* The end of the process ends everything.                                 *)
LEMMA ExitStep ==
    ASSUME Inv, Exit
    PROVE  Inv'
  <1> USE DEF Exit, peerVars, metricVars
  <1>1. TypeOK'
    BY DEF Inv, TypeOK, MapTypeOK, mapVars, At
  <1>2. Buckets'
    BY MapsFrame DEF Inv
  <1>3. Guards' /\ FailedLeft' /\ AllEnded'
    BY DEF Inv, Guards, FailedLeft, AllEnded, TypeOK, Guarded, Proxying, Leaving
  <1>4. MetricsAddUp'
    BY DEF MetricsAddUp
  <1> QED
    BY <1>1, <1>2, <1>3, <1>4 DEF Inv

(* Every other step of the start-up.                                       *)
LEMMA StartFrame ==
    ASSUME Inv, UNCHANGED others, proc # "exited",
           proc' \in {"setup", "parse", "listen", "later", "watch", "running"},
           acceptors' \in 0..tried', tried' \in 0..NumAcceptors
    PROVE  Inv'
  <1> USE DEF others, peerVars, sockVars, metricVars
  <1>1. TypeOK'
    BY DEF Inv, TypeOK, MapTypeOK, mapVars
  <1>2. Buckets' /\ Guards' /\ FailedLeft' /\ AllEnded'
    BY DEF Inv, Buckets, Guards, FailedLeft, AllEnded, mapVars
  <1>3. MetricsAddUp'
    BY DEF Inv, MetricsAddUp
  <1> QED
    BY <1>1, <1>2, <1>3 DEF Inv

(* The start of the process keeps the invariant.                           *)
LEMMA StartUpKeeps ==
    ASSUME Inv, StartUp
    PROVE  Inv'
  <1>1. CASE LoadTlsConfig
    BY <1>1, ExitStep, StartFrame DEF LoadTlsConfig, Inv, TypeOK
  <1>2. CASE SetUp
    BY <1>2, ExitStep, StartFrame DEF SetUp, Inv, TypeOK
  <1>3. CASE Listen
    <2>1. CASE Exit
      BY <2>1, ExitStep
    <2>2. CASE /\ tried' = tried + 1 /\ acceptors' \in {acceptors, acceptors + 1}
               /\ UNCHANGED <<proc, others>>
      BY <1>3, <2>2, StartFrame, AcceptorsAssumption DEF Listen, Inv, TypeOK
    <2> QED
      BY <1>3, <2>1, <2>2 DEF Listen
  <1>4. CASE Listening
    BY <1>4, StartFrame DEF Listening, Inv, TypeOK
  <1>5. CASE StartOthers
    BY <1>5, ExitStep, StartFrame DEF StartOthers, Inv, TypeOK
  <1>6. CASE StartWatcher
    BY <1>6, ExitStep, StartFrame DEF StartWatcher, Inv, TypeOK
  <1> QED
    BY <1>1, <1>2, <1>3, <1>4, <1>5, <1>6 DEF StartUp

-----------------------------------------------------------------------------
(* A client connects: the connection had no bucket from anybody.           *)
LEMMA ArriveKeeps ==
    ASSUME Inv, NEW c \in Conn, NEW ip \in Client, Arrive(c, ip)
    PROVE  Inv'
  <1> USE DEF Arrive, procVars, sockVars, metricVars
  <1>1. pc[c] = "none" /\ Go(c, "backlog") /\ "backlog" \in At
    BY DEF At
  <1>2. pc'[c] = "backlog" /\ \A d \in Conn : d # c => pc'[d] = pc[d]
    BY <1>1 DEF Go, Inv, TypeOK
  <1>3. from'[c] = ip /\ \A d \in Conn : d # c => from'[d] = from[d]
    BY DEF Inv, TypeOK
  <1>4. TypeOK'
    BY <1>1 DEF Inv, TypeOK, MapTypeOK, mapVars, Go
  <1>5. Buckets'
    BY <1>1, <1>2, <1>3 DEF Inv, Buckets, mapVars
  <1>6. Guards'
    BY <1>1, <1>2 DEF Inv, Guards, Guarded, Connected, Proxying, Leaving
  <1>7. FailedLeft' /\ AllEnded'
    BY <1>1, <1>2 DEF Inv, FailedLeft, AllEnded, TypeOK, Leaving
  <1>8. MetricsAddUp'
    <2>1. /\ Cardinality(In(Inside)') = Cardinality(In(Inside))
          /\ Cardinality(In(Proxying)') = Cardinality(In(Proxying))
      BY <1>1, Counts DEF Inv, TypeOK, Inside, Proxying, Leaving
    <2> QED
      BY <2>1, MetricsIn DEF Inv, Metrics
  <1> QED
    BY <1>4, <1>5, <1>6, <1>7, <1>8 DEF Inv

(* next_backend gives the connection a guard, or ends it.                  *)
LEMMA SelectKeeps ==
    ASSUME Inv, NEW c \in Conn, Select(c)
    PROVE  Inv'
  <1> USE DEF Select, procVars, sockVars, metricVars
  <1>1. CASE Go(c, "closed") /\ UNCHANGED <<to, slot>>
    <2>1. "closed" \in At /\ Alike(pc[c], "closed") /\ "rate" \in Maps
      BY DEF At, Alike, Guarded, Connected, Proxying, Leaving, Maps
    <2> QED
      BY <1>1, <2>1, QuietStep DEF peerVars
  <1>2. ASSUME NEW b \in Backend, Slots!Acquire(c, b),
               to' = [to EXCEPT ![c] = b], Go(c, "client_get")
        PROVE  Inv'
    <2>1. pc[c] = "select" /\ "client_get" \in At /\ b # NoBackend
      BY BackendAssumption DEF At
    <2>2. pc'[c] = "client_get" /\ \A d \in Conn : d # c => pc'[d] = pc[d]
      BY <1>2 DEF Go, Inv, TypeOK
    <2>3. slot' = [slot EXCEPT ![c] = b]
      BY <1>2 DEF Slots!Acquire
    <2>4. /\ slot'[c] = b /\ to'[c] = b
          /\ \A d \in Conn : d # c => slot'[d] = slot[d] /\ to'[d] = to[d]
      BY <1>2, <2>3 DEF Inv, TypeOK
    <2>5. TypeOK'
      BY <1>2, <2>1, <2>3 DEF Inv, TypeOK, MapTypeOK, mapVars, Go
    <2>6. Buckets'
      BY <2>2, MapsFrame DEF Inv
    <2>7. Guards'
      BY <2>1, <2>2, <2>4 DEF Inv, Guards, Guarded, Connected, Proxying, Leaving
    <2>8. FailedLeft' /\ AllEnded'
      BY <2>1, <2>2 DEF Inv, FailedLeft, AllEnded, TypeOK, Leaving
    <2>9. MetricsAddUp'
      <3>1. /\ Cardinality(In(Inside)') = Cardinality(In(Inside))
            /\ Cardinality(In(Proxying)') = Cardinality(In(Proxying))
        BY <1>2, <2>1, Counts DEF Inv, TypeOK, Inside, Proxying, Leaving
      <3> QED
        BY <3>1, MetricsIn DEF Inv, Metrics
    <2> QED
      BY <2>5, <2>6, <2>7, <2>8, <2>9 DEF Inv
  <1> QED
    BY <1>1, <1>2

(* The drop of the balancer's guard.                                       *)
LEMMA DropGuardKeeps ==
    ASSUME Inv, NEW c \in Conn, DropGuard(c)
    PROVE  Inv'
  <1> USE DEF DropGuard, procVars, peerVars, sockVars, metricVars
  <1>1. pc[c] = "drop" /\ Go(c, "closed") /\ "closed" \in At
    BY DEF At
  <1>2. pc'[c] = "closed" /\ \A d \in Conn : d # c => pc'[d] = pc[d]
    BY <1>1 DEF Go, Inv, TypeOK
  <1>3. slot' = [slot EXCEPT ![c] = NoBackend]
    BY DEF Slots!Release
  <1>4. slot'[c] = NoBackend /\ \A d \in Conn : d # c => slot'[d] = slot[d]
    BY <1>3 DEF Inv, TypeOK
  <1>5. TypeOK'
    BY <1>1, <1>3 DEF Inv, TypeOK, MapTypeOK, mapVars, Go
  <1>6. Buckets'
    BY <1>2, MapsFrame DEF Inv
  <1>7. Guards'
    BY <1>1, <1>2, <1>4 DEF Inv, Guards, Guarded, Connected, Proxying, Leaving
  <1>8. FailedLeft' /\ AllEnded'
    BY <1>1, <1>2 DEF Inv, FailedLeft, AllEnded, TypeOK, Leaving
  <1>9. MetricsAddUp'
    <2>1. /\ Cardinality(In(Inside)') = Cardinality(In(Inside))
          /\ Cardinality(In(Proxying)') = Cardinality(In(Proxying))
      BY <1>1, Counts DEF Inv, TypeOK, Inside, Proxying, Leaving
    <2> QED
      BY <2>1, MetricsIn DEF Inv, Metrics
  <1> QED
    BY <1>5, <1>6, <1>7, <1>8, <1>9 DEF Inv

(* The socket to the backend is opened, or closed.                         *)
LEMMA SocketKeeps ==
    ASSUME Inv, NEW c \in Conn, NEW s \in At, Go(c, s),
           \/ /\ pc[c] = "connect" /\ s = "header"
              /\ open' = open \union {c}
           \/ /\ pc[c] = "close" /\ s = "uncount"
              /\ open' = open \ {c},
           UNCHANGED <<procVars, mapVars, peerVars, slot, metricVars>>
    PROVE  Inv'
  <1> USE DEF procVars, peerVars, metricVars
  <1>1. pc'[c] = s /\ \A d \in Conn : d # c => pc'[d] = pc[d]
    BY DEF Go, Inv, TypeOK
  <1>2. TypeOK'
    BY DEF Inv, TypeOK, MapTypeOK, mapVars, Go
  <1>3. Buckets'
    BY <1>1, MapsFrame DEF Inv
  <1>4. Guards'
    BY <1>1 DEF Inv, Guards, Guarded, Connected, Proxying, Leaving
  <1>5. FailedLeft' /\ AllEnded'
    BY <1>1 DEF Inv, FailedLeft, AllEnded, TypeOK, Leaving
  <1>6. MetricsAddUp'
    <2>1. /\ Cardinality(In(Inside)') = Cardinality(In(Inside))
          /\ Cardinality(In(Proxying)') = Cardinality(In(Proxying))
      BY Counts DEF Inv, TypeOK, Inside, Proxying, Leaving
    <2> QED
      BY <2>1, MetricsIn DEF Inv, Metrics
  <1> QED
    BY <1>2, <1>3, <1>4, <1>5, <1>6 DEF Inv

(* The metrics are written on entry, after the copy, and by the guard.     *)
LEMMA MetricKeeps ==
    ASSUME Inv, NEW c \in Conn, Enter(c) \/ Record(c) \/ DropMetricGuard(c)
    PROVE  Inv'
  <1> USE DEF Enter, Record, DropMetricGuard, procVars, peerVars, sockVars
  <1>1. PICK s \in At : /\ Go(c, s)
                        /\ \/ pc[c] = "proxy" /\ s = "connect"
                           \/ pc[c] = "record" /\ s = "close"
                           \/ pc[c] = "uncount" /\ s = "drop"
    BY DEF At, Proxying, Leaving
  <1>2. pc'[c] = s /\ \A d \in Conn : d # c => pc'[d] = pc[d]
    BY <1>1 DEF Go, Inv, TypeOK
  <1>3. proc # "exited"
    BY <1>1 DEF Inv, AllEnded
  <1>4. MetricsAddUp' /\ gauge' \in Nat /\ total' \in Nat /\ recorded' \in Nat
    <2>1. /\ gauge = Cardinality(In(Inside)) /\ gauge \in Nat
          /\ total = Cardinality(In(Proxying)) + recorded + Cardinality(failed)
          /\ Cardinality(In(Proxying)) \in Nat /\ recorded \in Nat /\ total \in Nat
          /\ Cardinality(failed) \in Nat
      BY <1>1, <1>3, MetricsIn, Counts, ConnAssumption, FS_Subset, FS_CardinalityType
      DEF Inv, TypeOK, Metrics
    <2>2. CASE Enter(c)
      <3>1. /\ Cardinality(In(Inside)') = Cardinality(In(Inside)) + 1
            /\ Cardinality(In(Proxying)') = Cardinality(In(Proxying)) + 1
        BY <2>2, <1>1, Counts DEF Inv, TypeOK, Inside, Proxying, Leaving
      <3> QED
        BY <2>1, <2>2, <3>1, MetricsIn DEF Metrics
    <2>3. CASE Record(c)
      <3>1. /\ Cardinality(In(Inside)') = Cardinality(In(Inside))
            /\ Cardinality(In(Proxying)') = Cardinality(In(Proxying)) - 1
        BY <2>3, <1>1, Counts DEF Inv, TypeOK, Inside, Proxying, Leaving
      <3> QED
        BY <2>1, <2>3, <3>1, MetricsIn DEF Metrics
    <2>4. CASE DropMetricGuard(c)
      <3>1. /\ Cardinality(In(Inside)') = Cardinality(In(Inside)) - 1
            /\ Cardinality(In(Inside)) > 0
            /\ Cardinality(In(Proxying)') = Cardinality(In(Proxying))
        BY <2>4, <1>1, Counts DEF Inv, TypeOK, Inside, Proxying, Leaving
      <3> QED
        BY <2>1, <2>4, <3>1, MetricsIn DEF Metrics
    <2> QED
      BY <2>2, <2>3, <2>4
  <1>5. UNCHANGED <<procVars, mapVars, peerVars, slot, open, failed>>
    OBVIOUS
  <1>6. TypeOK'
    BY <1>1, <1>4, <1>5 DEF Inv, TypeOK, MapTypeOK, mapVars, Go
  <1>7. Buckets'
    BY <1>1, <1>2, <1>5, MapsFrame DEF Inv
  <1>8. Guards'
    BY <1>1, <1>2, <1>5 DEF Inv, Guards, Guarded, Connected, Proxying, Leaving
  <1>9. FailedLeft' /\ AllEnded'
    BY <1>1, <1>2, <1>3, <1>5 DEF Inv, FailedLeft, AllEnded, TypeOK, Leaving
  <1> QED
    BY <1>4, <1>6, <1>7, <1>8, <1>9 DEF Inv

(* The steps up to proxy_connection that only look something up.           *)
LEMMA LookupKeeps ==
    ASSUME Inv, NEW c \in Conn,
           \/ Accept(c) \/ AcceptError(c) \/ Check(c) \/ GetClient(c)
           \/ InsertClient(c) \/ GetBackend(c) \/ InsertBackend(c) \/ Handshake(c)
    PROVE  Inv'
  <1> USE DEF procVars, peerVars, sockVars, metricVars
  <1>0. /\ {"rate", "client", "backend"} = Maps
        /\ \A m \in Maps : Key(c, m) = from[c]
    BY DEF Maps, Key
  <1>1. Limited(c) \in {"tls", "proxy"}
    BY DEF Limited
  <1>2. /\ {"rate", "closed", "select", "client_insert", "backend_get",
            "backend_insert", "tls", "proxy"} \subseteq At
        /\ Alike("backlog", "rate") /\ Alike("backlog", "closed")
        /\ Alike("rate", "select") /\ Alike("rate", "closed")
        /\ Alike("client_get", "client_insert") /\ Alike("client_get", "backend_get")
        /\ Alike("client_insert", "backend_get")
        /\ Alike("backend_get", "backend_insert")
        /\ \A s \in {"tls", "proxy"} : Alike("backend_get", s) /\ Alike("backend_insert", s)
        /\ Alike("tls", "proxy") /\ Alike("tls", "drop") /\ "drop" \in At
    BY DEF At, Alike, Guarded, Connected, Proxying, Leaving
  <1>3. CASE Accept(c) \/ AcceptError(c)
    BY <1>0, <1>2, <1>3, QuietStep DEF Accept, AcceptError, OnlyPc
  <1>4. CASE Check(c)
    BY <1>0, <1>2, <1>4, QuietStep DEF Check
  <1>5. CASE GetClient(c)
    BY <1>0, <1>2, <1>5, QuietStep DEF GetClient, Get
  <1>6. CASE InsertClient(c)
    BY <1>0, <1>2, <1>6, QuietStep DEF InsertClient, Insert
  <1>7. CASE GetBackend(c)
    BY <1>0, <1>1, <1>2, <1>7, QuietStep DEF GetBackend, Get
  <1>8. CASE InsertBackend(c)
    BY <1>0, <1>1, <1>2, <1>8, QuietStep DEF InsertBackend, Insert
  <1>9. CASE Handshake(c)
    BY <1>0, <1>2, <1>9, QuietStep DEF Handshake, OnlyPc
  <1> QED
    BY <1>3, <1>4, <1>5, <1>6, <1>7, <1>8, <1>9

(* The awaits of proxy_connection, each of which may fail.                 *)
LEMMA AwaitKeeps ==
    ASSUME Inv, NEW c \in Conn,
           Connect(c) \/ SendHeader(c) \/ BackendTls(c) \/ Copy(c)
    PROVE  Inv'
  <1>1. /\ {"connect", "header", "backend_tls", "copy"} \subseteq Proxying
        /\ {"header", "backend_tls", "copy", "record"} \subseteq At
        /\ Alike("header", "backend_tls") /\ Alike("backend_tls", "copy")
        /\ Alike("copy", "record") /\ "rate" \in Maps
    BY DEF At, Alike, Guarded, Connected, Proxying, Leaving, Maps
  <1>2. CASE Connect(c)
    BY <1>1, <1>2, FailStep, SocketKeeps DEF Connect
  <1>3. CASE SendHeader(c)
    BY <1>1, <1>3, FailStep, QuietStep DEF SendHeader
  <1>4. CASE BackendTls(c)
    BY <1>1, <1>4, FailStep, QuietStep DEF BackendTls
  <1>5. CASE Copy(c)
    BY <1>1, <1>5, FailStep, QuietStep DEF Copy
  <1> QED
    BY <1>2, <1>3, <1>4, <1>5

(* Every step keeps the invariant.                                         *)
LEMMA NextInv == Inv /\ [Next]_vars => Inv'
  <1> SUFFICES ASSUME Inv, [Next]_vars PROVE Inv'
    OBVIOUS
  <1>1. CASE StartUp
    BY <1>1, StartUpKeeps
  <1>2. ASSUME NEW c \in Conn, Own(c)
        PROVE  Inv'
    <2>1. CASE CloseUpstream(c)
      BY <2>1, SocketKeeps DEF CloseUpstream, At, Leaving
    <2> QED
      BY <1>2, <2>1, LookupKeeps, SelectKeeps, MetricKeeps, DropGuardKeeps DEF Own
  <1>3. ASSUME NEW c \in Conn, Awaited(c)
        PROVE  Inv'
    BY <1>3, LookupKeeps, AwaitKeeps DEF Awaited
  <1>4. ASSUME NEW c \in Conn, NEW ip \in Client, Arrive(c, ip)
        PROVE  Inv'
    BY <1>4, ArriveKeeps
  <1>5. CASE UNCHANGED vars
    <2>1. TypeOK' /\ Buckets' /\ Guards' /\ FailedLeft' /\ AllEnded'
      BY <1>5 DEF vars, procVars, mapVars, peerVars, sockVars, metricVars, Inv,
                  TypeOK, MapTypeOK, Buckets, Guards, FailedLeft, AllEnded
    <2>2. MetricsAddUp'
      BY <1>5 DEF vars, procVars, metricVars, Inv, MetricsAddUp
    <2> QED
      BY <2>1, <2>2 DEF Inv
  <1> QED
    BY <1>1, <1>2, <1>3, <1>4, <1>5 DEF Next

(* Before the start there are no connections.                              *)
LEMMA InitInv == Init => Inv
  <1> SUFFICES ASSUME Init PROVE Inv
    OBVIOUS
  <1> USE DEF Init
  <1>1. MapTypeOK
    BY MaxBucketAssumption DEF MapInit, MapTypeOK
  <1>2. slot = [c \in Conn |-> NoBackend]
    BY DEF Slots!PoolInit
  <1>3. TypeOK
    <2>1. (CHOOSE ip \in Client : TRUE) \in Client
      BY ClientAssumption
    <2>2. acceptors \in 0..tried /\ tried \in 0..NumAcceptors
      BY AcceptorsAssumption
    <2> QED
      BY <1>1, <1>2, <2>1, <2>2 DEF TypeOK, At
  <1>4. Buckets
    BY DEF MapInit, Buckets
  <1>5. Guards /\ FailedLeft /\ AllEnded
    BY <1>2 DEF Guards, FailedLeft, AllEnded, Guarded, Proxying, Leaving
  <1>6. MetricsAddUp
    <2>1. In(Inside) = {} /\ In(Proxying) = {} /\ failed = {}
      BY DEF In, Inside, Proxying, Leaving
    <2> QED
      BY <2>1, MetricsIn, FS_EmptySet DEF Metrics
  <1> QED
    BY <1>3, <1>4, <1>5, <1>6 DEF Inv

(* The inductive invariant holds throughout.                               *)
LEMMA InvAlways == Spec => []Inv
  BY InitInv, NextInv, PTL DEF Spec

-----------------------------------------------------------------------------
(* Every variable keeps its type; the gauge in particular never falls      *)
(* below zero (proxy.rs:38-51).                                            *)
THEOREM ConnectionTypeCorrect == Spec => []TypeOK
  <1>1. Inv => TypeOK
    BY DEF Inv
  <1> QED
    BY <1>1, InvAlways, PTL

(* The connections of one client share its buckets, also those that raced  *)
(* for the first entry (limiter.rs:142-150).                               *)
THEOREM BucketsShared == Spec => []ClientShares
  <1>1. Inv => ClientShares
    BY DEF Inv, Buckets, ClientShares
  <1> QED
    BY <1>1, InvAlways, PTL

(* No two clients share a rate or a client bandwidth bucket.               *)
THEOREM BucketsSeparate == Spec => []ClientsApart
  <1>1. {"rate", "client"} \subseteq Maps
    BY DEF Maps
  <1>2. Inv => ClientsApart
    BY <1>1 DEF Inv, TypeOK, MapTypeOK, Buckets, ClientsApart
  <1> QED
    BY <1>2, InvAlways, PTL

(* A socket to a backend is open only while the connection's guard counts  *)
(* there (proxy.rs:55-110, main.rs:207).                                   *)
THEOREM SocketsGuarded == Spec => []SocketsCounted
  <1>1. Inv => SocketsCounted
    BY DEF Inv, TypeOK, Guards, Guarded, Connected, Proxying, Leaving, SocketsCounted
  <1> QED
    BY <1>1, InvAlways, PTL

(* The gauge and the total agree with the connections that are inside      *)
(* proxy_connection, were recorded, or failed (proxy.rs:38-51, :110-117).  *)
THEOREM MetricsExact == Spec => []MetricsAddUp
  <1>1. Inv => MetricsAddUp
    BY DEF Inv
  <1> QED
    BY <1>1, InvAlways, PTL

-----------------------------------------------------------------------------
(* The bytes a backend receives.                                           *)

Early == {"none", "backlog", "rate", "select", "client_get", "client_insert",
          "backend_get", "backend_insert", "tls", "proxy", "connect", "header"}

Header(c) == CreateV2Header(ClientAddr(c), LocalAddr)
TlsHello  == IF rule.backendTls THEN <<22>> ELSE <<>>
Bodies    == {<<>>, Data, TlsHello, TlsHello \o Data}
Whole(c)  == {Header(c) \o t : t \in Bodies}

(* How much was written when a task stands where it stands: nothing, the   *)
(* header, the handshake's first byte behind it, or one of the wholes.     *)
Wires ==
    /\ wire \in [Conn -> Seq(Nat)]
    /\ rule.proxyProtocol =>
         \A c \in Conn :
             /\ pc[c] \in Early => wire[c] = <<>>
             /\ pc[c] = "backend_tls" => wire[c] = Header(c)
             /\ pc[c] = "copy" => wire[c] = Header(c) \o TlsHello
             /\ wire[c] = <<>> \/ wire[c] \in Whole(c)

(* The addresses of a connection are IPv4 addresses.                       *)
LEMMA Addrs ==
    ASSUME TypeOK, NEW c \in Conn
    PROVE  IsAddr(ClientAddr(c), 4) /\ IsAddr(LocalAddr, 4)
  <1>1. from[c] \in Nat
    <2>1. from[c] \in 0..(2^AddrBits - 1)
      BY ClientAssumption, Zenon DEF TypeOK, IpAddr
    <2> QED
      BY <2>1, AddrBitsAssumption
  <1>2. <<10, 0, 0, from[c]>> \in Seq(Nat) /\ <<10, 0, 1, 1>> \in Seq(Nat)
    BY <1>1
  <1> QED
    BY <1>2 DEF IsAddr, ClientAddr, LocalAddr

(* The sequences that the steps write and the wholes they build up to.     *)
LEMMA Written ==
    ASSUME TypeOK, NEW c \in Conn
    PROVE  /\ <<>> \in Seq(Nat) /\ <<22>> \in Seq(Nat) /\ Data \in Seq(Nat)
           /\ TlsHello \in Seq(Nat)
           /\ Header(c) \in Seq(Nat) /\ <<>> \o Header(c) = Header(c)
           /\ Header(c) \o <<>> = Header(c)
           /\ Header(c) \o TlsHello \in Whole(c) /\ Header(c) \in Whole(c)
           /\ (Header(c) \o TlsHello) \o Data \in Whole(c)
  <1>1. /\ <<>> \in Seq(Nat) /\ <<22>> \in Seq(Nat) /\ Data \in Seq(Nat)
        /\ TlsHello \in Seq(Nat)
    BY DEF Data, TlsHello
  <1>2. Header(c) \in Seq(Nat)
    <2>1. 4 \in Octets /\ 17 \in Nat /\ 12 \in 0..255 /\ 2 * 4 + 4 = 12
      BY DEF Octets
    <2>2. Header(c) = Fixed(17, 12) \o Addresses(ClientAddr(c), LocalAddr)
      BY <2>1, Addrs, HeaderParts DEF Header
    <2>3. Fixed(17, 12) \in Seq(Nat) /\ Addresses(ClientAddr(c), LocalAddr) \in Seq(Nat)
      BY <2>1, Addrs, AddressBytes, FixedBytes, Zenon
    <2> QED
      BY <2>2, <2>3, ConcatProperties
  <1> DEFINE h == Header(c)
  <1>3. <<>> \o h = h /\ h \o <<>> = h
    BY <1>2, ConcatEmptySeq
  <1>4. (h \o TlsHello) \o Data = h \o (TlsHello \o Data)
    BY <1>1, <1>2, ConcatBytes
  <1>5. h \o TlsHello \in Whole(c)
    BY Zenon DEF Whole, Bodies
  <1>6. h \in Whole(c)
    BY <1>3, Zenon DEF Whole, Bodies
  <1>7. (h \o TlsHello) \o Data \in Whole(c)
    BY <1>4, Zenon DEF Whole, Bodies
  <1> QED
    BY <1>1, <1>2, <1>3, <1>5, <1>6, <1>7, Zenon

(* A step that concerns none of this.                                      *)
LEMMA WiresSame ==
    ASSUME Wires, UNCHANGED <<rule, pc, from, wire>>
    PROVE  Wires'
  <1>1. TlsHello' = TlsHello /\ \A d \in Conn : Header(d)' = Header(d)
    BY DEF TlsHello, Header, ClientAddr, LocalAddr
  <1>2. \A d \in Conn : Whole(d)' = Whole(d)
    BY <1>1 DEF Whole, Bodies
  <1> QED
    BY <1>1, <1>2 DEF Wires

(* A step of c that writes nothing.                                        *)
LEMMA WiresFrame ==
    ASSUME Wires, UNCHANGED <<rule, wire>>, NEW c \in Conn,
           \A d \in Conn : d # c => pc'[d] = pc[d] /\ from'[d] = from[d],
           pc'[c] \in Early => pc[c] \in Early,
           pc[c] \notin Early => from'[c] = from[c],
           pc'[c] \notin {"backend_tls", "copy"}
    PROVE  Wires'
  <1>1. \A d \in Conn : from'[d] = from[d] =>
            /\ Header(d)' = Header(d)
            /\ Whole(d)' = Whole(d)
    BY DEF Header, Whole, Bodies, ClientAddr, LocalAddr, TlsHello, Data
  <1>2. TlsHello' = TlsHello
    BY DEF TlsHello
  <1> QED
    BY <1>1, <1>2 DEF Wires

(* A step of c that writes and leaves c where it may.                      *)
LEMMA WiresStep ==
    ASSUME TypeOK, Wires, UNCHANGED <<rule, from>>, NEW c \in Conn, NEW s \in At \ Early,
           Go(c, s), NEW w \in Seq(Nat), wire' = [wire EXCEPT ![c] = w],
           rule.proxyProtocol =>
               /\ s = "backend_tls" => w = Header(c)
               /\ s = "copy" => w = Header(c) \o TlsHello
               /\ w \in Whole(c)
    PROVE  Wires'
  <1>1. \A d \in Conn : Header(d)' = Header(d) /\ Whole(d)' = Whole(d)
    BY DEF Header, Whole, Bodies, ClientAddr, LocalAddr, TlsHello, Data
  <1>2. TlsHello' = TlsHello
    BY DEF TlsHello
  <1>3. /\ pc'[c] = s /\ \A d \in Conn : d # c => pc'[d] = pc[d]
    BY DEF Go, TypeOK
  <1>4. /\ wire' \in [Conn -> Seq(Nat)] /\ wire'[c] = w
        /\ \A d \in Conn : d # c => wire'[d] = wire[d]
    BY DEF Wires
  <1> QED
    BY <1>1, <1>2, <1>3, <1>4 DEF Wires

(* Every step keeps the wires in order.                                    *)
LEMMA NextWires ==
    ASSUME TypeOK, Wires, [Next]_vars
    PROVE  Wires'
  <1> USE DEF procVars, peerVars, sockVars, metricVars
  <1>0. rule.proxyProtocol \in BOOLEAN /\ rule.backendTls \in BOOLEAN
    BY RulesAssumption DEF TypeOK, RuleConfig
  <1>1. CASE StartUp
    <2>1. CASE Exit
      <3>1. \A d \in Conn : pc'[d] = "closed" /\ "closed" \notin Early
        BY <2>1 DEF Exit, Early
      <3>2. \A d \in Conn : Header(d)' = Header(d) /\ Whole(d)' = Whole(d)
        BY <2>1 DEF Exit, Header, Whole, Bodies, ClientAddr, LocalAddr, TlsHello, Data
      <3> QED
        BY <2>1, <3>1, <3>2 DEF Exit, Wires
    <2>2. CASE UNCHANGED others
      <3>1. UNCHANGED <<rule, pc, from, wire>>
        BY <2>2 DEF others
      <3> QED
        BY <3>1, WiresSame
    <2> QED
      BY <1>1, <2>1, <2>2 DEF StartUp, LoadTlsConfig, SetUp, Listen, Listening,
                              StartOthers, StartWatcher
  <1>2. ASSUME NEW c \in Conn, NEW ip \in Client, Arrive(c, ip)
        PROVE  Wires'
    <2>1. /\ pc[c] = "none" /\ pc'[c] = "backlog"
          /\ \A d \in Conn : d # c => pc'[d] = pc[d] /\ from'[d] = from[d]
      BY <1>2 DEF Arrive, Go, TypeOK
    <2>2. UNCHANGED <<rule, wire>>
      BY <1>2 DEF Arrive
    <2> QED
      BY <2>1, <2>2, WiresFrame DEF Early
  <1>3. ASSUME NEW c \in Conn, Own(c) \/ Handshake(c) \/ Connect(c)
        PROVE  Wires'
    <2>1. UNCHANGED <<rule, wire, from>>
      BY <1>3 DEF Own, Accept, AcceptError, Check, Select, GetClient, InsertClient,
                  GetBackend, InsertBackend, Get, Insert, Enter, Record, CloseUpstream,
                  DropMetricGuard, DropGuard, Handshake, Connect, OnlyPc
    <2>2. PICK s \in At : /\ Go(c, s) /\ s \notin {"backend_tls", "copy"}
                          /\ s \in Early => pc[c] \in Early
      <3> USE DEF At, Early, Proxying, Leaving
      <3>1. CASE Accept(c) \/ AcceptError(c) \/ Check(c) \/ Select(c) \/ Handshake(c)
        BY <3>1 DEF Accept, AcceptError, Check, Select, Handshake
      <3>2. CASE GetClient(c) \/ InsertClient(c) \/ GetBackend(c) \/ InsertBackend(c)
        BY <3>2 DEF GetClient, InsertClient, GetBackend, InsertBackend, Get, Insert,
                    Limited
      <3>3. CASE Connect(c) \/ Enter(c) \/ Record(c)
        BY <3>3 DEF Connect, Enter, Record, Fail
      <3>4. CASE CloseUpstream(c) \/ DropMetricGuard(c) \/ DropGuard(c)
        BY <3>4 DEF CloseUpstream, DropMetricGuard, DropGuard
      <3> QED
        BY <1>3, <3>1, <3>2, <3>3, <3>4 DEF Own
    <2>3. pc'[c] = s /\ \A d \in Conn : d # c => pc'[d] = pc[d]
      BY <2>2 DEF Go, TypeOK
    <2>4. /\ \A d \in Conn : d # c => pc'[d] = pc[d] /\ from'[d] = from[d]
          /\ pc'[c] \in Early => pc[c] \in Early
          /\ pc'[c] \notin {"backend_tls", "copy"}
          /\ from'[c] = from[c]
      BY <2>1, <2>2, <2>3
    <2> QED
      BY <2>1, <2>4, WiresFrame, Zenon
  <1>4. ASSUME NEW c \in Conn, SendHeader(c)
        PROVE  Wires'
    <2>1. /\ pc[c] = "header" /\ UNCHANGED <<rule, from>>
          /\ rule.proxyProtocol => wire[c] = <<>>
      BY <1>4 DEF SendHeader, Wires, Early
    <2>2. CASE ~rule.proxyProtocol /\ UNCHANGED wire
      BY <2>1, <2>2 DEF Wires
    <2>3. CASE rule.proxyProtocol /\ Fail(c) /\ UNCHANGED wire
      <3>1. /\ pc'[c] = "close" /\ \A d \in Conn : d # c => pc'[d] = pc[d]
            /\ UNCHANGED <<rule, wire>> /\ from' = from
        BY <2>1, <2>3 DEF Fail, Go, TypeOK
      <3> QED
        BY <3>1, WiresFrame DEF Early
    <2>4. CASE /\ rule.proxyProtocol /\ Go(c, "backend_tls")
               /\ WriteTo(c, CreateV2Header(ClientAddr(c), LocalAddr))
      <3>1. wire' = [wire EXCEPT ![c] = Header(c)]
        BY <2>1, <2>4, Written DEF WriteTo, Header, Wires
      <3>2. Header(c) \in Seq(Nat) /\ Header(c) \in Whole(c)
        BY Written
      <3>3. "backend_tls" \in At \ Early
        BY DEF At, Early, Proxying
      <3> QED
        BY <2>1, <2>4, <3>1, <3>2, <3>3, WiresStep
    <2> QED
      BY <1>4, <2>2, <2>3, <2>4 DEF SendHeader
  <1>5. ASSUME NEW c \in Conn, BackendTls(c)
        PROVE  Wires'
    <2>1. /\ pc[c] = "backend_tls" /\ UNCHANGED <<rule, from>>
          /\ rule.proxyProtocol => wire[c] = Header(c)
          /\ wire \in [Conn -> Seq(Nat)]
      BY <1>5 DEF BackendTls, Wires
    <2>2. PICK s \in {"close", "copy"} : Go(c, s)
      BY <1>5 DEF BackendTls, Fail
    <2>3. s \in At \ Early /\ s # "backend_tls"
      BY DEF At, Early, Proxying, Leaving
    <2>4. PICK w \in Seq(Nat) : /\ wire' = [wire EXCEPT ![c] = w]
                                /\ w = wire[c] \o TlsHello
      <3>1. CASE rule.backendTls /\ WriteTo(c, <<22>>)
        <4>1. TlsHello = <<22>>
          BY <3>1 DEF TlsHello
        <4>2. wire[c] \o TlsHello \in Seq(Nat)
          BY <2>1, Written, ConcatProperties
        <4> QED
          BY <3>1, <4>1, <4>2, Zenon DEF WriteTo
      <3>2. CASE ~rule.backendTls /\ UNCHANGED wire
        <4>1. TlsHello = <<>> /\ wire[c] \o <<>> = wire[c]
          BY <2>1, <3>2, ConcatEmptySeq DEF TlsHello
        <4>2. wire' = [wire EXCEPT ![c] = wire[c]]
          BY <2>1, <3>2
        <4> QED
          BY <2>1, <4>1, <4>2
      <3> QED
        BY <1>5, <3>1, <3>2 DEF BackendTls
    <2>5. rule.proxyProtocol => w = Header(c) \o TlsHello /\ w \in Whole(c)
      BY <2>1, <2>4, Written, Zenon
    <2> QED
      BY <2>1, <2>2, <2>3, <2>4, <2>5, WiresStep
  <1>6. ASSUME NEW c \in Conn, Copy(c)
        PROVE  Wires'
    <2>1. /\ pc[c] = "copy" /\ UNCHANGED <<rule, from>>
          /\ rule.proxyProtocol => wire[c] = Header(c) \o TlsHello
          /\ wire \in [Conn -> Seq(Nat)]
      BY <1>6 DEF Copy, Wires
    <2>2. PICK s \in {"close", "record"} : Go(c, s)
      BY <1>6 DEF Copy, Fail
    <2>3. s \in At \ Early /\ s \notin {"backend_tls", "copy"}
      BY DEF At, Early, Proxying, Leaving
    <2> DEFINE w == wire[c] \o Data
    <2>4. wire' = [wire EXCEPT ![c] = w]
      BY <1>6, Zenon DEF Copy, WriteTo
    <2>5. w \in Seq(Nat)
      BY <2>1, Written, ConcatProperties
    <2>6. rule.proxyProtocol => w \in Whole(c)
      BY <2>1, Written, Zenon
    <2> HIDE DEF w
    <2> QED
      BY <2>1, <2>2, <2>3, <2>4, <2>5, <2>6, WiresStep
  <1>7. CASE UNCHANGED vars
    BY <1>7, WiresSame DEF vars
  <1> QED
    BY <1>1, <1>2, <1>3, <1>4, <1>5, <1>6, <1>7 DEF Next, Awaited

(* Before the start nothing was written.                                   *)
LEMMA InitWires == Init => Wires
  <1>1. <<>> \in Seq(Nat)
    OBVIOUS
  <1> QED
    BY <1>1 DEF Init, Wires, Early

(* A backend that expects the PROXY header finds it first, reads the       *)
(* client's address in it and behind it exactly what follows, whatever     *)
(* fails on the way (proxy.rs:62-110).                                     *)
THEOREM HeaderFirst == Spec => []BackendReadsHeader
  <1>1. TypeOK /\ Wires => BackendReadsHeader
    <2> SUFFICES ASSUME TypeOK, Wires, rule.proxyProtocol,
                        NEW c \in Conn, wire[c] # <<>>
                 PROVE  /\ IsHeader(wire[c])
                        /\ Source(wire[c]) = ClientAddr(c).octets
                        /\ \E p \in {<<>>, TlsHello}, q \in {<<>>, Data} :
                              Payload(wire[c]) = p \o q
      BY Zenon DEF BackendReadsHeader, TlsHello
    <2>1. PICK t \in Bodies : wire[c] = Header(c) \o t
      BY Zenon DEF Wires, Whole
    <2>2. Bodies \subseteq Seq(Nat)
      <3>1. TlsHello \o Data \in Seq(Nat)
        BY Written, ConcatProperties
      <3> QED
        BY <3>1, Written DEF Bodies
    <2>3. /\ IsHeader(Header(c) \o t) /\ Payload(Header(c) \o t) = t
          /\ Source(Header(c) \o t) = ClientAddr(c).octets
      <3>1. t \in Seq(Nat) /\ IsAddr(ClientAddr(c), 4) /\ IsAddr(LocalAddr, 4)
        BY <2>2, Addrs
      <3> QED
        BY <3>1, HeaderDecodesV4, Zenon DEF Header
    <2>5. \E p \in {<<>>, TlsHello}, q \in {<<>>, Data} : t = p \o q
      <3>1. /\ <<>> \o <<>> = <<>> /\ <<>> \o Data = Data /\ TlsHello \o <<>> = TlsHello
        BY Written, ConcatEmptySeq
      <3> QED
        BY <3>1, Zenon DEF Bodies
    <2> QED
      BY <2>1, <2>3, <2>5, Zenon
  <1>2. Inv => TypeOK
    BY DEF Inv
  <1> QED
    BY <1>1, <1>2, InvAlways, InitWires, NextWires, PTL DEF Spec

-----------------------------------------------------------------------------
(* Access control.                                                         *)

Allowed(x) == IsAllowed(Acl(rule.allow, rule.deny), x)

(* Whoever is past the acceptor, has a backend, or an entry in a map, was  *)
(* let in.  A connection that nobody has opened has no backend, so that it *)
(* may still become anybody's.                                             *)
Admitted ==
    /\ \A c \in Conn :
          /\ pc[c] \notin {"none", "backlog", "closed"} => Allowed(from[c])
          /\ to[c] # NoBackend => Allowed(from[c])
          /\ pc[c] = "none" => to[c] = NoBackend
    /\ \A m \in Maps : \A x \in Client : entry[m][x] # 0 => Allowed(x)

(* A step of c that gives a backend or an entry at most to an admitted     *)
(* client.                                                                 *)
LEMMA AdmittedStep ==
    ASSUME TypeOK, Admitted, UNCHANGED <<rule, from>>, NEW c \in Conn, NEW s \in At,
           Go(c, s), s # "none", pc[c] # "none",
           s = "closed" \/ Allowed(from[c]),
           to' = to \/ \E b \in Backend : to' = [to EXCEPT ![c] = b] /\ Allowed(from[c]),
           \/ UNCHANGED entry
           \/ /\ Allowed(from[c])
              /\ \E m \in Maps, b \in Nat : entry' = [entry EXCEPT ![m][from[c]] = b]
    PROVE  Admitted'
  <1>1. \A x : Allowed(x)' <=> Allowed(x)
    BY DEF Allowed
  <1> HIDE DEF Allowed
  <1>2. pc'[c] = s /\ \A d \in Conn : d # c => pc'[d] = pc[d]
    BY DEF Go, TypeOK
  <1>3. \A d \in Conn : to'[d] = to[d] \/ (d = c /\ Allowed(from[c]))
    BY DEF TypeOK
  <1>4. \A m \in Maps : \A x \in Client :
            entry'[m][x] = entry[m][x] \/ (x = from[c] /\ Allowed(from[c]))
    <2>1. ASSUME NEW n \in Maps, NEW b \in Nat,
                 entry' = [entry EXCEPT ![n][from[c]] = b]
          PROVE  \A m \in Maps : \A x \in Client :
                     entry'[m][x] = entry[m][x] \/ x = from[c]
      BY <2>1 DEF TypeOK, MapTypeOK
    <2> QED
      BY <2>1
  <1> QED
    BY <1>1, <1>2, <1>3, <1>4 DEF Admitted

(* A step that lets nobody further.                                        *)
LEMMA AdmittedFrame ==
    ASSUME Admitted, UNCHANGED <<rule, from, to, entry>>,
           pc' = pc \/ \A c \in Conn : pc'[c] = "closed"
    PROVE  Admitted'
  <1>1. \A x : Allowed(x)' <=> Allowed(x)
    BY DEF Allowed
  <1> QED
    BY <1>1 DEF Admitted

(* Every step admits only whom the lists let in.                           *)
LEMMA NextAdmitted ==
    ASSUME TypeOK, Admitted, [Next]_vars
    PROVE  Admitted'
  <1> USE DEF procVars, peerVars, sockVars, metricVars, mapVars
  <1>1. CASE StartUp
    <2>1. CASE Exit
      BY <2>1, AdmittedFrame DEF Exit
    <2>2. CASE UNCHANGED others
      BY <2>2, AdmittedFrame DEF others
    <2> QED
      BY <1>1, <2>1, <2>2 DEF StartUp, LoadTlsConfig, SetUp, Listen, Listening,
                              StartOthers, StartWatcher
  <1>2. ASSUME NEW c \in Conn, NEW ip \in Client, Arrive(c, ip)
        PROVE  Admitted'
    <2>1. \A x : Allowed(x)' <=> Allowed(x)
      BY <1>2 DEF Arrive, Allowed
    <2>2. /\ pc[c] = "none" /\ pc'[c] = "backlog" /\ UNCHANGED <<to, entry>>
          /\ \A d \in Conn : d # c => pc'[d] = pc[d] /\ from'[d] = from[d]
      BY <1>2 DEF Arrive, Go, TypeOK
    <2> QED
      BY <2>1, <2>2 DEF Admitted
  <1>3. ASSUME NEW c \in Conn, Accept(c) \/ AcceptError(c)
        PROVE  Admitted'
    <2>1. PICK s \in {"rate", "closed"} : Go(c, s) /\ (s = "closed" \/ Allowed(from[c]))
      BY <1>3 DEF Accept, AcceptError, Allowed
    <2>2. s \in At /\ s # "none" /\ pc[c] # "none"
      BY <1>3 DEF At, Accept, AcceptError
    <2>3. UNCHANGED <<rule, from, to, entry>>
      BY <1>3 DEF Accept, AcceptError, OnlyPc
    <2> QED
      BY <2>1, <2>2, <2>3, AdmittedStep
  <1>4. ASSUME NEW c \in Conn, (Own(c) /\ ~Accept(c) /\ ~AcceptError(c)) \/ Awaited(c)
        PROVE  Admitted'
    <2>1. pc[c] \notin {"none", "backlog", "closed"}
      BY <1>4 DEF Own, Awaited, Check, Select, GetClient, InsertClient, GetBackend,
                  InsertBackend, Get, Insert, Enter, Record, CloseUpstream,
                  DropMetricGuard, DropGuard, Handshake, Connect, SendHeader,
                  BackendTls, Copy
    <2>2. Allowed(from[c])
      BY <2>1 DEF Admitted
    <2>3. \E s \in At \ {"none"} : Go(c, s)
      <3> USE DEF At, Proxying, Leaving
      <3>1. CASE Check(c) \/ Select(c) \/ Handshake(c)
        BY <3>1 DEF Check, Select, Handshake
      <3>2. CASE GetClient(c) \/ InsertClient(c) \/ GetBackend(c) \/ InsertBackend(c)
        BY <3>2 DEF GetClient, InsertClient, GetBackend, InsertBackend, Get, Insert,
                    Limited
      <3>3. CASE Connect(c) \/ SendHeader(c) \/ BackendTls(c) \/ Copy(c)
        BY <3>3 DEF Connect, SendHeader, BackendTls, Copy, Fail
      <3>4. CASE \/ Enter(c) \/ Record(c) \/ CloseUpstream(c) \/ DropMetricGuard(c)
                 \/ DropGuard(c)
        BY <3>4 DEF Enter, Record, CloseUpstream, DropMetricGuard, DropGuard
      <3> QED
        BY <1>4, <3>1, <3>2, <3>3, <3>4 DEF Own, Awaited
    <2>4. UNCHANGED <<rule, from>>
      BY <1>4 DEF Own, Awaited, Check, Select, GetClient, InsertClient, GetBackend,
                  InsertBackend, Get, Insert, Enter, Record, CloseUpstream,
                  DropMetricGuard, DropGuard, Handshake, Connect, SendHeader,
                  BackendTls, Copy, OnlyPc
    <2>5. to' = to \/ \E b \in Backend : to' = [to EXCEPT ![c] = b]
      BY <1>4 DEF Own, Awaited, Check, Select, GetClient, InsertClient, GetBackend,
                  InsertBackend, Get, Insert, Enter, Record, CloseUpstream,
                  DropMetricGuard, DropGuard, Handshake, Connect, SendHeader,
                  BackendTls, Copy, OnlyPc
    <2>6. \/ UNCHANGED entry
          \/ \E m \in Maps, b \in Nat : entry' = [entry EXCEPT ![m][from[c]] = b]
      <3>1. CASE Check(c) \/ InsertClient(c) \/ InsertBackend(c)
        BY <3>1 DEF Check, InsertClient, InsertBackend, Insert, OrInsert, Bucket, Maps, Key
      <3>2. CASE GetClient(c) \/ GetBackend(c)
        BY <3>2 DEF GetClient, GetBackend, Get, Find, Misses
      <3>3. CASE ~(\/ Check(c) \/ InsertClient(c) \/ InsertBackend(c)
                   \/ GetClient(c) \/ GetBackend(c))
        BY <1>4, <3>3 DEF Own, Awaited, Select, Enter, Record, CloseUpstream,
                  DropMetricGuard, DropGuard, Handshake, Connect, SendHeader,
                  BackendTls, Copy, OnlyPc
      <3> QED
        BY <3>1, <3>2, <3>3
    <2> QED
      BY <2>1, <2>2, <2>3, <2>4, <2>5, <2>6, AdmittedStep
  <1>5. CASE UNCHANGED vars
    BY <1>5, AdmittedFrame DEF vars
  <1> QED
    BY <1>1, <1>2, <1>3, <1>4, <1>5 DEF Next, Own

(* Nobody has anything before the start.                                   *)
LEMMA InitAdmitted == Init => Admitted
  BY DEF Init, MapInit, Admitted

(* A client that the lists exclude never gets a backend nor an entry in a  *)
(* map (main.rs:181-189).                                                  *)
THEOREM ExcludedStayOut == Spec => []ExcludedGetNothing
  <1>1. TypeOK /\ Admitted => ExcludedGetNothing
    <2> SUFFICES ASSUME TypeOK, Admitted, NEW x \in Client,
                        Excluded(rule.allow, rule.deny, x)
                 PROVE  /\ \A m \in Maps : entry[m][x] = 0
                        /\ \A c \in Conn : from[c] = x => to[c] = NoBackend
      BY Zenon DEF ExcludedGetNothing
    <2>1. rule.allow \in Seq(Entry) /\ rule.deny \in Seq(Entry) /\ x \in IpAddr
      BY RulesAssumption, ClientAssumption DEF TypeOK, RuleConfig
    <2>2. ~Allowed(x)
      BY <2>1, AclExact, Zenon DEF Allowed
    <2> QED
      BY <2>2 DEF Admitted
  <1>2. Inv => TypeOK
    BY DEF Inv
  <1> QED
    BY <1>1, <1>2, InvAlways, InitAdmitted, NextAdmitted, PTL DEF Spec
=============================================================================
