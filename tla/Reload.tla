------------------------------- MODULE Reload -------------------------------
(***************************************************************************)
(* What keeps a rule's backends up to date: the configuration watcher and  *)
(* the reload loop of main.rs, and the health-check tasks of               *)
(* core/health.rs, over the shared state of Balancer.                      *)
(*                                                                         *)
(* Connection tasks are left out: they write the counters and the round-   *)
(* robin ticket, which nothing here reads.                                 *)
(***************************************************************************)
EXTENDS Balancer

CONSTANTS
    Files,       \* contents of the configuration file, as this rule sees it
    Malformed,   \* a file that cannot be read or parsed (a half-written one)
    RuleMissing, \* a file without this rule
    MaxEdits     \* bound: writes of the file in a behaviour

Parsed == Files \ {Malformed, RuleMissing}

(* Checkers are numbered in the order they are spawned.                    *)
ASSUME CheckerAssumption == IsFiniteSet(Checker) /\ Checker = 1..Cardinality(Checker)
ASSUME FilesAssumption ==
    \A f \in Parsed : f \in [backends: Configs, hc: BOOLEAN]
ASSUME MaxEditsAssumption == MaxEdits \in Nat

(* Bound: the checkers one reading of the file may spawn, so that there is *)
(* a name for all the ones that start-up and MaxEdits reloads can.         *)
PerReload == Cardinality(Checker) \div (MaxEdits + 1)

ASSUME PerReloadAssumption ==
    \A f \in Parsed : f.hc => Len(f.backends) <= PerReload

VARIABLES
    file,    \* the file's present content
    edits,   \* how often it has been written
    missed,  \* history: it was last written before the watcher watched it
    raised,  \* modify events the watcher has not sent yet
    chan,    \* signals in the channel, whose capacity is 1
    loop,    \* where the reload loop is
    hc,      \* the file being applied has a health_check section
    mon,     \* the address each spawned checker probes
    probe,   \* the outcome of a probe, before it is reported
    up       \* does the backend at an address answer probes?

diskVars   == <<file, edits, missed>>
fileVars   == <<diskVars, raised, chan>>
loopVars   == <<loop, hc>>
healthVars == <<mon, probe>>
reloadVars == <<vars, fileVars, loopVars, healthVars, up>>

Addrs(cfg) == [i \in DOMAIN cfg |-> cfg[i].addr]

ReloadTypeOK ==
    /\ Typed
    /\ file \in Files
    /\ edits \in 0..MaxEdits
    /\ missed \in BOOLEAN
    /\ raised \in 0..MaxEdits
    /\ chan \in 0..1
    /\ loop \in {"start", "recv", "read", "update", "spawn"}
    /\ hc \in BOOLEAN
    /\ mon \in Seq(Addr) /\ Len(mon) <= Cardinality(Checker)
    /\ probe \in [Checker -> {"none", "up", "down"}]
    /\ up \in [Addr -> BOOLEAN]

-----------------------------------------------------------------------------
(* The file has been read and validated, the rule is set up, and a checker *)
(* spawned for each backend if there is a health_check section.  The rest  *)
(* of the start-up, other rules and the cluster, is still to come.         *)
ReloadInit ==
    /\ Init
    /\ file \in {f \in Parsed : f.backends = config}
    /\ edits = 0
    /\ missed = FALSE
    /\ raised = 0
    /\ chan = 0
    /\ loop = "start"
    /\ hc = file.hc
    /\ mon = IF hc THEN Addrs(config) ELSE <<>>
    /\ probe = [k \in Checker |-> "none"]
    /\ up \in [Addr -> BOOLEAN]

(* Someone writes the file, and the watcher is told if it watches already. *)
EditFile(f) ==
    /\ edits < MaxEdits
    /\ file' = f
    /\ edits' = edits + 1
    /\ missed' = (loop = "start")
    /\ raised' = IF loop = "start" THEN raised ELSE raised + 1
    /\ UNCHANGED <<vars, chan, loopVars, healthVars, up>>

(* The start-up ends with watcher.watch, after which the loop waits.  (An  *)
(* error on the way ends the process: see Connection.)                     *)
Watch ==
    /\ loop = "start"
    /\ loop' = "recv"
    /\ UNCHANGED <<vars, fileVars, hc, healthVars, up>>

(* Mutants: a channel without a bound; an event is dropped while the loop  *)
(* is busy.                                                                *)
SendEventUnbounded ==
    /\ raised > 0
    /\ raised' = raised - 1
    /\ chan' = chan + 1
    /\ UNCHANGED <<vars, diskVars, loopVars, healthVars, up>>

SendEventIfIdle ==
    /\ raised > 0
    /\ raised' = raised - 1
    /\ chan' = IF loop = "recv" THEN 1 ELSE chan
    /\ UNCHANGED <<vars, diskVars, loopVars, healthVars, up>>

(* blocking_send: the watcher's thread waits for room in the channel.      *)
SendEvent ==
    /\ raised > 0
    /\ chan = 0
    /\ raised' = raised - 1
    /\ chan' = 1
    /\ UNCHANGED <<vars, diskVars, loopVars, healthVars, up>>

RecvEvent ==
    /\ loop = "recv"
    /\ chan = 1
    /\ chan' = 0
    /\ loop' = "read"
    /\ UNCHANGED <<vars, diskVars, raised, hc, healthVars, up>>

(* Read and parse.  A file that fails either, or that no longer has the    *)
(* rule, changes nothing; any list that parses is applied, validated or    *)
(* not.                                                                    *)
ReadFile ==
    /\ loop = "read"
    /\ \/ /\ file \in {Malformed, RuleMissing}
          /\ loop' = "recv"
          /\ UNCHANGED <<vars, hc>>
       \/ /\ file \in Parsed
          /\ UpdateBackends(file.backends)
          /\ hc' = file.hc
          /\ loop' = "update"
    /\ UNCHANGED <<fileVars, healthVars, up>>

ApplyEntry ==
    /\ KeepEntry \/ NewEntry
    /\ UNCHANGED <<fileVars, loopVars, healthVars, up>>

ApplyList ==
    /\ StoreBackends
    /\ loop' = "spawn"
    /\ UNCHANGED <<fileVars, hc, healthVars, up>>

(* Mutant: the checkers of the start-up are taken to be enough.            *)
SpawnCheckersOnce ==
    /\ loop = "spawn"
    /\ mon' = IF hc /\ mon = <<>> THEN Addrs(config) ELSE mon
    /\ loop' = "recv"
    /\ UNCHANGED <<vars, fileVars, hc, probe, up>>

(* A checker for every backend of the new list, also for those that have   *)
(* one already; none is ever stopped.                                      *)
SpawnCheckers ==
    /\ loop = "spawn"
    /\ mon' = IF hc THEN mon \o Addrs(config) ELSE mon
    /\ loop' = "recv"
    /\ UNCHANGED <<vars, fileVars, hc, probe, up>>

-----------------------------------------------------------------------------
(* A health-check task: sleep, probe, report, for ever.  A probe sees the  *)
(* backend at some moment and its outcome is reported later.               *)
Probe(k) ==
    /\ k \in DOMAIN mon
    /\ chk[k].pc = "idle"
    /\ probe[k] = "none"
    /\ probe' = [probe EXCEPT ![k] = IF up[mon[k]] THEN "up" ELSE "down"]
    /\ UNCHANGED <<vars, fileVars, loopVars, mon, up>>

(* Mutant: only failures are reported.                                     *)
ReportDown(k) ==
    /\ probe[k] # "none"
    /\ \/ probe[k] = "down" /\ SetBackendHealth(k, mon[k], FALSE)
       \/ probe[k] = "up" /\ UNCHANGED vars
    /\ probe' = [probe EXCEPT ![k] = "none"]
    /\ UNCHANGED <<fileVars, loopVars, mon, up>>

Report(k) ==
    /\ probe[k] # "none"
    /\ SetBackendHealth(k, mon[k], probe[k] = "up")
    /\ probe' = [probe EXCEPT ![k] = "none"]
    /\ UNCHANGED <<fileVars, loopVars, mon, up>>

Mark(k) ==
    /\ CheckerStep(k)
    /\ UNCHANGED <<fileVars, loopVars, healthVars, up>>

(* A backend fails or comes back.                                          *)
FlipBackend(x) ==
    /\ up' = [up EXCEPT ![x] = ~@]
    /\ UNCHANGED <<vars, fileVars, loopVars, healthVars>>

LoopStep ==
    \/ Watch \/ RecvEvent \/ ReadFile
    \/ ApplyEntry \/ ApplyList \/ SpawnCheckers
HealthStep(k) == Probe(k) \/ Report(k) \/ Mark(k)

ReloadNext ==
    \/ \E f \in Files : EditFile(f)
    \/ SendEvent
    \/ LoopStep
    \/ \E k \in Checker : HealthStep(k)
    \/ \E x \in Addr : FlipBackend(x)

ReloadSpec == ReloadInit /\ [][ReloadNext]_reloadVars

(* The watcher's thread, the main task and the checkers are scheduled;     *)
(* nobody has to edit the file, and no backend has to fail or recover.     *)
FairReloadSpec ==
    /\ ReloadSpec
    /\ WF_reloadVars(SendEvent)
    /\ WF_reloadVars(LoopStep)
    /\ \A k \in Checker : WF_reloadVars(HealthStep(k))

-----------------------------------------------------------------------------
(* Properties.                                                             *)

Objects(x) == {backends[i] : i \in {j \in DOMAIN backends :
                                        addr[backends[j]] = x}}

Monitored(x) == \E k \in DOMAIN mon : mon[k] = x

(* No edit that the watcher could see is lost: when it has sent all its    *)
(* events, the channel is empty and the loop waits, the file's present     *)
(* content is in force if it is well-formed, although an edit can fall     *)
(* between any two steps of the reload of an earlier one                   *)
(* (main.rs:314-363).  An edit between the reading of the file at          *)
(* main.rs:37 and its being watched at :328 raises no event and remains    *)
(* without effect until the next one: that is `missed`.                    *)
NoEditLost ==
    (raised = 0 /\ chan = 0 /\ loop = "recv" /\ file \in Parsed /\ ~missed) =>
        config = file.backends /\ ~upd.busy

(* With a health_check section every backend in force has a checker, also  *)
(* one a reload has just brought in (main.rs:346-352).                     *)
AllMonitored ==
    (hc /\ loop \in {"start", "recv", "read"}) =>
        \A i \in DOMAIN config : Monitored(config[i].addr)

(* A file written last is applied in the end, whatever reload was under    *)
(* way when it was written (main.rs:314-365), also after edits that nobody *)
(* watched, provided it is not one of these itself (main.rs:37-328).       *)
LastEditApplied ==
    \A f \in Parsed :
        <>[](file = f /\ ~missed) => <>[](config = f.backends /\ ~upd.busy)

(* A backend that stays up is offered to clients again and its gauge says  *)
(* so, however many late failure reports and reloads came before, although *)
(* a report writes gauge and flag separately (balancer.rs:88-107).         *)
Recovers ==
    \A x \in Addr :
        <>[]up[x] => <>[](\A o \in Objects(x) : healthy[o] /\ healthGauge[x])

(* A monitored backend that stays down is taken out of rotation for good   *)
(* and its gauge says so, also when reloads replace its object under its   *)
(* checkers ("Active TCP/HTTP probing to remove unhealthy backends",       *)
(* README.md:10).                                                          *)
DownIsDetected ==
    \A x \in Addr : <>[](~up[x] /\ Monitored(x))
        => <>[](~healthGauge[x] /\ \A o \in Objects(x) : ~healthy[o])
=============================================================================
