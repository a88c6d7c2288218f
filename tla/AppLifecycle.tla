---------------------------- MODULE AppLifecycle ----------------------------
(***************************************************************************)
(* Start-up, run and shutdown of the three unit applications: main.c of    *)
(* dpdk (DTN), dpdk_cmc and dpdk_vmc, with the functions it calls to set   *)
(* up the hardware, to launch workers on lcores and threads, and to wait   *)
(* for them and free what they use.                                        *)
(*                                                                         *)
(* The main thread walks through its program, a sequence of stages, and    *)
(* leaves it for the end when a stage fails.  What the workers do in their *)
(* loops is the business of VlTraffic, TxPacing and PtpSession; here they  *)
(* use resources until they see the flag that stops them.  One port with a *)
(* TX and an RX worker stands for all; the threads of the health monitor   *)
(* and of the telemetry have their own modules.  Becoming a daemon         *)
(* (PowerSequence) and missing flow rules, which are only logged, change   *)
(* nothing here.                                                           *)
(***************************************************************************)
EXTENDS Naturals, Sequences, FiniteSets

CONSTANT Instances  \* application, ATE mode, lcores besides the main one, signals sent

ASSUME LifecycleAssumption ==
  Instances \subseteq [app : {"DTN", "CMC", "VMC"}, ate : BOOLEAN, lcores : Nat, signals : Nat]

VARIABLES
  inst,       \* the application of this behaviour
  main,       \* the stage the main thread is at
  handlers,   \* the signal handlers are installed
  calm,       \* stop_normal_tx (CMC)
  quit,       \* force_quit
  sent,       \* signals so far
  lcore,      \* used_tx_cores, used_rx_cores, used_ext_tx_core, used_ptp_core; 0: none
  cached,     \* port_prbs_cache[].initialized
  raw,        \* raw socket ports: locks initialised, usable, stop_flag
  ptp,        \* PTP: none, initialised, running, stopping
  passes,     \* tables printed and warm-up over, as far as it matters
  wk,         \* the workers: none, created (not yet scheduled), running, ended
  freed,      \* resources that have been given back
  abandoned,  \* history: alive when the start-up gave up
  unseen      \* history: threads that stop_raw_socket_workers did not wait for

vars == <<inst, main, handlers, calm, quit, sent, lcore, cached, raw, ptp, passes,
          wk, freed, abandoned, unseen>>
envVars == <<inst, handlers, calm, quit, sent>>
setVars == <<lcore, cached, raw, ptp, passes>>
endVars == <<freed, abandoned, unseen>>

app == inst.app
OnLcores == CASE app = "DTN" -> {"rx", "tx", "ext", "ptp"} [] OTHER -> {"rx", "tx"}
Threads == CASE app = "DTN" -> {"rawRx", "rawTx", "ptpRaw"}
             [] app = "CMC" -> {}
             [] app = "VMC" -> {"ptpPoll"}
Workers == OnLcores \cup Threads
RawPorts == {12, 13}

-----------------------------------------------------------------------------
(* What main() does, stage by stage.                                       *)

PrepareDtn == <<"prepare">>
PrepareCmc == <<"prepare">>
PrepareVmc == <<"prepare">>
SetUpDtn == <<"eal", "handlers", "ports", "cache", "pool", "queues", "device">>
SetUpCmc == <<"eal", "handlers", "ports", "cache", "pool", "queues", "device">>
SetUpVmc == <<"eal", "handlers", "ports", "cache", "pool", "queues", "device", "poll">>
StartDtn == <<"raw12", "raw13", "rx", "tx", "rawRx", "rawTx">>
StartCmc == <<"rx", "tx">>
StartVmc == <<"rx", "tx">>
ServicesDtn(ate) == IF ate THEN <<>> ELSE <<"ext", "ptpInit", "ptpRaw", "ptp">>
StopDtn(ate) ==
  (IF ate THEN <<>> ELSE <<"ptpStop", "ptpJoin">>)
  \o <<"rawStop", "rawTxJoin", "rawRxJoin", "wait">>
  \o (IF ate THEN <<>> ELSE <<"freePtp">>)
  \o <<"freeRaw", "freeCache", "freePorts", "freeEal">>
StopCmcNoWait == <<"freeCache", "wait", "freePorts", "freeEal">>
StopCmc == <<"wait", "freeCache", "freePorts", "freeEal">>
StopVmc == <<"pollStop", "wait", "freeCache", "freePorts", "freeEal">>

Program(i) ==
  CASE i.app = "DTN" -> PrepareDtn \o SetUpDtn \o StartDtn \o ServicesDtn(i.ate)
                        \o <<"loop">> \o StopDtn(i.ate)
    [] i.app = "CMC" -> PrepareCmc \o SetUpCmc \o StartCmc \o <<"loop">> \o StopCmc
    [] i.app = "VMC" -> PrepareVmc \o SetUpVmc \o StartVmc \o <<"loop">> \o StopVmc

\* The stage after each stage of each program.
Following ==
  [i \in Instances |->
     LET p == Program(i)
     IN [s \in {p[k] : k \in DOMAIN p} |->
           LET k == CHOOSE j \in DOMAIN p : p[j] = s
           IN IF k = Len(p) THEN "end" ELSE p[k + 1]]]
Stages == DOMAIN Following[inst]
After(stage) == Following[inst][stage]
At(stage) == main = stage /\ main' = After(stage)
Alive == main # "end"

Init ==
  /\ inst \in Instances
  /\ main = "prepare" /\ handlers = FALSE /\ calm = FALSE /\ quit = FALSE /\ sent = 0
  /\ lcore = [w \in OnLcores |-> 0] /\ cached = FALSE
  /\ raw = [locks |-> {}, usable |-> FALSE, stop |-> FALSE]
  /\ ptp = "none" /\ passes = 0
  /\ wk = [w \in Workers |-> "none"]
  /\ freed = {} /\ abandoned = {} /\ unseen = {}

-----------------------------------------------------------------------------
(* Signals.  Before the handlers are installed they kill the process.      *)

SignalKills ==
  /\ Alive /\ ~handlers /\ sent < inst.signals
  /\ main' = "end" /\ sent' = sent + 1
  /\ UNCHANGED <<inst, handlers, calm, quit, setVars, wk, endVars>>

SignalHandler ==
  /\ Alive /\ handlers /\ sent < inst.signals /\ app # "CMC"
  /\ quit' = TRUE /\ sent' = sent + 1
  /\ UNCHANGED <<inst, main, handlers, calm, setVars, wk, endVars>>

\* The CMC hands over the unit's files first; the second signal stops it.
MmmsSignalHandler ==
  /\ Alive /\ handlers /\ sent < inst.signals /\ app = "CMC"
  /\ calm' = TRUE /\ quit' = calm /\ sent' = sent + 1
  /\ UNCHANGED <<inst, main, handlers, setVars, wk, endVars>>

-----------------------------------------------------------------------------
(* Set-up of the hardware.  rte_exit ends the process at once; any later   *)
(* failure frees what there is and returns -1.                             *)

GiveUp ==
  /\ main' = "freeCache"
  /\ abandoned' = {w \in Workers : wk[w] \in {"created", "running"}}

Prepare == At("prepare") /\ UNCHANGED <<envVars, setVars, wk, endVars>>

InitEal ==
  /\ main = "eal" /\ main' \in {After("eal"), "end"}
  /\ UNCHANGED <<envVars, setVars, wk, endVars>>
InitEalDtn == app = "DTN" /\ InitEal
InitEalCmc == app = "CMC" /\ InitEal
InitEalVmc == app = "VMC" /\ InitEal

InstallHandlers ==
  /\ At("handlers") /\ handlers' = TRUE
  /\ UNCHANGED <<inst, calm, quit, sent, setVars, wk, endVars>>

\* Each worker of the port gets an lcore of its own while there are any.
\* TX and RX then take the first of the list, used or not, and the index
\* runs out of the array; the others go without, unless it already has.
AssignInOrder(order, needed) ==
  {a \in [OnLcores -> 0 .. inst.lcores] : \A i \in DOMAIN order :
     IF i <= inst.lcores THEN a[order[i]] = inst.lcores + 1 - i
     ELSE needed <= inst.lcores => a[order[i]] = 0}
LcoresDtn == AssignInOrder(<<"tx", "rx", "ext", "ptp">>, 2)
LcoresCmc == AssignInOrder(<<"tx", "rx">>, 2)
LcoresVmc == AssignInOrder(<<"tx", "rx">>, 2)

FindPorts ==
  /\ At("ports")
  /\ \/ lcore' \in CASE app = "DTN" -> LcoresDtn
                     [] app = "CMC" -> LcoresCmc
                     [] app = "VMC" -> LcoresVmc
     \/ UNCHANGED lcore   \* no port was found
  /\ UNCHANGED <<envVars, cached, raw, ptp, passes, wk, endVars>>
FindPortsDtn == app = "DTN" /\ FindPorts
FindPortsCmc == app = "CMC" /\ FindPorts
FindPortsVmc == app = "VMC" /\ FindPorts

\* A cache that cannot be allocated is left out; the workers notice.
FillCache ==
  /\ At("cache") /\ cached' \in BOOLEAN
  /\ UNCHANGED <<envVars, lcore, raw, ptp, passes, wk, endVars>>
FillCacheDtn == app = "DTN" /\ FillCache
FillCacheCmc == app = "CMC" /\ FillCache
FillCacheVmc == app = "VMC" /\ FillCache

MayFail(stage) ==
  /\ \/ At(stage) /\ UNCHANGED abandoned
     \/ main = stage /\ GiveUp
  /\ UNCHANGED <<envVars, setVars, wk, freed, unseen>>
CreatePoolDtn == app = "DTN" /\ MayFail("pool")
CreatePoolCmc == app = "CMC" /\ MayFail("pool")
CreatePoolVmc == app = "VMC" /\ MayFail("pool")
SetUpQueuesDtn == app = "DTN" /\ MayFail("queues")
SetUpQueuesCmc == app = "CMC" /\ MayFail("queues")
SetUpQueuesVmc == app = "VMC" /\ MayFail("queues")
StartDeviceDtn == app = "DTN" /\ MayFail("device")
StartDeviceCmc == app = "CMC" /\ MayFail("device")
StartDeviceVmc == app = "VMC" /\ MayFail("device")

\* The raw ports of the DTN are set up one after the other.  A failure is
\* met before or after the lock of the port's statistics is initialised,
\* and leaves out the ports that follow.
InitRawPort(port) ==
  \E locked, usable \in BOOLEAN :
    /\ usable => locked
    /\ raw' = [raw EXCEPT !.locks = IF locked THEN @ \cup {port} ELSE @, !.usable = usable]
InitRawPort12 ==
  /\ At("raw12") /\ InitRawPort(12)
  /\ UNCHANGED <<envVars, lcore, cached, ptp, passes, wk, endVars>>
InitRawPorts ==
  /\ At("raw13")
  /\ IF raw.usable THEN InitRawPort(13) ELSE UNCHANGED raw
  /\ UNCHANGED <<envVars, lcore, cached, ptp, passes, wk, endVars>>

-----------------------------------------------------------------------------
(* Launching the workers.  An lcore that is at work refuses another one.   *)
(* A worker without its PRBS cache returns at once.                        *)

Busy(l) == \E w \in OnLcores : lcore[w] = l /\ wk[w] = "running"
Launched(w) == wk' = [wk EXCEPT ![w] = IF cached THEN "running" ELSE "ended"]
NoLcore(w) == lcore[w] = 0 /\ UNCHANGED wk

\* start_txrx_workers: all receivers, then all senders; a launch that fails
\* ends the start-up, whatever runs by then.
Launch(w) ==
  /\ \/ At(w) /\ NoLcore(w) /\ UNCHANGED abandoned
     \/ At(w) /\ lcore[w] # 0 /\ ~Busy(lcore[w]) /\ Launched(w) /\ UNCHANGED abandoned
     \/ main = w /\ lcore[w] # 0 /\ GiveUp /\ UNCHANGED wk
  /\ UNCHANGED <<envVars, setVars, freed, unseen>>
LaunchRxDtn == app = "DTN" /\ Launch("rx")
LaunchRxCmc == app = "CMC" /\ Launch("rx")
LaunchRxVmc == app = "VMC" /\ Launch("rx")
LaunchTxDtn == app = "DTN" /\ Launch("tx")
LaunchTxCmc == app = "CMC" /\ Launch("tx")
LaunchTxVmc == app = "VMC" /\ Launch("tx")

\* start_raw_socket_workers: receivers, then senders.  After a failure the
\* threads that exist run on, and nobody will wait for them.
StartRaw(w) ==
  /\ At(w)
  /\ \/ raw.usable /\ wk' = [wk EXCEPT ![w] = "created"] /\ UNCHANGED raw
     \/ raw.usable /\ raw' = [raw EXCEPT !.usable = FALSE] /\ UNCHANGED wk
     \/ ~raw.usable /\ UNCHANGED <<raw, wk>>
  /\ UNCHANGED <<envVars, lcore, cached, ptp, passes, endVars>>
StartRawRx == StartRaw("rawRx")
StartRawTx == StartRaw("rawTx")

\* dpdk_ext_tx_start_workers: a failure is not fatal.
StartExtTx ==
  /\ At("ext")
  /\ \/ UNCHANGED wk
     \/ lcore["ext"] # 0 /\ ~Busy(lcore["ext"]) /\ Launched("ext")
  /\ UNCHANGED <<envVars, setVars, endVars>>

PtpInit ==
  /\ At("ptpInit") /\ ptp' \in {"none", "initialised"}
  /\ UNCHANGED <<envVars, lcore, cached, raw, passes, wk, endVars>>

\* ptp_start: the raw port's thread if its socket could be opened, then the
\* lcore worker; what fails is logged, and PTP counts as running.
PtpStartRaw ==
  /\ At("ptpRaw")
  /\ IF ptp = "none" THEN UNCHANGED <<ptp, wk>>
     ELSE /\ ptp' = "running"
          /\ wk' \in {wk, [wk EXCEPT !["ptpRaw"] = "created"]}
  /\ UNCHANGED <<envVars, lcore, cached, raw, passes, endVars>>
PtpStartLcore ==
  /\ At("ptp")
  /\ \/ UNCHANGED wk
     \/ /\ ptp = "running" /\ lcore["ptp"] # 0 /\ ~Busy(lcore["ptp"])
        /\ wk' = [wk EXCEPT !["ptp"] = "running"]
  /\ UNCHANGED <<envVars, setVars, endVars>>

\* ptp_init of the VMC comes before start_txrx_workers.
PollInit ==
  /\ At("poll")
  /\ wk' \in {wk, [wk EXCEPT !["ptpPoll"] = "created"]}
  /\ UNCHANGED <<envVars, setVars, endVars>>

-----------------------------------------------------------------------------
(* The main loop.  The tables of the DTN and its reset after the warm-up   *)
(* take the locks of both raw ports, whether or not they were set up.      *)

InLoop == main = "loop" /\ ~quit

TakeRawLocks == app = "DTN" => raw.locks = RawPorts

\* Inside pthread_spin_lock on a lock of zeros, the main thread spins on.
Pass(n) ==
  /\ InLoop /\ passes = n - 1 /\ TakeRawLocks
  /\ passes' = n
  /\ UNCHANGED <<envVars, main, lcore, cached, raw, ptp, wk, endVars>>
PrintStats == Pass(1)
ResetStats == Pass(2)

Hang ==
  /\ InLoop /\ ~TakeRawLocks
  /\ main' = "hung"
  /\ UNCHANGED <<envVars, setVars, wk, endVars>>

\* StopHandover shows when the handover is over.
HandoverDone ==
  /\ InLoop /\ calm
  /\ quit' = TRUE
  /\ UNCHANGED <<inst, main, handlers, calm, sent, setVars, wk, endVars>>

LeaveLoop ==
  /\ At("loop") /\ quit
  /\ UNCHANGED <<envVars, setVars, wk, endVars>>

-----------------------------------------------------------------------------
(* Shutdown.                                                               *)

PtpStopForgotten ==
  At("ptpStop") /\ UNCHANGED <<envVars, setVars, wk, endVars>>
PtpStop ==
  /\ At("ptpStop")
  /\ ptp' = IF ptp = "running" THEN "stopping" ELSE ptp
  /\ UNCHANGED <<envVars, lcore, cached, raw, passes, wk, endVars>>
\* The thread is joined; for the lcore, whatever runs there is waited for.
PtpJoin ==
  /\ At("ptpJoin")
  /\ ptp = "stopping" =>
       wk["ptpRaw"] \in {"none", "ended"} /\ (lcore["ptp"] # 0 => ~Busy(lcore["ptp"]))
  /\ UNCHANGED <<envVars, setVars, wk, endVars>>
\* The VMC's thread is stopped and joined.
PollStop ==
  /\ main = "pollStop"
  /\ \/ ptp # "stopping" /\ ptp' = "stopping" /\ UNCHANGED main
     \/ ptp = "stopping" /\ wk["ptpPoll"] \in {"none", "ended"} /\ At("pollStop") /\ UNCHANGED ptp
  /\ UNCHANGED <<envVars, lcore, cached, raw, passes, wk, endVars>>

\* stop_raw_socket_workers joins the threads that have said they run; it is
\* not called when starting them has failed.
RawStop ==
  /\ At("rawStop") /\ raw' = [raw EXCEPT !.stop = raw.usable]
  /\ UNCHANGED <<envVars, lcore, cached, ptp, passes, wk, endVars>>
Joined(w) ==
  /\ raw.usable => wk[w] # "running"
  /\ unseen' = IF wk[w] \in {"created", "running"} THEN unseen \cup {w} ELSE unseen
RawTxJoin ==
  /\ At("rawTxJoin") /\ Joined("rawTx")
  /\ UNCHANGED <<envVars, setVars, wk, freed, abandoned>>
\* The rings and sockets of the receivers go at once.
RawRxJoin ==
  /\ At("rawRxJoin") /\ Joined("rawRx")
  /\ freed' = IF raw.usable THEN freed \cup {"rings"} ELSE freed
  /\ UNCHANGED <<envVars, setVars, wk, abandoned>>

\* rte_eal_mp_wait_lcore.
Wait ==
  /\ At("wait") /\ \A w \in OnLcores : wk[w] # "running"
  /\ UNCHANGED <<envVars, setVars, wk, endVars>>

Free(stage, things) ==
  /\ At(stage) /\ freed' = freed \cup things
  /\ UNCHANGED <<envVars, setVars, wk, abandoned, unseen>>
PtpCleanup == Free("freePtp", {"ptp"})
RawCleanup == Free("freeRaw", IF raw.usable THEN {"raw", "rings"} ELSE {})
CacheCleanupDtn == app = "DTN" /\ Free("freeCache", {"cache"})
CacheCleanupCmc == app = "CMC" /\ Free("freeCache", {"cache"})
CacheCleanupVmc == app = "VMC" /\ Free("freeCache", {"cache"})
PortsCleanupDtn == app = "DTN" /\ Free("freePorts", {"ports"})
PortsCleanupCmc == app = "CMC" /\ Free("freePorts", {"ports"})
PortsCleanupVmc == app = "VMC" /\ Free("freePorts", {"ports"})
EalCleanup == Free("freeEal", {"eal"})

-----------------------------------------------------------------------------
(* The workers.                                                            *)

ThreadRuns(w) ==
  /\ Alive /\ wk[w] = "created"
  /\ wk' = [wk EXCEPT ![w] = "running"]
  /\ UNCHANGED <<envVars, main, setVars, endVars>>

StopSeen(w) ==
  CASE w \in {"rx", "tx", "ext"} -> quit
    [] w \in {"ptp", "ptpRaw", "ptpPoll"} -> ptp = "stopping"
    [] w \in {"rawRx", "rawTx"} -> quit \/ raw.stop
WorkerEnds(w) ==
  /\ Alive /\ wk[w] = "running" /\ StopSeen(w)
  /\ wk' = [wk EXCEPT ![w] = "ended"]
  /\ UNCHANGED <<envVars, main, setVars, endVars>>

WorkerStep(w) == w \in Workers /\ (ThreadRuns(w) \/ WorkerEnds(w))

SetUpStep ==
  \/ Prepare \/ InitEalDtn \/ InitEalCmc \/ InitEalVmc \/ InstallHandlers
  \/ FindPortsDtn \/ FindPortsCmc \/ FindPortsVmc
  \/ FillCacheDtn \/ FillCacheCmc \/ FillCacheVmc
  \/ CreatePoolDtn \/ CreatePoolCmc \/ CreatePoolVmc
  \/ SetUpQueuesDtn \/ SetUpQueuesCmc \/ SetUpQueuesVmc
  \/ StartDeviceDtn \/ StartDeviceCmc \/ StartDeviceVmc
  \/ InitRawPort12 \/ InitRawPorts
StartStep ==
  \/ LaunchRxDtn \/ LaunchRxCmc \/ LaunchRxVmc \/ LaunchTxDtn \/ LaunchTxCmc \/ LaunchTxVmc
  \/ StartRawRx \/ StartRawTx \/ StartExtTx \/ PtpInit \/ PtpStartRaw \/ PtpStartLcore \/ PollInit
StopStep ==
  \/ LeaveLoop \/ PtpStop \/ PtpJoin \/ PollStop \/ RawStop \/ RawTxJoin \/ RawRxJoin \/ Wait
  \/ PtpCleanup \/ RawCleanup \/ CacheCleanupDtn \/ CacheCleanupCmc \/ CacheCleanupVmc
  \/ PortsCleanupDtn \/ PortsCleanupCmc \/ PortsCleanupVmc \/ EalCleanup
LoopStep == PrintStats \/ ResetStats \/ Hang
MainStep == SetUpStep \/ StartStep \/ LoopStep \/ StopStep
AllWorkers == {"rx", "tx", "ext", "ptp", "rawRx", "rawTx", "ptpRaw", "ptpPoll"}

Next ==
  \/ MainStep \/ HandoverDone
  \/ SignalKills \/ SignalHandler \/ MmmsSignalHandler
  \/ \E w \in AllWorkers : WorkerStep(w)

Fairness == WF_vars(MainStep) /\ \A w \in AllWorkers : WF_vars(WorkerStep(w))
Spec == Init /\ [][Next]_vars /\ Fairness

-----------------------------------------------------------------------------

Uses(w) ==
  CASE w = "rx" -> {"eal", "ports", "cache"} \cup (IF app = "DTN" THEN {"raw"} ELSE {})
    [] w \in {"tx", "ext"} -> {"eal", "ports", "cache"}
    [] w = "rawRx" -> {"eal", "cache", "raw", "rings"}
    [] w = "rawTx" -> {"raw"}
    [] w = "ptp" -> {"eal", "ports", "ptp"}
    [] w = "ptpRaw" -> {"ptp"}
    [] w = "ptpPoll" -> {"eal", "ports"}

\* Types.
TypeOK ==
  /\ inst \in Instances /\ main \in Stages \cup {"hung", "end"}
  /\ handlers \in BOOLEAN /\ calm \in BOOLEAN /\ quit \in BOOLEAN /\ sent \in 0 .. inst.signals
  /\ lcore \in [OnLcores -> 0 .. inst.lcores] /\ cached \in BOOLEAN
  /\ raw \in [locks : SUBSET RawPorts, usable : BOOLEAN, stop : BOOLEAN]
  /\ ptp \in {"none", "initialised", "running", "stopping"} /\ passes \in 0 .. 2
  /\ wk \in [Workers -> {"none", "created", "running", "ended"}]
  /\ freed \subseteq {"eal", "ports", "cache", "raw", "rings", "ptp"}
  /\ abandoned \subseteq Workers /\ unseen \subseteq Workers

\* While the process lives nothing is freed that a running worker uses,
\* whichever stage fails and whenever the signal comes - except for the
\* workers of a start-up that gave up after some had been launched
\* (main.c:453), and for a raw thread nobody waits for: it was not yet
\* scheduled when stop_raw_socket_workers looked whether it was running, or
\* was left over when start_raw_socket_workers failed.
NoUseAfterFree ==
  Alive => \A w \in Workers \ (abandoned \cup unseen) :
             wk[w] = "running" => Uses(w) \cap freed = {}

\* Once force_quit is set the process ends, at whatever stage the signal came
\* and whatever failed before - unless a raw port of the DTN could not be set
\* up, which main.c:371 takes for harmless, and the main thread spins on a
\* lock nobody initialised.
QuitEnds == quit ~> (main = "end" \/ (app = "DTN" /\ raw.locks # RawPorts))
=============================================================================
