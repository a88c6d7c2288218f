--------------------------- MODULE PowerSequence ---------------------------
(***************************************************************************)
(* One test run of MainSoftware: a unit's configureSequence (Dtn, Cmc, Vmc,*)
(* Mmc, Hsn) on the main thread, the SafeShutdown registry and procedure it*)
(* shares with the SIGINT/SIGTERM handlers, the PSU telemetry publisher    *)
(* thread that uses the same supply, and the DPDK application it starts on *)
(* the server.                                                             *)
(*                                                                         *)
(* Signal handlers run on the main thread, on top of whatever it was doing,*)
(* and SafeShutdown::signalHandler never returns (it ends in _exit), so a  *)
(* context that has been interrupted stays where it was for good: "running"*)
(* names the only context that still takes steps.  installSignalHandlers   *)
(* masks nothing (sigemptyset), so the other signal's handler may start on *)
(* top of the first one; a signal is masked in its own handler only, and   *)
(* there a second one goes to another thread of the process if it has any. *)
(*                                                                         *)
(* The main thread's program counter pc names the call about to be made.   *)
(* Calls that change no state of this model (sleeps, prompts, the serial   *)
(* command, the flicker detector, the time forwarder, log fetching, report *)
(* stamps) are part of the step they precede.                              *)
(***************************************************************************)
EXTENDS PsuLink, Naturals

CONSTANTS
  Units,         \* the units under test to consider
  VerifyRetries  \* rounds of the "is the output really off" loop: 3 in the code

DpdkUnits == {"DTN", "CMC", "VMC"}
LocalUnits == {"MMC", "HSN"}
Signals == {"SIGINT", "SIGTERM"}
Contexts == Signals \cup {"main"}

ASSUME UnitsAssumption == Units \subseteq DpdkUnits \cup LocalUnits
ASSUME RetriesAssumption == VerifyRetries \in Nat \ {0}

VARIABLES
  unit,          \* the unit selected for this run
  pc,            \* where the main thread is in configureSequence
  running,       \* the context on top of the stack
  spc,           \* where each context is in executeShutdown
  mutex,         \* holder of SafeShutdown::m_mutex
  shutdownDone,  \* m_shutdown_executed
  registry,      \* what m_server_on, m_psu_connected, ... record as active
  sigint,        \* disposition of SIGINT: "shutdown" or "monitor"
  monitoring,    \* g_dpdk_*monitoring_running
  retry,         \* round of the verify loop
  verified,      \* history: the code reported the output verified OFF
  publisher,     \* telemetry thread: "off" or "on"
  dpdkAlive,     \* dpdk_app runs on the server and has not begun to shut down
  dpdkLost,      \* history: starting or stopping dpdk_app failed with it alive
  exited         \* "no", "returned" (TRUE), "failed" (FALSE) or "signal" (_exit)

procVars == <<unit, pc, running, spc, mutex, shutdownDone, registry, sigint,
              monitoring, retry, verified, publisher, dpdkAlive, dpdkLost, exited>>
vars == <<linkVars, procVars>>

\* Groups that most steps keep together.
regVars == <<mutex, shutdownDone, registry>>
sigVars == <<sigint, monitoring>>
verifyVars == <<retry, verified>>
appVars == <<publisher, dpdkAlive, dpdkLost>>

Resources == {"server", "connected", "output", "dpdk"}

\* The registry calls of configureSequence: which resource, and the next call.
Registers == [regServer |-> "server", regConnected |-> "connected",
              regOutput |-> "output", regDpdk |-> "dpdk"]
Unregisters == [unregDpdk |-> "dpdk", unregOutput |-> "output",
                unregConnected |-> "connected", unregServer |-> "server"]
RegistryCalls == DOMAIN Registers \cup DOMAIN Unregisters

AfterRegistryCall ==
  [regServer |-> "connect",
   regConnected |-> "program",
   regOutput |-> IF unit \in DpdkUnits THEN "startPublisher" ELSE "measure",
   regDpdk |-> "monitorSetup",
   unregDpdk |-> "disable",
   unregOutput |-> "disconnect",
   unregConnected |-> IF unit \in LocalUnits THEN "serverOff" ELSE "done",
   unregServer |-> "done"]

MainLabels == RegistryCalls \cup
  {"serverOn", "connect", "program", "enable", "startPublisher", "network",
   "runDpdk", "monitorSetup", "monitor", "restoreHandlers", "stopPublisher",
   "stopDpdk", "measure", "disable", "verify", "redisable", "disconnect", "serverOff",
   "error", "done"}

ShutdownLabels == {"idle", "cas", "lock", "outputs", "disconnect", "dpdk", "apps", "end"}

\* Labels at which executeShutdown holds m_mutex.
ShutdownCritical == {"outputs", "disconnect", "dpdk", "apps"}

TypeOK ==
  /\ LinkTypeOK
  /\ unit \in Units
  /\ pc \in MainLabels
  /\ running \in Contexts
  /\ spc \in [Contexts -> ShutdownLabels]
  /\ mutex \in Contexts \cup {"free"}
  /\ shutdownDone \in BOOLEAN
  /\ registry \in SUBSET Resources
  /\ sigint \in {"shutdown", "monitor"}
  /\ monitoring \in BOOLEAN
  /\ retry \in 0..VerifyRetries
  /\ verified \in BOOLEAN
  /\ publisher \in {"off", "on"}
  /\ dpdkAlive \in BOOLEAN
  /\ dpdkLost \in BOOLEAN
  /\ exited \in {"no", "returned", "failed", "signal"}

Init ==
  /\ LinkInit
  /\ unit \in Units
  /\ pc = "serverOn"
  /\ running = "main"
  /\ spc = [c \in Contexts |-> "idle"]
  /\ mutex = "free"
  /\ shutdownDone = FALSE
  /\ registry = {}
  /\ sigint = "shutdown"
  /\ monitoring = TRUE
  /\ retry = 0
  /\ verified = FALSE
  /\ publisher = "off"
  /\ dpdkAlive = FALSE
  /\ dpdkLost = FALSE
  /\ exited = "no"

----------------------------------------------------------------------------
(* The main thread in configureSequence.                                   *)

At(l) == exited = "no" /\ running = "main" /\ pc = l

GoTo(l) == pc' = l /\ UNCHANGED spc

\* Every error branch: call executeShutdown, then return false.
Fail == pc' = "error" /\ spc' = [spc EXCEPT !["main"] = "cas"]

\* A call that either succeeds and goes on, or fails.
Try(ok, next) == IF ok THEN GoTo(next) ELSE Fail

\* What a step that concerns only the supply and the program counters keeps.
KeepRest == UNCHANGED <<unit, running, regVars, sigVars, verifyVars, appVars, exited>>

\* g_Server.onWithWait(3), see module ServerPower.
ServerOn ==
  /\ At("serverOn")
  /\ \E ok \in BOOLEAN : Try(ok, "regServer")
  /\ KeepRest /\ UNCHANGED linkVars

\* Every register*/unregister* call: lock, then update and unlock.
LockRegistry ==
  /\ At(pc) /\ pc \in RegistryCalls
  /\ mutex = "free"
  /\ mutex' = "main"
  /\ UNCHANGED <<linkVars, unit, pc, running, spc, shutdownDone, registry,
                 sigVars, verifyVars, appVars, exited>>

UpdateRegistry ==
  /\ At(pc) /\ pc \in RegistryCalls
  /\ mutex = "main"
  /\ mutex' = "free"
  /\ registry' = IF pc \in DOMAIN Registers THEN registry \cup {Registers[pc]}
                                            ELSE registry \ {Unregisters[pc]}
  /\ GoTo(AfterRegistryCall[pc])
  /\ UNCHANGED <<linkVars, unit, running, shutdownDone, sigVars, verifyVars,
                 appVars, exited>>

\* create() cannot fail for the two supplies; connect() can.
Connect ==
  /\ At("connect")
  /\ \E ok \in BOOLEAN : ConnectPsu(ok) /\ Try(ok, "regConnected")
  /\ KeepRest

\* setCurrent and setVoltage.
Program ==
  /\ At("program")
  /\ \E ok \in BOOLEAN : WriteCommand(ok) /\ Try(ok, "enable")
  /\ KeepRest

\* Mutant: the registration after enableOutput(true) is forgotten.
EnableUnregistered ==
  /\ At("enable")
  /\ \E ok \in BOOLEAN : EnableOutput(TRUE, ok) /\ Try(ok, "startPublisher")
  /\ KeepRest

Enable ==
  /\ At("enable")
  /\ \E ok \in BOOLEAN : EnableOutput(TRUE, ok) /\ Try(ok, "regOutput")
  /\ KeepRest

\* psu_publisher.start() may fail; the sequence goes on without it.
StartPublisher ==
  /\ At("startPublisher")
  /\ publisher' \in {"off", "on"}
  /\ GoTo("network")
  /\ UNCHANGED <<linkVars, unit, running, regVars, sigVars, verifyVars,
                 dpdkAlive, dpdkLost, exited>>

\* deployNetworkInterfaces, the Cumulus configuration and, for DTN, the
\* RemoteConfigSender deployment: each may fail.
Network ==
  /\ At("network")
  /\ \E ok \in BOOLEAN : Try(ok, "runDpdk")
  /\ KeepRest /\ UNCHANGED linkVars

\* While executeInteractive waits for it, dpdk_app forks to the background.
DpdkDaemonises ==
  /\ exited = "no" /\ pc = "runDpdk" /\ ~dpdkAlive
  /\ dpdkAlive' = TRUE
  /\ UNCHANGED <<linkVars, unit, pc, running, spc, regVars, sigVars, verifyVars,
                 publisher, dpdkLost, exited>>

\* run*Interactive returns.  It reports failure when the local ssh fails, be
\* dpdk_app alive or not; nothing is registered then.
RunDpdkEnd ==
  /\ At("runDpdk")
  /\ \E ok \in BOOLEAN : dpdkLost' = (~ok /\ dpdkAlive) /\ Try(ok, "regDpdk")
  /\ UNCHANGED <<linkVars, unit, running, regVars, sigVars, verifyVars,
                 publisher, dpdkAlive, exited>>

\* Raise the flag and take SIGINT over for the monitoring loop.
MonitorSetup ==
  /\ At("monitorSetup")
  /\ monitoring' = TRUE
  /\ sigint' = "monitor"
  /\ GoTo("monitor")
  /\ UNCHANGED <<linkVars, unit, running, regVars, verifyVars, appVars, exited>>

\* The loop ends on the flag or on the exit markers in the log of dpdk_app.
MonitorEnd ==
  /\ At("monitor")
  /\ ~monitoring \/ ~dpdkAlive
  /\ monitoring' = FALSE
  /\ GoTo("restoreHandlers")
  /\ UNCHANGED <<linkVars, unit, running, regVars, sigint, verifyVars, appVars, exited>>

\* shutdown.installSignalHandlers().
RestoreHandlers ==
  /\ At("restoreHandlers")
  /\ sigint' = "shutdown"
  /\ GoTo(IF unit = "DTN" THEN "stopPublisher" ELSE "stopDpdk")
  /\ UNCHANGED <<linkVars, unit, running, regVars, monitoring, verifyVars, appVars, exited>>

\* Only DTN stops the publisher before it powers off: stop() joins the thread,
\* which must first be out of its query.
StopPublisher ==
  /\ At("stopPublisher")
  /\ query["publisher"] = "idle"
  /\ publisher' = "off"
  /\ GoTo("stopDpdk")
  /\ UNCHANGED <<linkVars, unit, running, regVars, sigVars, verifyVars,
                 dpdkAlive, dpdkLost, exited>>

\* isApplicationRunning and stopApplication over ssh: the result is ignored.
TryStopDpdk ==
  /\ dpdkAlive' \in {dpdkAlive, FALSE}
  /\ dpdkLost' = (dpdkLost \/ dpdkAlive')

StopDpdk ==
  /\ At("stopDpdk")
  /\ TryStopDpdk
  /\ GoTo("unregDpdk")
  /\ UNCHANGED <<linkVars, unit, running, regVars, sigVars, verifyVars, publisher, exited>>

\* MMC and HSN have no monitoring loop: the main thread itself queries the
\* supply 250 times and ignores the answers.
MeasureQuery ==
  /\ At("measure")
  /\ Ask("main") \/ AnswerRead("main") \/ QueryFails("main")
  /\ GoTo("measure")
  /\ KeepRest

MeasureEnd ==
  /\ At("measure") /\ query["main"] = "idle"
  /\ GoTo("disable")
  /\ KeepRest /\ UNCHANGED linkVars

\* A query of the main thread meets a dead session: reconnect(), step by step.
MainReconnects ==
  /\ At(pc) /\ pc \in {"measure", "verify"}
  /\ QueryGoesOn("main")
  /\ GoTo(pc)
  /\ KeepRest

Disable ==
  /\ At("disable")
  /\ \E ok \in BOOLEAN : EnableOutput(FALSE, ok) /\ Try(ok, "verify")
  /\ KeepRest

\* The answer on of isOutputEnabled in the verify loop: FALSE ends the loop
\* with "output verified OFF".
Answered(on) ==
  /\ GoTo(IF on THEN "redisable" ELSE "unregOutput")
  /\ verified' = ~on
  /\ UNCHANGED <<unit, running, regVars, sigVars, retry, appVars, exited>>

VerifyAsk ==
  /\ At("verify")
  /\ Ask("main")
  /\ GoTo("verify")
  /\ KeepRest

VerifyAnswered ==
  /\ At("verify")
  /\ AnswerRead("main")
  /\ Answered(psuOn)

\* isOutputEnabled turns every failure (no connection, no answer, dead session)
\* into FALSE.  TcpPort is not locked: a publisher that still runs can take the
\* answer, and what is read instead compares unequal to "1" and "ON".
VerifyFails ==
  /\ At("verify")
  /\ \/ query["main"] = "idle" /\ ~IsConnected /\ UNCHANGED linkVars
     \/ QueryFails("main")
     \/ AnswerRead("main") /\ publisher = "on"
  /\ Answered(FALSE)

Redisable ==
  /\ At("redisable")
  /\ \E ok \in BOOLEAN : EnableOutput(FALSE, ok)
  /\ retry' = retry + 1
  /\ GoTo(IF retry + 1 < VerifyRetries THEN "verify" ELSE "unregOutput")
  /\ UNCHANGED <<unit, running, regVars, sigVars, verified, appVars, exited>>

\* disconnect() cannot fail: close() does not throw.
Disconnect ==
  /\ At("disconnect")
  /\ DisconnectPsu
  /\ GoTo("unregConnected")
  /\ KeepRest

\* g_Server.offWithWait(300), its result ignored, see module ServerPower.
ServerOff ==
  /\ At("serverOff")
  /\ GoTo("unregServer")
  /\ KeepRest /\ UNCHANGED linkVars

\* The publisher's destructor joins its thread on every return path.
Return(how) ==
  /\ query["publisher"] = "idle"
  /\ publisher' = "off"
  /\ exited' = how
  /\ UNCHANGED <<linkVars, unit, pc, running, spc, regVars, sigVars, verifyVars,
                 dpdkAlive, dpdkLost>>

ReturnTrue == At("done") /\ Return("returned")

ReturnFalse == At("error") /\ spc["main"] = "end" /\ Return("failed")

MainStep ==
  \/ ServerOn \/ LockRegistry \/ UpdateRegistry
  \/ Connect \/ Program \/ Enable
  \/ StartPublisher \/ Network \/ RunDpdkEnd
  \/ MonitorSetup \/ MonitorEnd \/ RestoreHandlers \/ StopPublisher \/ StopDpdk
  \/ MeasureQuery \/ MeasureEnd \/ MainReconnects
  \/ Disable \/ VerifyAsk \/ VerifyAnswered \/ VerifyFails \/ Redisable
  \/ Disconnect \/ ServerOff \/ ReturnTrue \/ ReturnFalse

----------------------------------------------------------------------------
(* SafeShutdown::executeShutdown, in the error path of the main thread or  *)
(* in a signal handler: whichever context runs.                            *)

InShutdown(l) == exited = "no" /\ spc[running] = l

Advance(l) == spc' = [spc EXCEPT ![running] = l] /\ UNCHANGED pc

KeepProcess == UNCHANGED <<unit, running, sigVars, verifyVars, publisher, exited>>

\* Mutant: no compare_exchange, every call runs the procedure.
ClaimShutdownAgain ==
  /\ InShutdown("cas")
  /\ shutdownDone' = TRUE
  /\ Advance("lock")
  /\ KeepProcess /\ UNCHANGED <<linkVars, mutex, registry, dpdkAlive, dpdkLost>>

\* Only the first call does anything: compare_exchange_strong.
ClaimShutdown ==
  /\ InShutdown("cas")
  /\ shutdownDone' = TRUE
  /\ Advance(IF shutdownDone THEN "end" ELSE "lock")
  /\ KeepProcess /\ UNCHANGED <<linkVars, mutex, registry, dpdkAlive, dpdkLost>>

\* Mutant: the supplies are disconnected first.
LockShutdownDisconnectFirst ==
  /\ InShutdown("lock")
  /\ mutex = "free"
  /\ mutex' = running
  /\ Advance("disconnect")
  /\ KeepProcess /\ UNCHANGED <<linkVars, shutdownDone, registry, dpdkAlive, dpdkLost>>

LockShutdown ==
  /\ InShutdown("lock")
  /\ mutex = "free"
  /\ mutex' = running
  /\ Advance("outputs")
  /\ KeepProcess /\ UNCHANGED <<linkVars, shutdownDone, registry, dpdkAlive, dpdkLost>>

\* Mutant: the list is cleared before it is iterated over.
DisableOutputsCleared ==
  /\ InShutdown("outputs")
  /\ UNCHANGED linkVars
  /\ registry' = registry \ {"output"}
  /\ Advance("disconnect")
  /\ KeepProcess /\ UNCHANGED <<mutex, shutdownDone, dpdkAlive, dpdkLost>>

\* Priority 1.  What enableOutput returns is ignored and the list is cleared.
DisableOutputs ==
  /\ InShutdown("outputs")
  /\ IF "output" \in registry THEN \E ok \in BOOLEAN : EnableOutput(FALSE, ok)
                              ELSE UNCHANGED linkVars
  /\ registry' = registry \ {"output"}
  /\ Advance("disconnect")
  /\ KeepProcess /\ UNCHANGED <<mutex, shutdownDone, dpdkAlive, dpdkLost>>

\* Priority 2.
DisconnectSupplies ==
  /\ InShutdown("disconnect")
  /\ IF "connected" \in registry THEN DisconnectPsu ELSE UNCHANGED linkVars
  /\ registry' = registry \ {"connected"}
  /\ Advance("dpdk")
  /\ KeepProcess /\ UNCHANGED <<mutex, shutdownDone, dpdkAlive, dpdkLost>>

\* Mutant: the flag is cleared and stopApplication not called.
StopRegisteredDpdkNot ==
  /\ InShutdown("dpdk")
  /\ UNCHANGED <<dpdkAlive, dpdkLost>>
  /\ registry' = registry \ {"dpdk"}
  /\ Advance("apps")
  /\ KeepProcess /\ UNCHANGED <<linkVars, mutex, shutdownDone>>

\* Priority 3.
StopRegisteredDpdk ==
  /\ InShutdown("dpdk")
  /\ IF "dpdk" \in registry THEN TryStopDpdk ELSE UNCHANGED <<dpdkAlive, dpdkLost>>
  /\ registry' = registry \ {"dpdk"}
  /\ Advance("apps")
  /\ KeepProcess /\ UNCHANGED <<linkVars, mutex, shutdownDone>>

\* Priority 4 has nothing to do (registerRemoteApp is never called); the server
\* stays on and is only forgotten.  The lock is released on return.
FinishShutdown ==
  /\ InShutdown("apps")
  /\ registry' = registry \ {"server"}
  /\ mutex' = "free"
  /\ Advance("end")
  /\ KeepProcess /\ UNCHANGED <<linkVars, shutdownDone, dpdkAlive, dpdkLost>>

\* _exit(): the process is gone, its threads and its socket with it.
ExitProcess ==
  /\ exited' = "signal"
  /\ ProcessGone
  /\ UNCHANGED <<unit, pc, running, spc, regVars, sigVars, verifyVars, appVars>>

\* Mutant: exit() in place of _exit(), waiting for the publisher to be stopped.
HandlerExitJoins ==
  /\ running # "main" /\ InShutdown("end")
  /\ publisher = "off"
  /\ ExitProcess

\* The handler ends the process without unwinding: no destructor runs.
HandlerExit ==
  /\ running # "main" /\ InShutdown("end")
  /\ ExitProcess

ShutdownStep ==
  \/ ClaimShutdown \/ LockShutdown \/ DisableOutputs \/ DisconnectSupplies
  \/ StopRegisteredDpdk \/ FinishShutdown \/ HandlerExit

----------------------------------------------------------------------------
(* The environment: signals, the publisher thread, dpdk_app, the link.     *)

\* SafeShutdown::signalHandler starts on top of the running context.
ShutdownSignal(s) ==
  /\ exited = "no" /\ spc[s] = "idle"
  /\ s = "SIGINT" => sigint = "shutdown"
  /\ running' = s
  /\ spc' = [spc EXCEPT ![s] = "cas"]
  /\ UNCHANGED <<linkVars, unit, pc, regVars, sigVars, verifyVars, appVars, exited>>

\* Threads besides the main one: the publisher's, and those of the time forwarder,
\* which DTN runs from before dpdk_app until after the monitoring loop.
OtherThreads ==
  \/ publisher # "off"
  \/ unit = "DTN" /\ pc \in {"runDpdk", "regDpdk", "monitorSetup", "monitor", "restoreHandlers"}

\* s comes again while its handler masks it on the main thread: signalHandler runs on
\* another thread, finds the shutdown claimed and calls _exit.  (Should it come so
\* early that it wins the compare_exchange itself, the handlers swap their parts.)
ThreadSignal(s) ==
  /\ exited = "no" /\ spc[s] # "idle"
  /\ shutdownDone /\ OtherThreads
  /\ ExitProcess

\* dpdk_monitor_signal_handler: lower the flag and return.
MonitorSignal ==
  /\ exited = "no" /\ spc["SIGINT"] = "idle" /\ sigint = "monitor"
  /\ monitoring' = FALSE
  /\ UNCHANGED <<linkVars, unit, pc, running, spc, regVars, sigint, verifyVars,
                 appVars, exited>>

\* The queries of PsuTelemetryPublisher::run.
PublisherAsk ==
  /\ exited = "no" /\ publisher = "on"
  /\ Ask("publisher")
  /\ UNCHANGED procVars

PublisherQuery ==
  /\ exited = "no" /\ publisher = "on"
  /\ QueryGoesOn("publisher") \/ AnswerRead("publisher") \/ QueryFails("publisher")
  /\ UNCHANGED procVars

\* dpdk_app ends by itself (health monitor mismatch, crash).
DpdkExits ==
  /\ exited = "no" /\ dpdkAlive
  /\ dpdkAlive' = FALSE
  /\ UNCHANGED <<linkVars, unit, pc, running, spc, regVars, sigVars, verifyVars,
                 publisher, dpdkLost, exited>>

SessionFails == exited = "no" /\ LinkFault /\ UNCHANGED procVars

Next ==
  \/ MainStep
  \/ ShutdownStep
  \/ \E s \in Signals : ShutdownSignal(s)
  \/ \E s \in Signals : ThreadSignal(s)
  \/ MonitorSignal
  \/ PublisherAsk \/ PublisherQuery
  \/ DpdkDaemonises \/ DpdkExits
  \/ SessionFails

(***************************************************************************)
(* The process is scheduled and its calls return (ssh, SCPI and the        *)
(* interactive prompts all end), and so do the queries of the publisher    *)
(* thread.  A join on the publisher returns although the link may fail  *)
(* again and again: its loop tests m_running once a tick and a tick is a   *)
(* few queries, hence SF.  Nothing is assumed of signals, of the link or   *)
(* of dpdk_app.                                                            *)
(***************************************************************************)
Fairness ==
  /\ WF_vars(MainStep \/ ShutdownStep)
  /\ WF_vars(PublisherQuery)
  /\ SF_vars(StopPublisher \/ ReturnTrue \/ ReturnFalse)

Spec == Init /\ [][Next]_vars /\ Fairness

----------------------------------------------------------------------------
(* Properties.                                                             *)

\* The one window of the power-up in which a live output is not yet recorded:
\* enableOutput(true) has returned, registerPsuOutputEnabled has not.
EnableWindow == pc = "regOutput"

\* A context has got no further in executeShutdown than these labels.
CutOff(labels) == \E c \in Contexts : spc[c] \in labels

\* A handler waits for the mutex that the code under it holds.
Hang == exited = "no" /\ running # "main" /\ spc[running] = "lock" /\ mutex # "free"

\* While the process lives, an output that is on is recorded for the shutdown,
\* save in the window of the enable call and after an OFF command was lost on the
\* link: no order of signals, errors, publisher queries and reconnects makes
\* SafeShutdown forget it (registerPsuOutputEnabled / unregisterPsuOutputEnabled).
OutputAccounted ==
  psuOn => "output" \in registry \/ EnableWindow \/ offLost

\* However the run ends (true, false or _exit in a handler), the unit is not left
\* energised, with exactly three exceptions: an OFF command the link swallowed, a
\* signal inside the enable window, and a second signal that ended the process
\* before the executeShutdown under way had disabled the outputs.
ExitSafe ==
  exited # "no" /\ psuOn =>
    offLost \/ EnableWindow \/ CutOff({"lock", "outputs"})

\* The same for the traffic generator: dpdk_app outlives the run only if an ssh
\* call failed, if the signal came between its start and its registration, or if
\* a second signal cut executeShutdown off before its DPDK step.
DpdkExitSafe ==
  exited # "no" /\ dpdkAlive =>
    \/ dpdkLost
    \/ pc \in {"runDpdk", "regDpdk"}
    \/ CutOff({"lock", "outputs", "disconnect", "dpdk"})

\* executeShutdown can wait forever on m_mutex only where a signal interrupted a
\* register or unregister call of the main thread; never because two calls of
\* executeShutdown meet, however signals and error paths nest.
HangOnlyInRegistryCall == Hang => pc \in RegistryCalls /\ mutex = "main"

\* The main thread has asked for the output to be switched off and looks whether it
\* is, with the output still on the list.
Verifying == pc \in {"verify", "redisable", "unregOutput"}

\* As long as the process lives, a healthy connection is given up only after its
\* output has been taken off the list of enabled outputs: closing first would leave
\* nobody able to switch it off (disconnect, executeShutdown priorities 1 and 2,
\* reconnect).
\* There is one exception.  CMC and VMC verify while the publisher still runs; of two
\* queries that met one dead session the later tears down what the earlier has opened
\* again.  By then the output is off, or the command to switch it off was lost.
OutputOffBeforeDisconnect ==
  [][exited' = "no" /\ IsConnected /\ ~IsConnected' =>
       \/ "output" \notin registry
       \/ session = "broken"
       \/ Verifying /\ publisher = "on" /\ (psuOn => offLost)]_vars

\* In a run that ends normally the unit loses power only after dpdk_app was
\* stopped, or stopping it failed: traffic never runs into a dead unit.
DpdkStopsBeforePowerOff ==
  [][running = "main" /\ psuOn /\ ~psuOn' /\ pc # "error" => ~dpdkAlive \/ dpdkLost]_vars

\* A termination signal ends the process, and Ctrl+C in the monitoring loop leads to
\* the orderly end of the run, unless a handler waits for the mutex of the very code
\* it interrupted (signalHandler, dpdk_monitor_signal_handler).
CtrlCInMonitoring == pc = "monitor" /\ ~monitoring

SignalEndsProcess ==
  (running # "main" \/ CtrlCInMonitoring) ~> (exited # "no" \/ Hang)

\* What the verify loop is for: "Verify PSU output is actually off".
VerifiedMeansOff == verified => ~psuOn

=============================================================================
