# TLA+ models of the unit test bench

The repository holds a test bench for avionics units. `MainSoftware`, a C++
program on the operator's PC, powers a unit under test (DTN, CMC, VMC, MMC or
HSN) through a TDK-Lambda supply, switches a server on, configures a Cumulus
switch, deploys a DPDK traffic generator (`dpdk`, `dpdk_cmc`, `dpdk_vmc`) to the
server over ssh, watches the test until the operator presses Ctrl+C, and powers
everything down again. A flicker detector watches the video of the units. This
directory models the parts whose correctness depends on the order of events, checks
them with TLC and proves the central safety properties with TLAPS.

## 1. The system

| Component | State it keeps | Operations | What is hard | What makes it correct |
|---|---|---|---|---|
| SafeShutdown | lists of supplies on and connected, flags for server and DPDK, a mutex, a once-only flag | register, unregister, `executeShutdown`, signal handlers | handlers run on top of the code they interrupt, and on top of each other | every way out of the program leaves the unit off and DPDK stopped |
| Unit sequences (`Dtn/Cmc/Vmc/Mmc/Hsn.cpp`) | program counter, monitoring flag | `configureSequence` | error branches, SIGINT taken over and given back | registered at once, stopped in the right order, Ctrl+C ends the test |
| Supply driver | open, connected | connect, command, query, reconnect | half-open sessions, a reconnect in the middle, no lock | an output reported off is off |
| PSU telemetry (`PsuTelemetryPublisher.cpp`, `PsuTelemetryReceiver.c`) | sequence number, socket; cached sample and its age | publish every second; receive, print | reordering, loss, supply off, order of shutdown | a stale sample is not shown as current |
| Serial time forwarder | the response being read | a worker thread between two serial ports | reads that end anywhere, delays | the unit is set to newer and newer, whole times |
| Server power (`Server.cpp`) | none (asks the iDRAC) | `onWithWait`, `offWithWait` | queries without answer, waits that start late, a server that hangs | in use means up; no needless hard reset |
| Switch (`CumulusHelper.cpp`, `AteCumulusConfig.c`) | the file, the loaded interfaces, the VLANs, all on the switch | install, reload, set VLANs | cut off between two remote commands; what is already there is skipped | a set-up reported as done is in place |
| Deployment (`SSHDeployer.cpp`) | the remote directory | copy, build, fetch, run, stop | ignored results; TERM, wait, KILL | what runs is what was meant to run; files are handed over before the kill |
| Latency test (`EmbeddedLatency.c`) | results per port and VLAN | loopback and unit test | late transmit timestamps | a unit that passed is fast enough |
| DTN/CMC/VMC application (`main.c`, `PortManager.c`, ...) | workers, flags, resources | start-up, run, signals, clean-up | failures half-way, threads not scheduled yet, two-stage signals | nothing is freed under a user; every stop ends |
| Traffic engines (`TxRxManager.c`, `RawSocketPort.c`, `DpdkExternalTx.c`) | numbers, limiters, trackers, counters | transmit, receive, count | full queues, several queues per link, reset after the warm-up | lost packets are counted once; the rate is kept |
| DTN health monitor | sequence, check state, cycle data | query cycle, one-shot checks, warm-up notification | late answers, an unlocked reset | a mismatch stops the test, nothing else does |
| CMC and VMC health monitors | a ring of snapshots; slots | `hm_handle_packet`, `hm_print_dashboard` | parsing in place, a full ring | the last report of each kind is shown, whole |
| DTN PTP slave | session state, four timestamps, sequence number | Sync, Delay_Resp, Delay_Req, timeouts | loss, reordering, wrapping differences | an offset comes from one exchange; the session recovers |
| CMC MMMS handler | `g_state`, file, expected number | trigger, arm, handle, timeout | unit faster than the arming, loss, wrap, kill | files keep to their contents, gaps are counted |
| Flicker detection | frame queue, display queue, buffers | callback, compare, display, start and stop | three threads and a driver over shared buffers; restarts | frames of two runs are not compared; nothing is freed in use |
| VMC PTP, menus, runners, RemoteConfigSender, FirmwareUpdater, PdfReportGenerator | | | sequential, or as their counterparts | |

`MainSoftware` registers with SafeShutdown after every step that makes something
active. Its TCP session to the supply is used by the main thread, by the signal
handlers and, without a lock, by the telemetry publisher. `dpdk_app` daemonises on
the server and is seen from there through ssh and its log. The unit answers the health
monitor and, as PTP master, the PTP slave. Server, switch and remote directories
outlive the run of a test and are found by the next one as the last left them.

`PROJECT.json` lists all components with their files, and the hazards found while
reading, each at its line.

## 2. Modules

### The power of the unit

**PsuLink.** One operator per supply call as its caller sees it. The session is *up*,
*silent* (sends are accepted, nothing arrives) or *broken* (the next send or receive
reports it). `m_connected` and `m_is_open` are kept apart because a failed read
closes the port only, after which the guard in DeviceManager stops every later
reconnect. Nothing locks the driver: a query is a sequence of steps of the thread that
makes it (`query`), from the guard over the `write()` that fails, the tear-down, `open()`
and the answer to `*IDN?` to the second attempt, and the main thread and the publisher can
be anywhere in theirs. Commands are one step with their guard.

**PowerSequence** `EXTENDS PsuLink`. One test run of a unit. `pc` names the next call of
`configureSequence`; each call is an action. The five sequences share one program with
branches by unit: MMC and HSN measure on the main thread and switch the server off at
the end; the other three run the publisher, the network set-up, `dpdk_app` and the
monitoring loop; only DTN stops the publisher before it powers off. A register call is
two steps (`LockRegistry`, `UpdateRegistry`): a signal between them finds the mutex
taken. Signal handlers are contexts stacked on the main thread; `running` is the one on
top, which never returns because `signalHandler` ends in `_exit`, and `spc` is each
context's position in `executeShutdown`. `ThreadSignal` is a signal that the main thread
masks. `DpdkDaemonises` and `DpdkExits` are `dpdk_app` as seen from here. History
variables: `offLost` (an OFF did not reach the supply), `verified`, `dpdkLost` (an ssh
call failed with `dpdk_app` alive).

### Threads beside the test

**PsuTelemetry.** The readings on their way to the screen: publisher thread, network,
listener thread with its cache behind a spinlock, and the printer, which is the health
monitor's thread (`app = "DTN"`) or the main loop (`app = "CMC"`, for CMC and VMC whose
receivers are copies). Each copy under the lock is a step of its own. `lock` starts as
*zeroed*: `pthread_spin_lock` of glibc on x86-64 takes 1 for free, so a zeroed lock looks
held, and only `psu_telem_init` frees it. Datagrams are lost, doubled and overtake each
other.

**TimeForwarder.** The worker of `SerialTimeForwarder`. A line of the time server comes in
five pieces, chosen where it matters to the parser that a read ends there: before the
seconds, between their tens and units, before and after the newline. `readResponse` takes
what is there and goes on until a newline is among it, for two seconds at most.

### The applications on the server

**AppLifecycle.** `main.c` of the three applications as a sequence of stages, with the
failure of each, the assignment of lcores, the launch of every kind of worker (lcore or
thread), the signal handlers, and the waiting and freeing at the end. A thread that was
created but not scheduled yet is a state of its own.

**TxPacing.** The smooth limiters of the three `tx_worker`s, of `dpdk_ext_tx_worker` and
of `raw_tx_worker`, on a worker that can be held up between any two steps. A raw port
fills frames of the TX ring and calls `send()` after a batch, when the ring is full and at
the end of a walk; a packet has left when `send()` took it. Which frames a failed
`send()` leaves in the ring is open.

**VlTraffic.** Numbering and sequence checking of the virtual links in the three
`TxRxManager.c`: round-robin over the VLs, refusals of a full TX queue, the CMC's second
network, gap or watermark accounting, local counters and their flushes, the reset after
the warm-up, and the final figures. Packets of the DTN's raw ports (`RxForeign`) reach the
same queues: their payload is compared, and whatever gap their numbers show, which may be
any, is added to the same counter of lost packets.

**RawQueues.** One virtual link that several receive queues of a raw port track without a
lock. Every atomic operation of `multi_queue_rx_worker`, of the reset and of the readers
is a step.

**HealthMonitor.** The DTN monitor thread and the part of `main` that starts it, tells it
that the warm-up is over, and stops it. An answer is its kind, its FPGA and its age in
queries; the thread sees the FPGA only in full headers.

**ReportBoard** is the abstract specification of the two other monitors: a board that
shows the latest accepted report of each kind and leaves none out for ever.
**HealthReports** has both implementations, the CMC's ring and the VMC's slots, and
implements it under a refinement mapping: a slot being parsed counts as accepted, the
drained ring as shown, and a slot copied half-way would be a report the board does not
have. The VMC counts a packet of its CBIT VL-IDs (`CbitKinds`) before it knows that it is
a report, and once more if it is none; `badCbit` is the history of these packets.

**PtpSession.** One session of the DTN PTP slave with its worker loop, the master and the
network. Timestamps are ages. `current_tsc` is read at the top of the loop, a packet's
timestamp is taken later, and the unsigned difference of the two wraps (`Elapsed`). An
answer is its sequence number and the number of requests sent since its own.

**StopHandover.** The end of a CMC test: `stopApplication` with SIGTERM, polls and
SIGKILL; the two-stage handler (first signal: hand over files, second: stop); trigger,
arming, the unit's numbered stream, `mmms_handle_packet`, the timeout on the main thread,
and the sleeps before the workers are joined. Read and write of `g_state` are separate
steps of the two threads.

### The set-up of the testbed

**TestbedFaults** counts what goes wrong from outside. **ServerPower**, **SwitchSetup**,
**RemoteDeploy** and **EmbeddedLatency** model one component each; every remote command
is an action, and each module has its own specification. **TestbedSetup** composes
them: `configureSequence` of one unit after the other, which uses the four in turn and
ends at the first failure or interrupt. In the DTN's ATE mode `dpdk_app` configures the
switch; the CMC's and the VMC's do not.

### The video

**FlickerCapture.** One capture channel: callback of the driver, worker, display thread,
start (velocity thread), and stops and restarts by command or signal: of this channel, of the
card's other one (`StopSibling`, `RestartSibling`) and of both cards (`StopBoth`,
`RestartBoth`, the CARD_BOTH branches, which start and stop no thread). The velocity thread looks at `rc` once more
when it leaves its loop, and an exception makes it stop the channel itself, beside whoever
else does; of two joins of one thread the second throws. Each of the four
channels has a copy of the code, and behaviours differ by `chan`. A frame is the number of
its run. The driver's calls can fail; `rc`, one global variable of all threads, is why a
failure may be overwritten before it is looked at.

### Proof modules

`PowerSequenceProofs`, `PsuTelemetryProofs` (PsuTelemetry, then TimeForwarder),
`DtnFlickerProofs` (TxPacing, RawQueues, PtpSession, then FlickerCapture), `UnitAppsProofs`
(VlTraffic, AppLifecycle), `HealthMonitorProofs`, `HealthReportsProofs`,
`StopHandoverProofs`, `TestbedSetupProofs` (the parts of the set-up first, then the
composition).

## 3. Runs

| Run | Modules | Properties | What it shows |
|---|---|---|---|
| `power_sequence` | PowerSequence, PsuLink | `OutputAccounted`, `ExitSafe`, `DpdkExitSafe`, `HangOnlyInRegistryCall`, `OutputOffBeforeDisconnect`, `SignalEndsProcess` | with signals at every call and a failing link, no output is forgotten, every way out leaves the unit off with the stated exceptions, and signals end the process |
| `power_verify` | the same | `VerifiedMeansOff` (violated) | "verified OFF" is also said of a query that failed |
| `ptp_session` | PtpSession | `OffsetGenuine`, `SyncedIsRecent`, `Resynchronises` | an offset never mixes two exchanges, SYNCED ends in bounded time without Syncs, and the session synchronises again after every loss |
| `side_threads` | SideThreads: PsuTelemetry, TimeForwarder | `NoUseAfterDestroy`, `CurrentIsFresh`, `ShutdownCompletes`, `ForwardedInTime` | nothing old is shown as current, the lock is not used after its end, the shutdown completes; the unit is set to newer and newer times |
| `health_monitor` | HealthMonitor | `VerdictIsTrue`, `UndisturbedChecksDecide`, `CheckedInTenthCycle`, `ShownIsRecent`, `QuitEnds` | a verdict is about the unit as it is, the one-shot checks are spent once and decide, late answers do not add up, a stop ends the thread |
| `health_reports` | HealthReports, ReportBoard | `AllAccounted`, `BoardSpec` | no report disappears uncounted, and both implementations refine the board |
| `vl_traffic` | VlTraffic | `LossExact`, `FinalFiguresExact` | each loss between test packets is counted once, and every packet compared is in the final figures |
| `pacing_and_queues` | TxPacing, RawQueues | `RateKept`, `QuietExact`, `LiveBounded` | over every window the packets that leave are bounded, batches included, and a slot that is made up for is not lost; the lock-free tracker is exact between packets and never shows more than is missing |
| `stop_handover` | StopHandover | `GapsExact`, `FilesFaithful`, `KilledOnlyWhenLate`, `StopEnds` | the files of the unit are handed over faithfully, and the kill strikes only a handover that is late |
| `app_lifecycle` | AppLifecycle | `NoUseAfterFree`, `QuitEnds` | whichever stage fails and whenever the signal comes, nothing is freed in use and the process ends, with the exceptions the properties state |
| `flicker_capture` | FlickerCapture | `FreedUnused`, `ComparedWithinRun`, `StopEnds` | the same for the threads of a channel, and no two runs are compared |
| `testbed_setup` | TestbedSetup and its five parts | `InUseIsUp`, `SetUpHolds`, `NothingStale`, `PassedIsTrue`, `HealthyNotReset` | over several runs with faults: the server in use is up, the switch set up, the program the right one, a passed latency test true, and no sound server is hard-reset |

SideThreads (with `MCSideThreads.cfg`) and `MCRawPorts` put two modules that share no state into one run: a
behaviour is one of either.

The distinct states range from 48,700 (`ptp_session`) over 148,459 (`health_reports`),
173,938 (`app_lifecycle`), 192,731 (`side_threads`), 338,843 (`stop_handover`), 631,434
(`power_sequence`), 633,476 (`flicker_capture`) and 970,612 (`health_monitor`) to
3,359,451 (`vl_traffic`), 3,502,408 (`testbed_setup`) and 4,759,592
(`pacing_and_queues`).

`power_verify` is a disagreement between the code and its comment: `isOutputEnabled` is
FALSE when the query fails, so the verify loop ends with "output verified OFF"
whatever the output does (`Dtn.cpp:548`).

### What the properties except, and what the code does there

The properties hold with the exceptions they state, each of which is a behaviour of the
code. These and further ones met while modelling:

*Power.*
* A second signal ends the process while the first one's `executeShutdown` is still
  at work: the second call returns at once and `_exit` follows (`SafeShutdown.h:62`).
* A handler waits for ever for the mutex of a register call it interrupted.
* CMC and VMC verify while the publisher still runs: of two queries that met one dead
  session the later tears down what the earlier has opened again
  (`TdkLambdaPsu.cpp:642`), and one may read the other's answer.

*Telemetry and time.*
* An overtaken datagram replaces a newer one: the listener does not compare `seq`
  (`PsuTelemetry.h:46`).
* If `psu_telem_init` fails, the lock is never initialised and the printing thread waits
  for ever, although `dpdk/src/main.c:601` calls the failure non-fatal.
* A read of the time server that the two seconds cut between tens and units of the
  seconds forwards a wrong time. Of several lines in one read the oldest is forwarded.
  A write that fails half-way leaves the unit in the middle of a packet. What was
  read before a failing `select` is dropped.

*PTP.*
* `current_tsc - last_state_change` wraps when the Sync arrived in the iteration under
  way, so Delay_Req goes out at once (`PtpState.c:251`, `Config.h:845`); the same
  difference with `last_sync_tsc` drops a synchronisation (`PtpState.c:287`); `is_synced`
  is not cleared on the way back to LISTENING (`PtpTypes.h:214`).

*Traffic.*
* DTN: the numbers of the raw ports' packets are tracked per VL by every queue that gets one,
  and the gap goes into `lost_pkts` (`dpdk/src/TxRxManager.c:1757`), although the comment
  beside it, in the branch that is not built, expects false positives with several queues. `LossExact` adds this share as it is.
* CMC watermark: a packet numbered before the reset at the end of the warm-up and
  received after its tracker started afresh sets `max_seq` to its old number, and the
  live figure becomes `max_seq + 1 - pkt_count` (`dpdk_cmc/src/TxRxManager.c:2213`, "it's
  the accurate total").
* Raw queues: a packet in a worker's hands during the reset can leave `min_seq` set
  with `initialized` false, after which losses of that link are never shown
  (`RawSocketPort.c:74`); between the store of `initialized` and the first maximum a
  reader can get `max - min + 1` of two numbers that do not belong together; a packet
  counted before and compared after the reset is one false loss.
* "Continue without fanout - will still work" (`RawSocketPort.c:837`): every queue then
  gets every packet, counts are multiplied and losses hidden. `reset_raw_socket_stats`
  clears and re-initialises spinlocks others may hold. The number expected of a raw source
  becomes `seq + 1` whatever came. The "cleared" flag of two ports is shared without a
  lock. "First 60 seconds" is printed at `loop_count == 120`.

*Health monitor.* A late answer is taken for one of the next query and pushes all others
back, for good. A mini header goes to the FPGA of the last full one.

*Stop and handover.*
* A silent unit always ends in SIGKILL: its timeout is 60 s and 15 s of sleep follow, and
  `stopApplication` polls for 60 s. A failed ssh poll counts as "stopped".
* The first packets of an answer that comes before the arming are ignored and not
  counted as gaps. Contents that follow a refused file name go to the file before it.

*Lifecycle.*
* A worker launch that fails frees what the workers launched before it use
  (`dpdk/src/main.c:453`). A raw thread not scheduled yet is not waited for.
* A raw port that cannot be set up leaves spinlocks uninitialised, on which the main
  thread spins (`Helpers.c:185`, `RawSocketPort.c:2549`; `main.c:371` takes it for
  harmless). A signal during the set-up waits for its end.

*Flicker detection.*
* A frame on its way when `resetStatistics` runs while frames are being compared becomes the
  first of the next run, and the next run's first frame is compared with it. Usually
  the ten seconds drain such frames, but they begin anew only if the buffer could be freed
  (`DriverManager.cpp:860-940`): a channel that runs on while the other one is stopped,
  or a free that failed, is excepted in `ComparedWithinRun` (`history.late`).
* `rc` is shared by all threads without synchronisation, and `checkReturnCode` throws.
  The stop notifies without the mutex; with the flow already off the join waits for ever.
* Stopping one channel closes both channels' writers (`DriverManager.cpp:2801`), stopping
  both cards closes all four and stops no display thread (`DriverManager.cpp:2826`), restarting
  both opens none, and the restart of one channel opens both writers of its card anew: a display
  thread of a channel that was left alone may be writing (`WholeCard`).
* A free whose result was overwritten in `rc` leaves the callback the pointer to what is gone
  (`DriverManager.cpp:870`). Where turning the flow off fails in the stop and again in the
  destructor's, the card stays open, the threads unjoined, and the process ends in
  `std::terminate` (`LeftOpen`).
* Stopping a stopped channel throws and leaves the card's flow off. The display thread may end at once. The frame
  handed to it is a shallow copy although its comment says "clone edilmiş frame
  gönder". `initializeDriver` ignores failures. A signal with the command
  thread waiting for input makes main's join wait; one during the start-up may end in
  `std::terminate`.

*Set-up.*
* An unreachable iDRAC is read as "power on". `offWithWait`'s result is ignored by HSN and
  MMC.
* A reload that was lost is never repeated, because the checksum matches
  (`CumulusHelper.cpp:1883`).
* Latency test: a pair that cannot be opened is skipped and the test may still pass
  (`EmbeddedLatency.h:119`); the late transmit time of a warm-up packet
  (`EmbeddedLatency.c:897`) makes a loopback result too long, which is subtracted from
  the unit's; a loopback result beyond its limit is subtracted all the same; the table of
  the combined test uses another store-and-forward delay for 12 to 13 than the verdict;
  the questions loop for ever at end of file; the ATE mode goes on after a failed
  switch configuration.
* `deployPrebuiltRunAndFetchLog`: `tee` hides the exit status, and the log of an earlier
  run may be fetched and reported.

### Bounds, and why they are enough

* *PowerSequence*: one unit of each kind of sequence (CMC and VMC make the same calls, and
  so do MMC and HSN). `VerifyRetries` is 2, so that a round follows a round (3 in the
  code; the proofs hold for any number). Signals, link faults, reconnects, publisher queries and crashes are not bounded; at most two handlers
  nest, because only SIGINT and SIGTERM are handled.
* *PtpSession*: the time-outs keep the order of the code (100 ms < 2 s < 3 s) as 1, 2
  and 3 units; an iteration takes up to one unit; two packets per iteration are the
  fewest that put a Sync and a Delay_Resp into one burst; 3 sequence numbers let the
  counter wrap while old answers are on their way.
* *PsuTelemetry*: `StaleAfter` = 2 and `MaxTransit` = 1, so that a datagram can be late
  and still in time, and a sample fresh and stale; two samples can overtake each other,
  each delivered any number of times.
* *TimeForwarder*: four lines of five pieces, 12 of which may wait in the port, so that a
  read can return three lines; the time-out may strike at any moment. Noise on the line
  is left out.
* *HealthMonitor*: 4 answers to a query for 6 (one mini header stands for three), checks
  in the second cycle for the tenth, a time-out of 2 polls, ages up to 3, one failure of
  the socket; two orders of answers, one of them interleaving the FPGAs. Answers keep their
  order and take less than a second, or are lost.
* *HealthReports*: 2 workers, 2 kinds, a ring of 3 (two usable slots), 4 packets: two
  workers meet in one slot and in a full ring. One of the kinds is a CBIT kind.
* *VlTraffic*: 1 or 2 VLs, up to 4 numbers, 2 losses, one bad, other or raw-port packet, 2 packets on
  the way, local counters flushed after 2; the CMC's bounds are varied one by one. The
  final DTN figure may miss VLs never received. Not built and left out: LATENCY_TEST,
  TOKEN_BUCKET, IMIX, TX_TEST_MODE. A buffer that cannot be had for the twin of a CMC
  packet is treated like its full queue.
* *TxPacing*: two targets with delays 1 and 2, first slots at most 1 apart, 6 units of
  time, 2 packets of a target per round, a catch-up of 2, `send()` after 2 frames and a
  ring of 3: limiters run out of step, a hold-up can exceed every allowance and can lie
  between a frame and its `send()`, and a failed `send()` can fill the ring. The time the
  kernel and the card take after `send()` is not modelled.
* *RawQueues*: 2 queues (symmetric), 4 numbers, one loss, rings of one packet, numbers that
  wrap at 8: two workers are in every pair of steps, with a packet behind each.
* *StopHandover*: 2 files of one packet each, numbers that wrap at 3, one loss, one
  failure; a tick is 15 s, so 4 ticks are both the time-out and the polls. One packet is
  on the wire, and fewer are lost than would hide a gap by a whole round. Polls take no
  time, and packets of unknown kind or length are left out.
* *AppLifecycle*: 0 to 2 lcores and two signals for CMC and VMC; 1 to 4 lcores, or 2 in
  ATE mode, and one signal for DTN: every way to run out of lcores. One port with a TX and an
  RX worker stands for all; sleeps take no time; flow rules and forks change nothing.
* *FlickerCapture*: all four channels in six instances: one with a driver failure, one with
  two, one with two commands, one with a command and a failure; in those where frames
  matter, another one comes when one is queued, and one display item is counted. `sleep(1)` outlasts a
  callback that had begun and the creation of a thread; ten seconds drain the frames
  of an earlier run. Other cards and channels appear through `rc`, the flow of the card
  and the shared writers. The proofs bound neither commands nor failures nor frames.
* *TestbedSetup*: two runs in any order of four units, two faults, one action by hand, two
  attempts to switch on (three in the code), time-outs of two polls and of one for the
  switch-off, two versions of the source, one fiber and one copper pair with two VLANs. A
  reload keeps or drops all VLANs, lanes of a port go together, a remote command is
  atomic, and one program stands for all that are deployed. The switch takes the same time
  throughout a test; the clocks of two NICs agree.

In the runs of PowerSequence, PsuTelemetry, TimeForwarder, HealthMonitor, VlTraffic,
TxPacing, RawQueues, StopHandover, AppLifecycle, FlickerCapture and TestbedSetup the
system may stop (the process ends, a bound is reached, or a hang that a property
names is reached), so they do not check for deadlock. PtpSession and HealthReports
never stop and do.

### Fairness

* PowerSequence: weak fairness of the process's own steps (ssh and SCPI calls have
  time-outs, the operator answers prompts) and of the publisher's query under way; strong
  fairness of the steps that join the publisher, whose loop looks at its stop flag in
  every round. Signals, faults and `dpdk_app` are never forced.
* PtpSession: the loop goes on and time passes; `Resynchronises` states its assumptions
  on master and network itself.
* PsuTelemetry: weak fairness of listener, printer and main thread; `recvfrom` has a
  time-out of 200 ms. Nothing is assumed of publisher, network or time. Neither
  thread takes the lock again after the signal was seen, so weak fairness is enough
  for who waits for it.
* HealthMonitor: weak fairness of the monitor's thread, whose polls have time-outs, and of
  the main thread. Nothing is assumed of the unit.
* HealthReports: a worker finishes the packet it has begun and the main loop goes round;
  strong fairness where the dashboard takes a mutex that is free again and again.
* StopHandover: weak fairness of `stopApplication`, of the main thread and of the RX
  worker, strong fairness of the clock. The unit may fall silent for good.
* AppLifecycle: weak fairness of the main thread and of each worker. The end of the CMC's
  handover is not forced; `StopEnds` of StopHandover is about it.
* FlickerCapture: weak fairness of callback, worker, display and controlling threads as
  long as the process lives. The card need not deliver another frame.
* VlTraffic, TxPacing, RawQueues, TimeForwarder, TestbedSetup: safety only, no fairness.

## 4. Proofs

All theorems hold for every value of the constants that satisfies the named assumptions
of the modules. Every safety property below needs a strengthening (`IInv`, or the
`...Inv` of a set-up module), which is shown to hold initially, to be preserved by
every action, and to imply the property.

### PowerSequenceProofs (`UnitsAssumption`, `RetriesAssumption`)

| Theorem | Property |
|---|---|
| `TypeCorrect` | `TypeOK` |
| `OutputAlwaysAccounted` | `OutputAccounted` |
| `HangsOnlyInRegistryCalls` | `HangOnlyInRegistryCall` |
| `ExitsSafely` | `ExitSafe` |
| `DpdkExitsSafely` | `DpdkExitSafe` |
| `StopsDpdkBeforePowerOff` | `DpdkStopsBeforePowerOff` |
| `ReconnectsAlone` | what `reconnect` tears down is dead |
| `OutputOffFirst` | `OutputOffBeforeDisconnect` |

`ExitSafe`, for example, needs to know that a context past `DisableOutputs` has taken
the output off the registry, that the registry still held it then, that nobody can put
it back afterwards, and that at most one context ever gets past the
compare-and-exchange. `IInv` combines who holds the mutex, which contexts are where,
what the registry holds at each label of the main thread, `OutputAccounted` and its
counterpart for `dpdk_app`, and what is known once the process has ended. Lemmas say what
groups of actions leave alone, so that each conjunct is looked at only by the actions that
can disturb it.

For `OutputOffBeforeDisconnect` one more fact is needed. `reconnect` disconnects first, so
it must be known that what it disconnects is dead, although the other thread may have
made a new connection since this one's `write()` failed. `ReconnectInv` says where each
thread queries: the main thread only in its two loops, and while it measures there is no
publisher. So two queries overlap in the verify loop of CMC and VMC only, which stop the
publisher later than DTN. There the property has its exception, and `IInv` says what is
left of it: by then the output is off or the command to switch it off was lost.

### PsuTelemetryProofs (`StaleAssumption`, `BoundsAssumption`; none for TimeForwarder)

| Theorem | Property |
|---|---|
| `TypeCorrect` | `TypeOK` |
| `LockNotUsedAfterDestroy` | `NoUseAfterDestroy` |
| `CurrentReadingsAreFresh` | `CurrentIsFresh` |
| `ForwardInductive` | the invariant of the forwarder |
| `TimesGoForward` | `ForwardedInTime` |

`CurrentIsFresh` relates the sample shown to the clock, but the code reads only the time
of arrival. `IInv` carries the age along the way: a datagram in the network or in the
listener's hands is at most `MaxTransit` old, the cached sample is at most `MaxTransit`
older than its stamp, and so is the printer's copy. In between, sample and stamp do not
belong together; `LockInv` says that nobody else looks then. `StopInv` says what
the main thread has started at each of its labels.

The forwarder reads a stream of pieces, and a line is five of them. `ForwardInv` says where
the current response begins and ends in that stream: the times complete at its beginning and
at its end are the lines up to there, the unit's time lies before it, and a response not
broken begins and ends with whole lines. So the first time found in it is newer than
the unit's and than all that was complete before. Nothing bounds the stream, nor what
waits in the port.

### DtnFlickerProofs (`PacingAssumption`, `QueuesAssumption`, `TimeoutsAssumption`, `CaptureAssumption`)

| Theorem | Property |
|---|---|
| `TypeCorrect` | `TypeOK`, of the limiters |
| `RateIsKept` | `RateKept` |
| `SlotsDoNotDrift` | `NoDrift` |
| `QueuesTypeCorrect` | `QueueTypes`, of the queues |
| `QuietIsExact` | `QuietExact` |
| `LiveIsBounded` | `LiveBounded` |
| `SessionTypeCorrect` | `SessionTypeOK`, of a PTP session |
| `OffsetIsGenuine` | `OffsetGenuine` |
| `SyncIsRecent` | `SyncedIsRecent` |
| `BuffersFreedUnused` | `FreedUnused`, of a capture channel |
| `RunsKeptApart` | `ComparedWithinRun` |

`RateKept` counts the packets that left from a moment chosen freely. `Advanced(t)` says
that from the second slot after it on, the limiter's next slot has moved on by a delay for
each packet made up, from no earlier than that moment less the catch-up, and is never more
than a delay ahead of the clock. `Ring` says that what was made up has left or waits, so
what left exceeds it by no more than what waited at that moment, and that no more waits
than the batch, until a `send()` fails. The other half is `NoDrift`.

For the queues, `QueuesAssumption` only keeps the numbers below 2^64, as the code does in
any time it can run; the number of queues is free. Neither property is inductive, since
both speak of moments at which nothing is under way. `QueuesInv` says of the others that
every number sent so far is in exactly one place (`OwnInv`, `PlaceInv`); that a number
counted lies between minimum and maximum, or is in the hands of a worker that has not yet
passed the comparison it needs (`SeenInv`); that a worker past the first-packet test finds a
minimum (`FirstInv`); that a compare-and-swap only ever widens the interval
(`CompareInv`); and that a reset which finds nobody at work leaves the tracker as at the
start (`ResetInv`). `QuietExact` then is a matter of counting: the interval from minimum to
maximum falls into the numbers counted and the missing ones inside it. `LiveBounded`
follows because the interval read can only be smaller than the one at the time of
the count.

For PTP (`SessionInv`), the sequence number in an answer is only known modulo the size of the sequence space.
`SeqInv` says that it leads, in as many steps as requests were sent since, to the last
number sent; less than a whole round of steps is allowed, so an answer with the number
of the last request is its answer. `ExchangeInv` says which exchange the stored timestamps
belong to in each state, `FreshInv` and `AgeInv` how old the last Sync and the last
change of state can be, the wrapped difference included.

For the flicker detector (`CaptureInductive`: `CaptureInv`) the assumption only types the
channel and the bounds; commands, failing calls and frames are as many as one likes. What
a thread still has to do is a sequence of stages in the model. The proof speaks of places
instead: `Where(p, k, v)` says that the controlling thread is at place `k` of program `p`
and the velocity thread at place `v` of its own, which is the start, the loop, and the
stop after a failure; a handful of lemmas say where going
on, a skip and an exception lead from a place. `ThreadsInv` and `FlowInv` then say at which
places a worker or a display thread can exist, between which the flow is off, and from
which on no callback transfers any more - the second that a stop sleeps after flow off.
That is `FreedUnused`; a stop by the velocity thread keeps to it as well, and `WholeCard` and a
masked free are the exceptions left. For `ComparedWithinRun`, `SortedInv` has the frames in the order of
their runs from the reference image through worker and queue to the callback, `FrameAgeInv`
has none of them from a run to come, and `RunInv` says that while frames are compared, two
of different runs are there together only if the older was left over when the statistics
were reset. That frames are compared at all when the reset comes is the difficult case: the
ten seconds do not start anew unless the buffer was freed, which a failing call prevents.

### UnitAppsProofs (`TrafficAssumption`, `LifecycleAssumption`)

| Theorem | Property |
|---|---|
| `LossAlwaysExact` | `LossExact` |
| `FinalFiguresAlwaysExact` | `FinalFiguresExact` |
| `LifeTypeCorrect` | `TypeOK`, of AppLifecycle |
| `NothingUsedAfterFree` | `NoUseAfterFree` |

`TrafficInv` looks at the way back of one VL as a chain (`Chain`): each packet bears the
number of the one before, plus one, plus what was lost in between. The chain begins at the
number its receiver expects and ends, with what was lost after the last packet, at the number
the sender uses next (`Sent`), which between sending and committing a number is one more
than the table says. Sending, losing and receiving a packet each change it at one end or
drop a link; that the CMC's worker increments a number without the lock is harmless because
nobody else writes it until the reset begins. What the tracker of a VL that nobody has
received expects is not said, since the first packet sets it; `Begun` says which VLs have
been received. `LossExact` is then kept by every step, the reset of DTN and VMC between
two stores included: a tracker that was marked as new shows no gap. What the raw ports'
packets show is added to both sides.

Of the final figures, `AllCompared` says that what was compared is in the statistics and in
a worker's local counters together, exactly until the statistics are cleared, and with less
than one flush too many afterwards: what the local counters held then belongs to the packets
before. What is reported lost comes from somewhere else, the watermark. `Counted` says of the CMC before
the reset that expected number, watermark and count of a tracker differ by what is missing and
by the packet a worker has tracked but not counted yet, and that the sums over the VLs add
up: to the packets lost, before and after the first of a VL, and to the packets verified,
in the statistics and in the local counters. The sum over the VLs is a fold over a set;
as for the latency test, that there is such a fold and that it follows a change of
one value is shown with a least counterexample.

For AppLifecycle the program of a main thread, a concatenation of sequences, is first shown
to be a path along a fixed set of edges (`ProgramIs`: each piece is a path, and paths
whose ends are joined by an edge make a path), so that the stage after a stage is known by
its edge (`StageIs`). `LifeInv` then says at which stages each worker has been waited
for (`Past`) and what may have been freed by then (`MayBeFreed`): a worker that is alive at a stage
past its join was abandoned by a start-up that gave up, or was left unseen (`GoneInv`).
The two meet at no stage in anything the worker uses, which is the property. It takes two more
facts: an lcore worker runs as soon as it is launched, so the wait for the lcores misses none,
which the raw threads cannot claim (`LcoreInv`); and the raw PTP thread exists only
while PTP runs or stops, never in ATE mode, so that `ptpJoin`, which waits only if PTP is stopping,
misses none either (`PtpInv`). Each action is sorted into one of seven kinds of step (`StepIs`),
and each part of the invariant is shown for the kinds. There is no bound on the lcores
or on the signals.

### TestbedSetupProofs (the assumptions of ServerPower, SwitchSetup, RemoteDeploy and EmbeddedLatency)

| Theorem | Property |
|---|---|
| `ServerInUseIsUp` | `InUseIsUp`, of the server |
| `ServerHealthyNotReset` | `HealthyNotReset`, of the server |
| `SetUpIsLasting` | `SetUpHolds`, of the switch |
| `DeployedIsCurrent` | `NothingStale`, of the deployment |
| `PassedMeansTrue` | `PassedIsTrue`, of the latency test |
| `UsesItsParts` | the composition implements the four specifications |
| `SetUpIsSafe` | the four invariants, of the whole |
| `NoNeedlessReset` | `HealthyNotReset`, of the whole |

`HealthyNotReset` rests on this: as long as every query was answered, the time waited is
never more than the time the server has been at it. `SetUpHolds` rests on this: from the move
of the file on, the file is that of the unit whose set-up is going on, and a file
that was not loaded is about to be, or its reload is known to be lost. `NothingStale` says
which version of the program and of the source is where at each step. `UsesItsParts` shows
that each step of TestbedSetup is a step of each part or leaves it alone, so that what is
proved of a part carries over.

`PassedIsTrue` is about arithmetic as much as about order. No result of a measurement is
less than what the unit, the switch and the store-and-forward delay took (`Measured`): a stale
time makes it greater, never smaller. What is taken off for the switch is a mean, and the
mean of values within the limit is within the limit, and exact if they are all the same
(`TotalBounded`, `TotalEven`, `Mean`); so a failed loopback test must count in the
verdict, or the mean of a port could hide a slow unit. The sum is a fold over a set; that there is
such a fold, and what bounds it, is shown with a least counterexample in the number of
elements, which needs no induction theorem. `Fresh` says that nothing is left of an
earlier test and that a skipped loopback test has no results. `LatencyAssumption` says of the
ports that none is both fiber and copper, which the tables of the code show.

### HealthMonitorProofs (`OrdersAssumption`, `BoundsAssumption`)

| Theorem | Property |
|---|---|
| `TypeCorrect` | `TypeOK` |
| `VerdictsAreTrue` | `VerdictIsTrue` |
| `ChecksDecide` | `UndisturbedChecksDecide` |
| `ChecksAreOnTime` | `CheckedInTenthCycle` |
| `TablesAreRecent` | `ShownIsRecent` |

The main thread writes flag, counter and result of the checks one after the other, and the
monitor reads them whenever it likes. `CountInv` relates the counter to the cycles that have
ended: they differ by the one that ends between two stores of main. `RecordInv` says which
answers the record of a cycle was made of, also when a header and the payload after it come
from different FPGAs. `UndisturbedInv` says that without losses and delays each
cycle finds in the socket what its own query asked for, in one of the orders of
`OrdersAssumption`, and so ends with a complete record. `AgeInv` is about answers that come
late: the one at place `i` of the socket is read after `i - 1` others, and each cycle reads
as many as a query asks for unless the socket fails, so an answer of age `a` satisfies
`a * Expected + i + read <= (failures + 2) * Expected`. Lateness therefore does not add up
over the cycles, however many there are.

### HealthReportsProofs (`CapacityAssumption`, `SetsAssumption`)

| Theorem | Property |
|---|---|
| `TypeCorrect` | `TypeOK` |
| `CountersAddUp` | `AllAccounted` |
| `ShowsLatest` | `BoardSpec` without its fairness: `Board!Init /\ [][Board!Next]_(Board!vars)` |

`IInv` says who holds which lock and what is whole while nobody holds it: a worker with the
lock of the ring has its report at the head, and there is room for it; a slot is whole
unless it is locked, and then its first half is that of the worker's report. The counters
need no more than that: each worker stands between two of them (`Uncounted`), the CBIT packets
that are no reports make up for what is counted twice, and the ring is as long as
the distance from tail to head, for which a few lemmas about remainders are enough.

For the refinement, what the screen shows and what was accepted last are written without
the locks (`Views`). `PushEnd` then adds one report at the end of what waits, and
`LastAdded` says that it is the last of its kind and of no other; storing it at the head
(`PushBegin`) overwrites nothing that waits (`HeadIsNext`). The VMC's parser accepts when it
begins, which is possible because the dashboard cannot see the slot before the parser ends.
`DrainRing` brings the kinds up to date that waited, `PrintSlot` one kind; all other steps are
not seen. The last report of a kind exists because a set of places has a greatest
element, which is induction in the form of a least counterexample (`LeastElement`).

### StopHandoverProofs (`HandoverAssumption`, `TimeoutAssumption`)

| Theorem | Property |
|---|---|
| `TypeCorrect` | `TypeOK` |
| `GapsAreCounted` | `GapsExact` |
| `FilesAreFaithful` | `FilesFaithful` |
| `NotKilledInTime` | `KilledOnlyWhenLate` |

The handler compares numbers modulo the sequence space. `StreamInv` counts the packets
between the one handled last and the one sent last: all of them are lost or on the wire, and
so fewer than a whole round. With that, and with a lemma about remainders, the number expected
is the packet's own exactly if the packet is the next one. `OpenInv` says that the open
file has all that belongs to it up to the packet handled last, and that every file between it
and that packet's has a name that is refused; `ClosedInv` that no finished file lies ahead.
`TimeInv` says how many ticks have gone by at each label of `stopApplication`, `EndInv` how
far the main thread can be behind the end of the handover at each of its labels; at the SIGKILL
the two contradict each other if the handover ended early.

`TimeoutAssumption` was found by this proof. `mmms_check_timeout` writes its result over
whatever the RX worker made of the state in between, and a worker that was already handling a
packet then sets RECEIVING again, which undoes the timeout: the application stays in its
loop although the handover is over. With both times at 60 s, as in the code, that happens
only when the polls are about to end anyway; if the time-out were shorter by more than
the sleep before the join and a round, `KilledOnlyWhenLate` would be false.

### Model-checked only

Liveness (the fairness of `BoardSpec`, `SignalEndsProcess`,
`Resynchronises`, `ShutdownCompletes`, `QuitEnds`, `StopEnds`) is out of the prover's
reach, as are `ENABLED` and proofs by an induction theorem of the library (sums over
sets are reasoned about by least counterexamples instead). The type invariants of
modules with proofs are theorems and are not listed in the runs; `TrafficTypeOK`, whose
bounds on the numbers come from the settings of the instance, holds in its instance too
(as `INVARIANT` in the configuration).

## 5. What is not modelled

* VMC PTP: another implementation of the exchange PtpSession models.
* Contents: PRBS generation and comparison, packet building, image metrics, the values of
  readings, statistics, tables and logs. Arithmetic of the PTP offset (only which
  timestamps enter it).
* Traffic: the port-wide sums, the tracking of raw sources, the single-queue fallback of
  the raw receivers, the latency test mode, the unused token buckets.
* The variants of deployment that run a program and fetch its log; the older
  `emb_latency_run` and the combined table.
* The verify thread of the time forwarder, which `Dtn.cpp` leaves disabled.
* Flicker detection: DVI capture, loopback test, the GPU.
* The destructors that run after `main` has returned. `~TDKLambdaPSU` sends OUTP OFF
  if it is still connected; it can only switch the output off.
* `printf` and other calls that are not safe in a signal handler: a deadlock in the C
  library's locks is possible and not modelled.
* Menus, runners of child processes, RemoteConfigSender, FirmwareUpdater,
  PdfReportGenerator and configuration files: sequential, formatting, or data.

## 6. What remains

VMC PTP as a second instance of PtpSession's specification.
