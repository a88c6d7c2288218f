---------------------------- MODULE PsuTelemetry ----------------------------
(***************************************************************************)
(* The power readings on their way to the operator's screen: the publisher *)
(* thread of MainSoftware, UDP, and in the DPDK application the listener   *)
(* thread, the cache behind a spinlock, the thread that prints the table   *)
(* and the main thread that starts and stops them.                         *)
(*                                                                         *)
(* The receiver exists three times.  In DTN the health monitor's thread    *)
(* prints, and is started before the receiver is initialised; in CMC and   *)
(* VMC the main loop prints.                                               *)
(*                                                                         *)
(* A sample is its sequence number; age tells how long ago it was taken.   *)
(* The readings themselves are left out.                                   *)
(***************************************************************************)
EXTENDS Naturals

CONSTANTS
  StaleAfter,  \* PSU_TELEM_STALE_NS, in clock units
  MaxTransit,  \* bound: clock units from taking a sample to stamping its arrival
  MaxSeq       \* bound: samples taken

ASSUME StaleAssumption == StaleAfter \in Nat \ {0}
ASSUME BoundsAssumption == MaxTransit \in Nat /\ MaxSeq \in Nat \ {0}

VARIABLES
  app,        \* whose receiver it is: "DTN", or "CMC" for CMC and VMC
  main,       \* what the main thread is about to do
  forceQuit,  \* force_quit
  lock,       \* g_state.lock: "zeroed", "free", "destroyed" or its holder
  socket,     \* g_state.sockfd >= 0
  listener,   \* where listener_thread_func is
  held,       \* the datagram it has received
  printer,    \* where psu_telem_print_table is; "off" when its thread does not run
  cache,      \* cached_pkt, 0 without has_data
  lastRx,     \* age of last_rx_mono_ns
  snap, snapRx,  \* the printer's copies
  shown,      \* the last table: "nothing", "nodata", "stale" or "current"
  shownSeq,   \* the sequence number in it
  seq,        \* m_seq of the publisher
  net,        \* datagrams on their way
  age         \* how long ago each sample was taken

ctlVars == <<app, main, forceQuit, socket>>
listenerVars == <<listener, held, cache, lastRx>>
printerVars == <<printer, snap, snapRx, shown, shownSeq>>
pubVars == <<seq, net, age>>
vars == <<ctlVars, lock, listenerVars, printerVars, pubVars>>

Seqs == 1..MaxSeq
NoSample == 0

\* Ages beyond what any property asks for are not told apart.
MaxAge == StaleAfter + MaxTransit + 1

MainLabels == {"health", "init", "start", "loop", "stopHealth", "stop", "join", "done"}
ListenerLabels == {"off", "test", "recv", "lock", "write", "stamp"}
PrinterLabels == {"off", "idle", "lock", "copy", "stamp", "now"}

TypeOK ==
  /\ app \in {"DTN", "CMC"}
  /\ main \in MainLabels
  /\ forceQuit \in BOOLEAN
  /\ lock \in {"zeroed", "free", "destroyed", "listener", "printer"}
  /\ socket \in BOOLEAN
  /\ listener \in ListenerLabels
  /\ held \in Seqs \cup {NoSample}
  /\ printer \in PrinterLabels
  /\ cache \in Seqs \cup {NoSample}
  /\ lastRx \in 0..MaxAge
  /\ snap \in Seqs \cup {NoSample}
  /\ snapRx \in 0..MaxAge
  /\ shown \in {"nothing", "nodata", "stale", "current"}
  /\ shownSeq \in Seqs \cup {NoSample}
  /\ seq \in 0..MaxSeq
  /\ net \subseteq Seqs
  /\ age \in [Seqs -> 0..MaxAge]

\* g_state is static: its lock is all zeros until psu_telem_init.
Init ==
  /\ app \in {"DTN", "CMC"}
  /\ main = IF app = "DTN" THEN "health" ELSE "init"
  /\ forceQuit = FALSE
  /\ lock = "zeroed" /\ socket = FALSE
  /\ listener = "off" /\ held = NoSample
  /\ printer = IF app = "DTN" THEN "off" ELSE "idle"
  /\ cache = NoSample /\ lastRx = MaxAge
  /\ snap = NoSample /\ snapRx = MaxAge
  /\ shown = "nothing" /\ shownSeq = NoSample
  /\ seq = 0
  /\ net = {}
  /\ age = [s \in Seqs |-> MaxAge]

----------------------------------------------------------------------------
(* The publisher: PsuTelemetryPublisher::run, one tick at a time.          *)

\* Take the next sample, numbered from 1.
TakeSample ==
  /\ seq < MaxSeq
  /\ seq' = seq + 1
  /\ age' = [age EXCEPT ![seq + 1] = 0]
  /\ UNCHANGED <<ctlVars, lock, listenerVars, printerVars>>

Publish == TakeSample /\ net' = net \cup {seq + 1}

\* sendto fails, now or, when the socket could not be opened anew after an earlier
\* failure, for good: nothing says that Publish ever happens again.
PublishFails == TakeSample /\ UNCHANGED net

----------------------------------------------------------------------------
(* The listener thread.                                                    *)

KeepOthers == UNCHANGED <<ctlVars, printerVars, seq, age>>

\* self_quit, which psu_telem_stop sets before it joins, or force_quit.
Quit == forceQuit \/ main = "join"

\* Mutant: the loop of the thread tests nothing.
ListenerTestNothing ==
  /\ listener = "test"
  /\ listener' = "recv"
  /\ KeepOthers /\ UNCHANGED <<lock, held, cache, lastRx, net>>

ListenerTest ==
  /\ listener = "test"
  /\ listener' = IF Quit THEN "off" ELSE "recv"
  /\ KeepOthers /\ UNCHANGED <<lock, held, cache, lastRx, net>>

\* The time-out of recvfrom, or a datagram of another size, magic or version.
ReceiveNothing ==
  /\ listener = "recv"
  /\ listener' = "test"
  /\ KeepOthers /\ UNCHANGED <<lock, held, cache, lastRx, net>>

\* Any other error of recvfrom ends the thread.
ReceiveFails ==
  /\ listener = "recv"
  /\ listener' = "off"
  /\ KeepOthers /\ UNCHANGED <<lock, held, cache, lastRx, net>>

\* The network may deliver a datagram twice.
Receive ==
  /\ listener = "recv"
  /\ \E s \in net : held' = s /\ net' \in {net, net \ {s}}
  /\ listener' = "lock"
  /\ KeepOthers /\ UNCHANGED <<lock, cache, lastRx>>

ListenerLock ==
  /\ listener = "lock" /\ lock = "free"
  /\ lock' = "listener"
  /\ listener' = "write"
  /\ KeepOthers /\ UNCHANGED <<held, cache, lastRx, net>>

ListenerWrite ==
  /\ listener = "write"
  /\ cache' = held
  /\ listener' = "stamp"
  /\ KeepOthers /\ UNCHANGED <<lock, held, lastRx, net>>

ListenerStamp ==
  /\ listener = "stamp"
  /\ lastRx' = 0
  /\ lock' = "free"
  /\ held' = NoSample
  /\ listener' = "test"
  /\ KeepOthers /\ UNCHANGED <<cache, net>>

ListenerStep ==
  \/ ListenerTest \/ ReceiveNothing \/ ReceiveFails \/ Receive
  \/ ListenerLock \/ ListenerWrite \/ ListenerStamp

----------------------------------------------------------------------------
(* psu_telem_print_table, in the health monitor's thread or the main loop. *)

KeepRest == UNCHANGED <<ctlVars, listenerVars, pubVars>>

\* What the loop that prints tests before each round.
PrinterQuit == forceQuit \/ main = "stopHealth"

\* The health monitor's thread prints once a cycle, also before the main thread gets
\* to its loop; the main loop prints once a second.
PrintBegin ==
  /\ printer = "idle" /\ ~PrinterQuit
  /\ app = "CMC" => main = "loop"
  /\ printer' = "lock"
  /\ KeepRest /\ UNCHANGED <<lock, snap, snapRx, shown, shownSeq>>

\* Mutant: the cache is read without the lock.
PrinterNoLock ==
  /\ printer = "lock"
  /\ printer' = "copy"
  /\ KeepRest /\ UNCHANGED <<lock, snap, snapRx, shown, shownSeq>>

\* glibc on x86-64, for which this is built, spins on a zeroed spinlock as if it were
\* held: 1 stands for free.
PrinterLock ==
  /\ printer = "lock" /\ lock = "free"
  /\ lock' = "printer"
  /\ printer' = "copy"
  /\ KeepRest /\ UNCHANGED <<snap, snapRx, shown, shownSeq>>

PrinterCopy ==
  /\ printer = "copy"
  /\ snap' = cache
  /\ printer' = "stamp"
  /\ KeepRest /\ UNCHANGED <<lock, snapRx, shown, shownSeq>>

PrinterStamp ==
  /\ printer = "stamp"
  /\ snapRx' = lastRx
  /\ lock' = "free"
  /\ printer' = "now"
  /\ KeepRest /\ UNCHANGED <<snap, shown, shownSeq>>

\* The clock is read after the lock is released.
Show ==
  /\ printer = "now"
  /\ shown' = IF snap = NoSample THEN "nodata"
              ELSE IF snapRx > StaleAfter THEN "stale" ELSE "current"
  /\ shownSeq' = snap
  /\ printer' = "idle"
  /\ KeepRest /\ UNCHANGED <<lock, snap, snapRx>>

\* The health monitor's thread leaves its loop.
HealthThreadEnds ==
  /\ app = "DTN" /\ printer = "idle" /\ PrinterQuit
  /\ printer' = "off"
  /\ KeepRest /\ UNCHANGED <<lock, snap, snapRx, shown, shownSeq>>

PrinterStep ==
  \/ PrintBegin \/ PrinterLock \/ PrinterCopy \/ PrinterStamp \/ Show \/ HealthThreadEnds

----------------------------------------------------------------------------
(* The main thread.                                                        *)

Goto(from, to) == main = from /\ main' = to

KeepThreads == UNCHANGED <<printerVars, pubVars, app, forceQuit>>

\* init_health_monitor and start_health_monitor; either may fail.
StartHealth ==
  /\ Goto("health", "init")
  /\ printer' \in {"off", "idle"}
  /\ UNCHANGED <<app, forceQuit, socket, lock, listenerVars, snap, snapRx, shown,
                 shownSeq, pubVars>>

TelemInit ==
  /\ Goto("init", "start")
  /\ socket' = TRUE /\ lock' = "free"
  /\ KeepThreads /\ UNCHANGED listenerVars

\* socket() or bind() fails: the lock is not initialised.
TelemInitFails ==
  /\ Goto("init", "loop")
  /\ KeepThreads /\ UNCHANGED <<socket, lock, listenerVars>>

TelemStart ==
  /\ Goto("start", "loop")
  /\ listener' \in {"off", "test"}
  /\ KeepThreads /\ UNCHANGED <<socket, lock, held, cache, lastRx>>

\* Mutant: the telemetry is stopped before the health monitor.
LeaveLoopToStop ==
  /\ Goto("loop", "stop")
  /\ forceQuit /\ (app = "CMC" => printer = "idle")
  /\ KeepThreads /\ UNCHANGED <<socket, lock, listenerVars>>

LeaveLoop ==
  /\ Goto("loop", "stopHealth")
  /\ forceQuit /\ (app = "CMC" => printer = "idle")
  /\ KeepThreads /\ UNCHANGED <<socket, lock, listenerVars>>

\* stop_health_monitor joins the thread; CMC and VMC have none.
StopHealth ==
  /\ Goto("stopHealth", "stop")
  /\ app = "DTN" => printer = "off"
  /\ KeepThreads /\ UNCHANGED <<socket, lock, listenerVars>>

\* psu_telem_stop returns at once when there was no psu_telem_init.
TelemStopNothing ==
  /\ Goto("stop", "done")
  /\ ~socket
  /\ KeepThreads /\ UNCHANGED <<socket, lock, listenerVars>>

TelemStopBegin ==
  /\ Goto("stop", "join")
  /\ socket
  /\ KeepThreads /\ UNCHANGED <<socket, lock, listenerVars>>

TelemStopEnd ==
  /\ Goto("join", "done")
  /\ listener = "off"
  /\ socket' = FALSE /\ lock' = "destroyed"
  /\ KeepThreads /\ UNCHANGED listenerVars

MainStep ==
  \/ StartHealth \/ TelemInit \/ TelemInitFails \/ TelemStart \/ LeaveLoop
  \/ StopHealth \/ TelemStopNothing \/ TelemStopBegin \/ TelemStopEnd

\* A signal, or a check of the health monitor that failed.
SetForceQuit ==
  /\ ~forceQuit
  /\ forceQuit' = TRUE
  /\ UNCHANGED <<app, main, socket, lock, listenerVars, printerVars, pubVars>>

----------------------------------------------------------------------------
(* Time and the network.                                                   *)

Older(a) == IF a < MaxAge THEN a + 1 ELSE a

\* A datagram that is not lost arrives, and is stamped, within MaxTransit.
Elapse ==
  /\ \A s \in net \cup ({held} \ {NoSample}) : age[s] < MaxTransit
  /\ age' = [s \in Seqs |-> Older(age[s])]
  /\ lastRx' = Older(lastRx) /\ snapRx' = Older(snapRx)
  /\ UNCHANGED <<ctlVars, lock, listener, held, cache, printer, snap, shown, shownSeq,
                 seq, net>>

Lose ==
  /\ \E s \in net : net' = net \ {s}
  /\ UNCHANGED <<ctlVars, lock, listenerVars, printerVars, seq, age>>

Next ==
  \/ Publish \/ PublishFails
  \/ ListenerStep
  \/ PrinterStep
  \/ MainStep
  \/ SetForceQuit
  \/ Elapse
  \/ Lose

\* The three threads of the DPDK application run; nothing is assumed of the rest.
Spec ==
  /\ Init /\ [][Next]_vars
  /\ WF_vars(ListenerStep) /\ WF_vars(PrinterStep) /\ WF_vars(MainStep)

----------------------------------------------------------------------------
(* Properties.                                                             *)

\* What the operator sees as a current reading was taken at most StaleAfter and the
\* longest transit ago, although datagrams are lost, doubled and overtake each other,
\* the publisher stops for good, and the threads interleave between the copies of the
\* sample and of its time stamp (psu_telem_print_table, listener_thread_func).
CurrentIsFresh ==
  [][shown' = "current" /\ printer = "now" /\ printer' = "idle"
       => age[shownSeq'] <= StaleAfter + MaxTransit]_vars

\* No thread is in, or will come to, a critical section of a destroyed lock: the main
\* thread has stopped both users before psu_telem_stop destroys it.
NoUseAfterDestroy ==
  lock = "destroyed" =>
    /\ listener = "off"
    /\ printer \in {"off", "idle"} /\ (app = "DTN" => printer = "off")

\* Once asked to quit the application gets through its shutdown, whatever the
\* datagrams do and wherever its threads are, provided psu_telem_init succeeded.
ShutdownCompletes == (forceQuit /\ socket) ~> (main = "done")

=============================================================================
