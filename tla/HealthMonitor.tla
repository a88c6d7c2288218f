---------------------------- MODULE HealthMonitor ----------------------------
(***************************************************************************)
(* The health monitor of the DTN application (HealthMonitor.c) and the     *)
(* part of main that starts it, tells it that the warm-up is over and      *)
(* stops it.  Once a second the monitor's thread sends a query and         *)
(* collects six answers: two packets of the assistant FPGA, three of the   *)
(* manager FPGA, one of the MCU.  In one cycle after the warm-up it        *)
(* compares firmware versions and 28 V power status and stops the test on  *)
(* a mismatch.                                                             *)
(*                                                                         *)
(* An answer is its kind, the FPGA it is from and its age, the number of   *)
(* queries sent since its own; the monitor sees kind and, in full headers  *)
(* only, the FPGA.  Statistics, tables and the sequence number, which no   *)
(* receiver compares, are left out.                                        *)
(***************************************************************************)
EXTENDS Integers, Sequences

\* the expected status of a test that does not look at the power status
Unchecked == -1

CONSTANTS
    Versions,       \* firmware versions of an FPGA; 0 is the cleared record
    Powers,         \* values of input_power_status; 0 is the cleared record
    Units,          \* the units tested: versions, power status, expected status
    Expected,       \* HEALTH_MONITOR_EXPECTED_RESPONSES, six
    CheckCycle,     \* the cycle of the checks after the warm-up, the tenth
    Timeout,        \* HEALTH_MONITOR_RESPONSE_TIMEOUT_MS, in steps of poll
    Orders,         \* the orders in which the answers to a query arrive
    MaxAge,         \* ages from here on are not told apart
    MaxFailures     \* bound on failures of poll and recv

ASSUME CheckAssumption == CheckCycle \in Nat \ {0, 1} /\ Timeout \in Nat \ {0}
ASSUME VersionAssumption ==
    /\ Versions \subseteq Nat \ {0} /\ Powers \subseteq Nat
    /\ Units \subseteq [assistant : Versions, manager : Versions, power : Powers,
                  expected : Powers \cup {Unchecked}]
ASSUME BoundsAssumption == Expected \in Nat /\ MaxAge \in Nat \ {0} /\ MaxFailures \in Nat

VARIABLES
    main,         \* the call of main that comes next
    thread,       \* where the monitor's thread is
    quit,         \* force_quit, which is *g_stop_flag
    running,
    warmupComplete, count, fwCheckDone, powerCheckDone,
    cycle,        \* health_cycle_data of the thread
    elapsed,      \* time since the receive loop was entered
    net,          \* answers in the order of arrival, in the receive socket or
                  \* still on their way to it
    unit,         \* what the unit really has
    failures,     \* failures of poll and recv so far
    verdict,      \* history: what each check found
    since,        \* history: cycles ended since warmup_complete was set
    disturbed,    \* history: an answer was lost or late
    stoppedBy     \* history: who set force_quit

monitorVars == <<warmupComplete, count, fwCheckDone, powerCheckDone>>
netVars == <<net, disturbed>>
history == <<verdict, since, stoppedBy>>
vars == <<main, thread, quit, running, monitorVars, cycle, elapsed,
          netVars, unit, failures, history>>

MainLabels == {"start", "warmup", "resetCount", "resetFw", "resetPower", "test",
               "stop", "join", "cleanup", "done"}
Threads == {"none", "top", "receive", "fw", "power", "show", "ended"}
Kinds == {"full", "mini", "mcu"}
Fpgas == {"assistant", "manager"}
NoFpga == "none"
\* what a packet says of its source
Sources == ({"full", "mini"} \X Fpgas) \cup { <<"mcu", NoFpga>> }
\* each FPGA's first packet has a full header, and the MCU answers too
ASSUME OrdersAssumption ==
    \A order \in Orders :
        /\ order \in Seq(Sources) /\ Len(order) <= Expected
        /\ \A s \in ({"full"} \X Fpgas) \cup { <<"mcu", NoFpga>> } :
              \E i \in DOMAIN order : order[i] = s
Answers == [kind : Kinds, fpga : Fpgas \cup {NoFpga}, age : 0..MaxAge]
Cycles == [version : [Fpgas -> Versions \cup {0}], valid : SUBSET Fpgas,
           last : Fpgas \cup {NoFpga}, power : Powers \cup {0}, mcu : BOOLEAN,
           total : 0..Expected, oldest : 0..MaxAge]
Verdicts == {"none", "passed", "mismatch", "unverified"}

\* power_status_check_enabled: main told the monitor what to expect
CheckEnabled == unit.expected # Unchecked

\* memset of the cycle's record: version 0, power status 0, nothing valid
EmptyCycle == [version |-> [f \in Fpgas |-> 0], valid |-> {}, last |-> NoFpga,
               power |-> 0, mcu |-> FALSE, total |-> 0, oldest |-> 0]

Init ==
    /\ main = "start" /\ thread = "none" /\ quit = FALSE /\ running = FALSE
    /\ warmupComplete = FALSE /\ count = 0
    /\ fwCheckDone = FALSE /\ powerCheckDone = FALSE
    /\ cycle = EmptyCycle /\ elapsed = 0
    /\ net = <<>>
    /\ unit \in Units
    /\ failures = 0
    /\ verdict = [fw |-> "none", power |-> "none"]
    /\ since = 0 /\ disturbed = FALSE /\ stoppedBy = "none"

----------------------------------------------------------------------------
(* health_parse_response: the cycle's record after one more answer. *)

\* the FPGA a packet is attributed to: a full header says so itself
Target(a) == IF a.kind = "full" THEN a.fpga ELSE cycle.last

Max2(a, b) == IF a > b THEN a ELSE b

ParseMcu(a) ==
    [cycle EXCEPT !.power = unit.power, !.mcu = TRUE, !.total = @ + 1,
                  !.oldest = Max2(@, a.age)]

\* mutant: only the first full header of a cycle counts, whichever FPGA it is from
ParseFpgaOfOne(a) ==
    [cycle EXCEPT
        !.version = IF a.kind = "full" /\ cycle.valid = {}
                    THEN [@ EXCEPT ![a.fpga] = unit[a.fpga]] ELSE @,
        !.valid = IF a.kind = "full" /\ @ = {} THEN {a.fpga} ELSE @,
        !.last = Target(a), !.total = @ + 1, !.oldest = Max2(@, a.age)]

\* device information is taken from the first full header of the cycle only
ParseFpga(a) ==
    [cycle EXCEPT
        !.version = IF a.kind = "full" /\ a.fpga \notin cycle.valid
                    THEN [@ EXCEPT ![a.fpga] = unit[a.fpga]] ELSE @,
        !.valid = IF a.kind = "full" THEN @ \cup {a.fpga} ELSE @,
        !.last = Target(a), !.total = @ + 1, !.oldest = Max2(@, a.age)]

Parse(a) ==
    IF a.kind = "mcu" THEN ParseMcu(a)
    ELSE IF Target(a) = NoFpga THEN cycle     \* a mini header first: ignored
    ELSE ParseFpga(a)

----------------------------------------------------------------------------
(* The monitor's thread. *)

\* while (!(*g_stop_flag) && state->running)
ThreadEnds ==
    /\ thread = "top" /\ (quit \/ ~running)
    /\ thread' = "ended"
    /\ UNCHANGED <<main, quit, running, monitorVars, cycle, elapsed,
                   netVars, unit, failures, history>>

\* a new cycle: the query goes out and the unit answers
SendQuery ==
    /\ thread = "top" /\ ~quit /\ running
    /\ thread' = "receive"
    /\ \E order \in Orders :
          net' = net \o [i \in 1..Len(order) |->
                           [kind |-> order[i][1], fpga |-> order[i][2], age |-> 0]]
    /\ UNCHANGED <<main, quit, running, monitorVars, cycle, elapsed, unit,
                   failures, disturbed, history>>

\* sendto failed: 100 ms later the loop starts again, and nothing is counted
SendFails ==
    /\ thread = "top" /\ ~quit /\ running
    /\ UNCHANGED <<main, thread, quit, running, monitorVars, cycle, elapsed,
                   netVars, unit, failures, history>>

\* mutant: the loop ends one answer early
IncompleteOffByOne == cycle.total < Expected - 1 /\ elapsed < Timeout

\* the condition of the receive loop and the test of its time-out
Incomplete == cycle.total < Expected /\ elapsed < Timeout

Collecting == thread = "receive" /\ Incomplete

ReceiveAnswer ==
    /\ Collecting /\ net # <<>>
    /\ cycle' = Parse(Head(net))
    /\ net' = Tail(net)
    /\ UNCHANGED <<main, thread, quit, running, monitorVars, elapsed,
                   unit, failures, disturbed, history>>

\* mutant: every packet restarts the time-out
ReceiveForeignRestarts ==
    /\ Collecting
    /\ elapsed' = 0
    /\ UNCHANGED <<main, thread, quit, running, monitorVars, cycle,
                   netVars, unit, failures, history>>

\* a packet that is not a health answer, or an interrupted poll: the loop goes on
ReceiveForeign ==
    /\ Collecting
    /\ elapsed' = elapsed
    /\ UNCHANGED <<main, thread, quit, running, monitorVars, cycle,
                   netVars, unit, failures, history>>

\* poll or recv fails: the loop is left early
ReceiveFails ==
    /\ Collecting /\ failures < MaxFailures
    /\ thread' = "fw"
    /\ failures' = failures + 1 /\ disturbed' = TRUE
    /\ UNCHANGED <<main, quit, running, monitorVars, cycle, elapsed,
                   net, unit, history>>

\* The four stores of health_monitor_set_warmup_complete take no time worth
\* mentioning: nobody sleeps or polls through them.
Notifying == main \in {"resetCount", "resetFw", "resetPower"}

\* answers to earlier queries are in the socket already
LeftOver == net # <<>> /\ Head(net).age > 0

\* poll waits with nothing to read
PollWaits ==
    /\ Collecting /\ ~LeftOver /\ ~Notifying
    /\ elapsed' = elapsed + 1
    /\ UNCHANGED <<main, thread, quit, running, monitorVars, cycle,
                   netVars, unit, failures, history>>

\* six answers counted, or 500 ms over; answers still under way are late
CollectionEnds ==
    /\ thread = "receive" /\ ~Incomplete
    /\ thread' = "fw"
    /\ disturbed' = (disturbed \/ (elapsed = Timeout /\ net # <<>>))
    /\ UNCHANGED <<main, quit, running, monitorVars, cycle, elapsed,
                   net, unit, failures, history>>

FwVerdict ==
    IF cycle.valid # Fpgas THEN "unverified"
    ELSE IF cycle.version["assistant"] = cycle.version["manager"] THEN "passed"
    ELSE "mismatch"

\* mutant: the MCU's record is compared without looking whether there was one
PowerVerdictUnchecked ==
    IF cycle.power = unit.expected THEN "passed" ELSE "mismatch"

PowerVerdict ==
    IF ~cycle.mcu THEN "unverified"
    ELSE IF cycle.power = unit.expected THEN "passed"
    ELSE "mismatch"

StopOn(v) == /\ quit' = (quit \/ v = "mismatch")
             /\ stoppedBy' = IF ~quit /\ v = "mismatch" THEN "monitor" ELSE stoppedBy

\* mutant: only complete cycles are counted
FwCheckCompleteOnly ==
    /\ thread = "fw" /\ thread' = "power"
    /\ IF ~warmupComplete \/ fwCheckDone \/ cycle.total < Expected
       THEN UNCHANGED <<quit, count, fwCheckDone, verdict, stoppedBy>>
       ELSE /\ count' = count + 1
            /\ IF count' < CheckCycle
               THEN UNCHANGED <<quit, fwCheckDone, verdict, stoppedBy>>
               ELSE /\ fwCheckDone' = TRUE
                    /\ verdict' = [verdict EXCEPT !.fw = FwVerdict]
                    /\ StopOn(FwVerdict)
    /\ since' = IF warmupComplete /\ verdict.fw = "none" THEN since + 1 ELSE since
    /\ UNCHANGED <<main, running, warmupComplete, powerCheckDone, cycle, elapsed, netVars, unit, failures>>

\* one more cycle since the warm-up; in the tenth the versions are compared
FwCheck ==
    /\ thread = "fw" /\ thread' = "power"
    /\ IF ~warmupComplete \/ fwCheckDone
       THEN UNCHANGED <<quit, count, fwCheckDone, verdict, stoppedBy>>
       ELSE /\ count' = count + 1
            /\ IF count' < CheckCycle
               THEN UNCHANGED <<quit, fwCheckDone, verdict, stoppedBy>>
               ELSE /\ fwCheckDone' = TRUE
                    /\ verdict' = [verdict EXCEPT !.fw = FwVerdict]
                    /\ StopOn(FwVerdict)
    /\ since' = IF warmupComplete /\ verdict.fw = "none" THEN since + 1 ELSE since
    /\ UNCHANGED <<main, running, warmupComplete, powerCheckDone, cycle, elapsed, netVars, unit, failures>>

\* the power status is compared in the same cycle
PowerCheck ==
    /\ thread = "power" /\ thread' = "show"
    /\ IF warmupComplete /\ CheckEnabled /\ ~powerCheckDone /\ count >= CheckCycle
       THEN /\ powerCheckDone' = TRUE
            /\ verdict' = [verdict EXCEPT !.power = PowerVerdict]
            /\ StopOn(PowerVerdict)
       ELSE UNCHANGED <<quit, powerCheckDone, verdict, stoppedBy>>
    /\ UNCHANGED <<main, running, warmupComplete, count, fwCheckDone, cycle, elapsed, netVars, unit, failures, since>>

\* tables, statistics and the wait for the next second; the record is cleared at
\* the top of the loop, before anything looks at it again
ShowAndSleep ==
    /\ thread = "show" /\ ~Notifying
    /\ thread' = "top"
    /\ net' = [i \in DOMAIN net |-> [net[i] EXCEPT !.age = IF @ < MaxAge THEN @ + 1 ELSE @]]
    /\ cycle' = EmptyCycle /\ elapsed' = 0
    /\ UNCHANGED <<main, quit, running, monitorVars, unit, failures,
                   disturbed, history>>

ThreadStep ==
    \/ ThreadEnds \/ SendQuery \/ SendFails \/ ReceiveAnswer \/ ReceiveFails
    \/ PollWaits \/ CollectionEnds \/ FwCheck \/ PowerCheck \/ ShowAndSleep

----------------------------------------------------------------------------
(* The main thread of dpdk_app. *)

MainTo(from, to) == main = from /\ main' = to

\* init_health_monitor, the expected status, start_health_monitor
StartMonitor ==
    /\ MainTo("start", "warmup")
    /\ running' = TRUE /\ thread' = "top"
    /\ UNCHANGED <<quit, monitorVars, cycle, elapsed, netVars, unit,
                   failures, history>>

\* one of the two fails: a warning, and the test goes on without the monitor
StartFails ==
    /\ MainTo("start", "warmup")
    /\ UNCHANGED <<thread, quit, running, monitorVars, cycle, elapsed,
                   netVars, unit, failures, history>>

\* the 120th round of the main loop: the warm-up is over
SetWarmupComplete ==
    /\ MainTo("warmup", "resetCount")
    /\ running
    /\ warmupComplete' = TRUE
    /\ UNCHANGED <<thread, quit, running, count, fwCheckDone, powerCheckDone,
                   cycle, elapsed, netVars, unit, failures, history>>

ResetCount ==
    /\ MainTo("resetCount", "resetFw")
    /\ count' = 0
    /\ UNCHANGED <<thread, quit, running, warmupComplete, fwCheckDone, powerCheckDone,
                   cycle, elapsed, netVars, unit, failures, history>>

ResetChecks ==
    \/ /\ MainTo("resetFw", "resetPower")
       /\ fwCheckDone' = FALSE
       /\ UNCHANGED <<thread, quit, running, warmupComplete, count, powerCheckDone,
                      cycle, elapsed, netVars, unit, failures, history>>
    \/ /\ MainTo("resetPower", "test")
       /\ powerCheckDone' = FALSE
       /\ UNCHANGED <<thread, quit, running, warmupComplete, count, fwCheckDone,
                      cycle, elapsed, netVars, unit, failures, history>>

WarmupWithoutMonitor ==
    /\ MainTo("warmup", "test")
    /\ ~running
    /\ UNCHANGED <<thread, quit, running, monitorVars, cycle, elapsed,
                   netVars, unit, failures, history>>

LeaveLoop ==
    /\ main \in {"warmup", "test"} /\ quit
    /\ main' = IF running THEN "stop" ELSE "cleanup"
    /\ UNCHANGED <<thread, quit, running, monitorVars, cycle, elapsed,
                   netVars, unit, failures, history>>

StopMonitor ==
    /\ MainTo("stop", "join")
    /\ running' = FALSE
    /\ UNCHANGED <<thread, quit, monitorVars, cycle, elapsed, netVars,
                   unit, failures, history>>

JoinThread ==
    /\ MainTo("join", "cleanup")
    /\ thread = "ended"
    /\ UNCHANGED <<thread, quit, running, monitorVars, cycle, elapsed,
                   netVars, unit, failures, history>>

\* the sockets are closed: whatever is in them is gone
CleanupMonitor ==
    /\ MainTo("cleanup", "done")
    /\ net' = <<>>
    /\ UNCHANGED <<thread, quit, running, monitorVars, cycle, elapsed,
                   unit, failures, disturbed, history>>

MainStep ==
    \/ StartMonitor \/ StartFails \/ SetWarmupComplete \/ ResetCount \/ ResetChecks
    \/ WarmupWithoutMonitor \/ LeaveLoop \/ StopMonitor \/ JoinThread \/ CleanupMonitor

----------------------------------------------------------------------------
(* The operator and the network.  An answer takes less than a second or is lost: *)
(* when the next query goes out, those to the ones before are in the socket.     *)

Interrupt ==
    /\ main # "done" /\ ~quit
    /\ quit' = TRUE /\ stoppedBy' = "operator"
    /\ UNCHANGED <<main, thread, running, monitorVars, cycle, elapsed,
                   netVars, unit, failures, verdict, since>>

\* the answer that would be next is lost on the way
Lose ==
    /\ thread = "receive" /\ main # "done" /\ net # <<>>
    /\ net' = Tail(net) /\ disturbed' = TRUE
    /\ UNCHANGED <<main, thread, quit, running, monitorVars, cycle,
                   elapsed, unit, failures, history>>

Next == ThreadStep \/ ReceiveForeign \/ MainStep \/ Interrupt \/ Lose

\* The thread's calls return, time passes while it waits, and main goes on.
Fairness == WF_vars(ThreadStep) /\ WF_vars(MainStep)

Spec == Init /\ [][Next]_vars /\ Fairness

----------------------------------------------------------------------------
(* Properties. *)

\* Types, and only answers of the last queries in the socket.
TypeOK ==
    /\ main \in MainLabels /\ thread \in Threads
    /\ quit \in BOOLEAN /\ running \in BOOLEAN /\ disturbed \in BOOLEAN
    /\ warmupComplete \in BOOLEAN
    /\ fwCheckDone \in BOOLEAN /\ powerCheckDone \in BOOLEAN
    /\ count \in 0..CheckCycle /\ since \in 0..CheckCycle + 1
    /\ cycle \in Cycles
    /\ elapsed \in 0..Timeout /\ failures \in 0..MaxFailures
    /\ net \in Seq(Answers)
    /\ unit \in Units
    /\ verdict \in [fw : Verdicts, power : Verdicts]
    /\ stoppedBy \in {"none", "operator", "monitor"}

\* Whatever is lost, late or attributed to the wrong FPGA, the monitor stops the
\* test of a unit only if its firmware versions differ or its power status is not
\* the expected one, and a check reports PASSED only if they agree
\* (HealthMonitor.c:663-736).
VerdictIsTrue ==
    /\ stoppedBy = "monitor" => \/ unit.assistant # unit.manager
                                \/ CheckEnabled /\ unit.power # unit.expected
    /\ verdict.fw = "passed" => unit.assistant = unit.manager
    /\ verdict.power = "passed" => unit.power = unit.expected

\* The checks are made once, in one cycle.  As long as no answer was lost or late and
\* the socket did not fail, they do come to a verdict, in whatever order the
\* answers of the three sources come in.
UndisturbedChecksDecide ==
    ~disturbed => verdict.fw # "unverified" /\ verdict.power # "unverified"

\* The check is made in the tenth cycle after the notification; in the eleventh if
\* the thread had counted one between two of main's unlocked stores.  It is neither
\* skipped nor made twice, and the power check comes with it.
CheckedInTenthCycle ==
    /\ verdict.fw = "none" => since <= CheckCycle
    /\ verdict.fw # "none" => since \in {CheckCycle, CheckCycle + 1}
    /\ thread \in {"top", "receive"} /\ verdict.fw # "none" /\ CheckEnabled
          => verdict.power # "none"

\* A late answer stays in the socket, is taken for an answer to the next query and
\* pushes the others back, for good.  But late answers do not add up: with
\* answers that take less than a second, what a table shows belongs to its own
\* query or to the one before, plus one for each failure of the socket.
ShownIsRecent == thread = "show" => cycle.oldest <= 1 + failures

\* Once force_quit is set, by a check or by the operator, the application gets
\* through the stop of the monitor, however much other traffic the socket sees.
QuitEnds == quit ~> main = "done"
=============================================================================
