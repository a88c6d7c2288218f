----------------------------- MODULE StopHandover -----------------------------
(***************************************************************************)
(* How a CMC test is stopped: SSHDeployer::stopApplication of MainSoftware *)
(* (SIGTERM, polls, SIGKILL), the two-stage signal handler and main loop   *)
(* of dpdk_cmc, and the handover that the first signal begins: the trigger *)
(* packet, the unit's answer (its files as a numbered stream of packets),  *)
(* mmms_handle_packet on the RX worker, the timeout on the main thread.    *)
(*                                                                         *)
(* One tick of the clock stands for 15 seconds: MMMS_FIRST_PACKET_TIMEOUT  *)
(* and max_wait_seconds are 4 ticks, the sleep before the workers are      *)
(* joined is 1.  The main loop and the polls run at least once in a tick.  *)
(***************************************************************************)
EXTENDS Integers, Sequences, Functions

CONSTANTS
  Files,         \* the files of the unit: 1 .. Files
  Parts,         \* content packets of each
  Wrap,          \* highest sequence number on the wire (255)
  FirstTimeout,  \* MMMS_FIRST_PACKET_TIMEOUT_S
  Drain,         \* sleep before the workers are joined
  Polls,         \* max_wait_seconds
  MaxLost,       \* bound: packets the network loses
  MaxFailures    \* bound: failing calls (ssh, TX, fopen, fwrite) and further signals

ASSUME HandoverAssumption ==
  /\ {Files, Parts, FirstTimeout, Drain, Polls} \subseteq Nat \ {0}
  /\ Wrap \in Nat \ {0, 1} /\ MaxLost \in 0 .. Wrap - 1
  /\ MaxFailures \in Nat

\* Both are 60 s in the code.  A packet that is being handled when the time is up
\* undoes the timeout, which is of no consequence as long as the application is then
\* killed anyway.
ASSUME TimeoutAssumption == FirstTimeout >= Polls - Drain - 1

VARIABLES
  dep,        \* stopApplication: where it is, and its polls so far
  app,        \* "runs", "exited" or "killed"
  quiet,      \* stop_normal_tx
  quit,       \* force_quit
  main,       \* the main thread of dpdk_cmc, and how long it has been there
  state,      \* g_state
  rx,         \* the RX worker, the packet it holds and the state it looked at
  sent,       \* packets the unit has sent (0 before the trigger came)
  triggered,  \* the trigger is on the wire
  wire,       \* the packet on the way back, if any
  current,    \* g_current_file, or 0
  expected,   \* g_expected_seq, or 0 before the first packet
  corrupted,  \* g_corrupted_seq
  disk,       \* what was written to each file
  ticks,      \* the clock: since SIGTERM, since the trigger
  budget,     \* losses and failures so far, for the bounds
  refused,    \* files whose names mmms_handle_start refuses
  hist        \* history, see HistInit

vars == <<dep, app, quiet, quit, main, state, rx, sent, triggered, wire, current, expected,
          corrupted, disk, ticks, budget, refused, hist>>
sigVars == <<quiet, quit>>
unitVars == <<sent, triggered, wire, refused>>
fileVars == <<current, expected, corrupted, disk>>

AllFiles == 1 .. Files
NoFile == 0
Horizon == Polls + 1

-----------------------------------------------------------------------------
(* The unit's stream: "start" with a name, the contents, and "finish-smmm" *)
(* after the last file.                                                    *)

PerFile == Parts + 1
StreamLength == Files * PerFile + 1
FileOf(i) == ((i - 1) \div PerFile) + 1
KindOf(i) == IF i = StreamLength THEN "finish" ELSE IF (i - 1) % PerFile = 0 THEN "start" ELSE "content"
SeqNo(i) == ((i - 1) % Wrap) + 1

\* finished: files closed by a "start" or "finish"; last: the packet handled
\* last; gaps: packets handled that do not follow the one before; short: a
\* write failed; sshFailed: an ssh call failed; over: the tick in which the
\* handover ended for the first time (finish, timeout, no trigger, second signal).
Histories == [finished : SUBSET AllFiles, last : 0 .. StreamLength, gaps : Nat, short : BOOLEAN,
              sshFailed : BOOLEAN, over : -1 .. Horizon]
HistInit == [finished |-> {}, last |-> 0, gaps |-> 0, short |-> FALSE, sshFailed |-> FALSE, over |-> -1]
Over == [hist EXCEPT !.over = IF @ = -1 THEN ticks.stop ELSE @]

Init ==
  /\ dep = [at |-> "idle", polls |-> 0] /\ app = "runs"
  /\ quiet = FALSE /\ quit = FALSE
  /\ main = [at |-> "loop", ticks |-> 0] /\ state = "idle"
  /\ rx = [at |-> "poll", pkt |-> 0, seen |-> "idle"]
  /\ sent = 0 /\ triggered = FALSE /\ wire = 0
  /\ current = NoFile /\ expected = 0 /\ corrupted = 0
  /\ disk = [f \in AllFiles |-> <<>>]
  /\ ticks = [stop |-> 0, armed |-> 0]
  /\ budget = [lost |-> 0, failed |-> 0]
  /\ refused \in SUBSET AllFiles
  /\ hist = HistInit

Alive == app = "runs"
MayFail == budget.failed < MaxFailures
Failed == budget' = [budget EXCEPT !.failed = @ + 1]
SshFails == MayFail /\ Failed /\ hist' = [hist EXCEPT !.sshFailed = TRUE]

-----------------------------------------------------------------------------
(* SIGTERM and SIGINT: the first one asks for the handover, the second one *)
(* ends the application at once.                                           *)

Signal ==
  IF quiet THEN quit' = TRUE /\ hist' = Over /\ UNCHANGED quiet
  ELSE quiet' = TRUE /\ UNCHANGED <<quit, hist>>

\* A second stop request comes in while the first one waits.
SecondSignal ==
  /\ Alive /\ dep.at = "wait" /\ MayFail /\ Failed
  /\ Signal
  /\ UNCHANGED <<dep, app, main, state, rx, ticks>> /\ UNCHANGED unitVars /\ UNCHANGED fileVars

-----------------------------------------------------------------------------
(* stopApplication.                                                        *)

DepTo(l) == dep' = [dep EXCEPT !.at = l]
RestOfDep == UNCHANGED <<main, state, rx, ticks>> /\ UNCHANGED unitVars

\* pkill -TERM, whose result nobody looks at.
SendTerm ==
  /\ dep.at = "idle" /\ DepTo("wait")
  /\ \/ Alive /\ Signal /\ UNCHANGED budget
     \/ SshFails /\ UNCHANGED sigVars
  /\ UNCHANGED app /\ UNCHANGED fileVars /\ RestOfDep

\* isApplicationRunning: when the ssh call fails, its output does not say
\* PROC_FOUND, and the application counts as stopped.
AsksRunning(running, stopped) ==
  \/ Alive /\ running /\ UNCHANGED <<budget, hist>>
  \/ ~Alive /\ stopped /\ UNCHANGED <<budget, hist>>
  \/ SshFails /\ stopped

\* Mutant: a poll that finds the application alive does not count.
PollUncounted ==
  /\ dep.at = "poll"
  /\ AsksRunning(DepTo("wait"), DepTo("stopped"))
  /\ UNCHANGED app /\ UNCHANGED sigVars /\ UNCHANGED fileVars /\ RestOfDep

Poll ==
  /\ dep.at = "poll"
  /\ AsksRunning(dep' = [at |-> IF dep.polls + 1 < Polls THEN "wait" ELSE "kill",
                         polls |-> dep.polls + 1], DepTo("stopped"))
  /\ UNCHANGED app /\ UNCHANGED sigVars /\ UNCHANGED fileVars /\ RestOfDep

\* What an open file had in its buffer is lost.
KillApp ==
  /\ app' = "killed"
  /\ IF current = NoFile THEN UNCHANGED disk
     ELSE \E k \in 0 .. Len(disk[current]) : disk' = [disk EXCEPT ![current] = SubSeq(@, 1, k)]
  /\ UNCHANGED <<current, expected, corrupted>>

SendKill ==
  /\ dep.at = "kill" /\ DepTo("check")
  /\ \/ Alive /\ KillApp /\ UNCHANGED <<budget, hist>>
     \/ ~Alive /\ UNCHANGED <<app, budget, hist>> /\ UNCHANGED fileVars
     \/ SshFails /\ UNCHANGED app /\ UNCHANGED fileVars
  /\ UNCHANGED sigVars /\ RestOfDep

LastCheck ==
  /\ dep.at = "check"
  /\ AsksRunning(DepTo("failed"), DepTo("stopped"))
  /\ UNCHANGED app /\ UNCHANGED sigVars /\ UNCHANGED fileVars /\ RestOfDep

DepStep == SendTerm \/ Poll \/ SendKill \/ LastCheck

-----------------------------------------------------------------------------
(* The main thread of dpdk_cmc.                                            *)

MainAt(l) == Alive /\ main.at = l
MainTo(l) == main' = [at |-> l, ticks |-> 0]
RestOfMain == UNCHANGED <<dep, quiet, rx, sent, wire, refused>>

\* A round of the loop: a signal handler may have set force_quit, and the
\* first round after the first signal sends the trigger.
Round ==
  /\ MainAt("loop")
  /\ \/ quit /\ MainTo("drain")
     \/ ~quit /\ ~quiet /\ main' = [main EXCEPT !.ticks = 1]
     \/ ~quit /\ quiet /\ MainTo(IF triggered THEN "check" ELSE "trigger")
  /\ UNCHANGED <<app, quit, state, triggered, ticks, budget, hist>> /\ UNCHANGED fileVars /\ RestOfMain

\* mmms_send_trigger: the packet is out before g_state says ARMED.
Trigger ==
  /\ MainAt("trigger")
  /\ \/ triggered' = TRUE /\ MainTo("arm") /\ UNCHANGED <<quit, budget, hist>>
     \/ MayFail /\ Failed /\ MainTo("drain") /\ quit' = TRUE /\ hist' = Over /\ UNCHANGED triggered
  /\ UNCHANGED <<app, state, ticks>> /\ UNCHANGED fileVars /\ RestOfMain

Arm ==
  /\ MainAt("arm")
  /\ state' = "armed" /\ ticks' = [ticks EXCEPT !.armed = 0]
  /\ MainTo("check")
  /\ UNCHANGED <<app, quit, triggered, budget, hist>> /\ UNCHANGED fileVars /\ RestOfMain

\* mmms_check_timeout looks at g_state and at the time ...
CheckTimeout ==
  /\ MainAt("check")
  /\ MainTo(IF state = "armed" /\ ticks.armed >= FirstTimeout THEN "expire" ELSE "isDone")
  /\ UNCHANGED <<app, quit, state, triggered, ticks, budget, hist>> /\ UNCHANGED fileVars /\ RestOfMain

\* ... and then writes it, whatever the RX worker has made of it meanwhile.
Expire ==
  /\ MainAt("expire") /\ MainTo("isDone")
  /\ state' = "timeout" /\ hist' = Over
  /\ UNCHANGED <<app, quit, triggered, ticks, budget>> /\ UNCHANGED fileVars /\ RestOfMain

\* Mutant: only the timeout ends the loop.
IsDoneOnTimeout == state = "timeout"
IsDone == state \in {"done", "timeout"}

LeaveLoop ==
  /\ MainAt("isDone")
  /\ IF IsDone THEN quit' = TRUE /\ MainTo("drain")
     ELSE main' = [at |-> "loop", ticks |-> 1] /\ UNCHANGED quit
  /\ UNCHANGED <<app, state, triggered, ticks, budget, hist>> /\ UNCHANGED fileVars /\ RestOfMain

\* The workers have ended: mmms_finalize, and the end of the process.
Finalize ==
  /\ MainAt("join") /\ rx.at = "done"
  /\ current' = NoFile /\ app' = "exited"
  /\ state' = IF state = "receiving" THEN "done" ELSE state
  /\ UNCHANGED <<main, quit, triggered, ticks, budget, hist, expected, corrupted, disk>> /\ RestOfMain

MainStep == Round \/ Trigger \/ Arm \/ CheckTimeout \/ Expire \/ LeaveLoop \/ Finalize

-----------------------------------------------------------------------------
(* The unit and the network.                                               *)

RestOfUnit == /\ UNCHANGED <<dep, app, quiet, quit, main, state, rx, triggered, ticks, refused, hist>>
              /\ UNCHANGED fileVars

UnitSends ==
  /\ triggered /\ wire = 0 /\ sent < StreamLength
  /\ sent' = sent + 1 /\ wire' = sent + 1
  /\ UNCHANGED budget /\ RestOfUnit

Lose ==
  /\ wire # 0 /\ budget.lost < MaxLost
  /\ wire' = 0 /\ budget' = [budget EXCEPT !.lost = @ + 1]
  /\ UNCHANGED sent /\ RestOfUnit

-----------------------------------------------------------------------------
(* mmms_handle_packet, on the RX worker.                                   *)

RestOfRx == UNCHANGED <<dep, app, quiet, quit, main, triggered, sent, refused, ticks>>

\* Outside the handover the packet is ignored.
Receive ==
  /\ Alive /\ rx.at = "poll" /\ ~quit /\ wire # 0
  /\ wire' = 0
  /\ rx' = IF state \in {"armed", "receiving"} THEN [at |-> "handle", pkt |-> wire, seen |-> state] ELSE rx
  /\ UNCHANGED <<state, budget, hist>> /\ UNCHANGED fileVars /\ RestOfRx

\* mmms_next_seq: 0 belongs to the trigger.
NextSeqToZero(s) == (s + 1) % (Wrap + 1)
NextSeq(s) == IF s = Wrap THEN 1 ELSE s + 1

\* "start": the file before it is closed, and fopen may fail.  A name that is
\* refused changes nothing: what follows it still goes to the file before it.
Refuse(f) == f \in refused /\ UNCHANGED <<current, disk, budget>>
OpenFile(f) == f \notin refused /\ current' = f /\ disk' = [disk EXCEPT ![f] = <<>>] /\ UNCHANGED budget
\* Mutant: the file before it stays open.
OpenFailsLate(f) == f \notin refused /\ MayFail /\ Failed /\ UNCHANGED <<current, disk>>
OpenFails(f) == f \notin refused /\ MayFail /\ Failed /\ current' = NoFile /\ UNCHANGED disk

\* Content is dropped without an open file; fwrite may write less.
Write(i) ==
  /\ IF current = NoFile THEN UNCHANGED <<disk, budget>>
     ELSE \/ disk' = [disk EXCEPT ![current] = Append(@, i)] /\ UNCHANGED budget
          \/ MayFail /\ Failed /\ UNCHANGED disk
  /\ UNCHANGED current

Closes(i) == KindOf(i) = "finish" \/ (KindOf(i) = "start" /\ FileOf(i) \notin refused)

\* The first packet moves ARMED to RECEIVING, and sets the number the next one
\* is compared with.  g_state is not volatile: the second look at it may be
\* the first one's value.
Handle ==
  /\ Alive /\ rx.at = "handle"
  /\ rx' = [rx EXCEPT !.at = "poll"]
  /\ LET i == rx.pkt
         gap == expected # 0 /\ SeqNo(i) # expected
         skips == hist.last # 0 /\ i # hist.last + 1
     IN /\ corrupted' = corrupted + (IF gap THEN 1 ELSE 0)
        /\ expected' = NextSeq(SeqNo(i))
        /\ \/ KindOf(i) = "start" /\ (Refuse(FileOf(i)) \/ OpenFile(FileOf(i)) \/ OpenFails(FileOf(i)))
           \/ KindOf(i) = "content" /\ Write(i)
           \/ KindOf(i) = "finish" /\ current' = NoFile /\ UNCHANGED <<disk, budget>>
        /\ \E look \in {rx.seen, state} :
             state' = IF KindOf(i) = "finish" THEN "done" ELSE IF look = "armed" THEN "receiving" ELSE state
        /\ hist' = [(IF KindOf(i) = "finish" THEN Over ELSE hist) EXCEPT
                      !.last = i, !.gaps = @ + (IF skips THEN 1 ELSE 0),
                      !.short = @ \/ (KindOf(i) = "content" /\ budget' # budget),
                      !.finished = @ \cup (IF Closes(i) THEN {current} \ {NoFile} ELSE {})]
  /\ UNCHANGED wire /\ RestOfRx

RxQuit ==
  /\ Alive /\ rx.at = "poll" /\ quit
  /\ rx' = [rx EXCEPT !.at = "done"]
  /\ UNCHANGED <<state, wire, budget, hist>> /\ UNCHANGED fileVars /\ RestOfRx

RxStep == Receive \/ Handle \/ RxQuit

-----------------------------------------------------------------------------
(* Time.  A tick waits for what takes much less: a round of the main loop, *)
(* the packet the RX worker has, the end of its loop, a poll.              *)

Settled ==
  /\ dep.at \in {"idle", "wait", "stopped", "failed"}
  /\ Alive => /\ main.at = "drain" \/ main = [at |-> "loop", ticks |-> 1]
              /\ rx.at # "handle" /\ ~(quit /\ rx.at = "poll")

AtMost(bound, n) == IF n > bound THEN bound ELSE n

\* After the sleep stopApplication asks again.  Its ssh calls take no time here:
\* it waits no longer than the code makes it wait.
Tick ==
  /\ Settled /\ (dep.at = "wait" \/ Alive)
  /\ dep' = [dep EXCEPT !.at = IF @ = "wait" THEN "poll" ELSE @]
  /\ main' = IF ~Alive THEN main
             ELSE IF main.at = "loop" THEN [main EXCEPT !.ticks = 0]
             ELSE IF main.ticks + 1 < Drain THEN [main EXCEPT !.ticks = @ + 1]
             ELSE [at |-> "join", ticks |-> 0]
  /\ ticks' = [stop |-> AtMost(Horizon, IF dep.at = "idle" THEN 0 ELSE ticks.stop + 1),
               armed |-> AtMost(FirstTimeout, IF state = "armed" THEN ticks.armed + 1 ELSE 0)]
  /\ UNCHANGED <<app, state, rx, budget, hist>> /\ UNCHANGED sigVars
  /\ UNCHANGED unitVars /\ UNCHANGED fileVars

Next == DepStep \/ SecondSignal \/ MainStep \/ UnitSends \/ Lose \/ RxStep \/ Tick

\* Calls return, the workers and the main loop go on, and so does time.
Fairness == WF_vars(DepStep) /\ WF_vars(MainStep) /\ WF_vars(RxStep) /\ SF_vars(Tick)
Spec == Init /\ [][Next]_vars /\ Fairness

-----------------------------------------------------------------------------
(* Properties.                                                             *)

\* Every variable keeps its type; a number expected next is one of the wire's.
TypeOK ==
  /\ dep \in [at : {"idle", "wait", "poll", "kill", "check", "stopped", "failed"}, polls : 0 .. Polls]
  /\ app \in {"runs", "exited", "killed"} /\ quiet \in BOOLEAN /\ quit \in BOOLEAN
  /\ main \in [at : {"loop", "trigger", "arm", "check", "expire", "isDone", "drain", "join"}, ticks : 0 .. Drain]
  /\ state \in {"idle", "armed", "receiving", "done", "timeout"}
  /\ rx \in [at : {"poll", "handle", "done"}, pkt : 0 .. StreamLength, seen : {"idle", "armed", "receiving"}]
  /\ sent \in 0 .. StreamLength /\ wire \in 0 .. sent /\ triggered \in BOOLEAN
  /\ current \in AllFiles \cup {NoFile} /\ expected \in 0 .. Wrap /\ corrupted \in Nat
  /\ disk \in [AllFiles -> Seq(1 .. StreamLength)] /\ refused \in SUBSET AllFiles
  /\ ticks \in [stop : 0 .. Horizon, armed : 0 .. FirstTimeout]
  /\ budget \in [lost : 0 .. MaxLost, failed : 0 .. MaxFailures]
  /\ hist \in Histories

\* Every interruption of the unit's numbered stream between two packets the
\* handler takes is counted, over the wrap from 255 to 1, and nothing else is.
GapsExact == corrupted = hist.gaps

\* A handover without gaps and failed writes leaves each file with nothing but
\* its contents, in order, and whole once the unit went on to the next: also
\* when a start was missed, refused or not opened.  The contents of a refused
\* file end up in the file before it.
Owners(i) == {f \in AllFiles \ refused : f <= FileOf(i)}
Belonging(f) ==
  {i \in 1 .. StreamLength :
     KindOf(i) = "content" /\ f \in Owners(i) /\ \A g \in Owners(i) : g <= f}
InOrder(s) == \A j, k \in DOMAIN s : j < k => s[j] < s[k]
IsStartOf(s, contents) ==
  /\ InOrder(s) /\ Range(s) \subseteq contents
  /\ \A i \in Range(s), j \in contents : j < i => j \in Range(s)
FilesFaithful ==
  corrupted = 0 /\ ~hist.short => \A f \in AllFiles :
    /\ IsStartOf(disk[f], Belonging(f))
    /\ f \in hist.finished => Range(disk[f]) = Belonging(f)

\* "force kill as last resort": an application that got its SIGTERM and whose
\* handover was over early enough to sleep and join its workers is not killed.
KilledOnlyWhenLate ==
  app = "killed" => hist.sshFailed \/ hist.over = -1 \/ hist.over > Polls - Drain - 2

\* A stop request ends the application whatever the unit sends or loses, if the
\* ssh calls succeed: a handover without its end has no timeout of its own.
StopEnds == (dep.at = "wait") ~> (~Alive \/ hist.sshFailed)
=============================================================================
