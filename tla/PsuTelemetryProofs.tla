------------------------- MODULE PsuTelemetryProofs -------------------------
(***************************************************************************)
(* Proofs about PsuTelemetry, for every threshold, transit time and number *)
(* of samples; at the end those about TimeForwarder, for every stream of   *)
(* pieces.                                                                 *)
(***************************************************************************)
EXTENDS SideThreads, TLAPS

----------------------------------------------------------------------------
(* The inductive invariant.                                                *)

\* The spinlock excludes the two threads from each other's copies, and each finds
\* there what it has put there.
LockInv ==
  /\ listener \in {"write", "stamp"} <=> lock = "listener"
  /\ printer \in {"copy", "stamp"} <=> lock = "printer"
  /\ listener = "stamp" => cache = held
  /\ printer = "stamp" => snap = cache
  /\ listener \in {"lock", "write", "stamp"} <=> held # NoSample

\* A sample taken at most MaxTransit before time stamp rx, as long as rx is of use.
Timely(sample, rx) ==
  sample # NoSample /\ rx <= StaleAfter => age[sample] <= rx + MaxTransit

\* No copy of a sample is older than its time stamp says.
FreshInv ==
  /\ \A s \in net : age[s] <= MaxTransit
  /\ held # NoSample => age[held] <= MaxTransit
  /\ Timely(cache, lastRx)
  /\ printer = "now" => Timely(snap, snapRx)

\* What the main thread has started, and stopped, at each of its labels.
StopInv ==
  /\ listener # "off" => socket /\ main \in {"loop", "stopHealth", "stop", "join"}
  /\ main \in {"health", "init"} => lock = "zeroed"
  /\ lock = "destroyed" => main = "done"
  /\ app = "DTN" /\ main \in {"stop", "join", "done"} => printer = "off"
  /\ app = "CMC" /\ main # "loop" => printer = "idle"
  /\ main = "health" => app = "DTN" /\ printer = "off"
  /\ main = "start" => socket

IInv == TypeOK /\ LockInv /\ FreshInv /\ StopInv

----------------------------------------------------------------------------
(* Type correctness.                                                       *)

\* An age of time passing stays in range and grows by at most one.
LEMMA OlderType ==
  ASSUME NEW a \in 0..MaxAge
  PROVE  Older(a) \in 0..MaxAge /\ Older(a) <= a + 1 /\ (Older(a) < MaxAge => Older(a) = a + 1)
BY StaleAssumption, BoundsAssumption DEF Older, MaxAge

\* The bounds as numbers.
LEMMA Bounds ==
  StaleAfter \in Nat /\ MaxTransit \in Nat /\ MaxSeq \in Nat /\ MaxAge \in Nat
  /\ MaxAge = StaleAfter + MaxTransit + 1 /\ NoSample \notin Seqs /\ NoSample = 0
  /\ Seqs \subseteq Nat
BY StaleAssumption, BoundsAssumption DEF MaxAge, Seqs, NoSample

\* What the types need of the bounds.
LEMMA Ranges ==
  MaxSeq \in Nat /\ MaxSeq > 0 /\ MaxAge \in Nat
BY StaleAssumption, BoundsAssumption DEF MaxAge

\* Every action keeps the types.
LEMMA TypeStep == TypeOK /\ [Next]_vars => TypeOK'
<1> SUFFICES ASSUME TypeOK, [Next]_vars PROVE TypeOK'
  OBVIOUS
<1> USE Ranges DEF TypeOK, MainLabels, ListenerLabels, PrinterLabels
<1>1. CASE TakeSample /\ net' \in {net, net \cup {seq + 1}}
  <2>1. seq + 1 \in Seqs /\ seq' \in 0..MaxSeq
    BY <1>1 DEF TakeSample, Seqs
  <2>2. age' \in [Seqs -> 0..MaxAge] /\ net' \subseteq Seqs
    BY <1>1, <2>1 DEF TakeSample
  <2> QED BY <1>1, <2>1, <2>2 DEF TakeSample, ctlVars, listenerVars, printerVars
<1>2. CASE ListenerStep
  <2> USE DEF KeepOthers, ctlVars, printerVars
  <2>1. CASE ListenerTest \/ ReceiveNothing \/ ReceiveFails
    BY <2>1 DEF ListenerTest, ReceiveNothing, ReceiveFails
  <2>2. CASE Receive
    BY <2>2 DEF Receive
  <2>3. CASE ListenerLock \/ ListenerWrite
    BY <2>3 DEF ListenerLock, ListenerWrite
  <2>4. CASE ListenerStamp
    BY <2>4 DEF ListenerStamp
  <2> QED BY <1>2, <2>1, <2>2, <2>3, <2>4 DEF ListenerStep
<1>3. CASE PrinterStep
  <2> USE DEF KeepRest, ctlVars, listenerVars, pubVars
  <2>1. CASE PrintBegin \/ PrinterLock \/ HealthThreadEnds
    BY <2>1 DEF PrintBegin, PrinterLock, HealthThreadEnds
  <2>2. CASE PrinterCopy \/ PrinterStamp
    BY <2>2 DEF PrinterCopy, PrinterStamp
  <2>3. CASE Show
    BY <2>3 DEF Show
  <2> QED BY <1>3, <2>1, <2>2, <2>3 DEF PrinterStep
<1>4. CASE MainStep
  <2> USE DEF Goto, KeepThreads, listenerVars, printerVars, pubVars
  <2>1. CASE StartHealth
    BY <2>1 DEF StartHealth
  <2>2. CASE TelemInit \/ TelemInitFails
    BY <2>2 DEF TelemInit, TelemInitFails
  <2>3. CASE TelemStart
    BY <2>3 DEF TelemStart
  <2>4. CASE LeaveLoop \/ StopHealth
    BY <2>4 DEF LeaveLoop, StopHealth
  <2>5. CASE TelemStopNothing \/ TelemStopBegin \/ TelemStopEnd
    BY <2>5 DEF TelemStopNothing, TelemStopBegin, TelemStopEnd
  <2> QED BY <1>4, <2>1, <2>2, <2>3, <2>4, <2>5 DEF MainStep
<1>5. CASE SetForceQuit
  BY <1>5 DEF SetForceQuit, listenerVars, printerVars, pubVars
<1>6. CASE Elapse
  <2>1. age' \in [Seqs -> 0..MaxAge] /\ lastRx' \in 0..MaxAge /\ snapRx' \in 0..MaxAge
    BY <1>6, OlderType DEF Elapse
  <2> QED BY <1>6, <2>1 DEF Elapse, ctlVars
<1>7. CASE Lose
  BY <1>7 DEF Lose, ctlVars, listenerVars, printerVars
<1>8. CASE UNCHANGED vars
  BY <1>8 DEF vars, ctlVars, listenerVars, printerVars, pubVars
<1> QED
  BY <1>1, <1>2, <1>3, <1>4, <1>5, <1>6, <1>7, <1>8
  DEF Next, Publish, PublishFails

\* The initial state has the types.
LEMMA TypeInit == Init => TypeOK
<1> SUFFICES ASSUME Init PROVE TypeOK
  OBVIOUS
<1>1. /\ app \in {"DTN", "CMC"} /\ main \in MainLabels /\ forceQuit \in BOOLEAN
      /\ listener \in ListenerLabels /\ printer \in PrinterLabels /\ socket \in BOOLEAN
  BY DEF Init, MainLabels, ListenerLabels, PrinterLabels
<1>2. lastRx \in 0..MaxAge /\ snapRx \in 0..MaxAge /\ age \in [Seqs -> 0..MaxAge]
  BY Ranges DEF Init
<1> QED BY <1>1, <1>2, Ranges DEF Init, TypeOK

\* Every variable keeps its type: TypeOK of the run psu_telemetry.
THEOREM TypeCorrect == Spec => []TypeOK
BY TypeInit, TypeStep, PTL DEF Spec

----------------------------------------------------------------------------
(* The lock.                                                               *)

\* Who is in a critical section holds the lock and has it to itself.
LEMMA LockStep == TypeOK /\ LockInv /\ StopInv /\ [Next]_vars => LockInv'
<1> SUFFICES ASSUME TypeOK, LockInv, StopInv, [Next]_vars PROVE LockInv'
  OBVIOUS
<1> USE Bounds DEF LockInv
<1>1. CASE TakeSample
  BY <1>1 DEF TakeSample, listenerVars, printerVars
<1>2. CASE ListenerStep
  <2> USE DEF KeepOthers, printerVars
  <2>1. CASE ListenerTest \/ ReceiveNothing \/ ReceiveFails
    BY <2>1 DEF ListenerTest, ReceiveNothing, ReceiveFails
  <2>2. CASE Receive
    BY <2>2 DEF Receive, TypeOK
  <2>3. CASE ListenerLock \/ ListenerWrite
    BY <2>3 DEF ListenerLock, ListenerWrite
  <2>4. CASE ListenerStamp
    BY <2>4 DEF ListenerStamp
  <2> QED BY <1>2, <2>1, <2>2, <2>3, <2>4 DEF ListenerStep
<1>3. CASE PrinterStep
  BY <1>3 DEF PrinterStep, PrintBegin, PrinterLock, PrinterCopy, PrinterStamp, Show,
              HealthThreadEnds, KeepRest, listenerVars
<1>4. CASE MainStep
  <2> USE DEF Goto, KeepThreads, listenerVars, printerVars
  <2>1. CASE StartHealth
    BY <2>1 DEF StartHealth, StopInv, TypeOK
  <2>2. CASE TelemInit
    BY <2>2 DEF TelemInit, StopInv
  <2>3. CASE TelemInitFails \/ TelemStart
    BY <2>3 DEF TelemInitFails, TelemStart, StopInv
  <2>4. CASE LeaveLoop \/ StopHealth \/ TelemStopNothing \/ TelemStopBegin
    BY <2>4 DEF LeaveLoop, StopHealth, TelemStopNothing, TelemStopBegin
  <2>5. CASE TelemStopEnd
    BY <2>5 DEF TelemStopEnd, StopInv, TypeOK
  <2> QED BY <1>4, <2>1, <2>2, <2>3, <2>4, <2>5 DEF MainStep
<1>5. CASE SetForceQuit \/ Elapse \/ Lose \/ UNCHANGED vars
  BY <1>5 DEF SetForceQuit, Elapse, Lose, vars, ctlVars, listenerVars, printerVars
<1> QED BY <1>1, <1>2, <1>3, <1>4, <1>5 DEF Next, Publish, PublishFails

----------------------------------------------------------------------------
(* Starting and stopping.                                                  *)

\* The main thread stops what it has started, users of the lock before the lock.
LEMMA StopStep == TypeOK /\ LockInv /\ StopInv /\ [Next]_vars => StopInv'
<1> SUFFICES ASSUME TypeOK, LockInv, StopInv, [Next]_vars PROVE StopInv'
  OBVIOUS
<1> USE DEF StopInv
<1>1. CASE TakeSample
  BY <1>1 DEF TakeSample, ctlVars, listenerVars, printerVars
<1>2. CASE ListenerStep
  BY <1>2 DEF ListenerStep, ListenerTest, ReceiveNothing, ReceiveFails, Receive,
              ListenerLock, ListenerWrite, ListenerStamp, KeepOthers, ctlVars, printerVars
<1>3. CASE PrinterStep
  <2> USE DEF KeepRest, ctlVars, listenerVars
  <2>1. CASE PrintBegin \/ PrinterLock \/ HealthThreadEnds
    BY <2>1 DEF PrintBegin, PrinterLock, HealthThreadEnds
  <2>2. CASE PrinterCopy \/ Show
    BY <2>2 DEF PrinterCopy, Show
  <2>3. CASE PrinterStamp
    BY <2>3 DEF PrinterStamp, LockInv
  <2> QED BY <1>3, <2>1, <2>2, <2>3 DEF PrinterStep
<1>4. CASE MainStep
  <2> USE DEF Goto, KeepThreads, listenerVars, printerVars
  <2>1. CASE StartHealth
    BY <2>1 DEF StartHealth
  <2>2. CASE TelemInit \/ TelemInitFails
    BY <2>2 DEF TelemInit, TelemInitFails
  <2>3. CASE TelemStart
    BY <2>3 DEF TelemStart
  <2>4. CASE LeaveLoop
    BY <2>4 DEF LeaveLoop
  <2>5. CASE StopHealth
    BY <2>5 DEF StopHealth
  <2>6. CASE TelemStopNothing \/ TelemStopBegin
    BY <2>6 DEF TelemStopNothing, TelemStopBegin
  <2>7. CASE TelemStopEnd
    BY <2>7 DEF TelemStopEnd
  <2> QED BY <1>4, <2>1, <2>2, <2>3, <2>4, <2>5, <2>6, <2>7 DEF MainStep
<1>5. CASE SetForceQuit \/ Elapse \/ Lose \/ UNCHANGED vars
  BY <1>5 DEF SetForceQuit, Elapse, Lose, vars, ctlVars, listenerVars, printerVars
<1> QED BY <1>1, <1>2, <1>3, <1>4, <1>5 DEF Next, Publish, PublishFails

----------------------------------------------------------------------------
(* Ages.                                                                   *)

\* Time passes for a sample and for its time stamp alike.
LEMMA TimelyElapse ==
  ASSUME TypeOK, Elapse, NEW s \in Seqs \cup {NoSample}, NEW rx \in 0..MaxAge, NEW rxn,
         rxn = Older(rx), s # NoSample /\ rx <= StaleAfter => age[s] <= rx + MaxTransit,
         s # NoSample, rxn <= StaleAfter
  PROVE  age'[s] <= rxn + MaxTransit
<1>1. s \in Seqs /\ age[s] \in 0..MaxAge /\ age'[s] = Older(age[s])
  BY DEF TypeOK, Elapse
<1>2. rxn = rx + 1 /\ rx <= StaleAfter
  BY OlderType, Bounds DEF Older
<1>3. Older(age[s]) <= age[s] + 1 /\ Older(age[s]) \in 0..MaxAge
  BY <1>1, OlderType
<1>4. age[s] \in Nat /\ rx \in Nat /\ Older(age[s]) \in Nat
  BY <1>1, <1>3, Bounds
<1> QED BY <1>1, <1>2, <1>3, <1>4, Bounds

\* A new sample makes no age larger.
LEMMA TimelySample ==
  ASSUME TypeOK, TakeSample, NEW s \in Seqs
  PROVE  age'[s] <= age[s] /\ age[s] \in Nat /\ age'[s] \in Nat
<1>1. seq + 1 \in Seqs
  BY Bounds DEF TakeSample, TypeOK, Seqs
<1>2. age'[s] = IF s = seq + 1 THEN 0 ELSE age[s]
  BY <1>1 DEF TakeSample, TypeOK
<1>3. age[s] \in Nat /\ age[s] >= 0
  BY Bounds DEF TypeOK
<1> QED BY <1>2, <1>3

\* No copy of a sample becomes older than its time stamp says.
LEMMA FreshStep == TypeOK /\ LockInv /\ FreshInv /\ [Next]_vars => FreshInv'
<1> SUFFICES ASSUME TypeOK, LockInv, FreshInv, [Next]_vars PROVE FreshInv'
  OBVIOUS
<1> USE Bounds
<1>1. CASE TakeSample /\ net' \in {net, net \cup {seq + 1}}
  <2>1. UNCHANGED <<held, cache, lastRx, printer, snap, snapRx>>
    BY <1>1 DEF TakeSample, listenerVars, printerVars
  <2>2. lastRx \in Nat /\ snapRx \in Nat /\ seq + 1 \in Seqs /\ age'[seq + 1] = 0
    BY <1>1 DEF TypeOK, TakeSample, Seqs
  <2>3. \A s \in Seqs : age'[s] <= age[s] /\ age[s] \in Nat /\ age'[s] \in Nat
    BY <1>1, TimelySample
  <2>4. net \subseteq Seqs /\ held \in Seqs \cup {NoSample} /\ cache \in Seqs \cup {NoSample}
        /\ snap \in Seqs \cup {NoSample}
    BY DEF TypeOK
  <2>5. \A s \in net' : age'[s] <= MaxTransit
    BY <1>1, <2>2, <2>3, <2>4 DEF FreshInv
  <2>6. held' # NoSample => age'[held'] <= MaxTransit
    BY <2>1, <2>3, <2>4 DEF FreshInv
  <2>7. Timely(cache, lastRx)'
    BY <2>1, <2>2, <2>3, <2>4 DEF FreshInv, Timely
  <2>8. (printer = "now" => Timely(snap, snapRx))'
    BY <2>1, <2>2, <2>3, <2>4 DEF FreshInv, Timely
  <2> QED BY <2>5, <2>6, <2>7, <2>8 DEF FreshInv
<1>2. CASE ListenerStep
  <2> USE DEF KeepOthers, printerVars, FreshInv, Timely
  <2>1. CASE ListenerTest \/ ReceiveNothing \/ ReceiveFails
    BY <2>1 DEF ListenerTest, ReceiveNothing, ReceiveFails
  <2>2. CASE Receive
    BY <2>2 DEF Receive
  <2>3. CASE ListenerLock
    BY <2>3 DEF ListenerLock
  <2>4. CASE ListenerWrite
    <3>1. held # NoSample /\ lastRx \in Nat /\ age[held] \in Nat
      BY <2>4 DEF ListenerWrite, LockInv, TypeOK
    <3> QED BY <2>4, <3>1 DEF ListenerWrite
  <2>5. CASE ListenerStamp
    <3>1. held # NoSample /\ cache = held
      BY <2>5 DEF ListenerStamp, LockInv
    <3> QED BY <2>5, <3>1 DEF ListenerStamp
  <2> QED BY <1>2, <2>1, <2>2, <2>3, <2>4, <2>5 DEF ListenerStep
<1>3. CASE PrinterStep
  <2> USE DEF KeepRest, listenerVars, pubVars, FreshInv, Timely
  <2>1. CASE PrintBegin \/ PrinterLock \/ HealthThreadEnds \/ PrinterCopy \/ Show
    BY <2>1 DEF PrintBegin, PrinterLock, HealthThreadEnds, PrinterCopy, Show
  <2>2. CASE PrinterStamp
    BY <2>2 DEF PrinterStamp, LockInv
  <2> QED BY <1>3, <2>1, <2>2 DEF PrinterStep
<1>4. CASE MainStep
  <2>1. UNCHANGED <<net, age, held, cache, lastRx, snap, snapRx>>
        /\ (printer' = "now" => printer = "now")
    BY <1>4 DEF MainStep, StartHealth, TelemInit, TelemInitFails, TelemStart, LeaveLoop,
                StopHealth, TelemStopNothing, TelemStopBegin, TelemStopEnd, KeepThreads,
                listenerVars, printerVars, pubVars
  <2> QED BY <2>1 DEF FreshInv, Timely
<1>5. CASE Elapse
  <2>1. UNCHANGED <<held, cache, printer, snap, net>>
        /\ lastRx' = Older(lastRx) /\ snapRx' = Older(snapRx)
    BY <1>5 DEF Elapse
  <2>2. \A s \in net \cup ({held} \ {NoSample}) : age'[s] <= MaxTransit
    <3> SUFFICES ASSUME NEW s \in net \cup ({held} \ {NoSample}) PROVE age'[s] <= MaxTransit
      OBVIOUS
    <3>1. s \in Seqs /\ age[s] \in 0..MaxAge /\ age[s] < MaxTransit /\ age'[s] = Older(age[s])
      BY <1>5 DEF TypeOK, Elapse
    <3>2. Older(age[s]) \in 0..MaxAge /\ Older(age[s]) <= age[s] + 1
      BY <3>1, OlderType
    <3>3. age[s] \in Nat /\ Older(age[s]) \in Nat
      BY <3>1, <3>2
    <3> QED BY <3>1, <3>2, <3>3
  <2>3. Timely(cache, lastRx)'
    BY <1>5, <2>1, TimelyElapse DEF FreshInv, Timely, TypeOK
  <2>4. (printer = "now" => Timely(snap, snapRx))'
    BY <1>5, <2>1, TimelyElapse DEF FreshInv, Timely, TypeOK
  <2> QED BY <2>1, <2>2, <2>3, <2>4 DEF FreshInv
<1>6. CASE SetForceQuit \/ Lose \/ UNCHANGED vars
  BY <1>6 DEF SetForceQuit, Lose, vars, listenerVars, printerVars, pubVars, FreshInv, Timely
<1> QED
  BY <1>1, <1>2, <1>3, <1>4, <1>5, <1>6 DEF Next, Publish, PublishFails

----------------------------------------------------------------------------
(* The results.                                                            *)

\* IInv holds at the start and every step keeps it: the two users of the lock exclude
\* each other, no copy is older than its stamp says, and what runs has been started.
THEOREM Inductive == Spec => []IInv
<1>1. Init => IInv
  BY TypeInit DEF Init, IInv, LockInv, FreshInv, StopInv, Timely, NoSample
<1>2. IInv /\ [Next]_vars => IInv'
  BY TypeStep, LockStep, StopStep, FreshStep DEF IInv
<1> QED BY <1>1, <1>2, PTL DEF Spec

\* The lock is destroyed only when both of its users are through
\* (psu_telem_stop after stop_health_monitor and the listener's join).
THEOREM LockNotUsedAfterDestroy == Spec => []NoUseAfterDestroy
<1>1. IInv => NoUseAfterDestroy
  BY DEF IInv, StopInv, NoUseAfterDestroy, TypeOK
<1> QED BY <1>1, Inductive, PTL

\* A reading shown as current was taken at most StaleAfter + MaxTransit ago
\* (psu_telem_print_table).
THEOREM CurrentReadingsAreFresh == Spec => CurrentIsFresh
<1>1. IInv /\ [Next]_vars =>
        [shown' = "current" /\ printer = "now" /\ printer' = "idle"
           => age[shownSeq'] <= StaleAfter + MaxTransit]_vars
  <2> SUFFICES ASSUME IInv, Next, shown' = "current", printer = "now", printer' = "idle"
               PROVE  age[shownSeq'] <= StaleAfter + MaxTransit
    OBVIOUS
  <2>1. Show
    <3>1. ~(Publish \/ PublishFails \/ ListenerStep \/ SetForceQuit \/ Elapse \/ Lose)
      BY DEF Publish, PublishFails, TakeSample, ListenerStep, ListenerTest, ReceiveNothing,
             ReceiveFails, Receive, ListenerLock, ListenerWrite, ListenerStamp, KeepOthers,
             SetForceQuit, Elapse, Lose, printerVars
    <3>2. ~(PrintBegin \/ PrinterLock \/ PrinterCopy \/ PrinterStamp \/ HealthThreadEnds)
      BY DEF PrintBegin, PrinterLock, PrinterCopy, PrinterStamp, HealthThreadEnds
    <3>3. ~StartHealth
      BY DEF StartHealth, Goto, IInv, StopInv
    <3>4. ~(TelemInit \/ TelemInitFails \/ TelemStart \/ LeaveLoop \/ StopHealth
            \/ TelemStopNothing \/ TelemStopBegin \/ TelemStopEnd)
      BY DEF TelemInit, TelemInitFails, TelemStart, LeaveLoop, StopHealth,
             TelemStopNothing, TelemStopBegin, TelemStopEnd, KeepThreads, printerVars
    <3> QED BY <3>1, <3>2, <3>3, <3>4 DEF Next, PrinterStep, MainStep
  <2>2. shownSeq' = snap /\ snap # NoSample /\ ~(snapRx > StaleAfter)
    BY <2>1 DEF Show
  <2>3. snap \in Seqs /\ age[snap] \in 0..MaxAge /\ snapRx \in 0..MaxAge
    BY <2>2 DEF IInv, TypeOK
  <2>4. age[snap] <= snapRx + MaxTransit /\ snapRx <= StaleAfter
    BY <2>2, <2>3, Bounds DEF IInv, FreshInv, Timely
  <2> QED BY <2>2, <2>3, <2>4, Bounds
<1> QED BY <1>1, Inductive, PTL DEF Spec, CurrentIsFresh

----------------------------------------------------------------------------
(* The time forwarder, the other thread beside a test.  It shares no state *)
(* with the telemetry.                                                     *)

\* Pieces of the lines are read in order; times are numbers of lines.
TimeTypeOK ==
  /\ worker \in {"off", "test", "read", "parse", "send"}
  /\ sent \in Nat /\ from \in Nat /\ to \in Nat
  /\ packet \in [line : Nat, whole : BOOLEAN] /\ unit \in [line : Nat, whole : BOOLEAN]
  /\ seen \in Nat /\ before \in Nat /\ broken \in BOOLEAN

\* What was complete when the port was read is what the response has reached, and its
\* beginning is what was complete before.  The unit's time lies before the response, up to
\* the tens of its seconds; a response not broken is of whole lines, and so is the
\* packet's time, which lies after the beginning.
ForwardInv ==
  /\ from <= to /\ to <= sent
  /\ 5 * seen <= to /\ to < 5 * seen + 5
  /\ 5 * before <= from /\ from < 5 * before + 5
  /\ 5 * unit.line <= (IF worker = "test" THEN to ELSE from) + 2
  /\ worker = "off" => from = to
  /\ worker \in {"read", "parse"} /\ ~broken => from = 5 * before
  /\ worker = "parse" /\ ~broken => to >= from + 5
  /\ worker = "send" =>
       /\ packet.line > before
       /\ 5 * packet.line <= to + 2
       /\ packet.line > unit.line
       /\ packet.whole \/ broken

\* Lines are five pieces long.
LEMMA Pieces ==
  ASSUME NEW p \in Nat
  PROVE  /\ Time!Line(p) \in Nat
         /\ 5 * Time!Line(p) <= p /\ p < 5 * Time!Line(p) + 5
         /\ Time!StartsLine(p) <=> p = 5 * Time!Line(p)
         /\ Time!IsNewline(p) <=> p = 5 * Time!Line(p) + 4
  BY DEF Time!Line, Time!StartsLine, Time!IsNewline, Time!Parts

\* A time found lies in the response and begins with its line.
LEMMA ParsedTime ==
  ASSUME TimeTypeOK, ForwardInv, worker = "parse", Time!HasTime
  PROVE  LET line == Time!Line(Time!First) + 1
             units == to >= Time!First + 4
         IN /\ line \in Nat /\ units \in BOOLEAN
            /\ line > before
            /\ 5 * line <= to + 2
            /\ line > unit.line
            /\ units \/ broken
<1>1. Time!First \in Nat /\ from <= Time!First
  BY DEF TimeTypeOK, Time!First
<1>2. /\ Time!First = 5 * Time!Line(Time!First) /\ to >= Time!First + 3
      /\ Time!Line(Time!First) \in Nat
  BY <1>1, Pieces DEF Time!HasTime
<1>3. /\ from \in Nat /\ to \in Nat /\ unit.line \in Nat /\ 5 * unit.line <= from + 2
      /\ before \in Nat /\ 5 * before <= from
  BY Pieces DEF TimeTypeOK, ForwardInv
<1>4. ~broken => to >= Time!First + 4
  <2> SUFFICES ASSUME ~broken
               PROVE  to >= Time!First + 4
    OBVIOUS
  <2>1. from = 5 * before /\ to >= from + 5
    BY DEF ForwardInv
  <2>2. Time!First = from
    BY <2>1, <1>3, Pieces DEF Time!First
  <2> QED
    BY <2>1, <2>2, <1>3
<1> QED
  BY <1>1, <1>2, <1>3, <1>4

LEMMA ForwardInit == Time!Init => TimeTypeOK /\ ForwardInv
<1> SUFFICES ASSUME Time!Init
             PROVE  TimeTypeOK /\ ForwardInv
  OBVIOUS
<1>1. sent \in 0..4 /\ from = sent /\ to = sent
  BY DEF Time!Init, Time!Parts
<1>2. /\ worker = "off" /\ seen = 0 /\ before = 0 /\ broken = FALSE
      /\ packet = [line |-> 0, whole |-> FALSE] /\ unit = [line |-> 0, whole |-> FALSE]
  BY DEF Time!Init, Time!Nothing
<1>3. TimeTypeOK
  <2>1. packet \in [line : Nat, whole : BOOLEAN] /\ unit \in [line : Nat, whole : BOOLEAN]
    BY <1>2
  <2>2. sent \in Nat /\ from \in Nat /\ to \in Nat
    BY <1>1
  <2>3. worker \in {"off", "test", "read", "parse", "send"} /\ seen \in Nat /\ before \in Nat
    BY <1>2
  <2>4. broken \in BOOLEAN
    BY <1>2, Zenon
  <2> QED
    BY <2>1, <2>2, <2>3, <2>4 DEF TimeTypeOK
<1>4. ForwardInv
  BY <1>1, <1>2 DEF ForwardInv
<1> QED
  BY <1>3, <1>4

LEMMA ForwardStep ==
  ASSUME TimeTypeOK, ForwardInv, [Time!Next]_Time!vars
  PROVE  TimeTypeOK' /\ ForwardInv'
<1> USE DEF TimeTypeOK, ForwardInv
<1>1. CASE Time!Start \/ Time!StartFails \/ Time!StopBegins \/ Time!StopEnds \/ Time!ServerSends
  BY <1>1 DEF Time!Start, Time!StartFails, Time!StopBegins, Time!StopEnds, Time!ServerSends
<1>2. CASE Time!Test
  <2>1. ~broken' => Time!StartsLine(to)
    BY <1>2 DEF Time!Test
  <2>2. ~broken' => to = 5 * seen
    <3>1. Time!Line(to) \in Nat /\ (~broken' => to = 5 * Time!Line(to))
      BY <2>1, Pieces
    <3> QED
      BY <3>1
  <2>3. broken' \in BOOLEAN
    BY <1>2 DEF Time!Test, Time!StartsLine
  <2> QED
    BY <1>2, <2>2, <2>3 DEF Time!Test
<1>3. CASE Time!Read
  <2>1. PICK newline \in BOOLEAN :
          /\ worker' = IF newline THEN "parse" ELSE "read"
          /\ newline => \E p \in to .. sent - 1 : Time!IsNewline(p)
    BY <1>3 DEF Time!Read
  <2>2. newline /\ ~broken => to' >= from + 5
    <3> SUFFICES ASSUME newline, ~broken
                 PROVE  to' >= from + 5
      OBVIOUS
    <3>1. PICK p \in to .. sent - 1 : Time!IsNewline(p)
      BY <2>1
    <3>2. p \in Nat /\ from <= p /\ p < to'
      BY <3>1, <1>3 DEF Time!Read
    <3>3. p = 5 * Time!Line(p) + 4 /\ Time!Line(p) \in Nat
      BY <3>1, <3>2, Pieces
    <3>4. from = 5 * before /\ to' \in Nat
      BY <1>3 DEF Time!Read
    <3> QED
      BY <3>2, <3>3, <3>4
  <2>3. seen' \in Nat /\ 5 * seen' <= sent /\ sent < 5 * seen' + 5
    BY <1>3, Pieces DEF Time!Read
  <2> QED
    BY <1>3, <2>1, <2>2, <2>3 DEF Time!Read
<1>4. CASE Time!ReadEnds \/ Time!SelectFails
  <2>1. worker = "read" /\ UNCHANGED <<sent, from, to, packet, unit, seen, before>>
    BY <1>4 DEF Time!ReadEnds, Time!SelectFails
  <2>2. \/ worker' = "parse" /\ broken' = TRUE
        \/ worker' = "test" /\ broken' = broken
    BY <1>4 DEF Time!ReadEnds, Time!SelectFails
  <2>3. broken' \in BOOLEAN
    BY <2>2, Zenon
  <2> QED
    BY <2>1, <2>2, <2>3
<1>5. CASE Time!Parse
  <2>1. CASE Time!HasTime
    <3> DEFINE line == Time!Line(Time!First) + 1
               units == to >= Time!First + 4
    <3>1. packet' = [line |-> line, whole |-> units] /\ worker' = "send"
      BY <1>5, <2>1 DEF Time!Parse, Time!TimeOf
    <3>2. /\ line \in Nat /\ units \in BOOLEAN
          /\ line > before /\ 5 * line <= to + 2 /\ line > unit.line
          /\ units \/ broken
      BY <1>5, <2>1, ParsedTime DEF Time!Parse
    <3>3. UNCHANGED <<sent, from, to, unit, seen, before, broken>> /\ worker = "parse"
      BY <1>5 DEF Time!Parse
    <3> HIDE DEF line, units
    <3>4. /\ packet' \in [line : Nat, whole : BOOLEAN]
          /\ packet'.line = line /\ packet'.whole = units
      BY <3>1, <3>2
    <3> QED
      BY <3>1, <3>2, <3>3, <3>4
  <2>2. CASE ~Time!HasTime
    BY <1>5, <2>2 DEF Time!Parse
  <2> QED
    BY <2>1, <2>2
<1>6. CASE Time!Send \/ Time!SendFails
  BY <1>6 DEF Time!Send, Time!SendFails
<1>7. CASE UNCHANGED Time!vars
  BY <1>7 DEF Time!vars
<1> QED
  BY <1>1, <1>2, <1>3, <1>4, <1>5, <1>6, <1>7 DEF Time!Next

\* What the forwarder has read, parsed and sent belongs together.
THEOREM ForwardInductive == Time!Spec => [](TimeTypeOK /\ ForwardInv)
  BY ForwardInit, ForwardStep, PTL DEF Time!Spec

\* The unit's times go forward, none is complete before the response before it was read,
\* and none lacks its seconds unless a line was cut (readResponse, workerLoop).
THEOREM TimesGoForward == Time!Spec => ForwardedInTime
<1>1. TimeTypeOK /\ ForwardInv /\ [Time!Next]_Time!vars =>
        [unit' # unit => /\ unit'.line > unit.line
                         /\ unit'.line > before
                         /\ unit'.whole \/ broken]_Time!vars
  <2> SUFFICES ASSUME TimeTypeOK, ForwardInv, Time!Next, unit' # unit
               PROVE  unit'.line > unit.line /\ unit'.line > before /\ (unit'.whole \/ broken)
    OBVIOUS
  <2>1. Time!Send
    BY DEF Time!Next, Time!Start, Time!StartFails, Time!StopBegins, Time!StopEnds,
           Time!ServerSends, Time!Test, Time!Read, Time!ReadEnds, Time!SelectFails,
           Time!Parse, Time!SendFails
  <2> QED
    BY <2>1 DEF Time!Send, ForwardInv
<1> QED
  BY <1>1, ForwardInductive, PTL DEF Time!Spec, Time!ForwardedInTime, ForwardedInTime

=============================================================================
