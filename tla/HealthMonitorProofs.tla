------------------------- MODULE HealthMonitorProofs -------------------------
(* Proofs about the health monitor: what its checks find is true, they are   *)
(* made in the cycle they are meant for, they come to a verdict unless an    *)
(* answer was lost or late, and late answers do not add up.                  *)
EXTENDS HealthMonitor, SequenceTheorems, TLAPS

\* Cycles counted and cycles ended differ by the one cycle that can end between
\* two of main's stores.
CountInv ==
    /\ ~warmupComplete => count = 0 /\ since = 0
    /\ count <= since /\ since <= count + 1
    /\ fwCheckDone <=> verdict.fw # "none"
    /\ fwCheckDone <=> count = CheckCycle
    /\ powerCheckDone <=> verdict.power # "none"
    /\ powerCheckDone => fwCheckDone
    /\ fwCheckDone /\ thread # "power" /\ CheckEnabled => powerCheckDone
    /\ main \in {"start", "warmup"} => ~warmupComplete
    /\ Notifying => /\ warmupComplete /\ since <= 1
                    /\ since = 1 => thread \in {"power", "show"}

\* Who runs at each label of main.
MainInv ==
    /\ main = "start" => thread = "none" /\ ~running
    /\ ~running => thread = "none" \/ main \in {"join", "cleanup", "done"}
    /\ main \in {"cleanup", "done"} => thread \in {"none", "ended"}

\* What the record says it has it has from the unit.
RecordInv ==
    /\ \A f \in cycle.valid : cycle.version[f] = unit[f]
    /\ cycle.mcu => cycle.power = unit.power
    /\ \A i \in DOMAIN net : net[i].kind = "full" => net[i].fpga \in Fpgas

\* the answers to n queries
AnswersOf(n) == n * Expected

\* The i-th answer in the socket is read before its age can pass 1 + failures:
\* a cycle reads Expected answers or all that are old, unless the socket fails.
InTime(read) ==
    \A i \in DOMAIN net : AnswersOf(net[i].age) + i + read <= AnswersOf(failures + 2)

\* The answers to the query of this cycle come last and are no more than Expected.
NewestLast ==
    \A i \in DOMAIN net : net[i].age = 0 =>
        /\ Len(net) < i + Expected
        /\ \A j \in i..Len(net) : net[j].age = 0

AgeInv ==
    /\ thread = "none" => net = <<>>
    /\ thread \in {"none", "top"} =>
          /\ cycle = EmptyCycle /\ elapsed = 0 /\ InTime(0)
          /\ \A i \in DOMAIN net : net[i].age > 0
    /\ thread = "receive" =>
          /\ InTime(cycle.total) /\ NewestLast
          /\ elapsed > 0 => \A i \in DOMAIN net : net[i].age = 0
    /\ thread \in {"fw", "power", "show"} => InTime(Expected)
    /\ thread \in {"receive", "fw", "power", "show"} => cycle.oldest <= 1 + failures

\* With nothing lost or late each answer to the query is in the socket or recorded.
InSocket(kind, fpga) ==
    \E i \in DOMAIN net : net[i].kind = kind /\ net[i].fpga = fpga

UndisturbedInv ==
    ~disturbed =>
        /\ thread # "receive" => net = <<>>
        /\ thread = "receive" =>
              /\ cycle.total + Len(net) <= Expected
              /\ \A f \in Fpgas : f \in cycle.valid \/ InSocket("full", f)
              /\ cycle.mcu \/ InSocket("mcu", NoFpga)
        /\ thread \in {"fw", "power", "show"} => cycle.valid = Fpgas /\ cycle.mcu

IInv ==
    /\ TypeOK /\ MainInv /\ CountInv /\ RecordInv /\ VerdictIsTrue /\ AgeInv
    /\ UndisturbedInv /\ UndisturbedChecksDecide

----------------------------------------------------------------------------
(* The socket: what leaves at the head, what comes in at the end, what ages. *)

AnswersTo(order) ==
    [i \in 1..Len(order) |-> [kind |-> order[i][1], fpga |-> order[i][2], age |-> 0]]

Aged == [i \in DOMAIN net |-> [net[i] EXCEPT !.age = IF @ < MaxAge THEN @ + 1 ELSE @]]

LEMMA Indices ==
    ASSUME NEW S, NEW s \in Seq(S)
    PROVE  /\ Len(s) \in Nat /\ DOMAIN s = 1..Len(s)
           /\ \A i \in 1..Len(s) : s[i] \in S
           /\ s = <<>> <=> Len(s) = 0
BY EmptySeq, SMT

\* Taking the head moves the others up by one.
LEMMA TailMoves ==
    ASSUME NEW S, NEW s \in Seq(S), s # <<>>
    PROVE  /\ Head(s) = s[1] /\ Head(s) \in S /\ 1 \in DOMAIN s
           /\ Tail(s) \in Seq(S) /\ Len(Tail(s)) = Len(s) - 1
           /\ \A i \in DOMAIN Tail(s) : i + 1 \in DOMAIN s /\ Tail(s)[i] = s[i + 1]
           /\ \A i \in DOMAIN s : \/ i = 1
                                  \/ i - 1 \in DOMAIN Tail(s) /\ Tail(s)[i - 1] = s[i]
BY HeadTailProperties, Indices, SMT

LEMMA AnswersToType ==
    ASSUME NEW order \in Orders
    PROVE  /\ AnswersTo(order) \in Seq(Answers)
           /\ Len(AnswersTo(order)) = Len(order) /\ Len(order) \in 0..Expected
           /\ \A i \in 1..Len(order) : /\ AnswersTo(order)[i].kind = order[i][1]
                                       /\ AnswersTo(order)[i].fpga = order[i][2]
                                       /\ AnswersTo(order)[i].age = 0
                                       /\ order[i] \in Sources
<1>1. order \in Seq(Sources) /\ Len(order) <= Expected /\ Len(order) \in Nat
  BY OrdersAssumption
<1>2. \A i \in 1..Len(order) : order[i] \in Sources
  BY <1>1
<1>3. \A s \in Sources : s[1] \in Kinds /\ s[2] \in Fpgas \cup {NoFpga}
  BY DEF Sources, Kinds
<1>4. 0 \in 0..MaxAge
  BY BoundsAssumption
<1>5. \A i \in 1..Len(order) :
         [kind |-> order[i][1], fpga |-> order[i][2], age |-> 0] \in Answers
  BY <1>2, <1>3, <1>4 DEF Answers
<1> QED
  BY <1>1, <1>2, <1>5, BoundsAssumption DEF AnswersTo

\* The answers to a query are put behind those that are there.
LEMMA SendMoves ==
    ASSUME NEW order \in Orders, NEW s \in Seq(Answers)
    PROVE  LET new == s \o AnswersTo(order)
           IN  /\ new \in Seq(Answers) /\ Len(new) = Len(s) + Len(order)
               /\ \A i \in 1..Len(s) : new[i] = s[i]
               /\ \A i \in 1..Len(order) : new[Len(s) + i] = AnswersTo(order)[i]
               /\ \A i \in DOMAIN new : \/ i \in 1..Len(s)
                                        \/ i - Len(s) \in 1..Len(order)
<1> DEFINE t == AnswersTo(order)
<1>1. t \in Seq(Answers) /\ Len(t) = Len(order) /\ Len(t) \in Nat /\ Len(s) \in Nat
  BY AnswersToType, Indices
<1> HIDE DEF t
<1>2. /\ s \o t \in Seq(Answers) /\ Len(s \o t) = Len(s) + Len(t)
      /\ \A i \in 1..Len(s) + Len(t) : (s \o t)[i] = IF i <= Len(s) THEN s[i] ELSE t[i - Len(s)]
  BY <1>1, ConcatProperties
<1>3. DOMAIN (s \o t) = 1..Len(s) + Len(t)
  BY <1>2, Indices
<1>4. \A i \in 1..Len(s) : (s \o t)[i] = s[i]
  BY <1>1, <1>2
<1>5. \A i \in 1..Len(t) : (s \o t)[Len(s) + i] = t[i]
  BY <1>1, <1>2
<1>6. \A i \in DOMAIN (s \o t) : i \in 1..Len(s) \/ i - Len(s) \in 1..Len(t)
  BY <1>1, <1>3
<1> QED
  BY <1>1, <1>2, <1>4, <1>5, <1>6 DEF t

LEMMA AgedType ==
    ASSUME net \in Seq(Answers)
    PROVE  /\ Aged \in Seq(Answers) /\ Len(Aged) = Len(net)
           /\ DOMAIN Aged = DOMAIN net
           /\ \A i \in DOMAIN net :
                 /\ Aged[i].kind = net[i].kind /\ Aged[i].fpga = net[i].fpga
                 /\ net[i].age \in Nat /\ Aged[i].age \in Nat
                 /\ 0 < Aged[i].age /\ Aged[i].age <= net[i].age + 1
<1>1. Len(net) \in Nat /\ DOMAIN net = 1..Len(net) /\ \A i \in 1..Len(net) : net[i] \in Answers
  BY Indices
<1>2. ASSUME NEW a \in Answers
      PROVE  LET b == [a EXCEPT !.age = IF @ < MaxAge THEN @ + 1 ELSE @]
             IN  /\ b \in Answers /\ b.kind = a.kind /\ b.fpga = a.fpga
                 /\ 0 < b.age /\ b.age <= a.age + 1 /\ b.age \in Nat /\ a.age \in Nat
  BY BoundsAssumption DEF Answers
<1> DEFINE Older(a) == [a EXCEPT !.age = IF @ < MaxAge THEN @ + 1 ELSE @]
<1>3. Aged = [i \in 1..Len(net) |-> Older(net[i])]
  BY <1>1 DEF Aged
<1>4. \A a \in Answers : /\ Older(a) \in Answers
                         /\ Older(a).kind = a.kind /\ Older(a).fpga = a.fpga
                         /\ 0 < Older(a).age /\ Older(a).age <= a.age + 1
                         /\ Older(a).age \in Nat /\ a.age \in Nat
  BY <1>2
<1> HIDE DEF Older
<1>5. \A i \in 1..Len(net) : Older(net[i]) \in Answers /\ Aged[i] = Older(net[i])
  BY <1>1, <1>3, <1>4
<1>6. Aged \in Seq(Answers) /\ Len(Aged) = Len(net) /\ DOMAIN Aged = 1..Len(net)
  BY <1>1, <1>3, <1>5
<1> QED
  BY <1>1, <1>4, <1>5, <1>6

----------------------------------------------------------------------------
(* Types, and what the record is after one more answer. *)

LEMMA ExpectedType == Expected \in Nat /\ CheckCycle \in Nat /\ CheckCycle > 1 /\ Timeout \in Nat
BY BoundsAssumption, CheckAssumption

LEMMA UnitType ==
    ASSUME TypeOK
    PROVE  /\ unit \in Units /\ unit.power \in Powers
           /\ \A f \in Fpgas : unit[f] \in Versions
BY VersionAssumption DEF TypeOK, Fpgas

LEMMA InitInv == Init => IInv
<1> SUFFICES ASSUME Init PROVE IInv
  OBVIOUS
<1>1. TypeOK
  <2>1. EmptyCycle \in Cycles
    BY BoundsAssumption DEF EmptyCycle, Cycles
  <2>2. net \in Seq(Answers)
    BY EmptySeq DEF Init
  <2>3. verdict \in [fw : Verdicts, power : Verdicts]
    BY DEF Init, Verdicts
  <2>4. /\ count \in 0..CheckCycle /\ since \in 0..CheckCycle + 1 /\ elapsed \in 0..Timeout
        /\ failures \in 0..MaxFailures
    BY ExpectedType, BoundsAssumption DEF Init
  <2> QED
    BY <2>1, <2>2, <2>3, <2>4 DEF Init, TypeOK, MainLabels, Threads
<1>2. MainInv /\ CountInv
  BY ExpectedType DEF Init, MainInv, CountInv, Notifying
<1>3. RecordInv /\ VerdictIsTrue /\ AgeInv
  BY DEF Init, RecordInv, VerdictIsTrue, AgeInv, EmptyCycle, InTime
<1>4. UndisturbedInv /\ UndisturbedChecksDecide
  BY DEF Init, UndisturbedInv, UndisturbedChecksDecide
<1> QED
  BY <1>1, <1>2, <1>3, <1>4 DEF IInv

\* One more answer sets what it says, and nothing else; total counts it or, if it
\* is attributed to nobody, does not.
LEMMA Parsed ==
    ASSUME TypeOK, NEW a \in Answers, cycle.total < Expected,
           a.kind = "full" => a.fpga \in Fpgas
    PROVE  /\ Parse(a) \in Cycles
           /\ Parse(a).total \in {cycle.total, cycle.total + 1}
           /\ Parse(a).oldest \in {cycle.oldest, a.age}
           /\ Parse(a).valid = IF a.kind = "full" THEN cycle.valid \cup {a.fpga}
                               ELSE cycle.valid
           /\ \A f \in cycle.valid : Parse(a).version[f] = cycle.version[f]
           /\ \A f \in Parse(a).valid \ cycle.valid : Parse(a).version[f] = unit[f]
           /\ Parse(a).mcu <=> cycle.mcu \/ a.kind = "mcu"
           /\ Parse(a).power = IF a.kind = "mcu" THEN unit.power ELSE cycle.power
<1>0. /\ cycle \in Cycles /\ unit.power \in Powers /\ \A f \in Fpgas : unit[f] \in Versions
      /\ Expected \in Nat /\ MaxAge \in Nat
  BY UnitType, BoundsAssumption DEF TypeOK
<1> DEFINE oldest == Max2(cycle.oldest, a.age)
<1>o. oldest \in 0..MaxAge /\ oldest \in {cycle.oldest, a.age}
  BY <1>0 DEF Cycles, Answers, Max2
<1>t. cycle.total + 1 \in 0..Expected
  BY <1>0 DEF Cycles
<1> HIDE DEF oldest
<1>1. CASE a.kind = "mcu"
  <2>1. Parse(a) = [cycle EXCEPT !.power = unit.power, !.mcu = TRUE,
                                 !.total = cycle.total + 1, !.oldest = oldest]
    BY <1>1, <1>0 DEF Parse, ParseMcu, oldest, Cycles
  <2> QED
    BY <2>1, <1>1, <1>0, <1>o, <1>t DEF Cycles
<1>2. CASE a.kind # "mcu" /\ Target(a) = NoFpga
  <2>1. a.kind # "full"
    BY <1>2 DEF Target, NoFpga, Fpgas
  <2> QED
    BY <1>0, <1>2, <2>1 DEF Parse
<1>3. CASE a.kind # "mcu" /\ Target(a) # NoFpga
  <2>1. Parse(a) = ParseFpga(a)
    BY <1>3 DEF Parse
  <2>2. CASE a.kind = "full" /\ a.fpga \notin cycle.valid
    <3> DEFINE version == [cycle.version EXCEPT ![a.fpga] = unit[a.fpga]]
    <3> DEFINE valid == cycle.valid \cup {a.fpga}
    <3>1. /\ version \in [Fpgas -> Versions \cup {0}] /\ version[a.fpga] = unit[a.fpga]
          /\ \A f \in cycle.valid : version[f] = cycle.version[f]
      BY <1>0, <2>2 DEF Cycles
    <3>2. Parse(a) = [cycle EXCEPT !.version = version,
                            !.valid = valid, !.last = a.fpga,
                            !.total = cycle.total + 1, !.oldest = oldest]
      BY <1>0, <2>1, <2>2 DEF ParseFpga, Target, oldest, Cycles
    <3> HIDE DEF version
    <3>v. valid \in SUBSET Fpgas /\ a.fpga \in Fpgas \cup {NoFpga}
      BY <1>0, <2>2 DEF Cycles
    <3>3. Parse(a) \in Cycles
      <4> HIDE DEF valid
      <4> QED
        BY <1>0, <1>o, <1>t, <3>v, <3>1, <3>2 DEF Cycles
    <3>4. /\ Parse(a).valid = cycle.valid \cup {a.fpga} /\ Parse(a).version = version
          /\ Parse(a).total = cycle.total + 1 /\ Parse(a).oldest = oldest
          /\ Parse(a).mcu = cycle.mcu /\ Parse(a).power = cycle.power
      BY <1>0, <3>2 DEF Cycles
    <3> QED
      BY <1>o, <2>2, <3>1, <3>3, <3>4
  <2>3. CASE a.kind = "full" /\ a.fpga \in cycle.valid
    <3>0. cycle.valid \cup {a.fpga} = cycle.valid
      BY <2>3
    <3>1. Parse(a) = [cycle EXCEPT !.version = cycle.version, !.valid = cycle.valid,
                            !.last = a.fpga,
                            !.total = cycle.total + 1, !.oldest = oldest]
      BY <1>0, <2>1, <2>3, <3>0 DEF ParseFpga, Target, oldest, Cycles
    <3>2. Parse(a) \in Cycles
      BY <1>0, <1>o, <1>t, <2>3, <3>1 DEF Cycles
    <3>3. /\ Parse(a).valid = cycle.valid /\ Parse(a).version = cycle.version
          /\ Parse(a).total = cycle.total + 1 /\ Parse(a).oldest = oldest
          /\ Parse(a).mcu = cycle.mcu /\ Parse(a).power = cycle.power
      BY <1>0, <3>1 DEF Cycles
    <3> QED
      BY <1>o, <2>3, <3>0, <3>2, <3>3
  <2>4. CASE a.kind # "full"
    <3>1. Parse(a) = [cycle EXCEPT !.version = cycle.version, !.valid = cycle.valid,
                            !.last = cycle.last,
                            !.total = cycle.total + 1, !.oldest = oldest]
      BY <1>0, <2>1, <2>4 DEF ParseFpga, Target, oldest, Cycles
    <3> QED
      BY <1>0, <1>3, <1>o, <1>t, <2>4, <3>1 DEF Cycles
  <2> QED
    BY <2>2, <2>3, <2>4
<1> QED
  BY <1>1, <1>2, <1>3

----------------------------------------------------------------------------
(* Every step preserves the types. *)

\* Steps of the thread that neither read the socket nor end a cycle, and all steps
\* of main but the last leave record, socket and unit alone.
LEMMA TypeStep ==
    ASSUME TypeOK, CountInv, RecordInv, Next
    PROVE  TypeOK'
<1> USE DEF TypeOK, MainLabels, Threads, monitorVars, netVars, history
<1>0. Expected \in Nat /\ CheckCycle \in Nat /\ CheckCycle > 1 /\ Timeout \in Nat
  BY ExpectedType
<1>1. CASE ThreadEnds
  BY <1>1 DEF ThreadEnds
<1>2. CASE SendQuery
  <2>1. PICK order \in Orders : net' = net \o AnswersTo(order)
    BY <1>2 DEF SendQuery, AnswersTo
  <2>2. net' \in Seq(Answers)
    BY <2>1, SendMoves
  <2> QED
    BY <1>2, <2>2 DEF SendQuery
<1>3. CASE SendFails
  BY <1>3 DEF SendFails
<1>4. CASE ReceiveAnswer
  <2>1. Head(net) \in Answers /\ Tail(net) \in Seq(Answers) /\ Head(net) = net[1] /\ 1 \in DOMAIN net
    BY <1>4, TailMoves DEF ReceiveAnswer
  <2>2. Head(net).kind = "full" => Head(net).fpga \in Fpgas
    BY <2>1 DEF RecordInv
  <2>3. Parse(Head(net)) \in Cycles
    BY <1>4, <2>1, <2>2, Parsed DEF ReceiveAnswer, Collecting, Incomplete
  <2> QED
    BY <1>4, <2>1, <2>3 DEF ReceiveAnswer
<1>5. CASE ReceiveFails
  BY <1>5, BoundsAssumption DEF ReceiveFails
<1>6. CASE PollWaits
  BY <1>6, <1>0 DEF PollWaits, Collecting, Incomplete
<1>7. CASE CollectionEnds
  BY <1>7 DEF CollectionEnds
<1>8. CASE FwCheck
  <2>1. count' \in 0..CheckCycle /\ since' \in 0..CheckCycle + 1
    BY <1>8, <1>0 DEF FwCheck, CountInv
  <2>2. verdict' \in [fw : Verdicts, power : Verdicts]
    BY <1>8 DEF FwCheck, FwVerdict, Verdicts
  <2>3. quit' \in BOOLEAN /\ fwCheckDone' \in BOOLEAN /\ stoppedBy' \in {"none", "operator", "monitor"}
    BY <1>8 DEF FwCheck, StopOn
  <2> QED
    BY <1>8, <2>1, <2>2, <2>3 DEF FwCheck
<1>9. CASE PowerCheck
  <2>1. verdict' \in [fw : Verdicts, power : Verdicts]
    BY <1>9 DEF PowerCheck, PowerVerdict, Verdicts
  <2>2. quit' \in BOOLEAN /\ powerCheckDone' \in BOOLEAN /\ stoppedBy' \in {"none", "operator", "monitor"}
    BY <1>9 DEF PowerCheck, StopOn
  <2> QED
    BY <1>9, <2>1, <2>2 DEF PowerCheck
<1>10. CASE ShowAndSleep
  <2>1. net' = Aged
    BY <1>10 DEF ShowAndSleep, Aged
  <2>2. EmptyCycle \in Cycles
    BY BoundsAssumption DEF EmptyCycle, Cycles
  <2>3. net' \in Seq(Answers)
    BY <2>1, AgedType
  <2>4. cycle' = EmptyCycle /\ elapsed' = 0 /\ thread' = "top"
    BY <1>10 DEF ShowAndSleep
  <2>5. UNCHANGED <<main, quit, running, monitorVars, unit, failures, disturbed, history>>
    BY <1>10 DEF ShowAndSleep
  <2> QED
    BY <2>2, <2>3, <2>4, <2>5, <1>0
<1>11. CASE ReceiveForeign
  BY <1>11 DEF ReceiveForeign
<1>12. CASE StartMonitor
  BY <1>12, <1>0 DEF StartMonitor, MainTo
<1>13. CASE StartFails
  BY <1>13, <1>0 DEF StartFails, MainTo
<1>14. CASE SetWarmupComplete
  BY <1>14, <1>0 DEF SetWarmupComplete, MainTo
<1>15. CASE ResetCount
  BY <1>15, <1>0 DEF ResetCount, MainTo
<1>16. CASE ResetChecks
  <2>1. CASE fwCheckDone' = FALSE /\ UNCHANGED powerCheckDone
    BY <1>16, <2>1 DEF ResetChecks, MainTo
  <2>2. CASE powerCheckDone' = FALSE /\ UNCHANGED fwCheckDone
    BY <1>16, <2>2 DEF ResetChecks, MainTo
  <2> QED
    BY <1>16, <2>1, <2>2 DEF ResetChecks
<1>17. CASE WarmupWithoutMonitor
  BY <1>17, <1>0 DEF WarmupWithoutMonitor, MainTo
<1>18. CASE LeaveLoop
  BY <1>18, <1>0 DEF LeaveLoop, MainTo
<1>19. CASE StopMonitor
  BY <1>19, <1>0 DEF StopMonitor, MainTo
<1>20. CASE JoinThread
  BY <1>20, <1>0 DEF JoinThread, MainTo
<1>21. CASE CleanupMonitor
  BY <1>21, EmptySeq DEF CleanupMonitor, MainTo
<1>22. CASE Interrupt
  BY <1>22 DEF Interrupt
<1>23. CASE Lose
  BY <1>23, TailMoves DEF Lose
<1> QED
  BY <1>1, <1>2, <1>3, <1>4, <1>5, <1>6, <1>7, <1>8,
     <1>9, <1>10, <1>11, <1>12, <1>13, <1>14, <1>15, <1>16,
     <1>17, <1>18, <1>19, <1>20, <1>21, <1>22, <1>23 DEF Next, ThreadStep, MainStep

----------------------------------------------------------------------------
(* The checks are made in the cycle they are meant for. *)

LEMMA MainStepInv ==
    ASSUME TypeOK, MainInv, Next
    PROVE  MainInv'
<1> USE DEF MainInv, netVars, monitorVars, history
<1>0. thread \in Threads /\ main \in MainLabels /\ running \in BOOLEAN
  BY DEF TypeOK
<1>1. CASE ThreadEnds
  BY <1>1, <1>0 DEF ThreadEnds
<1>2. CASE SendQuery
  BY <1>2, <1>0 DEF SendQuery
<1>3. CASE SendFails
  BY <1>3, <1>0 DEF SendFails
<1>4. CASE ReceiveAnswer
  BY <1>4, <1>0 DEF ReceiveAnswer, Collecting
<1>5. CASE ReceiveFails
  BY <1>5, <1>0 DEF ReceiveFails, Collecting
<1>6. CASE PollWaits
  BY <1>6, <1>0 DEF PollWaits
<1>7. CASE CollectionEnds
  BY <1>7, <1>0 DEF CollectionEnds
<1>8. CASE FwCheck
  BY <1>8, <1>0 DEF FwCheck
<1>9. CASE PowerCheck
  BY <1>9, <1>0 DEF PowerCheck
<1>10. CASE ShowAndSleep
  BY <1>10, <1>0 DEF ShowAndSleep
<1>11. CASE ReceiveForeign
  BY <1>11, <1>0 DEF ReceiveForeign
<1>12. CASE StartMonitor
  BY <1>12, <1>0 DEF StartMonitor, MainTo
<1>13. CASE StartFails
  BY <1>13, <1>0 DEF StartFails, MainTo
<1>14. CASE SetWarmupComplete
  BY <1>14, <1>0 DEF SetWarmupComplete, MainTo
<1>15. CASE ResetCount
  BY <1>15, <1>0 DEF ResetCount, MainTo
<1>16. CASE ResetChecks
  BY <1>16, <1>0 DEF ResetChecks, MainTo
<1>17. CASE WarmupWithoutMonitor
  BY <1>17, <1>0 DEF WarmupWithoutMonitor, MainTo
<1>18. CASE LeaveLoop
  BY <1>18, <1>0 DEF LeaveLoop
<1>19. CASE StopMonitor
  BY <1>19, <1>0 DEF StopMonitor, MainTo
<1>20. CASE JoinThread
  BY <1>20, <1>0 DEF JoinThread, MainTo
<1>21. CASE CleanupMonitor
  BY <1>21, <1>0 DEF CleanupMonitor, MainTo
<1>22. CASE Interrupt
  BY <1>22, <1>0 DEF Interrupt
<1>23. CASE Lose
  BY <1>23, <1>0 DEF Lose
<1> QED
  BY <1>1, <1>2, <1>3, <1>4, <1>5, <1>6, <1>7, <1>8,
     <1>9, <1>10, <1>11, <1>12, <1>13, <1>14, <1>15, <1>16,
     <1>17, <1>18, <1>19, <1>20, <1>21, <1>22, <1>23 DEF Next, ThreadStep, MainStep

LEMMA CountStep ==
    ASSUME TypeOK, MainInv, CountInv, Next
    PROVE  CountInv'
<1> USE DEF CountInv, Notifying, CheckEnabled, netVars, monitorVars, history
<1>0. /\ CheckCycle \in Nat /\ CheckCycle > 1
      /\ thread \in Threads /\ main \in MainLabels /\ warmupComplete \in BOOLEAN
      /\ fwCheckDone \in BOOLEAN /\ powerCheckDone \in BOOLEAN
      /\ count \in 0..CheckCycle /\ since \in Nat
      /\ verdict \in [fw : Verdicts, power : Verdicts]
  BY ExpectedType DEF TypeOK
<1>1. CASE ThreadEnds
  BY <1>1, <1>0 DEF ThreadEnds
<1>2. CASE SendQuery
  BY <1>2, <1>0 DEF SendQuery
<1>3. CASE SendFails
  BY <1>3, <1>0 DEF SendFails
<1>4. CASE ReceiveAnswer
  BY <1>4, <1>0 DEF ReceiveAnswer
<1>5. CASE ReceiveFails
  BY <1>5, <1>0 DEF ReceiveFails, Collecting
<1>6. CASE PollWaits
  BY <1>6, <1>0 DEF PollWaits
<1>7. CASE CollectionEnds
  BY <1>7, <1>0 DEF CollectionEnds
<1>8. CASE FwCheck
  <2>0. FwVerdict # "none"
    BY DEF FwVerdict
  <2>1. CASE ~warmupComplete \/ fwCheckDone
    BY <1>8, <1>0, <2>1 DEF FwCheck
  <2>2. CASE warmupComplete /\ ~fwCheckDone /\ count + 1 < CheckCycle
    BY <1>8, <1>0, <2>2 DEF FwCheck
  <2>3. CASE warmupComplete /\ ~fwCheckDone /\ ~(count + 1 < CheckCycle)
    <3>1. /\ verdict'.fw = FwVerdict /\ verdict'.power = verdict.power
          /\ fwCheckDone' = TRUE /\ count' = count + 1 /\ since' = since + 1
          /\ thread = "fw" /\ thread' = "power"
          /\ UNCHANGED <<main, warmupComplete, powerCheckDone, unit>>
      BY <1>8, <1>0, <2>3 DEF FwCheck
    <3>2. count' = CheckCycle
      BY <1>0, <2>3, <3>1
    <3> QED
      BY <1>0, <2>0, <2>3, <3>1, <3>2
  <2> QED
    BY <1>0, <2>1, <2>2, <2>3
<1>9. CASE PowerCheck
  <2>0. PowerVerdict # "none"
    BY DEF PowerVerdict
  <2>1. CASE warmupComplete /\ CheckEnabled /\ ~powerCheckDone /\ count >= CheckCycle
    <3>1. /\ verdict'.power = PowerVerdict /\ verdict'.fw = verdict.fw
          /\ powerCheckDone' = TRUE /\ thread = "power" /\ thread' = "show"
          /\ UNCHANGED <<main, warmupComplete, count, fwCheckDone, since, unit>>
      BY <1>9, <1>0, <2>1 DEF PowerCheck
    <3> QED
      BY <1>0, <2>0, <2>1, <3>1
  <2>2. CASE ~(warmupComplete /\ CheckEnabled /\ ~powerCheckDone /\ count >= CheckCycle)
    <3>1. /\ thread = "power" /\ thread' = "show"
          /\ UNCHANGED <<main, warmupComplete, count, fwCheckDone, since, unit, powerCheckDone, verdict>>
      BY <1>9, <1>0, <2>2 DEF PowerCheck
    <3> QED
      BY <1>0, <2>2, <3>1
  <2> QED
    BY <2>1, <2>2
<1>10. CASE ShowAndSleep
  BY <1>10, <1>0 DEF ShowAndSleep
<1>11. CASE ReceiveForeign
  BY <1>11, <1>0 DEF ReceiveForeign
<1>12. CASE StartMonitor
  BY <1>12, <1>0 DEF StartMonitor, MainTo
<1>13. CASE StartFails
  BY <1>13, <1>0 DEF StartFails, MainTo
<1>14. CASE SetWarmupComplete
  BY <1>14, <1>0 DEF SetWarmupComplete, MainTo
<1>15. CASE ResetCount
  BY <1>15, <1>0 DEF ResetCount, MainTo
<1>16. CASE ResetChecks
  BY <1>16, <1>0 DEF ResetChecks, MainTo
<1>17. CASE WarmupWithoutMonitor
  BY <1>17, <1>0 DEF WarmupWithoutMonitor, MainTo
<1>18. CASE LeaveLoop
  BY <1>18, <1>0 DEF LeaveLoop
<1>19. CASE StopMonitor
  BY <1>19, <1>0 DEF StopMonitor, MainTo
<1>20. CASE JoinThread
  BY <1>20, <1>0 DEF JoinThread, MainTo
<1>21. CASE CleanupMonitor
  BY <1>21, <1>0 DEF CleanupMonitor, MainTo
<1>22. CASE Interrupt
  BY <1>22, <1>0 DEF Interrupt
<1>23. CASE Lose
  BY <1>23, <1>0 DEF Lose
<1> QED
  BY <1>1, <1>2, <1>3, <1>4, <1>5, <1>6, <1>7, <1>8,
     <1>9, <1>10, <1>11, <1>12, <1>13, <1>14, <1>15, <1>16,
     <1>17, <1>18, <1>19, <1>20, <1>21, <1>22, <1>23 DEF Next, ThreadStep, MainStep

----------------------------------------------------------------------------
(* What the checks find is true. *)

LEMMA RecordStep ==
    ASSUME TypeOK, RecordInv, Next
    PROVE  RecordInv'
<1> USE DEF RecordInv, netVars, monitorVars, history
<1>0. net \in Seq(Answers) /\ cycle \in Cycles
  BY DEF TypeOK
<1>1. CASE ThreadEnds
  BY <1>1, <1>0 DEF ThreadEnds
<1>2. CASE SendQuery
  <2>1. PICK order \in Orders : net' = net \o AnswersTo(order)
    BY <1>2 DEF SendQuery, AnswersTo
  <2>2. UNCHANGED <<cycle, unit>>
    BY <1>2 DEF SendQuery
  <2>3. ASSUME NEW i \in DOMAIN net', net'[i].kind = "full"
        PROVE  net'[i].fpga \in Fpgas
    <3>1. CASE i \in 1..Len(net)
      BY <1>0, <2>1, <2>3, <3>1, SendMoves, Indices
    <3>2. CASE i - Len(net) \in 1..Len(order)
      <4> DEFINE k == i - Len(net)
      <4>1. net'[i] = AnswersTo(order)[k] /\ order[k] \in Sources
        BY <1>0, <2>1, <3>2, SendMoves, AnswersToType, Indices
      <4>2. net'[i].kind = order[k][1] /\ net'[i].fpga = order[k][2]
        BY <3>2, <4>1, AnswersToType
      <4>3. \A s \in Sources : s[1] = "full" => s[2] \in Fpgas
        BY DEF Sources
      <4> QED
        BY <2>3, <4>1, <4>2, <4>3
    <3> QED
      BY <1>0, <2>1, <2>3, <3>1, <3>2, SendMoves
  <2> QED
    BY <2>2, <2>3
<1>3. CASE SendFails
  BY <1>3, <1>0 DEF SendFails
<1>4. CASE ReceiveAnswer
  <2> DEFINE a == Head(net)
  <2>1. /\ net # <<>> /\ cycle.total < Expected /\ cycle' = Parse(a) /\ net' = Tail(net)
        /\ UNCHANGED unit
    BY <1>4 DEF ReceiveAnswer, Collecting, Incomplete
  <2>2. /\ a \in Answers
        /\ a.kind = "full" => a.fpga \in Fpgas
        /\ \A i \in DOMAIN net' : i + 1 \in DOMAIN net /\ net'[i] = net[i + 1]
    BY <1>0, <2>1, TailMoves
  <2> HIDE DEF a
  <2>3. /\ cycle'.valid \subseteq Fpgas
        /\ \A f \in cycle.valid : cycle'.version[f] = cycle.version[f]
        /\ \A f \in cycle'.valid \ cycle.valid : cycle'.version[f] = unit[f]
        /\ cycle'.mcu <=> cycle.mcu \/ a.kind = "mcu"
        /\ cycle'.power = IF a.kind = "mcu" THEN unit.power ELSE cycle.power
    BY <1>0, <2>1, <2>2, Parsed DEF Cycles
  <2> QED
    BY <2>1, <2>2, <2>3
<1>5. CASE ReceiveFails
  BY <1>5, <1>0 DEF ReceiveFails
<1>6. CASE PollWaits
  BY <1>6, <1>0 DEF PollWaits
<1>7. CASE CollectionEnds
  BY <1>7, <1>0 DEF CollectionEnds
<1>8. CASE FwCheck
  BY <1>8, <1>0 DEF FwCheck
<1>9. CASE PowerCheck
  BY <1>9, <1>0 DEF PowerCheck
<1>10. CASE ShowAndSleep
  <2>1. net' = Aged /\ cycle' = EmptyCycle
    BY <1>10 DEF ShowAndSleep, Aged
  <2>2. EmptyCycle.valid = {} /\ ~EmptyCycle.mcu
    BY DEF EmptyCycle
  <2> QED
    BY <1>0, <2>1, <2>2, AgedType
<1>11. CASE ReceiveForeign
  BY <1>11, <1>0 DEF ReceiveForeign
<1>12. CASE StartMonitor
  BY <1>12, <1>0 DEF StartMonitor, MainTo
<1>13. CASE StartFails
  BY <1>13, <1>0 DEF StartFails, MainTo
<1>14. CASE SetWarmupComplete
  BY <1>14, <1>0 DEF SetWarmupComplete, MainTo
<1>15. CASE ResetCount
  BY <1>15, <1>0 DEF ResetCount, MainTo
<1>16. CASE ResetChecks
  BY <1>16, <1>0 DEF ResetChecks, MainTo
<1>17. CASE WarmupWithoutMonitor
  BY <1>17, <1>0 DEF WarmupWithoutMonitor, MainTo
<1>18. CASE LeaveLoop
  BY <1>18, <1>0 DEF LeaveLoop
<1>19. CASE StopMonitor
  BY <1>19, <1>0 DEF StopMonitor, MainTo
<1>20. CASE JoinThread
  BY <1>20, <1>0 DEF JoinThread, MainTo
<1>21. CASE CleanupMonitor
  <2>1. net' = <<>> /\ DOMAIN net' = {} /\ UNCHANGED <<cycle, unit>>
    BY <1>21 DEF CleanupMonitor
  <2> QED
    BY <2>1
<1>22. CASE Interrupt
  BY <1>22, <1>0 DEF Interrupt
<1>23. CASE Lose
  <2>1. net # <<>> /\ net' = Tail(net) /\ UNCHANGED <<cycle, unit>>
    BY <1>23 DEF Lose
  <2> QED
    BY <1>0, <2>1, TailMoves
<1> QED
  BY <1>1, <1>2, <1>3, <1>4, <1>5, <1>6, <1>7, <1>8,
     <1>9, <1>10, <1>11, <1>12, <1>13, <1>14, <1>15, <1>16,
     <1>17, <1>18, <1>19, <1>20, <1>21, <1>22, <1>23 DEF Next, ThreadStep, MainStep

LEMMA VerdictStep ==
    ASSUME TypeOK, RecordInv, VerdictIsTrue, Next
    PROVE  VerdictIsTrue'
<1> USE DEF VerdictIsTrue, CheckEnabled, netVars, monitorVars, history
<1>0. /\ verdict \in [fw : Verdicts, power : Verdicts]
      /\ cycle.valid = Fpgas => /\ cycle.version["assistant"] = unit.assistant
                                /\ cycle.version["manager"] = unit.manager
      /\ cycle.mcu => cycle.power = unit.power
  BY DEF TypeOK, RecordInv, Fpgas
<1>1. CASE ThreadEnds
  BY <1>1, <1>0 DEF ThreadEnds
<1>2. CASE SendQuery
  BY <1>2, <1>0 DEF SendQuery
<1>3. CASE SendFails
  BY <1>3, <1>0 DEF SendFails
<1>4. CASE ReceiveAnswer
  BY <1>4, <1>0 DEF ReceiveAnswer
<1>5. CASE ReceiveFails
  BY <1>5, <1>0 DEF ReceiveFails
<1>6. CASE PollWaits
  BY <1>6, <1>0 DEF PollWaits
<1>7. CASE CollectionEnds
  BY <1>7, <1>0 DEF CollectionEnds
<1>8. CASE FwCheck
  <2>1. CASE UNCHANGED <<verdict, stoppedBy>>
    BY <1>8, <2>1 DEF FwCheck
  <2>2. CASE verdict' = [verdict EXCEPT !.fw = FwVerdict] /\ StopOn(FwVerdict)
    <3>1. verdict'.fw = FwVerdict /\ verdict'.power = verdict.power /\ UNCHANGED unit
      BY <1>8, <1>0, <2>2 DEF FwCheck
    <3>2. stoppedBy' = stoppedBy \/ FwVerdict = "mismatch"
      BY <2>2 DEF StopOn
    <3>3. FwVerdict = "passed" => unit.assistant = unit.manager
      BY <1>0 DEF FwVerdict
    <3>4. FwVerdict = "mismatch" => unit.assistant # unit.manager
      BY <1>0 DEF FwVerdict
    <3> QED
      BY <3>1, <3>2, <3>3, <3>4
  <2> QED
    BY <1>8, <2>1, <2>2 DEF FwCheck
<1>9. CASE PowerCheck
  <2>1. CASE UNCHANGED <<verdict, stoppedBy>>
    BY <1>9, <2>1 DEF PowerCheck
  <2>2. CASE CheckEnabled /\ verdict' = [verdict EXCEPT !.power = PowerVerdict] /\ StopOn(PowerVerdict)
    <3>1. verdict'.power = PowerVerdict /\ verdict'.fw = verdict.fw /\ UNCHANGED unit
      BY <1>9, <1>0, <2>2 DEF PowerCheck
    <3>2. stoppedBy' = stoppedBy \/ PowerVerdict = "mismatch"
      BY <2>2 DEF StopOn
    <3>3. PowerVerdict = "passed" => unit.power = unit.expected
      BY <1>0 DEF PowerVerdict
    <3>4. PowerVerdict = "mismatch" => unit.power # unit.expected
      BY <1>0 DEF PowerVerdict
    <3> QED
      BY <2>2, <3>1, <3>2, <3>3, <3>4
  <2> QED
    BY <1>9, <2>1, <2>2 DEF PowerCheck
<1>10. CASE ShowAndSleep
  BY <1>10, <1>0 DEF ShowAndSleep
<1>11. CASE ReceiveForeign
  BY <1>11, <1>0 DEF ReceiveForeign
<1>12. CASE StartMonitor
  BY <1>12, <1>0 DEF StartMonitor, MainTo
<1>13. CASE StartFails
  BY <1>13, <1>0 DEF StartFails, MainTo
<1>14. CASE SetWarmupComplete
  BY <1>14, <1>0 DEF SetWarmupComplete, MainTo
<1>15. CASE ResetCount
  BY <1>15, <1>0 DEF ResetCount, MainTo
<1>16. CASE ResetChecks
  BY <1>16, <1>0 DEF ResetChecks, MainTo
<1>17. CASE WarmupWithoutMonitor
  BY <1>17, <1>0 DEF WarmupWithoutMonitor, MainTo
<1>18. CASE LeaveLoop
  BY <1>18, <1>0 DEF LeaveLoop
<1>19. CASE StopMonitor
  BY <1>19, <1>0 DEF StopMonitor, MainTo
<1>20. CASE JoinThread
  BY <1>20, <1>0 DEF JoinThread, MainTo
<1>21. CASE CleanupMonitor
  BY <1>21, <1>0 DEF CleanupMonitor, MainTo
<1>22. CASE Interrupt
  BY <1>22, <1>0 DEF Interrupt
<1>23. CASE Lose
  BY <1>23, <1>0 DEF Lose
<1> QED
  BY <1>1, <1>2, <1>3, <1>4, <1>5, <1>6, <1>7, <1>8,
     <1>9, <1>10, <1>11, <1>12, <1>13, <1>14, <1>15, <1>16,
     <1>17, <1>18, <1>19, <1>20, <1>21, <1>22, <1>23 DEF Next, ThreadStep, MainStep

----------------------------------------------------------------------------
(* Late answers do not add up. *)

LEMMA AnswersOfType == \A n \in Nat : AnswersOf(n) \in Nat
BY ExpectedType DEF AnswersOf

LEMMA AnswersOfNext ==
    /\ \A n \in Nat : AnswersOf(n + 1) = AnswersOf(n) + Expected
    /\ AnswersOf(0) = 0 /\ AnswersOf(1) = Expected /\ AnswersOf(2) = Expected + Expected
BY ExpectedType DEF AnswersOf

LEMMA AnswersOfMonotone == \A m, n \in Nat : m <= n => AnswersOf(m) <= AnswersOf(n)
<1>1. SUFFICES ASSUME NEW m \in Nat, NEW n \in Nat, m <= n
               PROVE  AnswersOf(m) <= AnswersOf(n)
  OBVIOUS
<1>2. n - m \in Nat /\ n = m + (n - m) /\ Expected \in Nat
  BY <1>1, ExpectedType
<1>3. n * Expected = m * Expected + (n - m) * Expected
  BY <1>2
<1>4. (n - m) * Expected \in Nat /\ m * Expected \in Nat
  BY <1>2
<1> QED
  BY <1>3, <1>4 DEF AnswersOf

\* What the proofs below need to know of the types.
LEMMA Ages ==
    ASSUME TypeOK
    PROVE  /\ net \in Seq(Answers) /\ Len(net) \in Nat /\ DOMAIN net = 1..Len(net)
           /\ \A i \in 1..Len(net) : net[i] \in Answers /\ net[i].age \in Nat
           /\ cycle.total \in 0..Expected /\ cycle.oldest \in Nat
           /\ failures \in Nat /\ elapsed \in 0..Timeout
           /\ Expected \in Nat /\ Timeout \in Nat \ {0}
<1>1. \A a \in Answers : a.age \in Nat
  BY BoundsAssumption DEF Answers
<1>2. net \in Seq(Answers) /\ cycle \in Cycles /\ failures \in 0..MaxFailures /\ elapsed \in 0..Timeout
  BY DEF TypeOK
<1>3. Len(net) \in Nat /\ DOMAIN net = 1..Len(net) /\ \A i \in 1..Len(net) : net[i] \in Answers
  BY <1>2, Indices
<1> QED
  BY <1>1, <1>2, <1>3, BoundsAssumption, CheckAssumption DEF Cycles

LEMMA Budget ==
    ASSUME TypeOK
    PROVE  /\ failures + 1 \in Nat /\ failures + 2 \in Nat
           /\ AnswersOf(failures + 1) \in Nat /\ AnswersOf(failures + 2) \in Nat
           /\ AnswersOf(failures + 2) = AnswersOf(failures + 1) + Expected
           /\ AnswersOf(failures + 3) = AnswersOf(failures + 2) + Expected
           /\ Expected + Expected <= AnswersOf(failures + 2)
           /\ \A i \in DOMAIN net : net[i].age \in Nat /\ AnswersOf(net[i].age) \in Nat
<1>1. /\ failures + 1 \in Nat /\ failures + 2 \in Nat /\ failures + 2 = (failures + 1) + 1
      /\ failures + 3 = (failures + 2) + 1 /\ 2 \in Nat /\ 2 <= failures + 2
  BY Ages
<1>2. AnswersOf(failures + 1) \in Nat /\ AnswersOf(failures + 2) \in Nat
  BY <1>1, AnswersOfType
<1>3. AnswersOf(failures + 1 + 1) = AnswersOf(failures + 1) + Expected
  BY <1>1, AnswersOfNext
<1>4. AnswersOf(failures + 2 + 1) = AnswersOf(failures + 2) + Expected
  BY <1>1, AnswersOfNext
<1>5. AnswersOf(2) <= AnswersOf(failures + 2)
  BY <1>1, AnswersOfMonotone
<1>6. \A i \in DOMAIN net : net[i].age \in Nat
  BY Ages
<1>7. \A i \in DOMAIN net : AnswersOf(net[i].age) \in Nat
  BY <1>6, AnswersOfType
<1> QED
  BY <1>1, <1>2, <1>3, <1>4, <1>5, <1>6, <1>7, AnswersOfNext

\* An answer less at the head, read or lost, leaves the others in time.
LEMMA TailInTime ==
    ASSUME TypeOK, net # <<>>, net' = Tail(net), UNCHANGED failures,
           NEW read \in Nat, NEW read1 \in {read, read + 1}, InTime(read), NewestLast
    PROVE  InTime(read1)' /\ NewestLast'
<1>1. /\ Len(net') = Len(net) - 1 /\ DOMAIN net' = 1..(Len(net) - 1)
      /\ \A i \in DOMAIN net' : i + 1 \in 1..Len(net) /\ net'[i] = net[i + 1]
  <2>1. /\ Len(Tail(net)) = Len(net) - 1 /\ Tail(net) \in Seq(Answers)
        /\ \A i \in DOMAIN Tail(net) : i + 1 \in DOMAIN net /\ Tail(net)[i] = net[i + 1]
    BY Ages, TailMoves
  <2> QED
    BY <2>1, Ages, Indices
<1>2. InTime(read1)'
  <2> SUFFICES ASSUME NEW i \in DOMAIN net'
               PROVE  AnswersOf(net'[i].age) + i + read1 <= AnswersOf(failures + 2)
    BY DEF InTime, AnswersOf
  <2>1. /\ AnswersOf(net[i + 1].age) + (i + 1) + read <= AnswersOf(failures + 2)
        /\ net[i + 1].age \in Nat /\ i \in Nat
    BY <1>1, Ages DEF InTime
  <2>2. AnswersOf(net[i + 1].age) \in Nat /\ AnswersOf(failures + 2) \in Nat
    BY <1>1, Ages, Budget
  <2>3. net'[i] = net[i + 1]
    BY <1>1
  <2> QED
    BY <2>1, <2>2, <2>3
<1>3. NewestLast'
  <2> SUFFICES ASSUME NEW i \in DOMAIN net', net'[i].age = 0
               PROVE  /\ Len(net') < i + Expected
                      /\ \A j \in i..Len(net') : net'[j].age = 0
    BY DEF NewestLast
  <2>1. net[i + 1].age = 0 /\ i + 1 \in 1..Len(net)
    BY <1>1
  <2>2. Len(net) < i + 1 + Expected /\ \A j \in i + 1..Len(net) : net[j].age = 0
    BY <2>1, Ages DEF NewestLast
  <2>3. \A j \in i..Len(net') : net'[j].age = 0
    <3> TAKE j \in i..Len(net')
    <3>1. j \in DOMAIN net' /\ j + 1 \in i + 1..Len(net)
      BY <1>1, <2>1, Ages
    <3> QED
      BY <1>1, <2>2, <3>1
  <2> QED
    BY <1>1, <2>1, <2>2, <2>3, Ages
<1> QED
  BY <1>2, <1>3

\* The query of this cycle goes out behind what is there.
LEMMA SendInTime ==
    ASSUME TypeOK, NEW order \in Orders, net' = net \o AnswersTo(order), UNCHANGED failures,
           InTime(0), \A i \in DOMAIN net : net[i].age > 0
    PROVE  InTime(0)' /\ NewestLast'
<1> DEFINE L == Len(net)
           N == Len(order)
<1>1. /\ L \in Nat /\ N \in 0..Expected /\ Len(net') = L + N /\ DOMAIN net' = 1..(L + N)
      /\ \A i \in 1..L : net'[i] = net[i]
      /\ \A i \in 1..N : net'[L + i].age = 0
  <2>1. /\ net' \in Seq(Answers) /\ Len(net') = L + N
        /\ \A i \in 1..L : net'[i] = net[i]
        /\ \A i \in 1..N : net'[L + i] = AnswersTo(order)[i]
    BY Ages, SendMoves
  <2> QED
    BY <2>1, Ages, AnswersToType, Indices
<1>2. \A i \in L + 1..L + N : net'[i].age = 0
  <2> TAKE i \in L + 1..L + N
  <2>1. i - L \in 1..N /\ i = L + (i - L)
    BY <1>1
  <2> QED
    BY <1>1, <2>1
<1>3. L + Expected <= AnswersOf(failures + 2)
  <2>1. /\ AnswersOf(failures + 2) = AnswersOf(failures + 1) + Expected
        /\ AnswersOf(failures + 1) \in Nat
    BY Budget
  <2>2. CASE L = 0
    BY <2>1, <2>2, Ages
  <2>3. CASE L > 0
    <3>1. L \in DOMAIN net /\ net[L].age \in Nat /\ net[L].age >= 1
      BY <2>3, Ages
    <3>2. AnswersOf(net[L].age) + L + 0 <= AnswersOf(failures + 2)
      BY <3>1 DEF InTime
    <3>3. AnswersOf(1) <= AnswersOf(net[L].age) /\ AnswersOf(net[L].age) \in Nat
      BY <3>1, AnswersOfMonotone, AnswersOfType
    <3>4. AnswersOf(1) = Expected
      BY AnswersOfNext
    <3> HIDE DEF L
    <3> QED
      BY <1>1, <2>1, <3>2, <3>3, <3>4, ExpectedType
  <2> QED
    BY <1>1, <2>2, <2>3
<1>4. AnswersOf(failures + 2) \in Nat
  BY Budget
<1>5. InTime(0)'
  <2> SUFFICES ASSUME NEW i \in 1..(L + N)
               PROVE  AnswersOf(net'[i].age) + i + 0 <= AnswersOf(failures + 2)
    BY <1>1 DEF InTime, AnswersOf
  <2>1. CASE i \in 1..L
    BY <1>1, <2>1, Ages DEF InTime
  <2>2. CASE i \in L + 1..L + N
    <3>1. net'[i].age = 0
      BY <1>2, <2>2
    <3>2. AnswersOf(net'[i].age) = 0
      BY <3>1, AnswersOfNext
    <3> QED
      BY <1>1, <1>3, <1>4, <2>2, <3>2, Ages
  <2> QED
    BY <1>1, <2>1, <2>2
<1>6. NewestLast'
  <2> SUFFICES ASSUME NEW i \in 1..(L + N), net'[i].age = 0
               PROVE  /\ Len(net') < i + Expected
                      /\ \A j \in i..Len(net') : net'[j].age = 0
    BY <1>1 DEF NewestLast
  <2>1. i \notin 1..L
    BY <1>1, Ages
  <2>2. i > L
    BY <1>1, <2>1
  <2> QED
    BY <1>1, <1>2, <2>2, Ages
<1> QED
  BY <1>5, <1>6

LEMMA AgeStep ==
    ASSUME TypeOK, MainInv, RecordInv, AgeInv, Next
    PROVE  AgeInv'
<1> USE DEF netVars, monitorVars, history
<1>0. thread \in Threads
  BY DEF TypeOK
<1>f. ASSUME UNCHANGED <<net, cycle, elapsed, failures>>,
             \/ thread' = thread
             \/ thread' = "ended"
             \/ thread = "none" /\ thread' = "top"
             \/ thread \in {"fw", "power"} /\ thread' \in {"power", "show"}
      PROVE  AgeInv'
  <2>1. /\ InTime(0)' <=> InTime(0)
        /\ InTime(Expected)' <=> InTime(Expected)
        /\ InTime(cycle.total)' <=> InTime(cycle.total)
    BY <1>f DEF InTime, AnswersOf
  <2>2. NewestLast' <=> NewestLast
    BY <1>f DEF NewestLast
  <2> QED
    BY <1>f, <1>0, <2>1, <2>2 DEF AgeInv, Threads
<1>1. CASE ThreadEnds
  BY <1>1, <1>f DEF ThreadEnds
<1>2. CASE SendQuery
  <2>1. PICK order \in Orders : net' = net \o AnswersTo(order)
    BY <1>2 DEF SendQuery, AnswersTo
  <2>2. thread = "top" /\ thread' = "receive" /\ UNCHANGED <<cycle, elapsed, failures>>
    BY <1>2 DEF SendQuery
  <2>3. cycle = EmptyCycle /\ elapsed = 0 /\ InTime(0) /\ \A i \in DOMAIN net : net[i].age > 0
    BY <2>2 DEF AgeInv
  <2>4. InTime(0)' /\ NewestLast'
    BY <2>1, <2>2, <2>3, SendInTime
  <2>5. cycle'.total = 0 /\ cycle'.oldest = 0 /\ elapsed' = 0
    BY <2>2, <2>3 DEF EmptyCycle
  <2>6. InTime(cycle.total)'
    BY <2>4, <2>5 DEF InTime
  <2> QED
    BY <2>2, <2>4, <2>5, <2>6, Ages DEF AgeInv
<1>3. CASE SendFails
  BY <1>3, <1>f DEF SendFails
<1>4. CASE ReceiveAnswer
  <2> DEFINE a == Head(net)
  <2>1. /\ net # <<>> /\ cycle.total < Expected /\ cycle' = Parse(a) /\ net' = Tail(net)
        /\ thread = "receive" /\ thread' = "receive" /\ UNCHANGED <<elapsed, failures>>
    BY <1>4 DEF ReceiveAnswer, Collecting, Incomplete
  <2>2. /\ a \in Answers /\ a = net[1] /\ 1 \in DOMAIN net
        /\ a.kind = "full" => a.fpga \in Fpgas
        /\ \A i \in DOMAIN net' : i + 1 \in DOMAIN net /\ net'[i] = net[i + 1]
    BY <2>1, Ages, TailMoves DEF RecordInv
  <2>3. /\ InTime(cycle.total) /\ NewestLast /\ cycle.oldest <= 1 + failures
        /\ elapsed > 0 => \A i \in DOMAIN net : net[i].age = 0
    BY <2>1 DEF AgeInv
  <2>4. AnswersOf(a.age) + 1 + cycle.total <= AnswersOf(failures + 2)
    BY <2>2, <2>3 DEF InTime
  <2>5. a.age <= 1 + failures
    <3>1. /\ a.age \in Nat /\ failures + 2 \in Nat /\ AnswersOf(a.age) \in Nat
          /\ AnswersOf(failures + 2) \in Nat /\ cycle.total \in Nat
      <4>1. net[1].age \in Nat /\ AnswersOf(net[1].age) \in Nat
        BY <2>2, Budget
      <4>2. a.age \in Nat /\ AnswersOf(a.age) \in Nat
        BY <2>2, <4>1
      <4>3. failures + 2 \in Nat /\ AnswersOf(failures + 2) \in Nat
        BY Budget
      <4>4. cycle.total \in Nat
        BY Ages
      <4> QED
        BY <4>2, <4>3, <4>4
    <3>2. ~(failures + 2 <= a.age)
      BY <2>4, <3>1, AnswersOfMonotone
    <3> QED
      BY <3>1, <3>2, Ages
  <2> HIDE DEF a
  <2>6. cycle'.total \in {cycle.total, cycle.total + 1} /\ cycle'.oldest \in {cycle.oldest, a.age}
    BY <2>1, <2>2, Parsed
  <2>7. \A n \in {cycle.total, cycle.total + 1} : InTime(n)' /\ NewestLast'
    BY <2>1, <2>3, Ages, TailInTime
  <2>8. InTime(cycle.total)'
    BY <2>6, <2>7 DEF InTime, AnswersOf
  <2>9. elapsed' > 0 => \A i \in DOMAIN net' : net'[i].age = 0
    BY <2>1, <2>2, <2>3
  <2> QED
    BY <2>1, <2>3, <2>5, <2>6, <2>7, <2>8, <2>9 DEF AgeInv
<1>5. CASE ReceiveFails
  <2>1. /\ thread = "receive" /\ thread' = "fw" /\ failures' = failures + 1
        /\ UNCHANGED <<cycle, net>>
    BY <1>5 DEF ReceiveFails, Collecting
  <2>2. InTime(cycle.total) /\ cycle.oldest <= 1 + failures
    BY <2>1 DEF AgeInv
  <2>3. InTime(Expected)'
    <3> SUFFICES ASSUME NEW i \in DOMAIN net
                 PROVE  AnswersOf(net[i].age) + i + Expected <= AnswersOf(failures + 3)
      BY <2>1, Ages DEF InTime, AnswersOf
    <3>1. AnswersOf(net[i].age) + i + cycle.total <= AnswersOf(failures + 2)
      BY <2>2 DEF InTime
    <3>2. /\ AnswersOf(failures + 3) = AnswersOf(failures + 2) + Expected
          /\ AnswersOf(failures + 2) \in Nat /\ AnswersOf(net[i].age) \in Nat
      BY Budget
    <3> QED
      BY <3>1, <3>2, Ages
  <2> QED
    BY <2>1, <2>2, <2>3, Ages DEF AgeInv
<1>6. CASE PollWaits
  <2>1. /\ thread = "receive" /\ thread' = "receive" /\ ~LeftOver /\ elapsed' = elapsed + 1
        /\ UNCHANGED <<cycle, net, failures>>
    BY <1>6 DEF PollWaits, Collecting
  <2>2. InTime(cycle.total) /\ NewestLast /\ cycle.oldest <= 1 + failures
    BY <2>1 DEF AgeInv
  <2>3. \A i \in DOMAIN net : net[i].age = 0
    <3>1. CASE net = <<>>
      BY <3>1
    <3>2. CASE net # <<>>
      <4>1. Head(net) = net[1] /\ 1 \in DOMAIN net
        BY <3>2, Ages, TailMoves
      <4>2. net[1].age = 0
        BY <2>1, <3>2, <4>1, Ages DEF LeftOver
      <4> QED
        BY <2>2, <4>1, <4>2, Ages DEF NewestLast
    <3> QED
      BY <3>1, <3>2
  <2>4. InTime(cycle.total)' /\ NewestLast'
    BY <2>1, <2>2 DEF InTime, NewestLast, AnswersOf
  <2> QED
    BY <2>1, <2>2, <2>3, <2>4 DEF AgeInv
<1>7. CASE CollectionEnds
  <2>1. /\ thread = "receive" /\ thread' = "fw" /\ ~Incomplete
        /\ UNCHANGED <<cycle, net, failures>>
    BY <1>7 DEF CollectionEnds
  <2>2. /\ InTime(cycle.total) /\ NewestLast /\ cycle.oldest <= 1 + failures
        /\ elapsed > 0 => \A i \in DOMAIN net : net[i].age = 0
    BY <2>1 DEF AgeInv
  <2>3. ASSUME NEW i \in DOMAIN net
        PROVE  AnswersOf(net[i].age) + i + Expected <= AnswersOf(failures + 2)
    <3>1. CASE cycle.total >= Expected
      <4>1. cycle.total = Expected
        BY <3>1, Ages
      <4> QED
        BY <2>2, <4>1 DEF InTime
    <3>2. CASE elapsed >= Timeout
      <4>1. net[i].age = 0 /\ net[1].age = 0 /\ 1 \in DOMAIN net /\ i <= Len(net)
        BY <2>2, <3>2, Ages
      <4>2. Len(net) < 1 + Expected
        BY <2>2, <4>1 DEF NewestLast
      <4>3. AnswersOf(0) = 0 /\ Expected + Expected <= AnswersOf(failures + 2)
        BY Budget, AnswersOfNext
      <4>4. AnswersOf(net[i].age) = 0
        BY <4>1, <4>3
      <4>5. i \in Nat /\ Len(net) \in Nat /\ Expected \in Nat
        BY Ages
      <4>6. AnswersOf(failures + 2) \in Nat
        BY Budget
      <4> QED
        BY <4>1, <4>2, <4>3, <4>4, <4>5, <4>6
    <3> QED
      BY <2>1, <3>1, <3>2, Ages DEF Incomplete
  <2>4. InTime(Expected)'
    BY <2>1, <2>3 DEF InTime, AnswersOf
  <2> QED
    BY <2>1, <2>2, <2>4 DEF AgeInv
<1>8. CASE FwCheck
  BY <1>8, <1>f DEF FwCheck
<1>9. CASE PowerCheck
  BY <1>9, <1>f DEF PowerCheck
<1>10. CASE ShowAndSleep
  <2>1. /\ net' = Aged /\ cycle' = EmptyCycle /\ elapsed' = 0 /\ thread = "show" /\ thread' = "top"
        /\ UNCHANGED failures
    BY <1>10 DEF ShowAndSleep, Aged
  <2>2. InTime(Expected)
    BY <2>1 DEF AgeInv
  <2>3. \A i \in DOMAIN net' : net'[i].age > 0
    BY <2>1, AgedType, Ages
  <2>4. InTime(0)'
    <3> SUFFICES ASSUME NEW i \in DOMAIN net
                 PROVE  AnswersOf(Aged[i].age) + i + 0 <= AnswersOf(failures + 2)
      BY <2>1, AgedType, Ages DEF InTime, AnswersOf
    <3>1. AnswersOf(net[i].age) + i + Expected <= AnswersOf(failures + 2)
      BY <2>2 DEF InTime
    <3>2. net[i].age \in Nat /\ Aged[i].age \in Nat /\ Aged[i].age <= net[i].age + 1 /\ i \in Nat
      BY AgedType, Ages
    <3>3. AnswersOf(net[i].age + 1) = AnswersOf(net[i].age) + Expected
      BY <3>2, AnswersOfNext
    <3>4. AnswersOf(Aged[i].age) <= AnswersOf(net[i].age + 1)
      BY <3>2, AnswersOfMonotone
    <3>5. AnswersOf(Aged[i].age) \in Nat /\ AnswersOf(net[i].age) \in Nat /\ AnswersOf(failures + 2) \in Nat
      BY AgedType, Ages, Budget, <3>2, AnswersOfType
    <3> QED
      BY <3>1, <3>2, <3>3, <3>4, <3>5, Ages
  <2> QED
    BY <2>1, <2>3, <2>4 DEF AgeInv
<1>11. CASE ReceiveForeign
  BY <1>11, <1>f DEF ReceiveForeign
<1>12. CASE StartMonitor
  BY <1>12, <1>f DEF StartMonitor, MainTo, MainInv
<1>13. CASE StartFails
  BY <1>13, <1>f DEF StartFails, MainTo
<1>14. CASE SetWarmupComplete
  BY <1>14, <1>f DEF SetWarmupComplete, MainTo
<1>15. CASE ResetCount
  BY <1>15, <1>f DEF ResetCount, MainTo
<1>16. CASE ResetChecks
  BY <1>16, <1>f DEF ResetChecks, MainTo
<1>17. CASE WarmupWithoutMonitor
  BY <1>17, <1>f DEF WarmupWithoutMonitor, MainTo
<1>18. CASE LeaveLoop
  BY <1>18, <1>f DEF LeaveLoop
<1>19. CASE StopMonitor
  BY <1>19, <1>f DEF StopMonitor, MainTo
<1>20. CASE JoinThread
  BY <1>20, <1>f DEF JoinThread, MainTo
<1>21. CASE CleanupMonitor
  <2>1. net' = <<>> /\ DOMAIN net' = {} /\ UNCHANGED <<cycle, elapsed, failures, thread>>
    BY <1>21 DEF CleanupMonitor
  <2>2. \A n : InTime(n)'
    BY <2>1 DEF InTime
  <2>3. NewestLast'
    BY <2>1 DEF NewestLast
  <2> QED
    BY <2>1, <2>2, <2>3, <1>0 DEF AgeInv, Threads
<1>22. CASE Interrupt
  BY <1>22, <1>f DEF Interrupt
<1>23. CASE Lose
  <2>1. /\ net # <<>> /\ net' = Tail(net) /\ thread = "receive" /\ thread' = "receive"
        /\ UNCHANGED <<cycle, elapsed, failures>>
    BY <1>23 DEF Lose
  <2>2. /\ InTime(cycle.total) /\ NewestLast /\ cycle.oldest <= 1 + failures
        /\ elapsed > 0 => \A i \in DOMAIN net : net[i].age = 0
    BY <2>1 DEF AgeInv
  <2>3. InTime(cycle.total)' /\ NewestLast'
    <3>1. \A n \in {cycle.total} : InTime(n)' /\ NewestLast'
      BY <2>1, <2>2, Ages, TailInTime
    <3> QED
      BY <2>1, <3>1 DEF InTime, AnswersOf
  <2>4. \A i \in DOMAIN net' : i + 1 \in DOMAIN net /\ net'[i] = net[i + 1]
    BY <2>1, Ages, TailMoves
  <2> QED
    BY <2>1, <2>2, <2>3, <2>4 DEF AgeInv
<1> QED
  BY <1>1, <1>2, <1>3, <1>4, <1>5, <1>6, <1>7, <1>8,
     <1>9, <1>10, <1>11, <1>12, <1>13, <1>14, <1>15, <1>16,
     <1>17, <1>18, <1>19, <1>20, <1>21, <1>22, <1>23 DEF Next, ThreadStep, MainStep

----------------------------------------------------------------------------
(* With nothing lost or late the checks come to a verdict. *)

LEMMA UndisturbedStep ==
    ASSUME TypeOK, MainInv, RecordInv, AgeInv, UndisturbedInv, Next
    PROVE  UndisturbedInv'
<1> USE DEF netVars, monitorVars, history
<1>0. thread \in Threads /\ disturbed \in BOOLEAN
  BY DEF TypeOK
<1>f. ASSUME UNCHANGED <<net, cycle, disturbed>>,
             \/ thread' = thread
             \/ thread = "top" /\ thread' = "ended"
             \/ thread = "none" /\ thread' = "top"
             \/ thread \in {"fw", "power"} /\ thread' \in {"power", "show"}
      PROVE  UndisturbedInv'
  BY <1>f, <1>0 DEF UndisturbedInv, InSocket, Threads
<1>d. ASSUME disturbed' = TRUE PROVE UndisturbedInv'
  BY <1>d DEF UndisturbedInv
<1>1. CASE ThreadEnds
  BY <1>1, <1>f DEF ThreadEnds
<1>2. CASE SendQuery
  <2>0. CASE disturbed
    <3>1. disturbed' = disturbed
      BY <1>2 DEF SendQuery
    <3> QED
      BY <2>0, <3>1 DEF UndisturbedInv
  <2>00. SUFFICES ASSUME ~disturbed PROVE UndisturbedInv'
    BY <2>0
  <2>1. PICK order \in Orders : net' = net \o AnswersTo(order)
    BY <1>2 DEF SendQuery, AnswersTo
  <2>2. thread = "top" /\ thread' = "receive" /\ UNCHANGED <<cycle, disturbed>>
    BY <1>2 DEF SendQuery
  <2>3. net = <<>> /\ cycle.total = 0
    BY <2>00, <2>2 DEF UndisturbedInv, AgeInv, EmptyCycle
  <2>4. /\ Len(net') = Len(order) /\ Len(order) \in 0..Expected
        /\ \A i \in 1..Len(order) : net'[i] = AnswersTo(order)[i]
        /\ DOMAIN net' = 1..Len(order) /\ DOMAIN order = 1..Len(order)
    <3>1. /\ net' \in Seq(Answers) /\ Len(net') = Len(net) + Len(order) /\ Len(net) = 0
          /\ Len(order) \in 0..Expected
          /\ \A i \in 1..Len(order) : net'[Len(net) + i] = AnswersTo(order)[i]
      BY <2>1, <2>3, Ages, SendMoves, AnswersToType
    <3>2. order \in Seq(Sources)
      BY OrdersAssumption
    <3>3. \A i \in 1..Len(order) : Len(net) + i = i
      BY <3>1
    <3> QED
      BY <3>1, <3>2, <3>3, Indices
  <2>5. ASSUME NEW k, NEW f, <<k, f>> \in ({"full"} \X Fpgas) \cup { <<"mcu", NoFpga>> }
        PROVE  InSocket(k, f)'
    <3>1. PICK i \in 1..Len(order) : order[i] = <<k, f>>
      BY <2>4, <2>5, OrdersAssumption
    <3>2. net'[i].kind = k /\ net'[i].fpga = f
      BY <2>4, <3>1, AnswersToType
    <3> QED
      BY <2>4, <3>1, <3>2 DEF InSocket
  <2>6. (\A f \in Fpgas : InSocket("full", f)') /\ InSocket("mcu", NoFpga)'
    BY <2>5
  <2>7. (\A f \in Fpgas : InSocket("full", f))'
    BY <2>6 DEF InSocket
  <2> QED
    BY <2>2, <2>3, <2>4, <2>6, <2>7, ExpectedType DEF UndisturbedInv
<1>3. CASE SendFails
  BY <1>3, <1>f DEF SendFails
<1>4. CASE ReceiveAnswer
  <2> DEFINE a == Head(net)
  <2>1. /\ net # <<>> /\ cycle.total < Expected /\ cycle' = Parse(a) /\ net' = Tail(net)
        /\ thread = "receive" /\ thread' = "receive" /\ UNCHANGED disturbed
    BY <1>4 DEF ReceiveAnswer, Collecting, Incomplete
  <2>2. /\ a \in Answers /\ a = net[1] /\ Len(net') = Len(net) - 1
        /\ a.kind = "full" => a.fpga \in Fpgas
        /\ \A i \in DOMAIN net : \/ i = 1
                                 \/ i - 1 \in DOMAIN net' /\ net'[i - 1] = net[i]
    BY <2>1, Ages, TailMoves DEF RecordInv
  <2> HIDE DEF a
  <2>3. /\ cycle'.total \in {cycle.total, cycle.total + 1}
        /\ cycle'.valid = IF a.kind = "full" THEN cycle.valid \cup {a.fpga} ELSE cycle.valid
        /\ cycle'.mcu <=> cycle.mcu \/ a.kind = "mcu"
    BY <2>1, <2>2, Parsed
  <2>4. ASSUME NEW k, NEW f, InSocket(k, f)
        PROVE  (a.kind = k /\ a.fpga = f) \/ InSocket(k, f)'
    BY <2>2, <2>4 DEF InSocket
  <2>5. CASE ~disturbed
    <3>1. /\ cycle.total + Len(net) <= Expected
          /\ \A f \in Fpgas : f \in cycle.valid \/ InSocket("full", f)
          /\ cycle.mcu \/ InSocket("mcu", NoFpga)
      BY <2>1, <2>5 DEF UndisturbedInv
    <3>2. \A f \in Fpgas : f \in cycle'.valid \/ InSocket("full", f)'
      BY <2>3, <2>4, <3>1
    <3>3. cycle'.mcu \/ InSocket("mcu", NoFpga)'
      BY <2>3, <2>4, <3>1
    <3>4. cycle'.total + Len(net') <= Expected
      BY <2>2, <2>3, <3>1, Ages
    <3>5. (\A f \in Fpgas : f \in cycle.valid \/ InSocket("full", f))'
      BY <3>2 DEF InSocket
    <3> QED
      BY <2>1, <3>3, <3>4, <3>5 DEF UndisturbedInv
  <2> QED
    BY <2>1, <2>5 DEF UndisturbedInv
<1>5. CASE ReceiveFails
  BY <1>5, <1>d DEF ReceiveFails
<1>6. CASE PollWaits
  BY <1>6, <1>f DEF PollWaits, Collecting
<1>7. CASE CollectionEnds
  <2>1. /\ thread = "receive" /\ thread' = "fw" /\ ~Incomplete
        /\ disturbed' = (disturbed \/ (elapsed = Timeout /\ net # <<>>))
        /\ UNCHANGED <<cycle, net>>
    BY <1>7 DEF CollectionEnds
  <2>2. CASE ~disturbed'
    <3>1. /\ ~disturbed /\ ~(elapsed = Timeout /\ net # <<>>)
          /\ cycle.total + Len(net) <= Expected
          /\ \A f \in Fpgas : f \in cycle.valid \/ InSocket("full", f)
          /\ cycle.mcu \/ InSocket("mcu", NoFpga)
      BY <2>1, <2>2 DEF UndisturbedInv
    <3>2. net = <<>>
      <4>1. CASE elapsed = Timeout
        BY <3>1, <4>1
      <4>2. CASE elapsed # Timeout
        <5>1. ~(cycle.total < Expected)
          BY <2>1, <4>2, Ages DEF Incomplete
        <5>2. Len(net) = 0
          BY <3>1, <5>1, Ages
        <5> QED
          BY <5>2, Ages, Indices
      <4> QED
        BY <4>1, <4>2
    <3>3. \A k, f : ~InSocket(k, f)
      BY <3>2 DEF InSocket
    <3>4. Fpgas \subseteq cycle.valid /\ cycle.mcu
      BY <3>1, <3>3
    <3>5. cycle.valid = Fpgas
      BY <3>4 DEF TypeOK, Cycles
    <3> QED
      BY <2>1, <3>2, <3>4, <3>5 DEF UndisturbedInv
  <2> QED
    BY <2>2 DEF UndisturbedInv
<1>8. CASE FwCheck
  BY <1>8, <1>f DEF FwCheck
<1>9. CASE PowerCheck
  BY <1>9, <1>f DEF PowerCheck
<1>10. CASE ShowAndSleep
  <2>1. net' = Aged /\ thread = "show" /\ thread' = "top" /\ UNCHANGED disturbed
    BY <1>10 DEF ShowAndSleep, Aged
  <2>2. net = <<>> => net' = <<>>
    <3>1. SUFFICES ASSUME net = <<>> PROVE net' = <<>>
      OBVIOUS
    <3>2. Len(net) = 0 /\ net' \in Seq(Answers) /\ Len(net') = 0
      BY <2>1, <3>1, Ages, AgedType
    <3> QED
      BY <3>2, Indices
  <2> QED
    BY <2>1, <2>2 DEF UndisturbedInv
<1>11. CASE ReceiveForeign
  BY <1>11, <1>f DEF ReceiveForeign
<1>12. CASE StartMonitor
  BY <1>12, <1>f DEF StartMonitor, MainTo, MainInv
<1>13. CASE StartFails
  BY <1>13, <1>f DEF StartFails, MainTo
<1>14. CASE SetWarmupComplete
  BY <1>14, <1>f DEF SetWarmupComplete, MainTo
<1>15. CASE ResetCount
  BY <1>15, <1>f DEF ResetCount, MainTo
<1>16. CASE ResetChecks
  BY <1>16, <1>f DEF ResetChecks, MainTo
<1>17. CASE WarmupWithoutMonitor
  BY <1>17, <1>f DEF WarmupWithoutMonitor, MainTo
<1>18. CASE LeaveLoop
  BY <1>18, <1>f DEF LeaveLoop
<1>19. CASE StopMonitor
  BY <1>19, <1>f DEF StopMonitor, MainTo
<1>20. CASE JoinThread
  BY <1>20, <1>f DEF JoinThread, MainTo
<1>21. CASE CleanupMonitor
  <2>1. net' = <<>> /\ thread \in {"none", "ended"} /\ UNCHANGED thread
    BY <1>21 DEF CleanupMonitor, MainTo, MainInv
  <2> QED
    BY <2>1 DEF UndisturbedInv
<1>22. CASE Interrupt
  BY <1>22, <1>f DEF Interrupt
<1>23. CASE Lose
  BY <1>23, <1>d DEF Lose
<1> QED
  BY <1>1, <1>2, <1>3, <1>4, <1>5, <1>6, <1>7, <1>8,
     <1>9, <1>10, <1>11, <1>12, <1>13, <1>14, <1>15, <1>16,
     <1>17, <1>18, <1>19, <1>20, <1>21, <1>22, <1>23 DEF Next, ThreadStep, MainStep

LEMMA DecideStep ==
    ASSUME TypeOK, UndisturbedInv, UndisturbedChecksDecide, Next
    PROVE  UndisturbedChecksDecide'
<1> USE DEF netVars, monitorVars, history
<1>0. verdict \in [fw : Verdicts, power : Verdicts] /\ disturbed \in BOOLEAN
  BY DEF TypeOK
<1>1. CASE FwCheck
  <2>1. ~disturbed => FwVerdict # "unverified"
    BY <1>1 DEF FwCheck, UndisturbedInv, FwVerdict
  <2>2. /\ UNCHANGED disturbed
        /\ verdict' = verdict \/ verdict' = [verdict EXCEPT !.fw = FwVerdict]
    BY <1>1 DEF FwCheck
  <2> QED
    BY <1>0, <2>1, <2>2 DEF UndisturbedChecksDecide
<1>2. CASE PowerCheck
  <2>1. ~disturbed => PowerVerdict # "unverified"
    BY <1>2 DEF PowerCheck, UndisturbedInv, PowerVerdict
  <2>2. /\ UNCHANGED disturbed
        /\ verdict' = verdict \/ verdict' = [verdict EXCEPT !.power = PowerVerdict]
    BY <1>2 DEF PowerCheck
  <2> QED
    BY <1>0, <2>1, <2>2 DEF UndisturbedChecksDecide
<1>3. CASE UNCHANGED verdict /\ (disturbed => disturbed')
  BY <1>3 DEF UndisturbedChecksDecide
<1>4. CASE \/ ThreadEnds \/ SendQuery \/ SendFails \/ ReceiveAnswer \/ ReceiveFails
           \/ PollWaits \/ CollectionEnds \/ ShowAndSleep \/ ReceiveForeign \/ Interrupt \/ Lose
  BY <1>3, <1>4 DEF ThreadEnds, SendQuery, SendFails, ReceiveAnswer, ReceiveFails,
     PollWaits, CollectionEnds, ShowAndSleep, ReceiveForeign, Interrupt, Lose
<1>5. CASE MainStep
  BY <1>3, <1>5 DEF MainStep, StartMonitor, StartFails, SetWarmupComplete, ResetCount,
     ResetChecks, WarmupWithoutMonitor, LeaveLoop, StopMonitor, JoinThread, CleanupMonitor
<1> QED
  BY <1>1, <1>2, <1>4, <1>5 DEF Next, ThreadStep

----------------------------------------------------------------------------
(* The theorems. *)

\* The inductive invariant: who runs when, what the counter and the flags of the checks
\* mean, where the record and the answers on their way come from and how old they
\* are.
THEOREM Inductive == Spec => []IInv
<1>1. IInv /\ [Next]_vars => IInv'
  <2>1. SUFFICES ASSUME IInv, [Next]_vars PROVE IInv'
    OBVIOUS
  <2>2. CASE Next
    BY <2>1, <2>2, TypeStep, MainStepInv, CountStep, RecordStep, VerdictStep, AgeStep,
       UndisturbedStep, DecideStep DEF IInv
  <2>3. CASE UNCHANGED vars
    BY <2>1, <2>3 DEF IInv, vars, netVars, monitorVars, history, TypeOK, MainInv, CountInv,
       RecordInv, VerdictIsTrue, AgeInv, UndisturbedInv, UndisturbedChecksDecide,
       Notifying, CheckEnabled, InTime, NewestLast, InSocket, AnswersOf
  <2> QED
    BY <2>1, <2>2, <2>3
<1> QED
  BY <1>1, InitInv, PTL DEF Spec

\* Every variable keeps its type, whatever the orders and numbers of answers.
THEOREM TypeCorrect == Spec => []TypeOK
<1>1. IInv => TypeOK
  BY DEF IInv
<1> QED
  BY <1>1, Inductive, PTL

\* The monitor stops a test only on a real mismatch, and PASSED is true.
THEOREM VerdictsAreTrue == Spec => []VerdictIsTrue
<1>1. IInv => VerdictIsTrue
  BY DEF IInv
<1> QED
  BY <1>1, Inductive, PTL

\* With nothing lost or late, the checks come to a verdict in whatever order the
\* answers come.
THEOREM ChecksDecide == Spec => []UndisturbedChecksDecide
<1>1. IInv => UndisturbedChecksDecide
  BY DEF IInv
<1> QED
  BY <1>1, Inductive, PTL

\* The checks are made in the cycle they are meant for, or in the one after it, at
\* whatever moment the warm-up ends.
THEOREM ChecksAreOnTime == Spec => []CheckedInTenthCycle
<1>1. IInv => CheckedInTenthCycle
  <2>1. SUFFICES ASSUME IInv PROVE CheckedInTenthCycle
    OBVIOUS
  <2>2. /\ count <= since /\ since <= count + 1
        /\ fwCheckDone <=> verdict.fw # "none"
        /\ fwCheckDone <=> count = CheckCycle
        /\ powerCheckDone <=> verdict.power # "none"
        /\ fwCheckDone /\ thread # "power" /\ CheckEnabled => powerCheckDone
    BY <2>1 DEF IInv, CountInv
  <2>3. count \in 0..CheckCycle /\ since \in Nat /\ CheckCycle \in Nat
    BY <2>1, ExpectedType DEF IInv, TypeOK
  <2> QED
    BY <2>2, <2>3 DEF CheckedInTenthCycle
<1> QED
  BY <1>1, Inductive, PTL

\* A table shows answers to its own query or the one before, plus one for each failure
\* of the socket, however many answers are late.
THEOREM TablesAreRecent == Spec => []ShownIsRecent
<1>1. IInv => ShownIsRecent
  BY DEF IInv, AgeInv, ShownIsRecent
<1> QED
  BY <1>1, Inductive, PTL

=============================================================================
