------------------------ MODULE PowerSequenceProofs ------------------------
(***************************************************************************)
(* Proofs about PowerSequence, for every set of units and every number of  *)
(* verify rounds.                                                          *)
(***************************************************************************)
EXTENDS PowerSequence, TLAPS

\* Labels of the main thread once it has asked for the output to be switched off.
OffRequested == {"verify", "redisable", "unregOutput", "disconnect", "unregConnected",
                 "serverOff", "unregServer", "done"}

\* Labels after the verify loop.
AfterVerify == {"unregOutput", "disconnect", "unregConnected", "serverOff", "unregServer",
                "done"}

\* Labels at which the output, or dpdk_app, may be registered.
OutputLabels == {"startPublisher", "network", "runDpdk", "regDpdk", "monitorSetup",
                 "monitor", "restoreHandlers", "stopPublisher", "stopDpdk", "unregDpdk",
                 "measure", "disable", "verify", "redisable", "unregOutput", "error"}
DpdkLabels == {"monitorSetup", "monitor", "restoreHandlers", "stopPublisher", "stopDpdk",
               "unregDpdk"}

\* Labels of executeShutdown past the compare_exchange and not yet at its end.
Inside == {"lock"} \cup ShutdownCritical

----------------------------------------------------------------------------
(* The inductive invariant.                                                *)

\* The last round of the verify loop leaves it.
RetryInv == retry = VerifyRetries => pc \in AfterVerify

\* m_mutex is held exactly by code inside a registry call or executeShutdown.
MutexInv ==
  /\ \A c \in Contexts : spc[c] \in ShutdownCritical => mutex = c
  /\ \A s \in Signals : mutex = s => spc[s] \in ShutdownCritical
  /\ mutex = "main" => pc \in RegistryCalls \/ spc["main"] \in ShutdownCritical

\* Who may be in executeShutdown: the handler on top, the main thread in its error
\* branch, and at most one context that has passed the compare_exchange.
ContextInv ==
  /\ running # "main" => spc[running] # "idle"
  /\ running = "main" => \A s \in Signals : spc[s] = "idle"
  /\ spc["main"] = "idle" <=> pc # "error"
  /\ \A c \in Contexts : spc[c] \notin {"idle", "cas"} => shutdownDone
  /\ shutdownDone => \E c \in Contexts : spc[c] \notin {"idle", "cas"}
  /\ \A c, d \in Contexts : spc[c] \in Inside /\ spc[d] \in Inside => c = d

\* Where an output that is on is accounted for.
OutputInv ==
  /\ OutputAccounted
  /\ pc \in OffRequested /\ psuOn => offLost
  /\ "output" \in registry => pc \in OutputLabels
  /\ \A c \in Contexts : spc[c] = "disconnect" => "output" \notin registry
  /\ shutdownDone /\ "output" \in registry => \E c \in Contexts : spc[c] \in {"lock", "outputs"}

\* Where a live dpdk_app is accounted for.
DpdkInv ==
  /\ dpdkAlive => "dpdk" \in registry \/ pc \in {"runDpdk", "regDpdk"} \/ dpdkLost
  /\ pc = "unregDpdk" /\ dpdkAlive => dpdkLost
  /\ "dpdk" \in registry => pc \in DpdkLabels
  /\ shutdownDone /\ "dpdk" \in registry =>
       \E c \in Contexts : spc[c] \in {"lock", "outputs", "disconnect", "dpdk"}

\* How each kind of exit is reached.
ExitInv ==
  /\ exited = "returned" => pc = "done"
  /\ exited \in {"failed", "signal"} => shutdownDone

IInv ==
  TypeOK /\ RetryInv /\ MutexInv /\ ContextInv /\ OutputInv /\ DpdkInv /\ ExitInv

----------------------------------------------------------------------------
(* Names and values.                                                       *)

\* The registry calls by name: what DOMAIN of the two records comes to.
LEMMA RegistryCallNames ==
  /\ DOMAIN Registers = {"regServer", "regConnected", "regOutput", "regDpdk"}
  /\ DOMAIN Unregisters = {"unregDpdk", "unregOutput", "unregConnected", "unregServer"}
  /\ RegistryCalls = {"regServer", "regConnected", "regOutput", "regDpdk",
                      "unregDpdk", "unregOutput", "unregConnected", "unregServer"}
BY DEF Registers, Unregisters, RegistryCalls

\* The resource each of them concerns.
LEMMA RegistryCallValues ==
  /\ Registers["regServer"] = "server" /\ Registers["regConnected"] = "connected"
  /\ Registers["regOutput"] = "output" /\ Registers["regDpdk"] = "dpdk"
  /\ Unregisters["unregServer"] = "server" /\ Unregisters["unregConnected"] = "connected"
  /\ Unregisters["unregOutput"] = "output" /\ Unregisters["unregDpdk"] = "dpdk"
BY DEF Registers, Unregisters

\* The label after each registry call.
LEMMA RegistryCallTypes ==
  ASSUME NEW l \in RegistryCalls
  PROVE  AfterRegistryCall[l] \in {"connect", "program", "startPublisher", "measure",
           "monitorSetup", "disable", "disconnect", "serverOff", "done"}
BY RegistryCallNames DEF AfterRegistryCall

\* The labels, one by one: provers are spared the expansion of the sets.
LEMMA LabelTypes ==
  /\ RegistryCalls \subseteq MainLabels
  /\ \A l \in {"connect", "program", "startPublisher", "measure", "monitorSetup",
               "disable", "disconnect", "serverOff", "done"} : l \in MainLabels
  /\ "regServer" \in MainLabels /\ "regConnected" \in MainLabels
  /\ "regOutput" \in MainLabels /\ "regDpdk" \in MainLabels
  /\ "unregDpdk" \in MainLabels /\ "unregOutput" \in MainLabels
  /\ "unregConnected" \in MainLabels /\ "unregServer" \in MainLabels
  /\ "serverOn" \in MainLabels /\ "connect" \in MainLabels /\ "program" \in MainLabels
  /\ "enable" \in MainLabels /\ "network" \in MainLabels /\ "runDpdk" \in MainLabels
  /\ "monitor" \in MainLabels /\ "restoreHandlers" \in MainLabels
  /\ "stopPublisher" \in MainLabels /\ "stopDpdk" \in MainLabels
  /\ "measure" \in MainLabels /\ "disable" \in MainLabels
  /\ "verify" \in MainLabels /\ "redisable" \in MainLabels
  /\ "error" \in MainLabels /\ "done" \in MainLabels /\ "unregConnected" \in MainLabels
BY RegistryCallNames DEF MainLabels

----------------------------------------------------------------------------
(* Type correctness.                                                       *)

\* A step of a query by thread t.
QueryStep(t) == Ask(t) \/ QueryGoesOn(t) \/ AnswerRead(t) \/ QueryFails(t)

\* A query never switches the output, and keeps the types of the link.
LEMMA QueryFrame ==
  ASSUME LinkTypeOK, NEW t \in Threads, QueryStep(t)
  PROVE  LinkTypeOK' /\ UNCHANGED <<psuOn, offLost>>
<1> USE DEF LinkTypeOK, SessionStates, Phases, Phase
<1>1. CASE Ask(t) \/ AnswerRead(t)
  BY <1>1 DEF Ask, AnswerRead
<1>2. CASE SendFails(t) \/ TearDown(t)
  BY <1>2 DEF SendFails, TearDown
<1>3. CASE Reopen(t) \/ Validate(t)
  BY <1>3 DEF Reopen, Validate
<1>4. CASE NoAnswer(t) \/ ReadFails(t) \/ ReconnectFails(t)
  BY <1>4 DEF NoAnswer, ReadFails, ReconnectFails
<1> QED
  BY <1>1, <1>2, <1>3, <1>4 DEF QueryStep, QueryGoesOn, QueryFails

\* No other call on the link takes its variables out of their types either.
LEMMA LinkCallTypes ==
  ASSUME LinkTypeOK, NEW ok \in BOOLEAN, NEW on \in BOOLEAN
  PROVE  ConnectPsu(ok) \/ WriteCommand(ok) \/ EnableOutput(on, ok) \/ DisconnectPsu
         \/ ProcessGone \/ LinkFault \/ UNCHANGED linkVars
           => LinkTypeOK'
<1> USE DEF LinkTypeOK, SessionStates
<1>1. ConnectPsu(ok) => LinkTypeOK'
  BY DEF ConnectPsu
<1>2. WriteCommand(ok) => LinkTypeOK'
  BY DEF WriteCommand
<1>3. EnableOutput(on, ok) => LinkTypeOK'
  BY DEF EnableOutput
<1>4. DisconnectPsu \/ ProcessGone => LinkTypeOK'
  BY DEF DisconnectPsu, ProcessGone, Phases
<1>5. LinkFault \/ UNCHANGED linkVars => LinkTypeOK'
  BY DEF LinkFault, linkVars
<1> QED
  BY <1>1, <1>2, <1>3, <1>4, <1>5

\* The queries of the main thread, and what they have in common.
MainQuery == MeasureQuery \/ MainReconnects \/ VerifyAsk \/ VerifyAnswered \/ VerifyFails

LEMMA MainQueryFrame ==
  ASSUME MainQuery
  PROVE  /\ QueryStep("main") \/ UNCHANGED linkVars
         /\ exited = "no" /\ running = "main" /\ spc' = spc
         /\ \/ pc = "measure" /\ pc' = "measure"
            \/ pc = "verify" /\ pc' \in {"verify", "redisable", "unregOutput"}
         /\ UNCHANGED <<unit, running, regVars, sigVars, retry, appVars, exited>>
         /\ verified' \in {verified, TRUE, FALSE}
<1> USE DEF At, GoTo, KeepRest, Answered, QueryStep
<1>1. CASE MeasureQuery
  BY <1>1 DEF MeasureQuery, verifyVars
<1>2. CASE MainReconnects
  BY <1>2 DEF MainReconnects, verifyVars
<1>3. CASE VerifyAsk
  BY <1>3 DEF VerifyAsk, verifyVars
<1>4. CASE VerifyAnswered
  BY <1>4 DEF VerifyAnswered
<1>5. CASE VerifyFails
  BY <1>5 DEF VerifyFails
<1> QED
  BY <1>1, <1>2, <1>3, <1>4, <1>5 DEF MainQuery

\* The same for the publisher.
LEMMA PublisherFrame ==
  ASSUME PublisherAsk \/ PublisherQuery
  PROVE  exited = "no" /\ publisher = "on" /\ QueryStep("publisher") /\ UNCHANGED procVars
BY DEF PublisherAsk, PublisherQuery, QueryStep

\* A step of the main thread outside the registry and the return statements.
PlainStep ==
  /\ exited = "no" /\ running = "main" /\ pc \in MainLabels
  /\ pc \notin RegistryCalls \cup {"error", "done"}
  /\ UNCHANGED <<unit, running, regVars, exited>>
  /\ \/ pc' \in MainLabels \ {"error"} /\ spc' = spc
     \/ Fail

PlainActions ==
  \/ ServerOn \/ Connect \/ Program \/ Enable
  \/ StartPublisher \/ Network \/ RunDpdkEnd
  \/ MonitorSetup \/ MonitorEnd \/ RestoreHandlers \/ StopPublisher \/ StopDpdk
  \/ MainQuery \/ MeasureEnd \/ Disable \/ Redisable \/ Disconnect \/ ServerOff

\* What all those steps have in common.
LEMMA MainFrame == ASSUME TypeOK, PlainActions PROVE PlainStep
<1> USE LabelTypes, RegistryCallNames
    DEF PlainStep, At, GoTo, Try, KeepRest
<1>1. CASE ServerOn \/ Network \/ ServerOff \/ MeasureEnd
  BY <1>1 DEF ServerOn, Network, ServerOff, MeasureEnd
<1>2. CASE Connect \/ Program \/ Enable \/ Disable \/ Disconnect
  BY <1>2 DEF Connect, Program, Enable, Disable, Disconnect
<1>3. CASE StartPublisher \/ RunDpdkEnd \/ StopPublisher \/ StopDpdk
  BY <1>3 DEF StartPublisher, RunDpdkEnd, StopPublisher, StopDpdk
<1>4. CASE MonitorSetup \/ MonitorEnd \/ RestoreHandlers
  BY <1>4 DEF MonitorSetup, MonitorEnd, RestoreHandlers
<1>5. CASE MainQuery
  BY <1>5, MainQueryFrame
<1>6. CASE Redisable
  BY <1>6 DEF Redisable
<1> QED
  BY <1>1, <1>2, <1>3, <1>4, <1>5, <1>6 DEF PlainActions

\* The variables that are neither on the link nor in the frame of a main step.
RestTypeOK ==
  /\ sigint \in {"shutdown", "monitor"}
  /\ monitoring \in BOOLEAN
  /\ verified \in BOOLEAN
  /\ publisher \in {"off", "on"}
  /\ dpdkAlive \in BOOLEAN
  /\ dpdkLost \in BOOLEAN

\* Every step of the main thread keeps the types, given that retry stays bounded.
LEMMA MainTypes ==
  ASSUME TypeOK, MainStep, retry' \in 0..VerifyRetries
  PROVE  TypeOK'
<1>1. CASE PlainActions
  <2>1. LinkTypeOK'
    <3> USE DEF TypeOK, KeepRest
    <3>1. CASE Connect \/ Program \/ Enable \/ Disable \/ Redisable \/ Disconnect
      BY <3>1, LinkCallTypes
        DEF Connect, Program, Enable, Disable, Redisable, Disconnect
    <3>2. CASE MainQuery
      BY <3>2, MainQueryFrame, QueryFrame, LinkCallTypes DEF Threads
    <3>3. CASE ServerOn \/ Network \/ ServerOff \/ MeasureEnd \/ StartPublisher \/ RunDpdkEnd
      BY <3>3, LinkCallTypes
        DEF ServerOn, Network, ServerOff, MeasureEnd, StartPublisher, RunDpdkEnd
    <3>4. CASE MonitorSetup \/ MonitorEnd \/ RestoreHandlers \/ StopPublisher \/ StopDpdk
      BY <3>4, LinkCallTypes
        DEF MonitorSetup, MonitorEnd, RestoreHandlers, StopPublisher, StopDpdk
    <3> QED
      BY <1>1, <3>1, <3>2, <3>3, <3>4 DEF PlainActions
  <2>2. RestTypeOK'
    <3> USE DEF TypeOK, RestTypeOK, KeepRest, sigVars, verifyVars, appVars
    <3>1. CASE ServerOn \/ Network \/ ServerOff \/ MeasureEnd
      BY <3>1 DEF ServerOn, Network, ServerOff, MeasureEnd
    <3>2. CASE Connect \/ Program \/ Enable \/ Disable \/ Disconnect
      BY <3>2 DEF Connect, Program, Enable, Disable, Disconnect
    <3>3. CASE StartPublisher \/ StopPublisher
      BY <3>3 DEF StartPublisher, StopPublisher
    <3>4. CASE RunDpdkEnd \/ StopDpdk
      BY <3>4 DEF RunDpdkEnd, StopDpdk, TryStopDpdk
    <3>5. CASE MonitorSetup \/ MonitorEnd \/ RestoreHandlers
      BY <3>5 DEF MonitorSetup, MonitorEnd, RestoreHandlers
    <3>6. CASE MainQuery
      BY <3>6, MainQueryFrame
    <3>7. CASE Redisable
      BY <3>7 DEF Redisable
    <3> QED
      BY <1>1, <3>1, <3>2, <3>3, <3>4, <3>5, <3>6, <3>7 DEF PlainActions
  <2>3. PlainStep
    BY <1>1, MainFrame
  <2>4. pc' \in MainLabels /\ spc' \in [Contexts -> ShutdownLabels]
    BY <2>3, LabelTypes DEF PlainStep, Fail, TypeOK, ShutdownLabels
  <2> QED
    BY <2>1, <2>2, <2>3, <2>4 DEF TypeOK, RestTypeOK, PlainStep, regVars
<1>2. CASE LockRegistry
  BY <1>2, LinkCallTypes
    DEF LockRegistry, TypeOK, Contexts, sigVars, verifyVars, appVars
<1>3. CASE UpdateRegistry
  <2>1. registry' \in SUBSET Resources
    BY <1>3, RegistryCallNames, RegistryCallValues DEF UpdateRegistry, TypeOK, Resources
  <2>2. pc' \in MainLabels
    BY <1>3, RegistryCallTypes, LabelTypes DEF UpdateRegistry, GoTo
  <2>3. LinkTypeOK'
    BY <1>3, LinkCallTypes DEF UpdateRegistry, TypeOK
  <2> QED
    BY <1>3, <2>1, <2>2, <2>3
      DEF UpdateRegistry, GoTo, TypeOK, Contexts, sigVars, verifyVars, appVars
<1>4. CASE ReturnTrue \/ ReturnFalse
  BY <1>4, LinkCallTypes
    DEF ReturnTrue, ReturnFalse, Return, TypeOK, regVars, sigVars, verifyVars
<1> QED
  BY <1>1, <1>2, <1>3, <1>4 DEF MainStep, PlainActions, MainQuery

\* So does every step of executeShutdown, in whichever context.
LEMMA ShutdownTypes == ASSUME TypeOK, ShutdownStep PROVE TypeOK'
<1>1. LinkTypeOK'
  BY LinkCallTypes
    DEF ShutdownStep, ClaimShutdown, LockShutdown, DisableOutputs, DisconnectSupplies,
      StopRegisteredDpdk, FinishShutdown, HandlerExit, ExitProcess, TypeOK
<1>2. spc' \in [Contexts -> ShutdownLabels]
  BY DEF ShutdownStep, ClaimShutdown, LockShutdown, DisableOutputs, DisconnectSupplies,
      StopRegisteredDpdk, FinishShutdown, HandlerExit, ExitProcess, TypeOK, Advance, ShutdownLabels
<1>3. mutex' \in Contexts \cup {"free"} /\ shutdownDone' \in BOOLEAN
      /\ registry' \in SUBSET Resources
  BY DEF ShutdownStep, ClaimShutdown, LockShutdown, DisableOutputs, DisconnectSupplies,
      StopRegisteredDpdk, FinishShutdown, HandlerExit, ExitProcess, TypeOK, regVars
<1>4. dpdkAlive' \in BOOLEAN /\ dpdkLost' \in BOOLEAN
  BY DEF ShutdownStep, ClaimShutdown, LockShutdown, DisableOutputs, DisconnectSupplies,
      StopRegisteredDpdk, FinishShutdown, HandlerExit, ExitProcess, TypeOK, TryStopDpdk, appVars
<1>5. /\ UNCHANGED <<unit, pc, running, sigVars, verifyVars, publisher>>
      /\ exited' \in {exited, "signal"}
  BY DEF ShutdownStep, ClaimShutdown, LockShutdown, DisableOutputs, DisconnectSupplies,
      StopRegisteredDpdk, FinishShutdown, HandlerExit, ExitProcess, KeepProcess, Advance, appVars
<1> QED
  BY <1>1, <1>2, <1>3, <1>4, <1>5 DEF TypeOK, sigVars, verifyVars

\* The steps that are neither.
EnvironmentStep ==
  \/ \E s \in Signals : ShutdownSignal(s)
  \/ \E s \in Signals : ThreadSignal(s)
  \/ MonitorSignal
  \/ PublisherAsk \/ PublisherQuery
  \/ DpdkDaemonises \/ DpdkExits
  \/ SessionFails

\* And every step of the environment.
LEMMA EnvironmentTypes == ASSUME TypeOK, EnvironmentStep PROVE TypeOK'
<1> USE DEF TypeOK, regVars, sigVars, verifyVars, appVars
<1>1. CASE \E s \in Signals : ShutdownSignal(s)
  BY <1>1, LinkCallTypes DEF ShutdownSignal, Contexts, ShutdownLabels
<1>2. CASE (\E s \in Signals : ThreadSignal(s)) \/ MonitorSignal
           \/ DpdkDaemonises \/ DpdkExits
  BY <1>2, LinkCallTypes DEF ThreadSignal, ExitProcess, MonitorSignal, DpdkDaemonises, DpdkExits
<1>3. CASE PublisherAsk \/ PublisherQuery
  BY <1>3, PublisherFrame, QueryFrame DEF Threads, procVars
<1>4. CASE SessionFails
  BY <1>4, LinkCallTypes DEF SessionFails, procVars
<1> QED
  BY <1>1, <1>2, <1>3, <1>4 DEF EnvironmentStep

\* Once the verify loop is left the main thread does not come back to it.
LEMMA AfterVerifyClosed ==
  ASSUME MainStep, pc \in AfterVerify
  PROVE  pc' \in AfterVerify
<1> USE DEF AfterVerify, At, GoTo, MainStep
<1>1. CASE Disconnect \/ ServerOff \/ ReturnTrue
  BY <1>1 DEF Disconnect, ServerOff, ReturnTrue, Return
<1>2. CASE LockRegistry
  BY <1>2 DEF LockRegistry
<1>3. CASE UpdateRegistry
  <2>1. pc \in RegistryCalls /\ pc' = AfterRegistryCall[pc]
    BY <1>3 DEF UpdateRegistry
  <2> QED
    BY <2>1, RegistryCallNames DEF AfterRegistryCall
<1>4. CASE ServerOn \/ Connect \/ Program \/ Enable \/ StartPublisher \/ Network \/ RunDpdkEnd
           \/ ReturnFalse
  BY <1>4 DEF ServerOn, Connect, Program, Enable, StartPublisher, Network, RunDpdkEnd,
    ReturnFalse, Return
<1>5. CASE MonitorSetup \/ MonitorEnd \/ RestoreHandlers \/ StopPublisher \/ StopDpdk
  BY <1>5 DEF MonitorSetup, MonitorEnd, RestoreHandlers, StopPublisher, StopDpdk
<1>6. CASE MainQuery \/ MeasureEnd
  BY <1>6, MainQueryFrame DEF MeasureEnd
<1>7. CASE Disable \/ Redisable
  BY <1>7 DEF Disable, Redisable
<1> QED
  BY <1>1, <1>2, <1>3, <1>4, <1>5, <1>6, <1>7 DEF MainQuery

\* Only Redisable counts, and it leaves the loop in the last round.
LEMMA RetryStep ==
  ASSUME TypeOK, RetryInv, [Next]_vars
  PROVE  RetryInv' /\ retry' \in 0..VerifyRetries
<1>1. CASE Redisable
  <2>1. retry \in 0..VerifyRetries /\ retry # VerifyRetries
    BY <1>1 DEF TypeOK, RetryInv, AfterVerify, Redisable, At
  <2>2. retry' = retry + 1
        /\ pc' = IF retry + 1 < VerifyRetries THEN "verify" ELSE "unregOutput"
    BY <1>1 DEF Redisable, GoTo
  <2>3. retry' \in 0..VerifyRetries
    BY <2>1, <2>2, RetriesAssumption
  <2>4. retry' = VerifyRetries => pc' = "unregOutput"
    BY <2>1, <2>2, RetriesAssumption
  <2> QED
    BY <2>3, <2>4 DEF RetryInv, AfterVerify
<1>2. CASE MainStep /\ ~Redisable
  <2> USE DEF KeepRest, verifyVars
  <2>1. retry' = retry
    <3>1. CASE ServerOn \/ LockRegistry \/ UpdateRegistry \/ Connect \/ Program \/ Enable
      BY <3>1 DEF ServerOn, LockRegistry, UpdateRegistry, Connect, Program, Enable
    <3>2. CASE StartPublisher \/ Network \/ RunDpdkEnd \/ MonitorSetup \/ MonitorEnd
      BY <3>2 DEF StartPublisher, Network, RunDpdkEnd, MonitorSetup, MonitorEnd
    <3>3. CASE RestoreHandlers \/ StopPublisher \/ StopDpdk \/ MeasureEnd \/ Disable
      BY <3>3 DEF RestoreHandlers, StopPublisher, StopDpdk, MeasureEnd, Disable
    <3>4. CASE MainQuery
      BY <3>4, MainQueryFrame
    <3>5. CASE Disconnect \/ ServerOff \/ ReturnTrue \/ ReturnFalse
      BY <3>5 DEF Disconnect, ServerOff, ReturnTrue, ReturnFalse, Return
    <3> QED
      BY <1>2, <3>1, <3>2, <3>3, <3>4, <3>5 DEF MainStep, MainQuery
  <2> QED
    BY <1>2, <2>1, AfterVerifyClosed DEF RetryInv, TypeOK
<1>3. CASE ShutdownStep
  <2>1. retry' = retry /\ pc' = pc
    BY <1>3 DEF ShutdownStep, ClaimShutdown, LockShutdown, DisableOutputs, DisconnectSupplies,
      StopRegisteredDpdk, FinishShutdown, HandlerExit, ExitProcess, KeepProcess, Advance, verifyVars
  <2> QED
    BY <2>1 DEF RetryInv, TypeOK, AfterVerify
<1>4. CASE EnvironmentStep \/ UNCHANGED vars
  <2>1. retry' = retry /\ pc' = pc
    BY <1>4 DEF EnvironmentStep, ShutdownSignal, ThreadSignal, ExitProcess, MonitorSignal,
      PublisherAsk, PublisherQuery, DpdkDaemonises, DpdkExits, SessionFails, verifyVars,
      vars, procVars
  <2> QED
    BY <2>1 DEF RetryInv, TypeOK, AfterVerify
<1> QED
  BY <1>1, <1>2, <1>3, <1>4 DEF Next, EnvironmentStep

\* The four groups of steps.
LEMMA TypeStep == ASSUME TypeOK, RetryInv, [Next]_vars PROVE TypeOK'
<1>1. retry' \in 0..VerifyRetries
  BY RetryStep
<1>2. CASE MainStep
  BY <1>1, <1>2, MainTypes
<1>3. CASE ShutdownStep
  BY <1>3, ShutdownTypes
<1>4. CASE EnvironmentStep
  BY <1>4, EnvironmentTypes
<1>5. CASE UNCHANGED vars
  <2>1. LinkTypeOK'
    BY <1>5, LinkCallTypes DEF vars, TypeOK
  <2> QED
    BY <1>5, <2>1 DEF vars, procVars, TypeOK
<1> QED
  BY <1>2, <1>3, <1>4, <1>5 DEF Next, EnvironmentStep

\* The initial states.
LEMMA InitTypes == Init => TypeOK /\ RetryInv
<1> SUFFICES ASSUME Init PROVE TypeOK /\ RetryInv
  OBVIOUS
<1> USE DEF Init
<1>1. LinkTypeOK
  BY DEF LinkInit, LinkTypeOK, SessionStates, Phases
<1>2. retry \in 0..VerifyRetries /\ RetryInv
  BY RetriesAssumption DEF RetryInv
<1>3. spc \in [Contexts -> ShutdownLabels]
  BY DEF ShutdownLabels
<1> QED
  BY <1>1, <1>2, <1>3, LabelTypes DEF TypeOK, Contexts

\* Every variable of PowerSequence keeps its type; in particular the verify loop
\* never counts beyond its bound.
THEOREM TypeCorrect == Spec => []TypeOK
<1>1. TypeOK /\ RetryInv /\ [Next]_vars => (TypeOK /\ RetryInv)'
  BY TypeStep, RetryStep
<1> QED
  BY InitTypes, <1>1, PTL DEF Spec

----------------------------------------------------------------------------
(* The contexts and the mutex.                                             *)

\* What a registry call does to the control variables.
LEMMA RegistryFrame ==
  ASSUME LockRegistry \/ UpdateRegistry
  PROVE  /\ exited = "no" /\ running = "main" /\ pc \in RegistryCalls
         /\ pc' # "error" /\ (pc' = pc \/ mutex' = "free")
         /\ UNCHANGED <<running, spc, shutdownDone, exited>>
         /\ \/ mutex = "free" /\ mutex' = "main"
            \/ mutex = "main" /\ mutex' = "free"
<1>1. CASE LockRegistry
  BY <1>1, RegistryCallNames DEF LockRegistry, At
<1>2. CASE UpdateRegistry
  BY <1>2, RegistryCallTypes DEF UpdateRegistry, At, GoTo
<1> QED
  BY <1>1, <1>2

\* The contexts stay ordered: the stack discipline of signal handlers and the
\* compare_exchange let one context into executeShutdown.
LEMMA ContextStep ==
  ASSUME TypeOK, ContextInv, [Next]_vars
  PROVE  ContextInv'
<1> USE DEF ContextInv, Inside, ShutdownCritical, Contexts, Signals
<1> spc \in [Contexts -> ShutdownLabels] /\ running \in Contexts
  BY DEF TypeOK
<1>1. CASE PlainActions
  <2>1. PlainStep
    BY <1>1, MainFrame
  <2>2. /\ running' = "main" /\ shutdownDone' = shutdownDone
        /\ \A s \in Signals : spc'[s] = "idle"
        /\ spc["main"] = "idle"
        /\ \/ pc' # "error" /\ spc'["main"] = "idle"
           \/ pc' = "error" /\ spc'["main"] = "cas"
    BY <2>1 DEF PlainStep, Fail, regVars
  <2> QED
    BY <2>1, <2>2 DEF PlainStep
<1>2. CASE LockRegistry \/ UpdateRegistry
  <2>1. pc # "error"
    BY <1>2, RegistryFrame, RegistryCallNames
  <2> QED
    BY <1>2, <2>1, RegistryFrame
<1>3. CASE ReturnTrue \/ ReturnFalse
  BY <1>3 DEF ReturnTrue, ReturnFalse, Return, regVars
<1>4. CASE ClaimShutdown
  BY <1>4 DEF ClaimShutdown, InShutdown, Advance, KeepProcess
<1>5. CASE LockShutdown \/ DisableOutputs \/ DisconnectSupplies \/ StopRegisteredDpdk
           \/ FinishShutdown
  <2>1. PICK l \in {"outputs", "disconnect", "dpdk", "apps", "end"} :
          /\ spc[running] \in Inside
          /\ spc' = [spc EXCEPT ![running] = l]
          /\ UNCHANGED <<pc, running, shutdownDone>>
    BY <1>5 DEF LockShutdown, DisableOutputs, DisconnectSupplies, StopRegisteredDpdk,
      FinishShutdown, InShutdown, Advance, KeepProcess
  <2> QED
    BY <2>1
<1>6. CASE HandlerExit
  BY <1>6 DEF HandlerExit, ExitProcess, regVars
<1>7. CASE \E s \in Signals : ShutdownSignal(s)
  <2>1. PICK s \in Signals :
          /\ spc[s] = "idle" /\ spc' = [spc EXCEPT ![s] = "cas"]
          /\ running' = s /\ UNCHANGED <<pc, shutdownDone>>
    BY <1>7 DEF ShutdownSignal, regVars
  <2> QED
    BY <2>1
<1>8. CASE (\E s \in Signals : ThreadSignal(s)) \/ MonitorSignal
           \/ PublisherAsk \/ PublisherQuery \/ DpdkDaemonises
           \/ DpdkExits \/ SessionFails \/ UNCHANGED vars
  <2>1. UNCHANGED <<pc, running, spc, shutdownDone>>
    BY <1>8 DEF ThreadSignal, ExitProcess, MonitorSignal, PublisherAsk, PublisherQuery,
      DpdkDaemonises, DpdkExits, SessionFails, vars, procVars, regVars
  <2> QED
    BY <2>1
<1> QED
  BY <1>1, <1>2, <1>3, <1>4, <1>5, <1>6, <1>7, <1>8
    DEF Next, MainStep, ShutdownStep, PlainActions, MainQuery

\* The mutex follows the code that takes it.
LEMMA MutexStep ==
  ASSUME TypeOK, ContextInv, MutexInv, [Next]_vars
  PROVE  MutexInv'
<1> USE DEF MutexInv, ShutdownCritical, Contexts, Signals
<1> spc \in [Contexts -> ShutdownLabels] /\ running \in Contexts
  BY DEF TypeOK
<1>1. CASE PlainActions
  <2>1. PlainStep
    BY <1>1, MainFrame
  <2>2. /\ mutex' = mutex /\ pc \notin RegistryCalls
        /\ \A s \in Signals : spc[s] = "idle" /\ spc'[s] = "idle"
        /\ spc["main"] = "idle" /\ spc'["main"] \in {"idle", "cas"}
    BY <2>1 DEF PlainStep, Fail, regVars, ContextInv
  <2> QED
    BY <2>2
<1>2. CASE LockRegistry \/ UpdateRegistry
  <2>1. \A c \in Contexts : spc[c] = "idle"
    BY <1>2, RegistryFrame, RegistryCallNames DEF ContextInv
  <2> QED
    BY <1>2, <2>1, RegistryFrame
<1>3. CASE ReturnTrue \/ ReturnFalse
  BY <1>3 DEF ReturnTrue, ReturnFalse, Return, regVars
<1>4. CASE ClaimShutdown
  BY <1>4 DEF ClaimShutdown, InShutdown, Advance, KeepProcess
<1>5. CASE LockShutdown
  BY <1>5 DEF LockShutdown, InShutdown, Advance, KeepProcess
<1>6. CASE DisableOutputs \/ DisconnectSupplies \/ StopRegisteredDpdk
  <2>1. PICK l \in {"disconnect", "dpdk", "apps"} :
          /\ spc[running] \in ShutdownCritical
          /\ spc' = [spc EXCEPT ![running] = l]
          /\ UNCHANGED <<pc, mutex>>
    BY <1>6 DEF DisableOutputs, DisconnectSupplies, StopRegisteredDpdk, InShutdown, Advance
  <2> QED
    BY <2>1
<1>7. CASE FinishShutdown
  BY <1>7 DEF FinishShutdown, InShutdown, Advance
<1>8. CASE HandlerExit
  BY <1>8 DEF HandlerExit, ExitProcess, regVars
<1>9. CASE \E s \in Signals : ShutdownSignal(s)
  <2>1. PICK s \in Signals :
          /\ spc[s] = "idle" /\ spc' = [spc EXCEPT ![s] = "cas"]
          /\ UNCHANGED <<pc, mutex>>
    BY <1>9 DEF ShutdownSignal, regVars
  <2> QED
    BY <2>1
<1>10. CASE (\E s \in Signals : ThreadSignal(s)) \/ MonitorSignal
           \/ PublisherAsk \/ PublisherQuery \/ DpdkDaemonises
            \/ DpdkExits \/ SessionFails \/ UNCHANGED vars
  <2>1. UNCHANGED <<pc, spc, mutex>>
    BY <1>10 DEF ThreadSignal, ExitProcess, MonitorSignal, PublisherAsk, PublisherQuery,
      DpdkDaemonises, DpdkExits, SessionFails, vars, procVars, regVars
  <2> QED
    BY <2>1
<1> QED
  BY <1>1, <1>2, <1>3, <1>4, <1>5, <1>6, <1>7, <1>8, <1>9, <1>10
    DEF Next, MainStep, ShutdownStep, PlainActions, MainQuery

----------------------------------------------------------------------------
(* The output.                                                             *)

\* What executeShutdown does to the output and to the registry, step by step.
LEMMA ShutdownFrame ==
  ASSUME TypeOK, ShutdownStep
  PROVE  /\ exited = "no" /\ UNCHANGED <<unit, pc, running>>
         /\ running \in Contexts /\ spc[running] # "idle" /\ spc' \in [Contexts -> ShutdownLabels]
         /\ \A c \in Contexts \ {running} : spc'[c] = spc[c]
<1>1. CASE ClaimShutdown \/ LockShutdown \/ DisableOutputs \/ DisconnectSupplies
           \/ StopRegisteredDpdk \/ FinishShutdown
  BY <1>1 DEF ClaimShutdown, LockShutdown, DisableOutputs, DisconnectSupplies,
    StopRegisteredDpdk, FinishShutdown, InShutdown, Advance, KeepProcess, TypeOK,
    ShutdownLabels
<1>2. CASE HandlerExit
  BY <1>2 DEF HandlerExit, ExitProcess, InShutdown, TypeOK
<1> QED
  BY <1>1, <1>2 DEF ShutdownStep

\* The steps of a running sequence keep the output accounted for.
LEMMA OutputMainStep ==
  ASSUME TypeOK, ContextInv, OutputInv, MainStep
  PROVE  OutputInv'
<1> USE DEF OutputInv, OutputAccounted, EnableWindow
<1>1. CASE PlainActions
  <2> DEFINE Quiet == \A c \in Contexts : spc'[c] \in {"idle", "cas"}
  <2>1. PlainStep
    BY <1>1, MainFrame
  <2>2. /\ UNCHANGED <<registry, shutdownDone>> /\ running = "main"
        /\ \A c \in Contexts : spc[c] = "idle"
        /\ Quiet
    BY <2>1 DEF PlainStep, Fail, regVars, ContextInv, TypeOK, Contexts
  <2>3. ~shutdownDone
    BY <2>2 DEF ContextInv
  <2>4. /\ psuOn' => "output" \in registry \/ pc' = "regOutput" \/ offLost'
        /\ pc' \in OffRequested /\ psuOn' => offLost'
        /\ "output" \in registry => pc' \in OutputLabels
    <3> USE <2>1, RegistryCallNames
        DEF PlainStep, At, Try, GoTo, Fail, OffRequested, OutputLabels, TypeOK, LinkTypeOK
    <3>1. CASE Connect
      BY <3>1 DEF Connect, ConnectPsu
    <3>2. CASE Program
      BY <3>2 DEF Program, WriteCommand
    <3>3. CASE Enable
      BY <3>3 DEF Enable, EnableOutput
    <3>4. CASE Disable
      BY <3>4 DEF Disable, EnableOutput
    <3>5. CASE Redisable
      BY <3>5 DEF Redisable, EnableOutput
    <3>6. CASE ServerOn \/ Network \/ ServerOff \/ MeasureEnd
      BY <3>6 DEF ServerOn, Network, ServerOff, MeasureEnd, linkVars
    <3>7. CASE StartPublisher \/ RunDpdkEnd \/ StopPublisher \/ StopDpdk
      BY <3>7 DEF StartPublisher, RunDpdkEnd, StopPublisher, StopDpdk, linkVars
    <3>8. CASE MonitorSetup \/ MonitorEnd \/ RestoreHandlers
      BY <3>8 DEF MonitorSetup, MonitorEnd, RestoreHandlers, linkVars
    <3>9. CASE MainQuery
      <4>1. psuOn' = psuOn /\ offLost' = offLost
        BY <3>9, MainQueryFrame, QueryFrame DEF Threads, linkVars
      <4> QED
        BY <4>1, <3>9, MainQueryFrame
    <3>10. CASE Disconnect
      BY <3>10 DEF Disconnect, DisconnectPsu
    <3> QED
      BY <1>1, <3>1, <3>2, <3>3, <3>4, <3>5, <3>6, <3>7, <3>8, <3>9, <3>10
        DEF PlainActions
  <2> QED
    BY <2>2, <2>3, <2>4
<1>2. CASE LockRegistry
  BY <1>2 DEF LockRegistry, linkVars
<1>3. CASE UpdateRegistry
  <2>1. pc \in RegistryCalls /\ running = "main" /\ pc' = AfterRegistryCall[pc]
        /\ UNCHANGED <<psuOn, offLost, spc, shutdownDone>>
    BY <1>3 DEF UpdateRegistry, At, GoTo, linkVars
  <2>2. \A c \in Contexts : spc[c] = "idle"
    BY <2>1, RegistryCallNames DEF ContextInv, Contexts
  <2>3. ~shutdownDone
    BY <2>2 DEF ContextInv
  <2>4. /\ pc = "regOutput" => "output" \in registry'
        /\ pc # "unregOutput" /\ "output" \in registry => "output" \in registry'
        /\ pc # "regOutput" /\ "output" \in registry' => "output" \in registry
        /\ pc = "unregOutput" => "output" \notin registry'
    BY <1>3, <2>1, RegistryCallNames, RegistryCallValues DEF UpdateRegistry
  <2>5. /\ pc = "regServer" => pc' = "connect"
        /\ pc = "regConnected" => pc' = "program"
        /\ pc = "regOutput" => pc' \in {"startPublisher", "measure"}
        /\ pc = "regDpdk" => pc' = "monitorSetup"
        /\ pc = "unregDpdk" => pc' = "disable"
        /\ pc = "unregOutput" => pc' = "disconnect"
        /\ pc = "unregConnected" => pc' \in {"serverOff", "done"}
        /\ pc = "unregServer" => pc' = "done"
    BY <2>1 DEF AfterRegistryCall
  <2>6. /\ pc' \in OffRequested /\ psuOn => offLost
        /\ "output" \in registry' => pc' \in OutputLabels
        /\ psuOn => "output" \in registry' \/ offLost
    BY <2>1, <2>4, <2>5, RegistryCallNames DEF OffRequested, OutputLabels
  <2> QED
    BY <2>1, <2>2, <2>3, <2>6
<1>4. CASE ReturnTrue \/ ReturnFalse
  BY <1>4 DEF ReturnTrue, ReturnFalse, Return, linkVars, regVars
<1> QED
  BY <1>1, <1>2, <1>3, <1>4 DEF MainStep, PlainActions, MainQuery

\* executeShutdown takes the output off the list only after asking for it to be
\* switched off.
LEMMA OutputShutdownStep ==
  ASSUME TypeOK, ContextInv, OutputInv, ShutdownStep
  PROVE  OutputInv'
<1> USE DEF OutputInv, OutputAccounted, EnableWindow
<1> running \in Contexts /\ spc \in [Contexts -> ShutdownLabels]
  BY DEF TypeOK
<1>1. CASE ClaimShutdown
  <2>1. /\ UNCHANGED <<psuOn, offLost, registry, pc>>
        /\ spc[running] = "cas"
        /\ spc' = [spc EXCEPT ![running] = IF shutdownDone THEN "end" ELSE "lock"]
    BY <1>1 DEF ClaimShutdown, InShutdown, Advance, linkVars
  <2>2. ~shutdownDone => spc'[running] = "lock"
    BY <2>1
  <2>3. shutdownDone /\ "output" \in registry =>
          \E c \in Contexts : c # running /\ spc[c] \in {"lock", "outputs"}
    BY <2>1
  <2> QED
    BY <2>1, <2>2, <2>3
<1>2. CASE LockShutdown
  BY <1>2 DEF LockShutdown, InShutdown, Advance, KeepProcess, linkVars
<1>3. CASE DisableOutputs
  <2>1. /\ "output" \notin registry' /\ pc' = pc
        /\ psuOn' => psuOn /\ ("output" \notin registry \/ offLost')
        /\ offLost => offLost'
    BY <1>3 DEF DisableOutputs, EnableOutput, Advance, linkVars
  <2> QED
    BY <2>1
<1>4. CASE DisconnectSupplies
  <2>1. /\ "output" \notin registry /\ "output" \notin registry'
        /\ UNCHANGED <<psuOn, offLost, pc>>
    BY <1>4 DEF DisconnectSupplies, DisconnectPsu, InShutdown, Advance, linkVars
  <2> QED
    BY <2>1
<1>5. CASE StopRegisteredDpdk \/ FinishShutdown
  <2>1. PICK l \in {"apps", "end"} :
          /\ spc[running] \in {"dpdk", "apps"}
          /\ spc' = [spc EXCEPT ![running] = l]
          /\ "output" \in registry' <=> "output" \in registry
          /\ UNCHANGED <<psuOn, offLost, pc, shutdownDone>>
    BY <1>5 DEF StopRegisteredDpdk, FinishShutdown, InShutdown, Advance, linkVars
  <2> QED
    BY <2>1
<1>6. CASE HandlerExit
  BY <1>6 DEF HandlerExit, ExitProcess, ProcessGone, regVars
<1> QED
  BY <1>1, <1>2, <1>3, <1>4, <1>5, <1>6 DEF ShutdownStep

\* Neither a signal, a query of the publisher nor a link fault loses track of it.
LEMMA OutputEnvironmentStep ==
  ASSUME TypeOK, OutputInv, EnvironmentStep \/ UNCHANGED vars
  PROVE  OutputInv'
<1> USE DEF OutputInv, OutputAccounted, EnableWindow
<1>1. CASE \E s \in Signals : ShutdownSignal(s)
  <2>1. PICK s \in Signals :
          /\ spc[s] = "idle" /\ spc' = [spc EXCEPT ![s] = "cas"]
          /\ UNCHANGED <<psuOn, offLost, registry, pc, shutdownDone>>
    BY <1>1 DEF ShutdownSignal, linkVars, regVars
  <2> QED
    BY <2>1 DEF TypeOK
<1>2. CASE (\E s \in Signals : ThreadSignal(s)) \/ MonitorSignal
           \/ DpdkDaemonises \/ DpdkExits \/ UNCHANGED vars
  BY <1>2 DEF ThreadSignal, ExitProcess, ProcessGone, MonitorSignal, DpdkDaemonises, DpdkExits,
    linkVars, regVars, vars, procVars
<1>3. CASE PublisherAsk \/ PublisherQuery
  <2>1. UNCHANGED <<psuOn, offLost, procVars>>
    BY <1>3, PublisherFrame, QueryFrame DEF Threads, TypeOK
  <2> QED
    BY <2>1 DEF procVars
<1>4. CASE SessionFails
  BY <1>4 DEF SessionFails, LinkFault, procVars
<1> QED
  BY <1>1, <1>2, <1>3, <1>4 DEF EnvironmentStep

----------------------------------------------------------------------------
(* The way a run ends.                                                     *)

\* After the process has ended nothing moves.
LEMMA ExitStep ==
  ASSUME TypeOK, ContextInv, ExitInv, [Next]_vars
  PROVE  ExitInv'
<1> USE DEF ExitInv
<1>1. CASE PlainActions
  BY <1>1, MainFrame DEF PlainStep
<1>2. CASE LockRegistry \/ UpdateRegistry
  BY <1>2, RegistryFrame
<1>3. CASE ReturnTrue \/ ReturnFalse
  BY <1>3 DEF ReturnTrue, ReturnFalse, Return, At, ContextInv, TypeOK, Contexts, regVars
<1>4. CASE ShutdownStep
  <2>1. CASE HandlerExit
    BY <2>1 DEF HandlerExit, ExitProcess, InShutdown, ContextInv, TypeOK, regVars
  <2>2. CASE ~HandlerExit
    BY <1>4, <2>2 DEF ShutdownStep, ClaimShutdown, LockShutdown, DisableOutputs,
      DisconnectSupplies, StopRegisteredDpdk, FinishShutdown, InShutdown, KeepProcess
  <2> QED
    BY <2>1, <2>2
<1>5. CASE EnvironmentStep
  BY <1>5 DEF EnvironmentStep, ShutdownSignal, ThreadSignal, ExitProcess, MonitorSignal,
    PublisherAsk, PublisherQuery, DpdkDaemonises, DpdkExits, SessionFails, procVars,
    regVars
<1>6. CASE UNCHANGED vars
  BY <1>6 DEF vars, procVars
<1> QED
  BY <1>1, <1>2, <1>3, <1>4, <1>5, <1>6 DEF Next, MainStep, PlainActions, MainQuery, EnvironmentStep

----------------------------------------------------------------------------
(* The DPDK application.                                                   *)

\* The steps of a running sequence keep dpdk_app accounted for.
LEMMA DpdkMainStep ==
  ASSUME TypeOK, ContextInv, DpdkInv, MainStep
  PROVE  DpdkInv'
<1> USE DEF DpdkInv
<1>1. CASE PlainActions
  <2>1. PlainStep
    BY <1>1, MainFrame
  <2>2. UNCHANGED <<registry, shutdownDone>> /\ ~shutdownDone
    <3>1. \A c \in Contexts : spc[c] = "idle"
      BY <2>1 DEF PlainStep, ContextInv, Contexts
    <3> QED
      BY <2>1, <3>1 DEF PlainStep, regVars, ContextInv
  <2>3. /\ dpdkAlive' => "dpdk" \in registry \/ pc' \in {"runDpdk", "regDpdk"} \/ dpdkLost'
        /\ pc' = "unregDpdk" /\ dpdkAlive' => dpdkLost'
        /\ "dpdk" \in registry => pc' \in DpdkLabels
    <3> USE <2>1, RegistryCallNames
        DEF PlainStep, At, Try, GoTo, Fail, DpdkLabels, TypeOK, appVars, KeepRest
    <3>1. CASE RunDpdkEnd
      BY <3>1 DEF RunDpdkEnd
    <3>2. CASE StopDpdk
      BY <3>2 DEF StopDpdk, TryStopDpdk
    <3>3. CASE ServerOn \/ Network \/ ServerOff \/ MeasureEnd \/ StartPublisher
               \/ StopPublisher
      BY <3>3 DEF ServerOn, Network, ServerOff, MeasureEnd, StartPublisher, StopPublisher
    <3>4. CASE MonitorSetup \/ MonitorEnd \/ RestoreHandlers
      BY <3>4 DEF MonitorSetup, MonitorEnd, RestoreHandlers
    <3>5. CASE Connect \/ Program \/ Enable \/ Disable \/ Disconnect
      <4>1. pc \notin DpdkLabels \cup {"runDpdk", "regDpdk"}
            /\ pc' # "unregDpdk" /\ UNCHANGED <<dpdkAlive, dpdkLost>>
        BY <3>5 DEF Connect, Program, Enable, Disable, Disconnect
      <4> QED
        BY <4>1
    <3>6. CASE MainQuery
      BY <3>6, MainQueryFrame
    <3>7. CASE Redisable
      <4>1. pc = "redisable" /\ pc' \in {"verify", "unregOutput"}
            /\ UNCHANGED <<dpdkAlive, dpdkLost>>
        BY <3>7 DEF Redisable
      <4> QED
        BY <4>1
    <3> QED
      BY <1>1, <3>1, <3>2, <3>3, <3>4, <3>5, <3>6, <3>7 DEF PlainActions
  <2> QED
    BY <2>2, <2>3
<1>2. CASE LockRegistry
  BY <1>2 DEF LockRegistry, appVars
<1>3. CASE UpdateRegistry
  <2>1. pc \in RegistryCalls /\ running = "main" /\ pc' = AfterRegistryCall[pc]
        /\ UNCHANGED <<dpdkAlive, dpdkLost, shutdownDone>>
    BY <1>3 DEF UpdateRegistry, At, GoTo, appVars
  <2>2. ~shutdownDone
    <3>1. \A c \in Contexts : spc[c] = "idle"
      BY <2>1, RegistryCallNames DEF ContextInv, Contexts
    <3> QED
      BY <3>1 DEF ContextInv
  <2>3. /\ pc = "regDpdk" => "dpdk" \in registry' /\ pc' = "monitorSetup"
        /\ pc = "unregDpdk" => "dpdk" \notin registry' /\ pc' = "disable"
        /\ pc \notin {"regDpdk", "unregDpdk"} => ("dpdk" \in registry' <=> "dpdk" \in registry)
    BY <1>3, <2>1, RegistryCallNames, RegistryCallValues DEF UpdateRegistry, AfterRegistryCall
  <2>4. pc' # "unregDpdk"
    BY <2>1, RegistryCallTypes
  <2> QED
    BY <2>1, <2>2, <2>3, <2>4, RegistryCallNames DEF DpdkLabels
<1>4. CASE ReturnTrue \/ ReturnFalse
  BY <1>4 DEF ReturnTrue, ReturnFalse, Return, regVars
<1> QED
  BY <1>1, <1>2, <1>3, <1>4 DEF MainStep, PlainActions, MainQuery

\* executeShutdown forgets dpdk_app only after trying to stop it.
LEMMA DpdkShutdownStep ==
  ASSUME TypeOK, ContextInv, DpdkInv, ShutdownStep
  PROVE  DpdkInv'
<1> USE DEF DpdkInv
<1> running \in Contexts /\ spc \in [Contexts -> ShutdownLabels]
  BY DEF TypeOK
<1>1. CASE ClaimShutdown
  <2>1. /\ UNCHANGED <<dpdkAlive, dpdkLost, registry, pc>>
        /\ spc[running] = "cas"
        /\ spc' = [spc EXCEPT ![running] = IF shutdownDone THEN "end" ELSE "lock"]
    BY <1>1 DEF ClaimShutdown, InShutdown, Advance
  <2>2. ~shutdownDone => spc'[running] = "lock"
    BY <2>1
  <2>3. shutdownDone /\ "dpdk" \in registry =>
          \E c \in Contexts : c # running /\ spc[c] \in {"lock", "outputs", "disconnect", "dpdk"}
    BY <2>1
  <2> QED
    BY <2>1, <2>2, <2>3
<1>2. CASE LockShutdown \/ DisableOutputs \/ DisconnectSupplies
  <2>1. PICK l \in {"outputs", "disconnect", "dpdk"} :
          /\ spc' = [spc EXCEPT ![running] = l]
          /\ "dpdk" \in registry' <=> "dpdk" \in registry
          /\ UNCHANGED <<dpdkAlive, dpdkLost, pc, shutdownDone>>
    BY <1>2 DEF LockShutdown, DisableOutputs, DisconnectSupplies, Advance
  <2> QED
    BY <2>1
<1>3. CASE StopRegisteredDpdk
  <2>1. /\ "dpdk" \notin registry' /\ pc' = pc
        /\ dpdkAlive' => dpdkAlive /\ ("dpdk" \notin registry \/ dpdkLost')
        /\ dpdkLost => dpdkLost'
    BY <1>3 DEF StopRegisteredDpdk, TryStopDpdk, Advance, TypeOK
  <2> QED
    BY <2>1
<1>4. CASE FinishShutdown
  <2>1. /\ spc[running] = "apps" /\ spc' = [spc EXCEPT ![running] = "end"]
        /\ "dpdk" \in registry' <=> "dpdk" \in registry
        /\ UNCHANGED <<dpdkAlive, dpdkLost, pc, shutdownDone>>
    BY <1>4 DEF FinishShutdown, InShutdown, Advance
  <2> QED
    BY <2>1
<1>5. CASE HandlerExit
  BY <1>5 DEF HandlerExit, ExitProcess, regVars, appVars
<1> QED
  BY <1>1, <1>2, <1>3, <1>4, <1>5 DEF ShutdownStep

\* Neither a signal nor dpdk_app itself loses track of it.
LEMMA DpdkEnvironmentStep ==
  ASSUME TypeOK, DpdkInv, EnvironmentStep \/ UNCHANGED vars
  PROVE  DpdkInv'
<1> USE DEF DpdkInv
<1>1. CASE \E s \in Signals : ShutdownSignal(s)
  <2>1. PICK s \in Signals :
          /\ spc[s] = "idle" /\ spc' = [spc EXCEPT ![s] = "cas"]
          /\ UNCHANGED <<dpdkAlive, dpdkLost, registry, pc, shutdownDone>>
    BY <1>1 DEF ShutdownSignal, regVars, appVars
  <2> QED
    BY <2>1 DEF TypeOK
<1>2. CASE (\E s \in Signals : ThreadSignal(s)) \/ MonitorSignal
           \/ PublisherAsk \/ PublisherQuery \/ SessionFails
           \/ UNCHANGED vars
  BY <1>2 DEF ThreadSignal, ExitProcess, MonitorSignal, PublisherAsk, PublisherQuery,
    SessionFails, regVars, appVars, vars, procVars
<1>3. CASE DpdkDaemonises \/ DpdkExits
  BY <1>3 DEF DpdkDaemonises, DpdkExits, regVars
<1> QED
  BY <1>1, <1>2, <1>3 DEF EnvironmentStep

----------------------------------------------------------------------------
(* The theorems.                                                           *)

\* The inductive invariant holds in every reachable state: the registry, the
\* mutex, the contexts and the two things to be made safe stay in step.
THEOREM Inductive == Spec => []IInv
<1>1. Init => IInv
  <2> SUFFICES ASSUME Init PROVE IInv
    OBVIOUS
  <2>1. TypeOK /\ RetryInv
    BY InitTypes
  <2>2. MutexInv /\ ContextInv
    BY DEF Init, MutexInv, ContextInv, ShutdownCritical, Inside, Contexts, Signals
  <2>3. OutputInv
    BY DEF Init, LinkInit, OutputInv, OutputAccounted
  <2>4. DpdkInv /\ ExitInv
    BY DEF Init, DpdkInv, ExitInv
  <2> QED
    BY <2>1, <2>2, <2>3, <2>4 DEF IInv
<1>2. IInv /\ [Next]_vars => IInv'
  <2> SUFFICES ASSUME IInv, [Next]_vars PROVE IInv'
    OBVIOUS
  <2> USE DEF IInv
  <2>1. TypeOK' /\ RetryInv'
    BY TypeStep, RetryStep
  <2>2. MutexInv' /\ ContextInv'
    BY MutexStep, ContextStep
  <2>3. OutputInv'
    BY OutputMainStep, OutputShutdownStep, OutputEnvironmentStep DEF Next, EnvironmentStep
  <2>4. DpdkInv'
    BY DpdkMainStep, DpdkShutdownStep, DpdkEnvironmentStep DEF Next, EnvironmentStep
  <2>5. ExitInv'
    BY ExitStep
  <2> QED
    BY <2>1, <2>2, <2>3, <2>4, <2>5
<1> QED
  BY <1>1, <1>2, PTL DEF Spec

\* SafeShutdown never forgets an output that is on (registerPsuOutputEnabled,
\* unregisterPsuOutputEnabled, executeShutdown).
THEOREM OutputAlwaysAccounted == Spec => []OutputAccounted
<1>1. IInv => OutputAccounted
  BY DEF IInv, OutputInv
<1> QED
  BY Inductive, <1>1, PTL

\* m_mutex can block a handler for good only on top of a registry call.
THEOREM HangsOnlyInRegistryCalls == Spec => []HangOnlyInRegistryCall
<1>1. IInv => HangOnlyInRegistryCall
  <2> SUFFICES ASSUME IInv, Hang PROVE pc \in RegistryCalls /\ mutex = "main"
    BY DEF HangOnlyInRegistryCall
  <2>1. /\ running \in Contexts /\ mutex \in Contexts
        /\ spc[running] = "lock" /\ running # "main"
    BY DEF IInv, TypeOK, Hang
  <2>2. \A c \in Contexts : spc[c] \in ShutdownCritical => c = running
    BY <2>1 DEF IInv, ContextInv, Inside
  <2>3. \A c \in Contexts : spc[c] \notin ShutdownCritical
    BY <2>1, <2>2 DEF ShutdownCritical
  <2> QED
    BY <2>1, <2>3 DEF IInv, MutexInv, Contexts
<1> QED
  BY Inductive, <1>1, PTL

\* However a run ends, the unit is left energised only in the three ways named.
THEOREM ExitsSafely == Spec => []ExitSafe
<1>1. IInv => ExitSafe
  <2> SUFFICES ASSUME IInv, exited # "no", psuOn, ~offLost, ~EnableWindow
               PROVE  CutOff({"lock", "outputs"})
    BY DEF ExitSafe
  <2> USE DEF IInv, OutputInv
  <2>1. "output" \in registry
    BY DEF OutputAccounted
  <2>2. shutdownDone
    BY DEF ExitInv, OffRequested, TypeOK
  <2> QED
    BY <2>1, <2>2 DEF CutOff
<1> QED
  BY Inductive, <1>1, PTL

\* However a run ends, dpdk_app survives it only in the three ways named.
THEOREM DpdkExitsSafely == Spec => []DpdkExitSafe
<1>1. IInv => DpdkExitSafe
  <2> SUFFICES ASSUME IInv, exited # "no", dpdkAlive, ~dpdkLost, pc \notin {"runDpdk", "regDpdk"}
               PROVE  CutOff({"lock", "outputs", "disconnect", "dpdk"})
    BY DEF DpdkExitSafe
  <2> USE DEF IInv, DpdkInv
  <2>1. "dpdk" \in registry
    OBVIOUS
  <2>2. shutdownDone
    BY <2>1 DEF ExitInv, DpdkLabels, TypeOK
  <2> QED
    BY <2>1, <2>2 DEF CutOff
<1> QED
  BY Inductive, <1>1, PTL

\* In a run that ends normally the unit loses power only after dpdk_app was stopped
\* or stopping it failed.
THEOREM StopsDpdkBeforePowerOff == Spec => DpdkStopsBeforePowerOff
<1> DEFINE Guarded == running = "main" /\ psuOn /\ ~psuOn' /\ pc # "error" =>
                        ~dpdkAlive \/ dpdkLost
<1>1. IInv /\ [Next]_vars => [Guarded]_vars
  <2> SUFFICES ASSUME IInv, Next, running = "main", psuOn, ~psuOn', pc # "error"
               PROVE  ~dpdkAlive \/ dpdkLost
    OBVIOUS
  <2>1. pc \in {"connect", "disable", "redisable"}
    <3>1. CASE Connect \/ Disable \/ Redisable
      BY <3>1 DEF Connect, Disable, Redisable, At
    <3>2. CASE Enable \/ Program \/ Disconnect
      BY <3>2 DEF Enable, EnableOutput, Program, WriteCommand, Disconnect, DisconnectPsu
    <3>3. CASE MainQuery \/ PublisherAsk \/ PublisherQuery
      <4>1. psuOn' = psuOn
        BY <3>3, MainQueryFrame, PublisherFrame, QueryFrame DEF IInv, TypeOK, Threads, linkVars
      <4> QED
        BY <4>1
    <3>4. CASE \/ ServerOn \/ Network \/ ServerOff \/ MeasureEnd \/ StartPublisher
               \/ RunDpdkEnd \/ MonitorSetup \/ MonitorEnd \/ RestoreHandlers
               \/ StopPublisher \/ StopDpdk
      BY <3>4 DEF ServerOn, Network, ServerOff, MeasureEnd, StartPublisher, RunDpdkEnd,
        MonitorSetup, MonitorEnd, RestoreHandlers, StopPublisher, StopDpdk, linkVars
    <3>5. CASE LockRegistry \/ UpdateRegistry \/ ReturnTrue \/ ReturnFalse
      BY <3>5 DEF LockRegistry, UpdateRegistry, ReturnTrue, ReturnFalse, Return, linkVars
    <3>6. CASE ShutdownStep
      BY <3>6, ShutdownFrame DEF IInv, ContextInv
    <3>7. CASE EnvironmentStep
      BY <3>3, <3>7 DEF EnvironmentStep, ShutdownSignal, ThreadSignal, ExitProcess, ProcessGone,
        MonitorSignal, DpdkDaemonises, DpdkExits, SessionFails, LinkFault, linkVars
    <3> QED
      BY <3>1, <3>2, <3>3, <3>4, <3>5, <3>6, <3>7 DEF Next, MainStep, MainQuery, EnvironmentStep
  <2> QED
    BY <2>1 DEF IInv, DpdkInv, DpdkLabels
<1> QED
  BY Inductive, <1>1, PTL DEF Spec, DpdkStopsBeforePowerOff

----------------------------------------------------------------------------
(* Reconnecting.                                                           *)

\* Labels before the publisher is started.  The units that measure have none.
Early == {"serverOn", "regServer", "connect", "regConnected", "program", "enable", "regOutput",
          "startPublisher", "measure"}

\* Two queries may be under way: the verify loop of CMC and VMC runs beside the publisher.
Overlap == pc \in OffRequested /\ publisher = "on"

\* What reconnect() of thread t tears down and opens again is dead.
TearsDownDead(t) ==
  /\ query[t] = "failed" => ~portOpen
  /\ query[t] \in {"reopening", "validating"} => ~connected

\* Where each thread queries, and what its reconnects meet: only in the verify loop
\* of CMC and VMC can one come upon a connection the other has made since.
ReconnectInv ==
  /\ pc \in Early => publisher = "off"
  /\ query["main"] # "idle" => pc \in {"measure", "verify"}
  /\ publisher = "off" => query["publisher"] = "idle"
  /\ ~Overlap => \A t \in Threads : TearsDownDead(t)

\* Without an overlap there is one query at most.
LEMMA OneQuery ==
  ASSUME TypeOK, ReconnectInv, ~Overlap, NEW t \in Threads, NEW u \in Threads,
         query[t] # "idle", query[u] # "idle"
  PROVE  t = u
BY DEF TypeOK, ReconnectInv, Overlap, OffRequested, Early, Threads

\* A step of a query keeps the two queries apart as far as they were.
LEMMA QueryReconnects ==
  ASSUME TypeOK, ReconnectInv, NEW t \in Threads, QueryStep(t), ~Overlap
  PROVE  \A u \in Threads : TearsDownDead(u)'
<1> USE DEF TearsDownDead, Phase
<1> query \in [Threads -> Phases]
  BY DEF TypeOK, LinkTypeOK
<1>1. \A u \in Threads : TearsDownDead(u)
  BY DEF ReconnectInv
<1>2. CASE Ask(t)
  BY <1>1, <1>2 DEF Ask
<1>3. CASE SendFails(t) \/ TearDown(t)
  BY <1>1, <1>3 DEF SendFails, TearDown
<1>4. CASE Reopen(t) \/ Validate(t)
  <2>1. \A u \in Threads \ {t} : query[u] = "idle"
    BY <1>4, OneQuery DEF Reopen, Validate
  <2> QED
    BY <1>1, <1>4, <2>1 DEF Reopen, Validate
<1>5. CASE AnswerRead(t) \/ NoAnswer(t)
  BY <1>1, <1>5 DEF AnswerRead, NoAnswer
<1>6. CASE ReadFails(t) \/ ReconnectFails(t)
  BY <1>1, <1>6 DEF ReadFails, ReconnectFails
<1> QED
  BY <1>2, <1>3, <1>4, <1>5, <1>6 DEF QueryStep, QueryGoesOn, QueryFails

\* A step of a query concerns the thread's own query only.
LEMMA QueryOfOne ==
  ASSUME TypeOK, NEW t \in Threads, NEW u \in Threads, t # u, QueryStep(t)
  PROVE  query'[u] = query[u]
BY DEF TypeOK, LinkTypeOK, QueryStep, QueryGoesOn, QueryFails, Ask, SendFails, TearDown, Reopen,
  Validate, AnswerRead, NoAnswer, ReadFails, ReconnectFails, Phase

\* The steps of the main thread that are no queries.
MainOther ==
  \/ ServerOn \/ Connect \/ Program \/ Enable
  \/ StartPublisher \/ Network \/ RunDpdkEnd
  \/ MonitorSetup \/ MonitorEnd \/ RestoreHandlers \/ StopPublisher \/ StopDpdk
  \/ MeasureEnd \/ Disable \/ Redisable \/ Disconnect \/ ServerOff
  \/ LockRegistry \/ UpdateRegistry \/ ReturnTrue \/ ReturnFalse

\* They query nothing, and only connect() opens a port.
LEMMA MainOtherLink ==
  ASSUME TypeOK, MainOther
  PROVE  /\ query' = query
         /\ pc # "connect" => (portOpen' => portOpen) /\ (connected' => connected)
<1> USE DEF linkVars, At
<1>1. CASE Connect \/ Disconnect
  BY <1>1 DEF Connect, Disconnect, ConnectPsu, DisconnectPsu
<1>2. CASE Program
  BY <1>2 DEF Program, WriteCommand, TypeOK, LinkTypeOK
<1>3. CASE Enable \/ Disable \/ Redisable
  <2>1. \E on, ok \in BOOLEAN : EnableOutput(on, ok)
    BY <1>3 DEF Enable, Disable, Redisable
  <2> QED
    BY <2>1 DEF EnableOutput, TypeOK, LinkTypeOK
<1>4. CASE \/ ServerOn \/ Network \/ ServerOff \/ MeasureEnd \/ StartPublisher \/ RunDpdkEnd
           \/ MonitorSetup \/ MonitorEnd \/ RestoreHandlers \/ StopPublisher \/ StopDpdk
  BY <1>4 DEF ServerOn, Network, ServerOff, MeasureEnd, StartPublisher, RunDpdkEnd,
    MonitorSetup, MonitorEnd, RestoreHandlers, StopPublisher, StopDpdk
<1>5. CASE LockRegistry \/ UpdateRegistry \/ ReturnTrue \/ ReturnFalse
  BY <1>5 DEF LockRegistry, UpdateRegistry, ReturnTrue, ReturnFalse, Return
<1> QED
  BY <1>1, <1>2, <1>3, <1>4, <1>5 DEF MainOther

\* They make no query end that is under way, come to no early label again, and leave
\* the verify loop and what follows it only by returning.
LEMMA MainOtherPlace ==
  ASSUME TypeOK, ReconnectInv, MainOther
  PROVE  /\ query["main"] = "idle"
         /\ pc' \in Early => pc \in Early /\ publisher' = publisher
         /\ publisher' \in {publisher, "off", "on"}
         /\ publisher' = "off" => publisher = "off" \/ query["publisher"] = "idle"
         /\ pc \in OffRequested => pc' \in OffRequested
<1> USE DEF ReconnectInv, Early, OffRequested, At, GoTo, KeepRest, appVars
<1>1. CASE ServerOn \/ Network \/ ServerOff \/ MeasureEnd
  BY <1>1 DEF ServerOn, Network, ServerOff, MeasureEnd, Try, Fail
<1>2. CASE Connect \/ Program \/ Enable
  BY <1>2 DEF Connect, Program, Enable, Try, Fail
<1>3. CASE Disable \/ Redisable \/ Disconnect
  BY <1>3 DEF Disable, Redisable, Disconnect, Try, Fail
<1>4. CASE StartPublisher \/ StopPublisher
  BY <1>4 DEF StartPublisher, StopPublisher
<1>5. CASE RunDpdkEnd \/ StopDpdk \/ MonitorSetup \/ MonitorEnd \/ RestoreHandlers
  BY <1>5 DEF RunDpdkEnd, StopDpdk, MonitorSetup, MonitorEnd, RestoreHandlers, Try, Fail
<1>6. CASE LockRegistry
  BY <1>6, RegistryCallNames DEF LockRegistry
<1>7. CASE UpdateRegistry
  <2>1. publisher' = publisher /\ pc \in RegistryCalls /\ pc' = AfterRegistryCall[pc]
    BY <1>7 DEF UpdateRegistry
  <2>2. (pc' \in Early => pc \in Early) /\ (pc \in OffRequested => pc' \in OffRequested)
    BY <2>1, RegistryCallNames DEF AfterRegistryCall
  <2> QED
    BY <2>1, <2>2, RegistryCallNames
<1>8. CASE ReturnTrue \/ ReturnFalse
  BY <1>8 DEF ReturnTrue, ReturnFalse, Return
<1> QED
  BY <1>1, <1>2, <1>3, <1>4, <1>5, <1>6, <1>7, <1>8 DEF MainOther

\* The main thread leaves its loops only between two queries.
LEMMA MainQueryPlace ==
  ASSUME TypeOK, MainQuery
  PROVE  query'["main"] # "idle" => pc' \in {"measure", "verify"}
<1> USE DEF GoTo, Answered, Phase, TypeOK, LinkTypeOK, Threads
<1>1. CASE MeasureQuery \/ MainReconnects \/ VerifyAsk
  BY <1>1 DEF MeasureQuery, MainReconnects, VerifyAsk, At
<1>2. CASE VerifyAnswered
  BY <1>2 DEF VerifyAnswered, AnswerRead
<1>3. CASE VerifyFails
  BY <1>3 DEF VerifyFails, QueryFails, NoAnswer, ReadFails, ReconnectFails, AnswerRead, linkVars
<1> QED
  BY <1>1, <1>2, <1>3 DEF MainQuery

\* The main thread comes upon nothing it does not know outside the verify loop.
LEMMA ReconnectMain ==
  ASSUME TypeOK, ReconnectInv, MainStep
  PROVE  ReconnectInv'
<1>1. CASE MainQuery
  <2>1. /\ \/ pc = "measure" /\ pc' = "measure"
           \/ pc = "verify" /\ pc' \in {"verify", "redisable", "unregOutput"}
        /\ publisher' = publisher
    BY <1>1, MainQueryFrame DEF appVars
  <2>2. query'["main"] # "idle" => pc' \in {"measure", "verify"}
    BY <1>1, MainQueryPlace DEF ReconnectInv
  <2>3. query'["publisher"] = query["publisher"]
    BY <1>1, MainQueryFrame, QueryOfOne DEF Threads, linkVars
  <2>4. ~Overlap' => \A t \in Threads : TearsDownDead(t)'
    <3>1. Overlap' <=> Overlap
      BY <2>1 DEF Overlap, OffRequested
    <3>2. CASE QueryStep("main")
      BY <3>1, <3>2, QueryReconnects DEF Threads
    <3>3. CASE UNCHANGED linkVars
      BY <3>1, <3>3 DEF ReconnectInv, TearsDownDead, linkVars
    <3> QED
      BY <1>1, <3>2, <3>3, MainQueryFrame
  <2> QED
    BY <2>1, <2>2, <2>3, <2>4 DEF ReconnectInv, Early
<1>2. CASE MainOther
  <2>1. /\ query' = query
        /\ pc # "connect" => (portOpen' => portOpen) /\ (connected' => connected)
    BY <1>2, MainOtherLink
  <2>2. /\ query["main"] = "idle"
        /\ pc' \in Early => pc \in Early /\ publisher' = publisher
        /\ publisher' \in {publisher, "off", "on"}
        /\ publisher' = "off" => publisher = "off" \/ query["publisher"] = "idle"
        /\ pc \in OffRequested => pc' \in OffRequested
    BY <1>2, MainOtherPlace
  <2>3. CASE query["publisher"] = "idle"
    BY <2>1, <2>2, <2>3 DEF ReconnectInv, TearsDownDead, Threads
  <2>4. CASE query["publisher"] # "idle"
    <3>1. publisher = "on" /\ publisher' = "on" /\ pc # "connect"
      BY <2>2, <2>4 DEF ReconnectInv, TypeOK, Early
    <3>2. Overlap => Overlap'
      BY <2>2, <3>1 DEF Overlap
    <3> QED
      BY <2>1, <2>2, <3>1, <3>2 DEF ReconnectInv, TearsDownDead
  <2> QED
    BY <2>3, <2>4
<1> QED
  BY <1>1, <1>2 DEF MainStep, MainQuery, MainOther

\* Nor do the shutdown, the publisher and the environment.
LEMMA ReconnectOther ==
  ASSUME TypeOK, ReconnectInv, ShutdownStep \/ EnvironmentStep \/ UNCHANGED vars
  PROVE  ReconnectInv'
<1> DEFINE Quiet == query' = query /\ (portOpen' => portOpen) /\ (connected' => connected)
<1>1. CASE pc' = pc /\ publisher' = publisher /\ (Quiet \/ ProcessGone)
  BY <1>1 DEF ReconnectInv, Early, Overlap, OffRequested, TearsDownDead, ProcessGone, Threads
<1>2. CASE ShutdownStep
  <2>1. CASE ClaimShutdown \/ LockShutdown \/ StopRegisteredDpdk \/ FinishShutdown
    BY <1>1, <2>1 DEF ClaimShutdown, LockShutdown, StopRegisteredDpdk, FinishShutdown, Advance,
      KeepProcess, linkVars
  <2>2. CASE DisableOutputs
    BY <1>1, <2>2 DEF DisableOutputs, EnableOutput, Advance, KeepProcess, linkVars
  <2>3. CASE DisconnectSupplies
    BY <1>1, <2>3 DEF DisconnectSupplies, DisconnectPsu, Advance, KeepProcess, linkVars
  <2>4. CASE HandlerExit
    BY <1>1, <2>4 DEF HandlerExit, ExitProcess, appVars
  <2> QED
    BY <1>2, <2>1, <2>2, <2>3, <2>4 DEF ShutdownStep
<1>3. CASE PublisherAsk \/ PublisherQuery
  <2>1. publisher = "on" /\ QueryStep("publisher") /\ UNCHANGED procVars
    BY <1>3, PublisherFrame
  <2>2. UNCHANGED <<pc, publisher>>
    BY <2>1 DEF procVars
  <2>3. query'["main"] = query["main"]
    BY <2>1, QueryOfOne DEF Threads
  <2>4. ~Overlap => \A t \in Threads : TearsDownDead(t)'
    BY <2>1, QueryReconnects DEF Threads
  <2> QED
    BY <2>1, <2>2, <2>3, <2>4 DEF ReconnectInv, Early, Overlap, OffRequested
<1>4. CASE SessionFails
  BY <1>1, <1>4 DEF SessionFails, LinkFault, procVars
<1>5. CASE \/ \E s \in Signals : ShutdownSignal(s)
           \/ \E s \in Signals : ThreadSignal(s)
           \/ MonitorSignal \/ DpdkDaemonises \/ DpdkExits
  BY <1>1, <1>5 DEF ShutdownSignal, ThreadSignal, ExitProcess, MonitorSignal, DpdkDaemonises,
    DpdkExits, appVars, linkVars
<1>6. CASE UNCHANGED vars
  BY <1>1, <1>6 DEF vars, linkVars, procVars
<1> QED
  BY <1>2, <1>3, <1>4, <1>5, <1>6 DEF EnvironmentStep

\* Until the main thread has asked for the output to be switched off (and afterwards
\* without the publisher) what reconnect() tears down is dead: neither thread has made
\* a new connection there since the other's write() failed.
THEOREM ReconnectsAlone == Spec => []ReconnectInv
<1>1. Init => ReconnectInv
  BY DEF Init, LinkInit, ReconnectInv, Early, TearsDownDead, Threads
<1>2. IInv /\ ReconnectInv /\ [Next]_vars => ReconnectInv'
  <2>1. IInv => TypeOK
    BY DEF IInv
  <2> QED
    BY <2>1, ReconnectMain, ReconnectOther DEF Next, EnvironmentStep
<1> QED
  BY <1>1, <1>2, Inductive, PTL DEF Spec

\* A query gives a healthy connection up only where two of them overlap.
LEMMA QueryGivesUp ==
  ASSUME ReconnectInv, NEW t \in Threads, QueryStep(t), IsConnected, ~IsConnected',
         session # "broken"
  PROVE  Overlap
<1> USE DEF IsConnected
<1>1. CASE TearDown(t)
  BY <1>1 DEF TearDown, ReconnectInv, TearsDownDead
<1>2. CASE Ask(t) \/ SendFails(t) \/ Reopen(t) \/ Validate(t)
  BY <1>2 DEF Ask, SendFails, Reopen, Validate
<1>3. CASE AnswerRead(t) \/ NoAnswer(t) \/ ReadFails(t) \/ ReconnectFails(t)
  BY <1>3 DEF AnswerRead, NoAnswer, ReadFails, ReconnectFails
<1> QED
  BY <1>1, <1>2, <1>3 DEF QueryStep, QueryGoesOn, QueryFails

\* A healthy connection is given up only after the output was taken off the list, with
\* the one exception of two queries that overlap in the verify loop; and there the
\* output is off or the command to switch it off was lost.
THEOREM OutputOffFirst == Spec => OutputOffBeforeDisconnect
<1> DEFINE Guarded == exited' = "no" /\ IsConnected /\ ~IsConnected' =>
                        \/ "output" \notin registry
                        \/ session = "broken"
                        \/ Verifying /\ publisher = "on" /\ (psuOn => offLost)
<1>1. IInv /\ ReconnectInv /\ [Next]_vars => [Guarded]_vars
  <2> SUFFICES ASSUME IInv, ReconnectInv, Next, exited' = "no", IsConnected, ~IsConnected',
                      session # "broken", "output" \in registry
               PROVE  Verifying /\ publisher = "on" /\ (psuOn => offLost)
    OBVIOUS
  <2>1. /\ pc \in OutputLabels
        /\ pc \in OffRequested /\ psuOn => offLost
        /\ \A c \in Contexts : spc[c] # "disconnect"
        /\ running \in Contexts
    BY DEF IInv, OutputInv, TypeOK
  <2>2. \E t \in Threads : QueryStep(t)
    <3> USE DEF linkVars, IsConnected
    <3>1. ~(Connect \/ Disconnect \/ DisconnectSupplies)
      BY <2>1 DEF Connect, Disconnect, DisconnectSupplies, At, InShutdown, OutputLabels
    <3>2. ~(Program \/ Enable \/ Disable \/ Redisable \/ DisableOutputs)
      BY DEF Program, Enable, Disable, Redisable, DisableOutputs, WriteCommand, EnableOutput
    <3>3. CASE MainQuery
      BY <3>3, MainQueryFrame DEF Threads
    <3>4. CASE PublisherAsk \/ PublisherQuery
      BY <3>4, PublisherFrame DEF Threads
    <3>5. ~(\/ ServerOn \/ Network \/ ServerOff \/ MeasureEnd \/ StartPublisher
            \/ RunDpdkEnd \/ MonitorSetup \/ MonitorEnd \/ RestoreHandlers
            \/ StopPublisher \/ StopDpdk)
      BY DEF ServerOn, Network, ServerOff, MeasureEnd, StartPublisher, RunDpdkEnd,
        MonitorSetup, MonitorEnd, RestoreHandlers, StopPublisher, StopDpdk
    <3>6. ~(LockRegistry \/ UpdateRegistry \/ ReturnTrue \/ ReturnFalse)
      BY DEF LockRegistry, UpdateRegistry, ReturnTrue, ReturnFalse, Return
    <3>7. ~(ClaimShutdown \/ LockShutdown \/ StopRegisteredDpdk \/ FinishShutdown \/ HandlerExit)
      BY DEF ClaimShutdown, LockShutdown, StopRegisteredDpdk, FinishShutdown, HandlerExit,
        ExitProcess
    <3>8. ~(\/ \E s \in Signals : ShutdownSignal(s)
            \/ \E s \in Signals : ThreadSignal(s)
            \/ MonitorSignal \/ DpdkDaemonises \/ DpdkExits \/ SessionFails)
      BY DEF ShutdownSignal, ThreadSignal, ExitProcess, MonitorSignal, DpdkDaemonises, DpdkExits,
        SessionFails, LinkFault
    <3> QED
      BY <3>1, <3>2, <3>3, <3>4, <3>5, <3>6, <3>7, <3>8
        DEF Next, MainStep, MainQuery, ShutdownStep
  <2>3. Overlap
    BY <2>2, QueryGivesUp
  <2> QED
    BY <2>1, <2>3 DEF Overlap, OffRequested, OutputLabels, Verifying
<1> QED
  BY Inductive, ReconnectsAlone, <1>1, PTL DEF Spec, OutputOffBeforeDisconnect

=============================================================================
