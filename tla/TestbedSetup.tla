---------------------------- MODULE TestbedSetup ----------------------------
(* The set-up of a test, run after run: MainSoftware switches the server on  *)
(* (ServerPower), configures the switch (SwitchSetup), copies and starts     *)
(* dpdk_app (RemoteDeploy), which tests the latency (EmbeddedLatency) and in *)
(* the ATE mode configures the switch once more.  The sequences of HSN and   *)
(* MMC need the server only and switch it off in the end.  A run ends at the *)
(* first failure or interrupt; the server, the switch and the directories    *)
(* stay as they are for the next run, which may be another unit's.           *)
(* Supplies are left to PowerSequence.                                       *)
EXTENDS ServerPower, SwitchSetup, RemoteDeploy, EmbeddedLatency

CONSTANTS
    Tested,         \* the units tested
    MaxRuns,        \* bound on the runs of a behaviour
    MaxByHand       \* bound on what is configured by hand on the switch

ASSUME TestbedAssumption ==
    /\ Tested \subseteq SwitchUnits \cup {"MMC", "HSN"}
    /\ {MaxRuns, MaxByHand} \subseteq Nat

VARIABLES
    stage,          \* what configureSequence is at, "idle" between two runs
    unitUnderTest,  \* whose configureSequence it is
    runs,           \* runs begun
    byHand          \* ports configured by hand

mainVars == <<stage, unitUnderTest, runs, byHand>>
vars == <<faults, serverVars, switchVars, deployVars, latencyVars, mainVars>>

Init ==
    /\ FaultsInit /\ ServerInit /\ SwitchInit /\ DeployInit /\ LatencyInit
    /\ stage = "idle" /\ unitUnderTest = "none" /\ runs = 0 /\ byHand = 0

Enter(s) == /\ stage' = s /\ UNCHANGED <<runs, byHand>>
            /\ unitUnderTest' = IF s = "idle" THEN "none" ELSE unitUnderTest

(* configureSequence, from one call to the next. *)
Start ==
    /\ stage = "idle" /\ runs < MaxRuns
    /\ deployCall \in DeployReturned
    /\ OnWithWait /\ NoFault
    /\ stage' = "power" /\ runs' = runs + 1 /\ unitUnderTest' \in Tested
    /\ byHand' = byHand
    /\ UNCHANGED <<switchVars, deployVars, latencyVars>>

ServerIsOn ==
    /\ stage = "power" /\ serverCall = "ok"
    /\ IF unitUnderTest \in SwitchUnits
         THEN Enter("interfaces") /\ DeployNetworkInterfaces(unitUnderTest)
         ELSE Enter("working") /\ NoFault /\ UNCHANGED switchVars
    /\ UNCHANGED <<serverVars, deployVars, latencyVars>>

InterfacesDeployed ==
    /\ stage = "interfaces" /\ Enter("vlans") /\ ConfigureSequence
    /\ UNCHANGED <<serverVars, deployVars, latencyVars>>

VlansConfigured ==
    /\ stage = "vlans" /\ switchCall = "ok"
    /\ Enter("deploy") /\ DeployPrebuilt
    /\ UNCHANGED <<serverVars, switchVars, latencyVars>>

ProgramStarted ==
    /\ stage = "deploy" /\ deployCall = "ok"
    /\ IF unitUnderTest = "DTN"
         THEN Enter("latency") /\ FullSequence
         ELSE Enter("working") /\ NoFault /\ UNCHANGED latencyVars
    /\ UNCHANGED <<serverVars, switchVars, deployVars>>

AteConfiguration ==
    /\ stage = "latency" /\ latencyCall = "ateConfigure"
    /\ IF todo = unitUnderTest
         THEN AteConfigureCumulus /\ UNCHANGED latencyVars
         ELSE switchCall \in SwitchReturned /\ AteConfigured
              /\ UNCHANGED switchVars
    /\ UNCHANGED <<serverVars, deployVars, mainVars>>

LatencyTested ==
    /\ stage = "latency" /\ latencyCall \in LatencyReturned
    /\ Enter("working") /\ NoFault /\ LatencyForgotten
    /\ UNCHANGED <<serverVars, switchVars, deployVars>>

WorkDone ==
    /\ stage = "working"
    /\ IF unitUnderTest \in SwitchUnits
         THEN Enter("idle") /\ NoFault /\ UNCHANGED serverVars
         ELSE Enter("powerOff") /\ NoFault /\ OffWithWait
    /\ UNCHANGED <<switchVars, deployVars, latencyVars>>

(* Nobody looks at the result of offWithWait. *)
ServerIsOff ==
    /\ stage = "powerOff" /\ serverCall \in ServerReturned
    /\ Enter("idle") /\ NoFault
    /\ UNCHANGED <<serverVars, switchVars, deployVars, latencyVars>>

GiveUp ==
    /\ \/ stage = "power" /\ serverCall = "failed"
       \/ stage \in {"interfaces", "vlans"} /\ switchCall = "failed"
       \/ stage = "deploy" /\ deployCall = "failed"
    /\ Enter("idle") /\ NoFault
    /\ UNCHANGED <<serverVars, switchVars, deployVars, latencyVars>>

(* A signal ends MainSoftware, and what runs for it is cut off. *)
Interrupted ==
    /\ stage # "idle" /\ Enter("idle") /\ Fault
    /\ ServerCutOff
    /\ IF switchCall \in SwitchReturned THEN UNCHANGED switchVars ELSE CutOff
    /\ IF deployCall \in DeployReturned THEN UNCHANGED deployVars
       ELSE DeployAborted
    /\ LatencyForgotten

(* Between the runs: the developer and the operator. *)
Between ==
    /\ stage = "idle"
    /\ \/ /\ \/ power = "up" /\ PreparePrebuilt
             \/ power = "up" /\ deployCall \notin DeployReturned /\ DeployStep
             \/ SourceChanges
          /\ UNCHANGED <<switchVars, byHand>>
       \/ /\ byHand < MaxByHand /\ byHand' = byHand + 1
          /\ Maintenance /\ UNCHANGED deployVars
    /\ UNCHANGED <<serverVars, latencyVars, stage, unitUnderTest, runs>>

ServerAction ==
    /\ \/ ServerAlone
       \/ stage \in {"power", "powerOff"} /\ ServerStep
    /\ UNCHANGED <<switchVars, deployVars, latencyVars, mainVars>>

SwitchAction ==
    /\ \/ stage \in {"interfaces", "vlans", "latency"} /\ SwitchStep
       \/ SwitchReboots
    /\ UNCHANGED <<serverVars, deployVars, latencyVars, mainVars>>

DeployAction ==
    /\ stage = "deploy" /\ DeployStep
    /\ UNCHANGED <<serverVars, switchVars, latencyVars, mainVars>>

LatencyAction ==
    /\ stage = "latency" /\ LatencyStep
    /\ UNCHANGED <<serverVars, switchVars, deployVars, mainVars>>

Next ==
    \/ Start \/ ServerIsOn \/ InterfacesDeployed \/ VlansConfigured
    \/ ProgramStarted \/ AteConfiguration \/ LatencyTested \/ WorkDone
    \/ ServerIsOff \/ GiveUp \/ Interrupted \/ Between
    \/ ServerAction \/ SwitchAction \/ DeployAction \/ LatencyAction

Spec == Init /\ [][Next]_vars
=============================================================================
