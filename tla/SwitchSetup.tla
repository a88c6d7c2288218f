----------------------------- MODULE SwitchSetup -----------------------------
(* The Cumulus switch and those who configure it: MainSoftware installs the  *)
(* interfaces file of the unit under test (deployNetworkInterfaces) and      *)
(* makes VLANs leave their ports untagged (configureSequence, ...Vmc,        *)
(* ...Cmc), skipping what the switch already has; dpdk_app does the same for *)
(* the ATE test mode without skipping anything (AteCumulusConfig.c); and an  *)
(* operator may use the older functions for single port groups.              *)
(*                                                                           *)
(* The file outlives everything, the VLANs are lost with every reload of the *)
(* file or reboot of the switch, and whoever works on the switch may be cut  *)
(* off between any two remote commands.                                      *)
EXTENDS TestbedFaults, Sequences

VARIABLES
    file,           \* whose file /etc/network/interfaces is
    loaded,         \* whose file the interfaces were loaded from
    vlans,          \* the port groups that send their VLANs untagged
    switchCall,     \* the next step of the work on the switch, or its result
    todo,           \* the unit or the port group it is for
    setUpFor,       \* history: whose set-up succeeded last, "none" since the
                    \*   next one began
    reloadLost      \* history: a reload of the file failed, or never came

switchVars == <<file, loaded, vlans, switchCall, todo, setUpFor, reloadLost>>

SwitchUnits == {"DTN", "VMC", "CMC"}
Owners == SwitchUnits \cup {"ATE", "other"}

(* One group stands for the four lanes of a port and their VLANs; of swp9    *)
(* the CMC uses the first two.                                               *)
ExpandGroups(ports) == {ports[i] : i \in 1..Len(ports)}
ExpectedVlansDtn == <<"swp25", "swp26", "swp27", "swp28",
                      "swp29", "swp30", "swp31", "swp32">>
ExpectedVlansVmc == <<"swp9s01", "swp9s23", "swp10", "swp11", "swp12">>
ExpectedVlansCmc == <<"swp9s01">>
Expected == [DTN |-> ExpectedVlansDtn, VMC |-> ExpectedVlansVmc,
             CMC |-> ExpectedVlansCmc, ATE |-> ExpectedVlansDtn]
Ports == ExpandGroups(ExpectedVlansDtn) \cup ExpandGroups(ExpectedVlansVmc)

SwitchReturned == {"failed", "deployed", "ok"}
SwitchCalls == SwitchReturned \cup
               {"connect", "md5", "scp", "mv", "reload",
                "vlanConnect", "fetch", "batch",
                "ateConnect", "ateScp", "ateMv", "ateReload",
                "ateVlanConnect", "ateVlan"}

SwitchTypeOK ==
    /\ file \in Owners /\ loaded \in Owners
    /\ vlans \subseteq Ports
    /\ switchCall \in SwitchCalls
    /\ todo \in Owners
    /\ setUpFor \in Owners \cup {"none"}
    /\ reloadLost \in BOOLEAN

SwitchInit ==
    /\ file = "other" /\ loaded = "other"
    /\ vlans = {}
    /\ switchCall = "failed" /\ todo = "other"
    /\ setUpFor = "none" /\ reloadLost = FALSE

Untouched == UNCHANGED <<file, loaded, vlans, reloadLost>>
Proceed(call) == switchCall' = call /\ UNCHANGED <<todo, setUpFor>>

(* A remote command that changes nothing the others see. *)
Command(from, to) ==
    /\ switchCall = from
    /\ May(Proceed(to), Proceed("failed"))
    /\ Untouched

(* sudo mv; it may be reported as failed although it is done. *)
MoveFile(from, to) ==
    /\ switchCall = from
    /\ \/ NoFault /\ file' = todo /\ Proceed(to) /\ UNCHANGED reloadLost
       \/ /\ Fault /\ Proceed("failed")
          /\ \/ file' = todo /\ reloadLost' = TRUE
             \/ UNCHANGED <<file, reloadLost>>
    /\ UNCHANGED <<loaded, vlans>>

(* ifreload -a keeps the VLANs set by hand or resets them.  A failure, after *)
(* which anything may have been loaded, is only warned about.                *)
IfReload(from, to) ==
    /\ switchCall = from /\ Proceed(to)
    /\ \/ NoFault /\ loaded' = file /\ reloadLost' = FALSE
       \/ Fault /\ loaded' \in {loaded, file} /\ reloadLost' = TRUE
    /\ vlans' \in {vlans, {}}
    /\ UNCHANGED file

(* 'bridge vlan add ... untagged', one after the other: the first that fails *)
(* ends the list.                                                            *)
EgressUntagged(groups, done, failed) ==
    \/ NoFault /\ vlans' = vlans \cup ExpandGroups(groups) /\ done
    \/ /\ Fault /\ failed
       /\ \E n \in 0..Len(groups) : vlans' = vlans \cup {groups[i] : i \in 1..n}

(* deployNetworkInterfaces: nothing to do if the file is there already. *)
DeployNetworkInterfaces(unit) ==
    /\ switchCall \in SwitchReturned
    /\ switchCall' = "connect" /\ todo' = unit /\ setUpFor' = "none"
    /\ NoFault /\ Untouched

Connect == Command("connect", "md5") \/ Command("vlanConnect", "fetch")

IsRemoteInterfacesFileUpToDate ==
    /\ switchCall = "md5"
    /\ May(Proceed(IF file = todo THEN "deployed" ELSE "scp"), Proceed("scp"))
    /\ Untouched

CopyFileToPath == Command("scp", "mv") \/ MoveFile("mv", "reload")

ReloadInterfaces == IfReload("reload", "deployed")

(* configureSequence, configureSequenceVmc, configureSequenceCmc. *)
ConfigureSequence ==
    /\ switchCall = "deployed"
    /\ Proceed("vlanConnect") /\ NoFault /\ Untouched

Finished == switchCall' = "ok" /\ setUpFor' = todo /\ UNCHANGED todo

HasAll(unit) == ExpandGroups(Expected[unit]) \subseteq vlans

(* Mutant: one of the expected VLANs is taken for all. *)
HasSomeExpectedVlans == ExpandGroups(Expected[todo]) \cap vlans # {}

HasAllExpectedVlans == HasAll(todo)

FetchBridgeVlanState ==
    /\ switchCall = "fetch"
    /\ May(IF HasAllExpectedVlans THEN Finished ELSE Proceed("batch"),
           Proceed("batch"))
    /\ Untouched

ExecuteBatch ==
    /\ switchCall = "batch"
    /\ EgressUntagged(Expected[todo], Finished, Proceed("failed"))
    /\ UNCHANGED <<file, loaded, reloadLost>>

(* ate_configure_cumulus, run by dpdk_app on the server. *)
AteConfigureCumulus ==
    /\ switchCall \in SwitchReturned
    /\ switchCall' = "ateConnect" /\ todo' = "ATE" /\ setUpFor' = "none"
    /\ NoFault /\ Untouched

AteCumulusTestConnection == \/ Command("ateConnect", "ateScp")
                            \/ Command("ateVlanConnect", "ateVlan")
AteCumulusScpCopy == Command("ateScp", "ateMv")
AteCumulusMove == MoveFile("ateMv", "ateReload")
AteCumulusReload == IfReload("ateReload", "ateVlanConnect")

AteCumulusConfigureSequence ==
    /\ switchCall = "ateVlan"
    /\ EgressUntagged(Expected[todo], Finished, Proceed("failed"))
    /\ UNCHANGED <<file, loaded, reloadLost>>

(* The functions for single port groups, which the program itself does not   *)
(* use any more: connect, then one command for each lane.                    *)
ConfigureSwp(groups) ==
    /\ switchCall \in SwitchReturned
    /\ EgressUntagged(groups, TRUE, TRUE)
    /\ UNCHANGED <<file, loaded, switchCall, todo, setUpFor, reloadLost>>

ConfigureSwp1325 == ConfigureSwp(<<"swp25">>)
ConfigureSwp1426 == ConfigureSwp(<<"swp26">>)
ConfigureSwp1527 == ConfigureSwp(<<"swp27">>)
ConfigureSwp1628 == ConfigureSwp(<<"swp28">>)
ConfigureSwp1729 == ConfigureSwp(<<"swp29">>)
ConfigureSwp1830 == ConfigureSwp(<<"swp30">>)
ConfigureSwp1931 == ConfigureSwp(<<"swp31">>)
ConfigureSwp2032 == ConfigureSwp(<<"swp32">>)
ConfigureSwp1309 == ConfigureSwp(<<"swp9s01", "swp9s23">>)
ConfigureSwp1410 == ConfigureSwp(<<"swp10">>)
ConfigureSwp1511 == ConfigureSwp(<<"swp11">>)
ConfigureSwp1612 == ConfigureSwp(<<"swp12">>)

Maintenance ==
    \/ ConfigureSwp1325 \/ ConfigureSwp1426 \/ ConfigureSwp1527
    \/ ConfigureSwp1628 \/ ConfigureSwp1729 \/ ConfigureSwp1830
    \/ ConfigureSwp1931 \/ ConfigureSwp2032
    \/ ConfigureSwp1309 \/ ConfigureSwp1410 \/ ConfigureSwp1511
    \/ ConfigureSwp1612

(* Whoever works on the switch is cut off. *)
CutOff ==
    /\ switchCall' = "failed"
    /\ reloadLost' = (reloadLost \/ switchCall \in {"reload", "ateReload"})
    /\ UNCHANGED <<file, loaded, vlans, todo, setUpFor>>

(* A reboot of the switch loads the file. *)
SwitchReboots ==
    /\ Fault
    /\ loaded' = file /\ vlans' = {} /\ reloadLost' = FALSE
    /\ setUpFor' = "none"
    /\ UNCHANGED <<file, switchCall, todo>>

SwitchStep ==
    \/ Connect \/ IsRemoteInterfacesFileUpToDate \/ CopyFileToPath
    \/ ReloadInterfaces \/ FetchBridgeVlanState \/ ExecuteBatch
    \/ AteCumulusTestConnection \/ AteCumulusScpCopy \/ AteCumulusMove
    \/ AteCumulusReload \/ AteCumulusConfigureSequence

SwitchNext ==
    \/ \E u \in SwitchUnits : DeployNetworkInterfaces(u)
    \/ ConfigureSequence \/ AteConfigureCumulus
    \/ SwitchStep \/ Maintenance \/ CutOff \/ SwitchReboots

SwitchSpec == SwitchInit /\ [][SwitchNext]_switchVars

------------------------------------------------------------------------------
(* A set-up that was reported as successful has left the switch, until it    *)
(* reboots, as the unit needs it, whatever was set up before, wherever that  *)
(* was cut off, and whatever was skipped: the file is the unit's, it is what *)
(* was loaded unless a reload was lost, and every expected VLAN leaves its   *)
(* port untagged.  CumulusHelper.cpp:1370, 1823; AteCumulusConfig.c:334.     *)
SetUpHolds ==
    setUpFor # "none" =>
        /\ file = setUpFor
        /\ loaded = file \/ reloadLost
        /\ HasAll(setUpFor)
=============================================================================
