--------------------------- MODULE EmbeddedLatency ---------------------------
(* The latency test dpdk_app runs before its traffic (EmbeddedLatency.c).    *)
(* An operator answers the questions; the loopback test measures the switch, *)
(* the unit test the way through the unit, and what is left when the switch  *)
(* and the store-and-forward delay are taken off is the unit's.  In the ATE  *)
(* mode the switch is configured instead and there is no unit test.          *)
(*                                                                           *)
(* A measurement is one packet after two to warm up: the time it was sent    *)
(* comes from the error queue of its socket, in which the time of an earlier *)
(* packet may still stand when that one came too late for its own poll.      *)
EXTENDS TestbedFaults, Sequences, FiniteSets, FiniteSetsExt

CONSTANTS
    Fiber,          \* the fiber ports, a sequence: sockets are opened in turn
    Copper,         \* the copper ports, a sequence
    Vlans,          \* VLANs of a fiber port
    SwitchTimes,    \* what the switch may take
    UnitTimes,      \* what the unit may take
    DefaultSwitch,  \* EMB_LAT_DEFAULT_SWITCH_US
    StoreForward,   \* EMB_LAT_STORE_FWD_DELAY_1G_US, ..._100M_US: by port
    LoopbackLimit,  \* the limit of the loopback test
    Threshold,      \* EMB_LAT_UNIT_THRESHOLD_US
    Early           \* how much too early a stale time may be

PortsOf(table) == {table[i] : i \in 1..Len(table)}

ASSUME LatencyAssumption ==
    /\ Fiber \in Seq(Nat) /\ Copper \in Seq(Nat)
    /\ PortsOf(Fiber) \cap PortsOf(Copper) = {}
    /\ \A port \in PortsOf(Fiber) \cup PortsOf(Copper) : StoreForward[port] \in Nat
    /\ Vlans \in Nat \ {0} /\ Threshold \in Nat
    /\ SwitchTimes \cup UnitTimes \cup {DefaultSwitch} \subseteq Nat \ {0}
    /\ Early \subseteq Nat \ {0} /\ Early # {}
    /\ LoopbackLimit \in Nat

VARIABLES
    latencyCall,    \* the next step of emb_latency_full_sequence, or its result
    pair,           \* the pair of ports under test
    vlan,           \* its VLAN under test, 0 before its sockets are open
    stale,          \* an unread time of an earlier packet stands in the queue
    loopback,       \* loopback_results
    skipped,        \* loopback_skipped
    unit,           \* unit_results
    switchTime,     \* what the switch takes
    unitTime,       \* history: what the unit took in each measurement
    verdict         \* test_passed, "none" until test_completed

latencyVars == <<latencyCall, pair, vlan, stale, loopback, skipped, unit,
                 switchTime, unitTime, verdict>>
position == <<pair, vlan, stale>>
results == <<loopback, skipped, unit, switchTime, unitTime, verdict>>

PathsOf(ports, lanes) == {<<ports[i], v>> : i \in 1..Len(ports), v \in 1..lanes}
FiberPaths == PathsOf(Fiber, Vlans)
CopperPaths == PathsOf(Copper, 1)
UnitPaths == FiberPaths \cup CopperPaths

NotRun == -1
Invalid == 0
LatencyReturned == {"failed", "ok"}

None(paths) == [p \in paths |-> NotRun]

NoTest ==
    /\ pair' = 1 /\ vlan' = 0 /\ stale' = FALSE
    /\ loopback' = None(FiberPaths) /\ unit' = None(UnitPaths)
    /\ unitTime' = None(UnitPaths)
    /\ skipped' = FALSE /\ verdict' = "none"

LatencyInit ==
    /\ latencyCall = "failed"
    /\ pair = 1 /\ vlan = 0 /\ stale = FALSE
    /\ loopback = None(FiberPaths) /\ unit = None(UnitPaths)
    /\ unitTime = None(UnitPaths)
    /\ skipped = FALSE /\ verdict = "none" /\ switchTime = DefaultSwitch

(* emb_latency_full_sequence clears everything. *)
FullSequence ==
    /\ latencyCall \in LatencyReturned
    /\ latencyCall' = "loopback?" /\ switchTime' \in SwitchTimes
    /\ NoTest /\ NoFault

(* ask_question: the operator answers one way or the other. *)
Ask(question, yes, no) ==
    /\ latencyCall = question /\ latencyCall' \in {yes, no}
    /\ UNCHANGED <<position, loopback, unit, switchTime, unitTime, verdict>>
    /\ NoFault

AskLoopback == /\ Ask("loopback?", "cables?", "ate?")
               /\ skipped' = (latencyCall' = "ate?")
AskLoopbackCables == /\ Ask("cables?", "loopback", "loopback?")
                     /\ skipped' = skipped
AskAteMode == Ask("ate?", "ateConfigure", "unitCables?") /\ skipped' = skipped
AskUnitCables == /\ Ask("unitCables?", "unit", "unitCables?")
                 /\ skipped' = skipped

(* The two tests walk through the pairs; a pair whose sockets cannot be      *)
(* opened is left out.                                                       *)
Pairs == IF latencyCall = "loopback" THEN Fiber ELSE Fiber \o Copper
Lanes == IF pair <= Len(Fiber) THEN Vlans ELSE 1
Testing == latencyCall \in {"loopback", "unit"} /\ pair <= Len(Pairs)
Path == <<Pairs[pair], vlan>>

NextPair == pair' = pair + 1 /\ vlan' = 0 /\ stale' = FALSE

OpenSockets ==
    /\ Testing /\ vlan = 0
    /\ May(vlan' = 1 /\ UNCHANGED <<pair, stale>>, NextPair)
    /\ UNCHANGED <<latencyCall, results>>

(* run_single_test.  The time of sending is the packet's own; once a stale   *)
(* one stands in the queue, each packet is taken to have been sent when an   *)
(* earlier one was.  A time that comes after its poll has ended is stale for *)
(* the next packet, warm-up packets included; one that never comes uses up a *)
(* stale one; without a time, or if the packet is lost, there is no result.  *)
TooLong(took) == {took + e : e \in Early}

Sound(took) == [value : IF stale THEN TooLong(took) ELSE {took}, stale : {stale}]
Faulty(took) == [value : {Invalid, took} \cup TooLong(took), stale : BOOLEAN]

Record(outcome) ==
    IF vlan < Lanes THEN vlan' = vlan + 1 /\ pair' = pair /\ stale' = outcome.stale
    ELSE NextPair

LoopbackSingleTest ==
    /\ Testing /\ latencyCall = "loopback" /\ vlan > 0
    /\ \E outcome \in Sound(switchTime) \cup Faulty(switchTime) :
          /\ IF outcome \in Sound(switchTime) THEN NoFault ELSE Fault
          /\ loopback' = [loopback EXCEPT ![Path] = outcome.value]
          /\ Record(outcome)
    /\ UNCHANGED <<latencyCall, skipped, unit, switchTime, unitTime, verdict>>

UnitSingleTest ==
    /\ Testing /\ latencyCall = "unit" /\ vlan > 0
    /\ \E time \in UnitTimes :
          LET took == time + StoreForward[Pairs[pair]]
                      + (IF pair <= Len(Fiber) THEN switchTime ELSE 0)
          IN  \E outcome \in Sound(took) \cup Faulty(took) :
                 /\ IF outcome \in Sound(took) THEN NoFault ELSE Fault
                 /\ unit' = [unit EXCEPT ![Path] = outcome.value]
                 /\ unitTime' = [unitTime EXCEPT ![Path] = time]
                 /\ Record(outcome)
    /\ UNCHANGED <<latencyCall, loopback, skipped, switchTime, verdict>>

(* A loopback measurement fails without a result or beyond its limit. *)
LoopbackFails ==
    {p \in FiberPaths : \/ loopback[p] = Invalid
                        \/ loopback[p] > LoopbackLimit}

RunLoopback ==
    /\ latencyCall = "loopback" /\ ~Testing
    /\ latencyCall' = "ate?" /\ pair' = 1
    /\ UNCHANGED <<vlan, stale, results>> /\ NoFault

(* get_loopback_latency_us: the mean of what was measured on the port, valid *)
(* or not within the limit; a copper port has no switch.                     *)
Valid(port) == {p \in FiberPaths : p[1] = port /\ loopback[p] > Invalid}

LoopbackLatency(port) ==
    IF port \notin PortsOf(Fiber) THEN 0
    ELSE IF skipped \/ Valid(port) = {} THEN DefaultSwitch
    ELSE FoldSet(LAMBDA p, sum : loopback[p] + sum, 0, Valid(port))
         \div Cardinality(Valid(port))

UnitLatency(p) ==
    LET left == unit[p] - LoopbackLatency(p[1]) - StoreForward[p[1]]
    IN  IF left < 0 THEN 0 ELSE left

UnitFails == {p \in UnitPaths : \/ unit[p] = Invalid
                                \/ unit[p] > Invalid /\ UnitLatency(p) > Threshold}

Verdict(fails) == verdict' = IF fails = {} THEN "passed" ELSE "failed"

(* Mutant: the failures of the loopback test are not counted. *)
RunUnitTestAlone ==
    /\ latencyCall = "unit" /\ ~Testing
    /\ latencyCall' = "ok" /\ Verdict(UnitFails)
    /\ UNCHANGED <<position, loopback, skipped, unit, switchTime, unitTime>>
    /\ NoFault

RunUnitTest ==
    /\ latencyCall = "unit" /\ ~Testing
    /\ latencyCall' = "ok" /\ Verdict(LoopbackFails \cup UnitFails)
    /\ UNCHANGED <<position, loopback, skipped, unit, switchTime, unitTime>>
    /\ NoFault

(* The ATE mode goes on whatever became of the configuration of the switch,  *)
(* which another module describes.                                           *)
AteConfigured ==
    /\ latencyCall = "ateConfigure" /\ latencyCall' = "ateCables?"
    /\ UNCHANGED <<position, results>> /\ NoFault

AskAteCables ==
    /\ latencyCall = "ateCables?"
    /\ latencyCall' \in {"ok", "ateCables?"}
    /\ IF latencyCall' = "ok" THEN Verdict(LoopbackFails) ELSE verdict' = verdict
    /\ UNCHANGED <<position, loopback, skipped, unit, switchTime, unitTime>>
    /\ NoFault

(* dpdk_app is cut off, or goes on with what does not need the results. *)
LatencyForgotten == latencyCall' = "failed" /\ NoTest /\ switchTime' = DefaultSwitch

LatencyStep ==
    \/ AskLoopback \/ AskLoopbackCables \/ AskAteMode \/ AskUnitCables
    \/ OpenSockets \/ LoopbackSingleTest \/ UnitSingleTest
    \/ RunLoopback \/ RunUnitTest \/ AskAteCables

LatencyNext ==
    LatencyStep \/ FullSequence \/ AteConfigured \/ LatencyForgotten

LatencySpec == LatencyInit /\ [][LatencyNext]_latencyVars

------------------------------------------------------------------------------
(* How much too much is taken off for the switch: nothing where it was       *)
(* measured with its own times, the error of the default where it was not,   *)
(* and otherwise at most what the limit of the loopback test leaves.         *)
Excess(port) ==
    IF port \notin PortsOf(Fiber) THEN 0
    ELSE IF Valid(port) = {} THEN DefaultSwitch - switchTime
    ELSE IF \A p \in Valid(port) : loopback[p] = switchTime THEN 0
    ELSE LoopbackLimit - switchTime

(* A test that is reported as passed after the unit was measured tells the   *)
(* truth, whatever was lost or came too late: every way through the unit     *)
(* whose sockets could be opened was measured and takes no longer than       *)
(* allowed, up to the stated error of what is taken off for the switch.  In  *)
(* particular a loopback measurement beyond its limit, which is subtracted   *)
(* all the same, cannot make a slow unit pass, nor a time that was another   *)
(* packet's hide more than that error.                                       *)
(* EmbeddedLatency.c:897, 1153, 1277, 1302, 1587.                            *)
PassedIsTrue ==
    latencyCall = "ok" /\ verdict = "passed" =>
        \A p \in UnitPaths : unitTime[p] # NotRun =>
            unit[p] # Invalid /\ unitTime[p] <= Threshold + Excess(p[1])
=============================================================================
