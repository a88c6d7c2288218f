----------------------------- MODULE ServerPower -----------------------------
(* The power of the test server (Server.cpp).  The main thread of            *)
(* MainSoftware switches the server on and waits for it (onWithWait), or     *)
(* switches it off and waits (offWithWait), asking the iDRAC for the power   *)
(* state and the operating system for an answer to a ping.  Meanwhile the    *)
(* server powers up, boots and stops by itself.                              *)
(*                                                                           *)
(* Time is counted in polls of a waiting loop.                               *)
EXTENDS TestbedFaults

CONSTANTS
    PowerTimeout,   \* polls waitForPowerOn waits at most
    PingTimeout,    \* polls waitForPing waits at most
    OffTimeout,     \* polls offWithWait waits at most
    PowerTime,      \* polls within which a sound server reports power
    BootTime,       \* polls within which it answers pings after that
    MaxRetries      \* attempts of onWithWait

ASSUME ServerAssumption ==
    /\ PowerTimeout \in Nat /\ PingTimeout \in Nat /\ OffTimeout \in Nat
    /\ MaxRetries \in Nat
    /\ PowerTime \in 1..PowerTimeout
    /\ BootTime \in 1..PingTimeout

VARIABLES
    power,          \* what the server does
    age,            \* polls since it began to do so
    hung,           \* it will not go on by itself
    serverCall,     \* the next step of the call of Server.cpp, or its result
    waited,         \* polls since the current wait began
    resetCount,     \* reset_count of onWithWait
    inUse,          \* history: onWithWait returned true, no switch-off since
    misread,        \* history: a query of the current call went unanswered
    offAbandoned    \* history: a switch-off was given up and may still happen

serverVars == <<power, age, hung, serverCall, waited, resetCount, inUse,
                misread, offAbandoned>>
hardware == <<power, age, hung, offAbandoned>>
progress == <<waited, resetCount>>

PowerStates == {"off", "starting", "booting", "up", "stopping"}
ServerReturned == {"ok", "failed"}
ServerCalls == ServerReturned \cup
               {"on", "onPing", "start", "serverOn", "power", "ping", "reset",
                "off", "offAgain", "serverOff", "offWait"}

FlagsOK == /\ hung \in BOOLEAN /\ inUse \in BOOLEAN
           /\ misread \in BOOLEAN /\ offAbandoned \in BOOLEAN

ServerTypeOK ==
    /\ FlagsOK
    /\ power \in PowerStates
    /\ age \in Nat
    /\ serverCall \in ServerCalls
    /\ waited \in Nat
    /\ resetCount \in 0..MaxRetries

ServerInit ==
    /\ power \in {"off", "booting", "up"}
    /\ age = 0 /\ waited = 0 /\ resetCount = 0
    /\ serverCall = "failed"
    /\ hung = FALSE /\ inUse = FALSE /\ misread = FALSE /\ offAbandoned = FALSE

(* The server by itself. *)
Becomes(p) == power' = p /\ age' = 0 /\ hung' = FALSE

PoweredOn == power = "starting" /\ ~hung /\ Becomes("booting")
Booted == power = "booting" /\ ~hung /\ Becomes("up")
PoweredOff == power = "stopping" /\ ~hung /\ Becomes("off")

ServerAlone == /\ PoweredOn \/ Booted \/ PoweredOff
               /\ NoFault
               /\ UNCHANGED <<serverCall, progress, inUse, misread, offAbandoned>>

(* Between two polls: a sound server gets on in time. *)
PollLater ==
    /\ ~hung => /\ power = "starting" => age + 1 < PowerTime
                /\ power = "booting" => age + 1 < BootTime
    /\ age' = IF power \in {"starting", "booting"} /\ ~hung THEN age + 1 ELSE age
    /\ waited' = waited + 1
    /\ UNCHANGED <<power, hung, offAbandoned, resetCount, serverCall>>

(* getPowerState.  An iDRAC that cannot be reached makes the text of ssh's   *)
(* error the answer, which holds an "on", or none at all.                    *)
GetPowerState(s) ==
    \/ /\ NoFault
       /\ s = IF power \in {"off", "starting"} THEN "Off" ELSE "On"
    \/ Fault /\ s \in {"On", "Unknown"}

(* ping: a server on its way down may still answer. *)
Ping(answers) ==
    \/ /\ NoFault
       /\ \/ answers = (power = "up")
          \/ power = "stopping" /\ answers
    \/ Fault /\ ~answers

Goto(call) ==
    /\ serverCall' = call
    /\ IF call \in ServerReturned THEN waited' = 0 /\ resetCount' = 0
       ELSE UNCHANGED progress
    /\ UNCHANGED hardware

(* Mutant: the second wait goes on with the time of the first. *)
StartWaitNoReset(call) == serverCall' = call /\ UNCHANGED <<hardware, progress>>

StartWait(call) == /\ serverCall' = call /\ waited' = 0
                   /\ UNCHANGED <<hardware, resetCount>>

(* onWithWait: nothing to do for a server that is on and answers. *)
CheckOn ==
    /\ serverCall = "on"
    /\ \E s \in {"On", "Off", "Unknown"} :
          GetPowerState(s) /\ Goto(IF s = "On" THEN "onPing" ELSE "start")
    /\ UNCHANGED inUse

CheckReachable ==
    /\ serverCall = "onPing"
    /\ \E up \in BOOLEAN : /\ Ping(up)
                           /\ Goto(IF up THEN "ok" ELSE "start")
                           /\ inUse' = up

(* on(): server_on, unless the server is said to be on already. *)
On ==
    /\ serverCall = "start"
    /\ IF resetCount = MaxRetries
         THEN NoFault /\ Goto("failed")
         ELSE \E s \in {"On", "Off", "Unknown"} :
                 /\ GetPowerState(s)
                 /\ IF s = "On" THEN StartWait("power") ELSE Goto("serverOn")
    /\ UNCHANGED inUse

(* A server that is off begins to start; one that is on stays as it is.      *)
(* The start may get stuck.  The command may fail, which costs an attempt;   *)
(* its answer may be lost though the server starts.                          *)
ServerOn ==
    /\ serverCall = "serverOn"
    /\ LET starts(stuck) ==
             IF power \in {"off", "starting"}
               THEN /\ power' = "starting" /\ age' = 0 /\ hung' = stuck
                    /\ offAbandoned' = FALSE
               ELSE UNCHANGED hardware
       IN  \/ /\ serverCall' = "power" /\ waited' = 0 /\ UNCHANGED resetCount
              /\ May(starts(FALSE), starts(TRUE))
           \/ /\ Fault
              /\ serverCall' = "start" /\ resetCount' = resetCount + 1
              /\ starts(FALSE) \/ UNCHANGED hardware
              /\ UNCHANGED waited
    /\ UNCHANGED inUse

WaitForPowerOn ==
    /\ serverCall = "power"
    /\ \E s \in {"On", "Off", "Unknown"} :
          /\ GetPowerState(s)
          /\ IF s = "On" THEN StartWait("ping")
             ELSE IF waited >= PowerTimeout THEN Goto("reset") ELSE PollLater
    /\ UNCHANGED inUse

WaitForPing ==
    /\ serverCall = "ping"
    /\ \E up \in BOOLEAN :
          /\ Ping(up)
          /\ IF up THEN Goto("ok")
             ELSE IF waited >= PingTimeout THEN Goto("reset") ELSE PollLater
          /\ inUse' = up

(* hardReset, whose result nobody looks at: a server that is on boots anew,  *)
(* one that is off stays off.                                                *)
HardReset ==
    /\ serverCall = "reset"
    /\ serverCall' = "start" /\ resetCount' = resetCount + 1
    /\ May(IF power \in {"off", "starting"}
             THEN UNCHANGED hardware
             ELSE Becomes("booting") /\ offAbandoned' = FALSE,
           UNCHANGED hardware)
    /\ UNCHANGED <<waited, inUse>>

(* offWithWait asks for the state, and off() asks once more. *)
CheckOff ==
    /\ serverCall = "off"
    /\ \E s \in {"On", "Off", "Unknown"} :
          GetPowerState(s) /\ Goto(IF s = "Off" THEN "ok" ELSE "offAgain")
    /\ UNCHANGED inUse

Off ==
    /\ serverCall = "offAgain"
    /\ \E s \in {"On", "Off", "Unknown"} :
          /\ GetPowerState(s)
          /\ IF s = "Off" THEN StartWait("offWait") ELSE Goto("serverOff")
    /\ UNCHANGED inUse

(* Mutant: offWithWait returns without waiting. *)
ServerOffNoWait ==
    /\ serverCall = "serverOff" /\ serverCall' = "ok" /\ NoFault
    /\ IF power \in {"booting", "up"}
         THEN power' = "stopping" /\ age' = 0 /\ hung' = FALSE
         ELSE UNCHANGED <<power, age, hung>>
    /\ UNCHANGED <<offAbandoned, waited, resetCount, inUse>>

(* server_off.  A failure may be reported although the server goes down. *)
ServerOff ==
    /\ serverCall = "serverOff"
    /\ LET stops(stuck) ==
             IF power \in {"booting", "up"}
               THEN power' = "stopping" /\ age' = 0 /\ hung' = stuck
               ELSE UNCHANGED <<power, age, hung>>
       IN  \/ /\ May(stops(FALSE), stops(TRUE))
              /\ serverCall' = "offWait" /\ waited' = 0
              /\ UNCHANGED offAbandoned
           \/ /\ Fault /\ (stops(FALSE) \/ UNCHANGED <<power, age, hung>>)
              /\ serverCall' = "failed" /\ offAbandoned' = TRUE
              /\ UNCHANGED waited
    /\ UNCHANGED <<resetCount, inUse>>

WaitForPowerOff ==
    /\ serverCall = "offWait"
    /\ \E s \in {"On", "Off", "Unknown"} :
          /\ GetPowerState(s)
          /\ IF s = "Off" THEN Goto("ok")
             ELSE IF waited >= OffTimeout
               THEN /\ serverCall' = "failed" /\ offAbandoned' = TRUE
                    /\ UNCHANGED <<power, age, hung, progress>>
               ELSE PollLater
    /\ UNCHANGED inUse

Queries == {"on", "onPing", "start", "power", "ping", "off", "offAgain", "offWait"}

ServerStep ==
    /\ \/ CheckOn \/ CheckReachable \/ On \/ ServerOn
       \/ WaitForPowerOn \/ WaitForPing \/ HardReset
       \/ CheckOff \/ Off \/ ServerOff \/ WaitForPowerOff
    /\ misread' = (/\ serverCall' \notin ServerReturned
                   /\ misread \/ (serverCall \in Queries /\ faults' # faults))

(* The calls of the unit sequences. *)
BeginServerCall(call) ==
    /\ serverCall' = call
    /\ waited' = 0 /\ resetCount' = 0 /\ misread' = FALSE /\ inUse' = FALSE
    /\ UNCHANGED hardware

OnWithWait == serverCall \in ServerReturned /\ BeginServerCall("on")
OffWithWait == serverCall \in ServerReturned /\ BeginServerCall("off")

(* Whoever waits for the server is cut off. *)
ServerCutOff ==
    /\ serverCall' = IF serverCall = "ok" THEN "ok" ELSE "failed"
    /\ offAbandoned' = (offAbandoned \/ serverCall = "offWait")
    /\ UNCHANGED <<power, age, hung, progress, inUse, misread>>

ServerNext ==
    \/ ServerAlone \/ ServerStep \/ OnWithWait \/ OffWithWait \/ ServerCutOff

ServerSpec == FaultsSpec /\ ServerInit /\ [][ServerNext]_serverVars

------------------------------------------------------------------------------
(* After onWithWait has returned true the server stays up until it is        *)
(* switched off again: a switch-off of an earlier sequence does not strike   *)
(* it, unless offWithWait had given that one up (its result is ignored).     *)
(* Server.cpp:279, 334; Hsn.cpp:128, Mmc.cpp:167.                            *)
InUseIsUp == inUse => power = "up" \/ offAbandoned

(* A server that gets on in time, and whose queries were all answered, is    *)
(* never hard-reset, whatever state it was found in: every wait begins with  *)
(* its own full time.  Server.cpp:301-317.                                   *)
HealthyNotReset ==
    [][serverCall = "reset" /\ serverCall' = "start"
         => power \in {"off", "stopping"} \/ hung \/ misread]_serverVars
=============================================================================
