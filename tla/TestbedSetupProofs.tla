-------------------------- MODULE TestbedSetupProofs --------------------------
(* Proofs about the set-up of a test: the server, the switch, the remote     *)
(* directories and the latency test, each by itself and for any number of    *)
(* faults, and then the whole, which uses them only as their own modules     *)
(* describe.                                                                 *)
EXTENDS TestbedSetup, FiniteSetTheorems, SequenceTheorems, NaturalsInduction,
        WellFoundedInduction, TLAPS

(* InUseIsUp and HealthyNotReset (ServerPower) for any timeouts, attempts    *)
(* and numbers of faults.                                                    *)
(*                                                                           *)
(* InUseIsUp: a server on its way down is waited for, or its switch-off was  *)
(* given up.  HealthyNotReset: as long as every query was answered, the time *)
(* waited is never more than the time the server has been at it, and a sound *)
(* server is done within that time.                                          *)

Unwell == hung \/ misread

InUseInv ==
    /\ InUseIsUp
    /\ inUse => serverCall \in ServerReturned
    /\ power = "stopping" => offAbandoned \/ serverCall = "offWait"

SoundInTime ==
    /\ power = "starting" /\ ~hung => age < PowerTime
    /\ power = "booting" /\ ~hung => age < BootTime

WaitInv ==
    /\ serverCall = "power" /\ power = "starting" /\ ~Unwell => waited <= age
    /\ serverCall = "ping" /\ power = "booting" /\ ~Unwell => waited <= age
    /\ serverCall = "ping" /\ ~misread => power # "starting"
    /\ serverCall = "reset" => power \in {"off", "stopping"} \/ Unwell

Timed == age \in Nat /\ waited \in Nat /\ faults \in Nat

Tried == /\ resetCount \in 0..MaxRetries
         /\ serverCall \in {"serverOn", "power", "ping", "reset"} =>
               resetCount < MaxRetries

Named == power \in PowerStates /\ serverCall \in ServerCalls

ServerInv == FlagsOK /\ Named /\ Timed /\ Tried /\ InUseInv /\ SoundInTime /\ WaitInv

LEMMA ServerStart == FaultsInit /\ ServerInit => ServerInv
  <1> SUFFICES ASSUME FaultsInit, ServerInit PROVE ServerInv
    OBVIOUS
  <1>1. FlagsOK
    BY DEF ServerInit, FlagsOK
  <1>2. Named
    BY DEF ServerInit, Named, PowerStates, ServerCalls, ServerReturned
  <1>3. Timed /\ Tried
    BY ServerAssumption DEF ServerInit, FaultsInit, Timed, Tried
  <1>4. InUseInv
    BY DEF ServerInit, InUseInv, InUseIsUp
  <1>5. SoundInTime /\ WaitInv
    BY ServerAssumption DEF ServerInit, SoundInTime, WaitInv
  <1> QED
    BY <1>1, <1>2, <1>3, <1>4, <1>5 DEF ServerInv

(* Each step of the server and of its callers changes the state in one of    *)
(* few ways; what that takes from the invariant is settled once for each.    *)

(* The server gets on: nobody waits for less than before. *)
LEMMA AloneKept == ServerInv /\ ServerAlone => ServerInv'
  <1> SUFFICES ASSUME ServerInv, ServerAlone PROVE ServerInv'
    OBVIOUS
  <1>1. UNCHANGED <<serverCall, waited, resetCount, inUse, misread, offAbandoned,
                    faults>>
    BY DEF ServerAlone, NoFault, progress
  <1>2. age' = 0 /\ hung' = FALSE /\ ~hung
    BY DEF ServerAlone, PoweredOn, Booted, PoweredOff, Becomes
  <1>3. \/ power = "starting" /\ power' = "booting"
        \/ power = "booting" /\ power' = "up"
        \/ power = "stopping" /\ power' = "off"
    BY DEF ServerAlone, PoweredOn, Booted, PoweredOff, Becomes
  <1>4. FlagsOK' /\ Named' /\ Timed' /\ Tried'
    <2>1. FlagsOK' /\ Named'
      BY <1>1, <1>2, <1>3 DEF ServerInv, FlagsOK, Named, PowerStates
    <2>2. Timed' /\ Tried'
      BY <1>1, <1>2 DEF ServerInv, Timed, Tried
    <2> QED
      BY <2>1, <2>2
  <1>5. InUseInv'
    BY <1>1, <1>3 DEF ServerInv, InUseInv, InUseIsUp
  <1>6. SoundInTime' /\ WaitInv'
    BY <1>1, <1>2, <1>3, ServerAssumption
       DEF ServerInv, SoundInTime, WaitInv, Unwell
  <1> QED
    BY <1>4, <1>5, <1>6 DEF ServerInv

(* Flags stay flags. *)
LEMMA StepFlags == ServerInv /\ ServerStep => FlagsOK'
  <1> SUFFICES ASSUME ServerInv, ServerStep PROVE FlagsOK'
    OBVIOUS
  <1>0. misread' \in BOOLEAN
    BY DEF ServerStep
  <1> USE DEF ServerInv, FlagsOK, hardware
  <1>1. CASE CheckOn
    BY <1>0, <1>1 DEF CheckOn, GetPowerState, Goto
  <1>2. CASE CheckReachable
    BY <1>0, <1>2 DEF CheckReachable, Ping, Goto
  <1>3. CASE On
    BY <1>0, <1>3 DEF On, GetPowerState, Goto, StartWait
  <1>4. CASE ServerOn
    BY <1>0, <1>4 DEF ServerOn, May
  <1>5. CASE WaitForPowerOn
    BY <1>0, <1>5 DEF WaitForPowerOn, GetPowerState, Goto, StartWait, PollLater
  <1>6. CASE WaitForPing
    BY <1>0, <1>6 DEF WaitForPing, Ping, Goto, PollLater
  <1>7. CASE HardReset
    BY <1>0, <1>7 DEF HardReset, May, Becomes
  <1>8. CASE CheckOff
    BY <1>0, <1>8 DEF CheckOff, GetPowerState, Goto
  <1>9. CASE Off
    BY <1>0, <1>9 DEF Off, GetPowerState, Goto, StartWait
  <1>10. CASE ServerOff
    BY <1>0, <1>10 DEF ServerOff, May
  <1>11. CASE WaitForPowerOff
    BY <1>0, <1>11 DEF WaitForPowerOff, GetPowerState, Goto, PollLater
  <1> QED
    BY <1>1, <1>2, <1>3, <1>4, <1>5, <1>6, <1>7, <1>8, <1>9, <1>10, <1>11 DEF ServerStep

(* Names stay names. *)
LEMMA StepNamed == ServerInv /\ ServerStep => Named'
  <1> SUFFICES ASSUME ServerInv, ServerStep PROVE Named'
    OBVIOUS
  <1> USE DEF ServerInv, Named, hardware, PowerStates, ServerCalls, ServerReturned
  <1>1. CASE CheckOn
    BY <1>1 DEF CheckOn, GetPowerState, Goto
  <1>2. CASE CheckReachable
    BY <1>2 DEF CheckReachable, Ping, Goto
  <1>3. CASE On
    BY <1>3 DEF On, GetPowerState, Goto, StartWait
  <1>4. CASE ServerOn
    BY <1>4 DEF ServerOn, May
  <1>5. CASE WaitForPowerOn
    BY <1>5 DEF WaitForPowerOn, GetPowerState, Goto, StartWait, PollLater
  <1>6. CASE WaitForPing
    BY <1>6 DEF WaitForPing, Ping, Goto, PollLater
  <1>7. CASE HardReset
    BY <1>7 DEF HardReset, May, Becomes
  <1>8. CASE CheckOff
    BY <1>8 DEF CheckOff, GetPowerState, Goto
  <1>9. CASE Off
    BY <1>9 DEF Off, GetPowerState, Goto, StartWait
  <1>10. CASE ServerOff
    BY <1>10 DEF ServerOff, May
  <1>11. CASE WaitForPowerOff
    BY <1>11 DEF WaitForPowerOff, GetPowerState, Goto, PollLater
  <1> QED
    BY <1>1, <1>2, <1>3, <1>4, <1>5, <1>6, <1>7, <1>8, <1>9, <1>10, <1>11 DEF ServerStep

(* Times and counts stay numbers. *)
LEMMA StepTimed == ServerInv /\ ServerStep => Timed'
  <1> SUFFICES ASSUME ServerInv, ServerStep PROVE Timed'
    OBVIOUS
  <1> USE ServerAssumption, FaultsAssumption DEF ServerInv, Timed, hardware, progress, Fault, NoFault
  <1>1. CASE CheckOn
    BY <1>1 DEF CheckOn, GetPowerState, Goto
  <1>2. CASE CheckReachable
    BY <1>2 DEF CheckReachable, Ping, Goto
  <1>3. CASE On
    BY <1>3 DEF On, GetPowerState, Goto, StartWait
  <1>4. CASE ServerOn
    BY <1>4 DEF ServerOn, May
  <1>5. CASE WaitForPowerOn
    BY <1>5 DEF WaitForPowerOn, GetPowerState, Goto, StartWait, PollLater
  <1>6. CASE WaitForPing
    BY <1>6 DEF WaitForPing, Ping, Goto, PollLater
  <1>7. CASE HardReset
    BY <1>7 DEF HardReset, May, Becomes
  <1>8. CASE CheckOff
    BY <1>8 DEF CheckOff, GetPowerState, Goto
  <1>9. CASE Off
    BY <1>9 DEF Off, GetPowerState, Goto, StartWait
  <1>10. CASE ServerOff
    BY <1>10 DEF ServerOff, May
  <1>11. CASE WaitForPowerOff
    BY <1>11 DEF WaitForPowerOff, GetPowerState, Goto, PollLater
  <1> QED
    BY <1>1, <1>2, <1>3, <1>4, <1>5, <1>6, <1>7, <1>8, <1>9, <1>10, <1>11 DEF ServerStep

(* An attempt is made while some are left. *)
LEMMA StepTried == ServerInv /\ ServerStep => Tried'
  <1> SUFFICES ASSUME ServerInv, ServerStep PROVE Tried'
    OBVIOUS
  <1> USE ServerAssumption DEF ServerInv, Tried, progress, hardware, ServerReturned
  <1>1. CASE CheckOn
    BY <1>1 DEF CheckOn, GetPowerState, Goto
  <1>2. CASE CheckReachable
    BY <1>2 DEF CheckReachable, Ping, Goto
  <1>3. CASE On
    BY <1>3 DEF On, GetPowerState, Goto, StartWait
  <1>4. CASE ServerOn
    BY <1>4 DEF ServerOn, May
  <1>5. CASE WaitForPowerOn
    BY <1>5 DEF WaitForPowerOn, GetPowerState, Goto, StartWait, PollLater
  <1>6. CASE WaitForPing
    BY <1>6 DEF WaitForPing, Ping, Goto, PollLater
  <1>7. CASE HardReset
    BY <1>7 DEF HardReset, May, Becomes
  <1>8. CASE CheckOff
    BY <1>8 DEF CheckOff, GetPowerState, Goto
  <1>9. CASE Off
    BY <1>9 DEF Off, GetPowerState, Goto, StartWait
  <1>10. CASE ServerOff
    BY <1>10 DEF ServerOff, May
  <1>11. CASE WaitForPowerOff
    BY <1>11 DEF WaitForPowerOff, GetPowerState, Goto, PollLater
  <1> QED
    BY <1>1, <1>2, <1>3, <1>4, <1>5, <1>6, <1>7, <1>8, <1>9, <1>10, <1>11 DEF ServerStep

(* What is in use is up: a ping is answered by a server that is up, or on its *)
(* way down, and then its switch-off was given up.                           *)
LEMMA StepInUse == ServerInv /\ ServerStep => InUseInv'
  <1> SUFFICES ASSUME ServerInv, ServerStep PROVE InUseInv'
    OBVIOUS
  <1> USE DEF ServerInv, InUseInv, InUseIsUp, hardware, ServerReturned
  <1>1. CASE CheckOn
    BY <1>1 DEF CheckOn, GetPowerState, Goto
  <1>2. CASE CheckReachable
    BY <1>2 DEF CheckReachable, Ping, Goto
  <1>3. CASE On
    BY <1>3 DEF On, GetPowerState, Goto, StartWait
  <1>4. CASE ServerOn
    BY <1>4 DEF ServerOn, May
  <1>5. CASE WaitForPowerOn
    BY <1>5 DEF WaitForPowerOn, GetPowerState, Goto, StartWait, PollLater
  <1>6. CASE WaitForPing
    BY <1>6 DEF WaitForPing, Ping, Goto, PollLater
  <1>7. CASE HardReset
    BY <1>7 DEF HardReset, May, Becomes
  <1>8. CASE CheckOff
    BY <1>8 DEF CheckOff, GetPowerState, Goto
  <1>9. CASE Off
    BY <1>9 DEF Off, GetPowerState, Goto, StartWait
  <1>10. CASE ServerOff
    BY <1>10 DEF ServerOff, May
  <1>11. CASE WaitForPowerOff
    BY <1>11 DEF WaitForPowerOff, GetPowerState, Goto, PollLater
  <1> QED
    BY <1>1, <1>2, <1>3, <1>4, <1>5, <1>6, <1>7, <1>8, <1>9, <1>10, <1>11 DEF ServerStep

(* A sound server that has been polled still has time left. *)
LEMMA StepSound == ServerInv /\ ServerStep => SoundInTime'
  <1> SUFFICES ASSUME ServerInv, ServerStep PROVE SoundInTime'
    OBVIOUS
  <1> USE ServerAssumption DEF ServerInv, Timed, SoundInTime, hardware
  <1>1. CASE CheckOn
    BY <1>1 DEF CheckOn, GetPowerState, Goto
  <1>2. CASE CheckReachable
    BY <1>2 DEF CheckReachable, Ping, Goto
  <1>3. CASE On
    BY <1>3 DEF On, GetPowerState, Goto, StartWait
  <1>4. CASE ServerOn
    BY <1>4 DEF ServerOn, May
  <1>5. CASE WaitForPowerOn
    BY <1>5 DEF WaitForPowerOn, GetPowerState, Goto, StartWait, PollLater
  <1>6. CASE WaitForPing
    BY <1>6 DEF WaitForPing, Ping, Goto, PollLater
  <1>7. CASE HardReset
    BY <1>7 DEF HardReset, May, Becomes
  <1>8. CASE CheckOff
    BY <1>8 DEF CheckOff, GetPowerState, Goto
  <1>9. CASE Off
    BY <1>9 DEF Off, GetPowerState, Goto, StartWait
  <1>10. CASE ServerOff
    BY <1>10 DEF ServerOff, May
  <1>11. CASE WaitForPowerOff
    BY <1>11 DEF WaitForPowerOff, GetPowerState, Goto, PollLater
  <1> QED
    BY <1>1, <1>2, <1>3, <1>4, <1>5, <1>6, <1>7, <1>8, <1>9, <1>10, <1>11 DEF ServerStep

(* A query that goes wrong is remembered until the call returns. *)
LEMMA QueryRemembered ==
  ASSUME ServerInv, ServerStep, serverCall \in Queries,
         serverCall' \notin ServerReturned, ~misread'
  PROVE  ~Fault /\ ~misread
  <1>1. ~misread /\ faults' = faults
    BY DEF ServerStep
  <1>2. faults \in Nat
    BY DEF ServerInv, Timed
  <1>3. ~Fault
    BY <1>1, <1>2 DEF Fault
  <1> QED
    BY <1>1, <1>3

LEMMA PowerWait ==
  ASSUME ServerInv, ServerStep, WaitForPowerOn
  PROVE  WaitInv'
  <1>1. age \in Nat /\ waited \in Nat /\ SoundInTime /\ WaitInv /\ serverCall = "power"
    BY DEF ServerInv, Timed, WaitForPowerOn
  <1>2. serverCall' \in {"power", "ping", "reset"}
    BY DEF WaitForPowerOn, Goto, StartWait, PollLater
  <1>3. ~misread' => ~Fault /\ ~misread
    BY <1>1, <1>2, QueryRemembered DEF Queries, ServerReturned
  <1>4. CASE serverCall' = "ping"
    <2>1. UNCHANGED hardware /\ waited' = 0
      BY <1>4 DEF WaitForPowerOn, Goto, StartWait, PollLater
    <2>2. ~misread' => power # "starting"
      BY <1>3, <1>4 DEF WaitForPowerOn, GetPowerState, Goto, PollLater
    <2> QED
      BY <1>1, <1>4, <2>1, <2>2 DEF WaitInv, hardware
  <1>5. CASE serverCall' = "reset"
    <2>1. UNCHANGED hardware /\ waited >= PowerTimeout
      BY <1>5 DEF WaitForPowerOn, Goto, StartWait, PollLater
    <2>2. ~misread' => power \in {"off", "starting"}
      BY <1>3, <1>5 DEF WaitForPowerOn, GetPowerState, StartWait, PollLater
    <2>3. power = "starting" /\ ~hung /\ ~misread => FALSE
      BY <1>1, <2>1, ServerAssumption DEF SoundInTime, WaitInv, Unwell
    <2> QED
      BY <1>3, <1>5, <2>1, <2>2, <2>3 DEF WaitInv, Unwell, hardware
  <1>6. CASE serverCall' = "power"
    <2>1. PollLater
      BY <1>6 DEF WaitForPowerOn, Goto, StartWait
    <2> QED
      BY <1>1, <1>3, <1>6, <2>1 DEF WaitInv, Unwell, PollLater
  <1> QED
    BY <1>2, <1>4, <1>5, <1>6

LEMMA PingWait ==
  ASSUME ServerInv, ServerStep, WaitForPing
  PROVE  WaitInv'
  <1>1. age \in Nat /\ waited \in Nat /\ SoundInTime /\ WaitInv /\ serverCall = "ping"
    BY DEF ServerInv, Timed, WaitForPing
  <1>2. serverCall' \in {"ok", "reset", "ping"}
    BY DEF WaitForPing, Goto, PollLater
  <1>3. serverCall' # "ok" /\ ~misread' => ~Fault /\ ~misread
    BY <1>1, <1>2, QueryRemembered DEF Queries, ServerReturned
  <1>4. CASE serverCall' = "ok"
    BY <1>4 DEF WaitInv
  <1>5. CASE serverCall' = "reset"
    <2>1. UNCHANGED hardware /\ waited >= PingTimeout
      BY <1>5 DEF WaitForPing, Goto, PollLater
    <2>2. ~misread' => power # "up"
      BY <1>3, <1>5 DEF WaitForPing, Ping, Goto, PollLater
    <2>3. power = "booting" /\ ~hung /\ ~misread => FALSE
      BY <1>1, <2>1, ServerAssumption DEF SoundInTime, WaitInv, Unwell
    <2>4. power \in PowerStates
      BY DEF ServerInv, Named
    <2> QED
      BY <1>1, <1>3, <1>5, <2>1, <2>2, <2>3, <2>4
         DEF WaitInv, Unwell, hardware, PowerStates
  <1>6. CASE serverCall' = "ping"
    <2>1. PollLater
      BY <1>6 DEF WaitForPing, Goto
    <2> QED
      BY <1>1, <1>3, <1>6, <2>1 DEF WaitInv, Unwell, PollLater
  <1> QED
    BY <1>2, <1>4, <1>5, <1>6

LEMMA StepWait == ServerInv /\ ServerStep => WaitInv'
  <1> SUFFICES ASSUME ServerInv, ServerStep PROVE WaitInv'
    OBVIOUS
  <1>1. CASE CheckOn \/ CheckReachable \/ CheckOff
    <2>1. serverCall' \in {"onPing", "start", "ok", "offAgain"}
      BY <1>1 DEF CheckOn, CheckReachable, CheckOff, Goto
    <2> QED
      BY <2>1 DEF WaitInv
  <1>2. CASE On \/ ServerOn
    <2>1. \/ serverCall' \in {"failed", "start", "serverOn"}
          \/ serverCall' = "power" /\ waited' = 0
      BY <1>2 DEF On, ServerOn, Goto, StartWait, May
    <2>2. age' \in Nat
      BY StepTimed DEF Timed
    <2> QED
      BY <2>1, <2>2 DEF WaitInv
  <1>3. CASE WaitForPowerOn
    BY <1>3, PowerWait
  <1>4. CASE WaitForPing
    BY <1>4, PingWait
  <1>5. CASE HardReset \/ Off \/ ServerOff \/ WaitForPowerOff
    <2>1. serverCall' \in {"start", "offWait", "serverOff", "failed", "ok"}
      BY <1>5 DEF HardReset, Off, ServerOff, WaitForPowerOff, Goto, StartWait,
                  PollLater, May
    <2> QED
      BY <2>1 DEF WaitInv
  <1> QED
    BY <1>1, <1>2, <1>3, <1>4, <1>5 DEF ServerStep

LEMMA ServerKept ==
  ServerInv /\ [ServerNext]_serverVars /\ [Fault]_faults => ServerInv'
  <1> SUFFICES ASSUME ServerInv, [ServerNext]_serverVars, [Fault]_faults
               PROVE  ServerInv'
    OBVIOUS
  <1>1. CASE ServerAlone
    BY <1>1, AloneKept
  <1>2. CASE ServerStep
    BY <1>2, StepFlags, StepNamed, StepTimed, StepTried, StepInUse, StepSound,
       StepWait DEF ServerInv
  <1>3. faults' \in Nat
    BY FaultsAssumption DEF ServerInv, Timed, Fault
  <1>4. CASE OnWithWait \/ OffWithWait
    <2>1. /\ serverCall \in ServerReturned /\ serverCall' \in {"on", "off"}
          /\ waited' = 0 /\ resetCount' = 0 /\ misread' = FALSE /\ inUse' = FALSE
          /\ UNCHANGED hardware
      BY <1>4 DEF OnWithWait, OffWithWait, BeginServerCall
    <2>2. FlagsOK'
      BY <2>1 DEF ServerInv, FlagsOK, hardware
    <2>3. Named' /\ InUseInv'
      BY <2>1 DEF ServerInv, Named, InUseInv, InUseIsUp, hardware, ServerCalls,
                  ServerReturned
    <2>4. Timed' /\ Tried' /\ SoundInTime' /\ WaitInv'
      BY <1>3, <2>1, ServerAssumption
         DEF ServerInv, Timed, Tried, SoundInTime, WaitInv, hardware
    <2> QED
      BY <2>2, <2>3, <2>4 DEF ServerInv
  <1>5. CASE ServerCutOff
    <2>1. /\ serverCall' \in ServerReturned
          /\ UNCHANGED <<power, age, hung, waited, resetCount, inUse, misread>>
      BY <1>5 DEF ServerCutOff, ServerReturned, progress
    <2>2. FlagsOK'
      BY <1>5, <2>1 DEF ServerInv, FlagsOK, ServerCutOff
    <2>3. Named'
      BY <2>1 DEF ServerInv, Named, ServerCalls
    <2>4. offAbandoned \/ serverCall = "offWait" => offAbandoned'
      BY <1>5 DEF ServerCutOff
    <2>5. InUseInv'
      BY <2>1, <2>4 DEF ServerInv, InUseInv, InUseIsUp
    <2>6. Timed' /\ Tried' /\ SoundInTime' /\ WaitInv'
      BY <1>3, <2>1 DEF ServerInv, Timed, Tried, SoundInTime, WaitInv, ServerReturned
    <2> QED
      BY <2>2, <2>3, <2>5, <2>6 DEF ServerInv
  <1>6. CASE UNCHANGED serverVars
    BY <1>3, <1>6 DEF ServerInv, FlagsOK, Named, Timed, Tried, InUseInv, InUseIsUp,
                      SoundInTime, WaitInv, Unwell, serverVars, progress
  <1> QED
    BY <1>1, <1>2, <1>4, <1>5, <1>6 DEF ServerNext

LEMMA ServerInvariant == ServerSpec => []ServerInv
  BY ServerStart, ServerKept, PTL DEF ServerSpec, FaultsSpec

(* The variables stay within their types. *)
THEOREM ServerTypes == ServerSpec => []ServerTypeOK
  <1>1. ServerInv => ServerTypeOK
    BY DEF ServerInv, ServerTypeOK, Named, Timed, Tried
  <1> QED
    BY <1>1, ServerInvariant, PTL

(* After onWithWait has returned true the server is up until it is switched  *)
(* off again, unless a switch-off had been given up: Server.cpp:279, 334.    *)
THEOREM ServerInUseIsUp == ServerSpec => []InUseIsUp
  <1>1. ServerInv => InUseIsUp
    BY DEF ServerInv, InUseInv
  <1> QED
    BY <1>1, ServerInvariant, PTL

(* A sound server whose queries are answered is never hard-reset, whatever   *)
(* state onWithWait found it in: Server.cpp:301-317.                         *)
THEOREM ServerHealthyNotReset == ServerSpec => HealthyNotReset
  <1>1. ServerInv => (serverCall = "reset" =>
                        power \in {"off", "stopping"} \/ hung \/ misread)
    BY DEF ServerInv, WaitInv, Unwell
  <1>2. ServerInv => [serverCall = "reset" /\ serverCall' = "start"
                        => power \in {"off", "stopping"} \/ hung \/ misread]_serverVars
    BY <1>1
  <1> QED
    BY <1>2, ServerInvariant, PTL DEF HealthyNotReset

-----------------------------------------------------------------------------
(* SetUpHolds (SwitchSetup) for any number of faults and of set-ups.         *)
(*                                                                           *)
(* The argument: from the step after the move of the file on, the file is    *)
(* that of the unit whose set-up is going on; and a file that has not been   *)
(* loaded is either about to be or known to be lost.  VLANs are only ever    *)
(* added, but for a reload, which comes before them, and a reboot, which     *)
(* ends what the set-up promises.                                            *)

Moved == {"reload", "deployed", "vlanConnect", "fetch", "batch",
          "ateReload", "ateVlanConnect", "ateVlan"}

SwitchInv ==
    /\ SetUpHolds
    /\ setUpFor # "none" => switchCall \in {"ok", "failed"}
    /\ switchCall \in Moved => file = todo
    /\ loaded = file \/ reloadLost \/ switchCall \in {"reload", "ateReload"}

LEMMA SwitchStart == SwitchInit => SwitchInv
  BY DEF SwitchInit, SwitchInv, SetUpHolds, Moved

(* 'bridge vlan add' adds, whatever of it fails. *)
LEMMA VlansOnlyAdded ==
  ASSUME NEW groups, NEW ACTION done, NEW ACTION failed, EgressUntagged(groups, done, failed)
  PROVE  /\ vlans \subseteq vlans'
         /\ failed \/ (done /\ ExpandGroups(groups) \subseteq vlans')
  BY DEF EgressUntagged

(* What a set-up needs is not taken away by a step that keeps the file and   *)
(* the reload and only adds VLANs.                                           *)
LEMMA StillSetUp ==
  ASSUME SetUpHolds, UNCHANGED <<file, loaded, setUpFor, reloadLost>>,
         vlans \subseteq vlans'
  PROVE  SetUpHolds'
  BY DEF SetUpHolds, HasAll

(* Steps that change neither the file nor the VLANs. *)
LEMMA CommandKept ==
  ASSUME SwitchInv, NEW from, NEW to, Command(from, to),
         to \in Moved => from \in Moved,
         from \notin {"ok", "failed", "reload", "ateReload"}
  PROVE  SwitchInv'
  <1>1. setUpFor = "none"
    BY DEF SwitchInv, Command
  <1>2. setUpFor' = "none" /\ Untouched /\ todo' = todo
    BY <1>1 DEF Command, May, Proceed
  <1>3. switchCall' \in {to, "failed"} /\ switchCall = from
    BY DEF Command, May, Proceed
  <1> QED
    BY <1>2, <1>3 DEF SwitchInv, SetUpHolds, Untouched, Moved

LEMMA MoveKept ==
  ASSUME SwitchInv, NEW from, NEW to, MoveFile(from, to),
         from \in {"mv", "ateMv"}, to \in {"reload", "ateReload"}
  PROVE  SwitchInv'
  <1>1. setUpFor = "none" /\ setUpFor' = "none" /\ todo' = todo
    BY DEF SwitchInv, MoveFile, Proceed
  <1> QED
    BY <1>1 DEF SwitchInv, SetUpHolds, MoveFile, Proceed, Moved

LEMMA ReloadKept ==
  ASSUME SwitchInv, NEW from, NEW to, IfReload(from, to),
         from \in {"reload", "ateReload"}, to \in {"deployed", "ateVlanConnect"}
  PROVE  SwitchInv'
  <1>1. setUpFor = "none" /\ setUpFor' = "none" /\ todo' = todo
    BY DEF SwitchInv, IfReload, Proceed
  <1> QED
    BY <1>1 DEF SwitchInv, SetUpHolds, IfReload, Proceed, Moved

(* The end of a set-up: all its VLANs have been added. *)
LEMMA FinishKept ==
  ASSUME SwitchInv, Finished, UNCHANGED <<file, loaded, reloadLost>>,
         switchCall \in {"fetch", "batch", "ateVlan"}, HasAll(todo)'
  PROVE  SwitchInv'
  BY DEF SwitchInv, SetUpHolds, Finished, Moved

LEMMA BatchKept ==
  ASSUME SwitchInv, switchCall \in {"batch", "ateVlan"},
         EgressUntagged(Expected[todo], Finished, Proceed("failed")),
         UNCHANGED <<file, loaded, reloadLost>>
  PROVE  SwitchInv'
  <1>1. CASE Finished /\ ExpandGroups(Expected[todo]) \subseteq vlans'
    <2>1. HasAll(todo)'
      BY <1>1 DEF Finished, HasAll
    <2> QED
      BY <1>1, <2>1, FinishKept
  <1>2. CASE Proceed("failed")
    <2>1. setUpFor = "none"
      BY DEF SwitchInv
    <2> QED
      BY <1>2, <2>1 DEF SwitchInv, SetUpHolds, Proceed, Moved
  <1> QED
    BY <1>1, <1>2, VlansOnlyAdded

(* A port configured by hand adds its VLANs. *)
LEMMA ByHandKept ==
  ASSUME SwitchInv, NEW groups, ConfigureSwp(groups)
  PROVE  SwitchInv'
  <1>1. vlans \subseteq vlans' /\ UNCHANGED <<file, loaded, switchCall, todo,
                                             setUpFor, reloadLost>>
    BY VlansOnlyAdded DEF ConfigureSwp
  <1>2. SetUpHolds'
    BY <1>1, StillSetUp DEF SwitchInv
  <1> QED
    BY <1>1, <1>2 DEF SwitchInv, Moved

LEMMA StepKept == SwitchInv /\ SwitchStep => SwitchInv'
  <1> SUFFICES ASSUME SwitchInv, SwitchStep PROVE SwitchInv'
    OBVIOUS
  <1>1. CASE Connect \/ AteCumulusTestConnection \/ AteCumulusScpCopy
    BY <1>1, CommandKept
       DEF Connect, AteCumulusTestConnection, AteCumulusScpCopy, Moved
  <1>2. CASE IsRemoteInterfacesFileUpToDate
    <2>1. setUpFor = "none" /\ setUpFor' = "none" /\ todo' = todo /\ Untouched
      BY <1>2 DEF IsRemoteInterfacesFileUpToDate, SwitchInv, May, Proceed
    <2>2. /\ switchCall = "md5" /\ switchCall' \in {"scp", "deployed"}
          /\ switchCall' = "deployed" => file = todo
      BY <1>2 DEF IsRemoteInterfacesFileUpToDate, May, Proceed
    <2> QED
      BY <2>1, <2>2 DEF SwitchInv, SetUpHolds, Untouched, Moved
  <1>3. CASE CopyFileToPath \/ AteCumulusMove
    BY <1>3, CommandKept, MoveKept DEF CopyFileToPath, AteCumulusMove, Moved
  <1>4. CASE ReloadInterfaces \/ AteCumulusReload
    BY <1>4, ReloadKept DEF ReloadInterfaces, AteCumulusReload
  <1>5. CASE FetchBridgeVlanState
    <2>1. CASE Finished /\ HasAllExpectedVlans
      <3>1. Untouched /\ switchCall = "fetch"
        BY <1>5 DEF FetchBridgeVlanState
      <3>2. HasAll(todo)'
        BY <2>1, <3>1 DEF Finished, Untouched, HasAllExpectedVlans, HasAll
      <3> QED
        BY <2>1, <3>1, <3>2, FinishKept DEF Untouched
    <2>2. CASE Proceed("batch")
      BY <1>5, <2>2 DEF FetchBridgeVlanState, SwitchInv, SetUpHolds, Proceed,
                        Untouched, Moved
    <2> QED
      BY <1>5, <2>1, <2>2 DEF FetchBridgeVlanState, May
  <1>6. CASE ExecuteBatch \/ AteCumulusConfigureSequence
    BY <1>6, BatchKept DEF ExecuteBatch, AteCumulusConfigureSequence
  <1> QED
    BY <1>1, <1>2, <1>3, <1>4, <1>5, <1>6 DEF SwitchStep

LEMMA SwitchKept == SwitchInv /\ [SwitchNext]_switchVars => SwitchInv'
  <1> SUFFICES ASSUME SwitchInv, [SwitchNext]_switchVars PROVE SwitchInv'
    OBVIOUS
  <1>1. CASE \E u \in SwitchUnits : DeployNetworkInterfaces(u)
    BY <1>1 DEF DeployNetworkInterfaces, SwitchInv, SetUpHolds, Untouched, Moved,
                SwitchReturned
  <1>2. CASE ConfigureSequence
    BY <1>2 DEF ConfigureSequence, SwitchInv, SetUpHolds, Proceed, Untouched, Moved
  <1>3. CASE AteConfigureCumulus
    BY <1>3 DEF AteConfigureCumulus, SwitchInv, SetUpHolds, Untouched, Moved,
                SwitchReturned
  <1>4. CASE SwitchStep
    BY <1>4, StepKept
  <1>5. CASE Maintenance
    BY <1>5, ByHandKept
       DEF Maintenance, ConfigureSwp1325, ConfigureSwp1426, ConfigureSwp1527,
           ConfigureSwp1628, ConfigureSwp1729, ConfigureSwp1830,
           ConfigureSwp1931, ConfigureSwp2032, ConfigureSwp1309,
           ConfigureSwp1410, ConfigureSwp1511, ConfigureSwp1612
  <1>6. CASE CutOff
    <2>1. vlans \subseteq vlans' /\ file' = file /\ loaded' = loaded
          /\ setUpFor' = setUpFor /\ todo' = todo /\ switchCall' = "failed"
      BY <1>6 DEF CutOff
    <2>2. loaded = file \/ reloadLost'
      BY <1>6 DEF CutOff, SwitchInv
    <2>3. SetUpHolds'
      BY <2>1, <2>2 DEF SwitchInv, SetUpHolds, HasAll
    <2> QED
      BY <2>1, <2>2, <2>3 DEF SwitchInv, Moved
  <1>7. CASE SwitchReboots
    BY <1>7 DEF SwitchReboots, SwitchInv, SetUpHolds, Moved
  <1>8. CASE UNCHANGED switchVars
    <2>1. vlans \subseteq vlans' /\ UNCHANGED switchVars
      BY <1>8 DEF switchVars
    <2>2. SetUpHolds'
      BY <2>1, StillSetUp DEF SwitchInv, switchVars
    <2> QED
      BY <2>1, <2>2 DEF SwitchInv, switchVars, Moved
  <1> QED
    BY <1>1, <1>2, <1>3, <1>4, <1>5, <1>6, <1>7, <1>8 DEF SwitchNext

(* A successful set-up has left the switch as the unit needs it, whatever    *)
(* was skipped, lost or cut off before: CumulusHelper.cpp, AteCumulusConfig. *)
THEOREM SetUpIsLasting == SwitchSpec => []SetUpHolds
  <1>1. SwitchInv => SetUpHolds
    BY DEF SwitchInv
  <1> QED
    BY <1>1, SwitchStart, SwitchKept, PTL DEF SwitchSpec

------------------------------------------------------------------------------
(* Types.  The VLANs added are those of the port groups of some unit. *)
LEMMA ExpectedPorts ==
  \A u \in SwitchUnits \cup {"ATE"} : ExpandGroups(Expected[u]) \subseteq Ports
  <1>1. ExpandGroups(ExpectedVlansCmc) \subseteq ExpandGroups(ExpectedVlansVmc)
    BY DEF ExpandGroups, ExpectedVlansCmc, ExpectedVlansVmc
  <1> QED
    BY <1>1 DEF Expected, SwitchUnits, Ports

LEMMA SomeOfThem ==
  ASSUME NEW groups, ExpandGroups(groups) \subseteq Ports,
         vlans \subseteq Ports, NEW ACTION done, NEW ACTION failed,
         EgressUntagged(groups, done, failed)
  PROVE  vlans' \subseteq Ports
  BY DEF EgressUntagged, ExpandGroups

(* By hand: the groups of one port. *)
LEMMA OneGroup ==
  ASSUME NEW g \in Ports
  PROVE  ExpandGroups(<<g>>) \subseteq Ports
  BY DEF ExpandGroups

LEMMA TwoGroups ==
  ASSUME NEW g \in Ports, NEW h \in Ports
  PROVE  ExpandGroups(<<g, h>>) \subseteq Ports
  BY DEF ExpandGroups

LEMMA PortNames ==
  /\ {"swp25", "swp26", "swp27", "swp28"} \subseteq Ports
  /\ {"swp29", "swp30", "swp31", "swp32"} \subseteq Ports
  /\ {"swp9s01", "swp9s23", "swp10", "swp11", "swp12"} \subseteq Ports
  <1>1. \A i \in 1..8 : ExpectedVlansDtn[i] \in Ports
    BY DEF Ports, ExpandGroups, ExpectedVlansDtn
  <1>2. \A i \in 1..5 : ExpectedVlansVmc[i] \in Ports
    BY DEF Ports, ExpandGroups, ExpectedVlansVmc
  <1>3. {"swp25", "swp26", "swp27", "swp28"} \subseteq Ports
    BY <1>1, ExpectedVlansDtn[1] = "swp25", ExpectedVlansDtn[2] = "swp26",
       ExpectedVlansDtn[3] = "swp27", ExpectedVlansDtn[4] = "swp28"
       DEF ExpectedVlansDtn
  <1>4. {"swp29", "swp30", "swp31", "swp32"} \subseteq Ports
    BY <1>1, ExpectedVlansDtn[5] = "swp29", ExpectedVlansDtn[6] = "swp30",
       ExpectedVlansDtn[7] = "swp31", ExpectedVlansDtn[8] = "swp32"
       DEF ExpectedVlansDtn
  <1>5. {"swp9s01", "swp9s23", "swp10", "swp11", "swp12"} \subseteq Ports
    BY <1>2, ExpectedVlansVmc[1] = "swp9s01", ExpectedVlansVmc[2] = "swp9s23",
       ExpectedVlansVmc[3] = "swp10", ExpectedVlansVmc[4] = "swp11",
       ExpectedVlansVmc[5] = "swp12"
       DEF ExpectedVlansVmc
  <1> QED
    BY <1>3, <1>4, <1>5

LEMMA MaintenanceAdds ==
  ASSUME vlans \subseteq Ports, Maintenance
  PROVE  vlans' \subseteq Ports
  <1>1. ASSUME NEW groups, ExpandGroups(groups) \subseteq Ports,
               ConfigureSwp(groups)
        PROVE  vlans' \subseteq Ports
    BY <1>1, SomeOfThem DEF ConfigureSwp
  <1>2. ASSUME NEW g \in Ports, ConfigureSwp(<<g>>)
        PROVE  vlans' \subseteq Ports
    BY <1>1, <1>2, OneGroup
  <1>3. CASE ConfigureSwp1325 \/ ConfigureSwp1426 \/ ConfigureSwp1527
             \/ ConfigureSwp1628
    BY <1>2, <1>3, PortNames DEF ConfigureSwp1325, ConfigureSwp1426,
                                 ConfigureSwp1527, ConfigureSwp1628
  <1>4. CASE ConfigureSwp1729 \/ ConfigureSwp1830 \/ ConfigureSwp1931
             \/ ConfigureSwp2032
    BY <1>2, <1>4, PortNames DEF ConfigureSwp1729, ConfigureSwp1830,
                                 ConfigureSwp1931, ConfigureSwp2032
  <1>5. CASE ConfigureSwp1309
    BY <1>1, <1>5, TwoGroups, PortNames DEF ConfigureSwp1309
  <1>6. CASE ConfigureSwp1410 \/ ConfigureSwp1511 \/ ConfigureSwp1612
    BY <1>2, <1>6, PortNames DEF ConfigureSwp1410, ConfigureSwp1511,
                                 ConfigureSwp1612
  <1> QED
    BY <1>3, <1>4, <1>5, <1>6 DEF Maintenance

(* A unit, or the ATE mode, is what a set-up is for. *)
Aimed == switchCall \in {"ok", "failed"} \/ todo \in SwitchUnits \cup {"ATE"}

LEMMA BatchAdds ==
  ASSUME vlans \subseteq Ports, todo \in SwitchUnits \cup {"ATE"},
         NEW ACTION done, NEW ACTION failed, EgressUntagged(Expected[todo], done, failed)
  PROVE  vlans' \subseteq Ports
  BY ExpectedPorts, SomeOfThem

SwitchTyped == SwitchTypeOK /\ Aimed

LEMMA SwitchTypesKept ==
  SwitchTyped /\ [SwitchNext]_switchVars => SwitchTyped'
  <1> SUFFICES ASSUME SwitchTyped, [SwitchNext]_switchVars PROVE SwitchTyped'
    OBVIOUS
  <1> USE DEF SwitchTyped, SwitchTypeOK, Aimed, SwitchReturned, SwitchCalls, Proceed,
              Untouched
  <1>0. \A u \in SwitchUnits \cup {"ATE"} : u \in Owners
    BY DEF Owners
  <1>1. CASE (\E u \in SwitchUnits : DeployNetworkInterfaces(u))
             \/ ConfigureSequence \/ AteConfigureCumulus
    <2>1. CASE ConfigureSequence
      BY <2>1 DEF ConfigureSequence
    <2>2. ASSUME NEW u \in SwitchUnits, DeployNetworkInterfaces(u)
          PROVE  SwitchTyped'
      BY <1>0, <2>2 DEF DeployNetworkInterfaces
    <2>3. CASE AteConfigureCumulus
      BY <1>0, <2>3 DEF AteConfigureCumulus
    <2> QED
      BY <1>1, <2>1, <2>2, <2>3
  <1>2. CASE Connect \/ AteCumulusTestConnection \/ AteCumulusScpCopy
             \/ IsRemoteInterfacesFileUpToDate
    BY <1>2 DEF Connect, AteCumulusTestConnection, AteCumulusScpCopy,
                IsRemoteInterfacesFileUpToDate, Command, May
  <1>3. CASE CopyFileToPath \/ AteCumulusMove
    BY <1>3 DEF CopyFileToPath, AteCumulusMove, Command, MoveFile, May
  <1>4. CASE ReloadInterfaces \/ AteCumulusReload
    BY <1>4 DEF ReloadInterfaces, AteCumulusReload, IfReload
  <1>5. CASE FetchBridgeVlanState
    BY <1>0, <1>5 DEF FetchBridgeVlanState, May, Finished
  <1>6. CASE ExecuteBatch \/ AteCumulusConfigureSequence
    <2>1. /\ EgressUntagged(Expected[todo], Finished, Proceed("failed"))
          /\ switchCall \in {"batch", "ateVlan"}
          /\ UNCHANGED <<file, loaded, reloadLost>>
      BY <1>6 DEF ExecuteBatch, AteCumulusConfigureSequence
    <2>2. vlans' \subseteq Ports
      BY <2>1, BatchAdds
    <2>3. CASE Finished
      BY <1>0, <2>1, <2>2, <2>3 DEF Finished
    <2>4. CASE Proceed("failed")
      BY <2>1, <2>2, <2>4
    <2> QED
      BY <2>1, <2>3, <2>4 DEF EgressUntagged
  <1>7. CASE Maintenance
    <2>1. vlans' \subseteq Ports
      BY <1>7, MaintenanceAdds
    <2>0. ASSUME NEW groups, ConfigureSwp(groups)
          PROVE  UNCHANGED <<file, loaded, switchCall, todo, setUpFor, reloadLost>>
      BY <2>0 DEF ConfigureSwp
    <2>2. UNCHANGED <<file, loaded, switchCall, todo, setUpFor, reloadLost>>
      BY <1>7, <2>0 DEF Maintenance, ConfigureSwp1325, ConfigureSwp1426,
           ConfigureSwp1527, ConfigureSwp1628, ConfigureSwp1729, ConfigureSwp1830,
           ConfigureSwp1931, ConfigureSwp2032, ConfigureSwp1309,
           ConfigureSwp1410, ConfigureSwp1511, ConfigureSwp1612
    <2> QED
      BY <2>1, <2>2
  <1>8. CASE CutOff \/ SwitchReboots
    BY <1>8 DEF CutOff, SwitchReboots
  <1>9. CASE UNCHANGED switchVars
    BY <1>9 DEF switchVars
  <1> QED
    BY <1>1, <1>2, <1>3, <1>4, <1>5, <1>6, <1>7, <1>8, <1>9
       DEF SwitchNext, SwitchStep

(* The variables stay within their types. *)
THEOREM SwitchTypes == SwitchSpec => []SwitchTypeOK
  <1>1. SwitchInit => SwitchTyped
    BY DEF SwitchInit, SwitchTyped, SwitchTypeOK, Aimed, SwitchReturned, SwitchCalls,
           Owners
  <1>2. SwitchTyped => SwitchTypeOK
    BY DEF SwitchTyped
  <1> QED
    BY <1>1, <1>2, SwitchTypesKept, PTL DEF SwitchSpec

-----------------------------------------------------------------------------
(* NothingStale (RemoteDeploy) for any number of faults and versions.        *)
(*                                                                           *)
(* NothingStale alone says nothing of the steps between a copy and the use   *)
(* of its result: the invariant says which version is where at each of them. *)

DeployInv ==
    /\ NothingStale
    /\ deployCall \in {"detect", "cmake", "clean", "make"} => tree = source
    /\ deployCall = "fetch" => binary = source

LEMMA DeployStart == DeployInit => DeployInv
  BY DEF DeployInit, DeployInv, NothingStale

(* A remote command that changes no directory moves to a step that needs no  *)
(* more than the one before.                                                 *)
LEMMA DeployKept == DeployInv /\ [DeployNext]_deployVars => DeployInv'
  <1> SUFFICES ASSUME DeployInv, [DeployNext]_deployVars PROVE DeployInv'
    OBVIOUS
  <1> USE DEF DeployInv, NothingStale
  <1>1. CASE DeployPrebuilt \/ PreparePrebuilt \/ SourceChanges \/ DeployAborted
    BY <1>1 DEF DeployPrebuilt, PreparePrebuilt, SourceChanges, DeployAborted,
                Continue, remote
  <1>2. CASE DeployConnect \/ DetectBuildSystem \/ BuildWithCMake
    BY <1>2 DEF DeployConnect, DetectBuildSystem, BuildWithCMake, Remote, May,
                Continue, remote
  <1>3. CASE RemoveDirectory
    BY <1>3 DEF RemoveDirectory, May, Continue, remote
  <1>4. CASE CopyDirectory
    BY <1>4 DEF CopyDirectory, Continue
  <1>5. CASE RunProgram
    BY <1>5 DEF RunProgram, May, Continue, remote
  <1>6. CASE CleanFirst
    BY <1>6 DEF CleanFirst, May, Continue
  <1>7. CASE BuildProgram
    BY <1>7 DEF BuildProgram, Continue
  <1>8. CASE FetchBinary
    BY <1>8 DEF FetchBinary, Continue, remote
  <1>9. CASE UNCHANGED deployVars
    BY <1>9 DEF deployVars
  <1> QED
    BY <1>1, <1>2, <1>3, <1>4, <1>5, <1>6, <1>7, <1>8, <1>9
       DEF DeployNext, DeployStep

LEMMA DeployTypesKept ==
  DeployTypeOK /\ [DeployNext]_deployVars => DeployTypeOK'
  <1> SUFFICES ASSUME DeployTypeOK, [DeployNext]_deployVars PROVE DeployTypeOK'
    OBVIOUS
  <1> USE DeployAssumption
      DEF DeployTypeOK, Versions, DeployCalls, DeployReturned, Continue, May, remote
  <1>1. CASE DeployPrebuilt \/ PreparePrebuilt \/ DeployAborted
    BY <1>1 DEF DeployPrebuilt, PreparePrebuilt, DeployAborted
  <1>2. CASE SourceChanges
    BY <1>2 DEF SourceChanges
  <1>3. CASE DeployConnect \/ DetectBuildSystem \/ BuildWithCMake
    BY <1>3 DEF DeployConnect, DetectBuildSystem, BuildWithCMake, Remote
  <1>4. CASE RemoveDirectory \/ CopyDirectory
    BY <1>4 DEF RemoveDirectory, CopyDirectory
  <1>5. CASE RunProgram \/ CleanFirst \/ BuildProgram \/ FetchBinary
    BY <1>5 DEF RunProgram, CleanFirst, BuildProgram, FetchBinary
  <1>6. CASE UNCHANGED deployVars
    BY <1>6 DEF deployVars
  <1> QED
    BY <1>1, <1>2, <1>3, <1>4, <1>5, <1>6 DEF DeployNext, DeployStep

(* The variables stay within their types. *)
THEOREM DeployTypes == DeploySpec => []DeployTypeOK
  <1>1. DeployInit => DeployTypeOK
    BY DeployAssumption
       DEF DeployInit, DeployTypeOK, Versions, DeployCalls, DeployReturned
  <1> QED
    BY <1>1, DeployTypesKept, PTL DEF DeploySpec

(* The program that is run is the prebuilt one, and a successful             *)
(* preparePrebuilt has built it from the source as it is: SSHDeployer.cpp.   *)
THEOREM DeployedIsCurrent == DeploySpec => []NothingStale
  <1>1. DeployInv => NothingStale
    BY DEF DeployInv
  <1> QED
    BY <1>1, DeployStart, DeployKept, PTL DEF DeploySpec

-----------------------------------------------------------------------------
(* The sum of some values, as the fold over a set computes it.               *)

Total(f, S) == FoldSet(LAMBDA p, sum : f[p] + sum, 0, S)

Pick(s) == CHOOSE x \in s : TRUE

(* What the fold makes of s, when it has made g of the smaller sets. *)
Folded(f, g, s) == IF s = {} THEN 0 ELSE f[Pick(s)] + g[s \ {Pick(s)}]

Folds(f, S, g) == g = [s \in SUBSET S |-> Folded(f, g, s)]

LEMMA TotalChosen == ASSUME NEW f, NEW S PROVE Total(f, S) = (CHOOSE g : Folds(f, S, g))[S]
  BY Zenon DEF Total, FoldSet, MapThenFoldSet, Folds, Folded, Pick

Before == {p \in Nat \X Nat : p[1] < p[2]}

LEMMA FirstOf == ASSUME NEW T \in SUBSET Nat, T # {} PROVE \E m \in T : m = 0 \/ m - 1 \in Nat \ T
  <1>1. IsWellFoundedOn(Before, Nat)
    BY NatLessThanWellFounded DEF OpToRel, Before
  <1>2. PICK m \in T : \A y \in T : ~(<<y, m>> \in Before)
    BY <1>1, WFMin, Zenon
  <1>3. m # 0 => m - 1 \in Nat /\ <<m - 1, m>> \in Before
    BY DEF Before
  <1> QED
    BY <1>2, <1>3

LEMMA SmallerSet ==
  ASSUME NEW S, IsFiniteSet(S), NEW s \in SUBSET S
  PROVE  /\ IsFiniteSet(s) /\ Cardinality(s) \in Nat /\ Cardinality(s) <= Cardinality(S)
         /\ Cardinality(s) = 0 <=> s = {}
         /\ s # {} => /\ Pick(s) \in s /\ s \ {Pick(s)} \in SUBSET S
                      /\ Cardinality(s \ {Pick(s)}) = Cardinality(s) - 1
  <1>1. IsFiniteSet(s) /\ Cardinality(s) \in Nat /\ Cardinality(s) <= Cardinality(S)
    BY FS_Subset, FS_CardinalityType
  <1>2. Cardinality(s) = 0 <=> s = {}
    BY <1>1, FS_EmptySet
  <1>3. s # {} => Pick(s) \in s
    BY DEF Pick
  <1>4. s # {} => Cardinality(s \ {Pick(s)}) = Cardinality(s) - 1
    BY <1>1, <1>3, FS_RemoveElement
  <1> QED
    BY <1>1, <1>2, <1>3, <1>4

(* There is such a function, because each set is made of a smaller one. *)
LEMMA FoldExists ==
  ASSUME NEW f, NEW S, IsFiniteSet(S)
  PROVE  \E g : Folds(f, S, g)
  <1> DEFINE Upto(g, n) == /\ g = [s \in SUBSET S |-> g[s]]
                           /\ \A s \in SUBSET S : Cardinality(s) <= n => g[s] = Folded(f, g, s)
             T == {n \in Nat : ~ \E g : Upto(g, n)}
  <1>1. T = {}
    <2> SUFFICES ASSUME T # {} PROVE FALSE
      OBVIOUS
    <2>1. PICK m \in T : m = 0 \/ m - 1 \in Nat \ T
      BY FirstOf
    <2>2. CASE m = 0
      <3> DEFINE g == [s \in SUBSET S |-> 0]
      <3>1. ASSUME NEW s \in SUBSET S, Cardinality(s) <= 0 PROVE g[s] = Folded(f, g, s)
        <4>1. Cardinality(s) \in Nat /\ (Cardinality(s) = 0 <=> s = {})
          BY SmallerSet
        <4>2. s = {}
          BY <3>1, <4>1
        <4> QED
          BY <4>2 DEF Folded
      <3>2. g = [s \in SUBSET S |-> g[s]]
        OBVIOUS
      <3>3. Upto(g, 0)
        BY <3>1, <3>2
      <3> QED
        BY <2>2, <3>3
    <2>3. CASE m - 1 \in Nat \ T
      <3>1. PICK g : Upto(g, m - 1)
        BY <2>3
      <3> DEFINE h == [s \in SUBSET S |-> Folded(f, g, s)]
      <3>2. ASSUME NEW s \in SUBSET S, Cardinality(s) <= m PROVE h[s] = Folded(f, h, s)
        <4>1. CASE s = {}
          BY <4>1 DEF Folded
        <4>2. CASE s # {}
          <5> DEFINE t == s \ {Pick(s)}
          <5>1. t \in SUBSET S /\ Cardinality(t) <= m - 1
            BY <3>2, <4>2, SmallerSet
          <5>2. g[t] = Folded(f, g, t) /\ h[t] = Folded(f, g, t)
            BY <3>1, <5>1
          <5>3. Folded(f, g, s) = f[Pick(s)] + g[t] /\ Folded(f, h, s) = f[Pick(s)] + h[t]
            BY <4>2 DEF Folded
          <5>4. h[s] = Folded(f, g, s)
            OBVIOUS
          <5> QED
            BY <5>2, <5>3, <5>4
        <4> QED
          BY <4>1, <4>2
      <3>3. h = [s \in SUBSET S |-> h[s]]
        OBVIOUS
      <3>4. Upto(h, m)
        BY <3>2, <3>3
      <3> QED
        BY <3>4
    <2> QED
      BY <2>1, <2>2, <2>3
  <1>2. PICK g : Upto(g, Cardinality(S))
    BY <1>1, FS_CardinalityType
  <1>3. \A s \in SUBSET S : g[s] = Folded(f, g, s)
    BY <1>2, SmallerSet
  <1>4. Folds(f, S, g)
    BY <1>2, <1>3 DEF Folds
  <1> QED
    BY <1>4

(* A sum is bounded by the greatest value, and is a multiple of the value    *)
(* when there is only one.                                                   *)
LEMMA TotalBounded ==
  ASSUME NEW f, NEW S, IsFiniteSet(S), NEW most \in Nat, \A x \in S : f[x] \in Nat /\ f[x] <= most
  PROVE  /\ Total(f, S) \in Nat /\ Total(f, S) <= most * Cardinality(S)
  <1> DEFINE g == CHOOSE h : Folds(f, S, h)
  <1>1. Folds(f, S, g)
    BY FoldExists
  <1> HIDE DEF g
  <1>2. \A s \in SUBSET S : g[s] = Folded(f, g, s)
    BY <1>1 DEF Folds
  <1> DEFINE Fine(s) == g[s] \in Nat /\ g[s] <= most * Cardinality(s)
             T == {n \in Nat : \E s \in SUBSET S : Cardinality(s) = n /\ ~Fine(s)}
  <1>3. T = {}
    <2> SUFFICES ASSUME T # {} PROVE FALSE
      OBVIOUS
    <2>1. PICK m \in T : m = 0 \/ m - 1 \in Nat \ T
      BY FirstOf
    <2>2. PICK s \in SUBSET S : Cardinality(s) = m /\ ~Fine(s)
      BY <2>1
    <2>3. CASE s = {}
      <3>1. g[s] = 0 /\ Cardinality(s) = 0
        BY <1>2, <2>3, FS_EmptySet DEF Folded
      <3>2. most * 0 = 0
        OBVIOUS
      <3> QED
        BY <2>2, <3>1, <3>2
    <2>4. CASE s # {}
      <3> DEFINE t == s \ {Pick(s)}
                 x == Pick(s)
      <3>1. x \in S /\ t \in SUBSET S /\ Cardinality(t) = m - 1 /\ m # 0
        BY <2>2, <2>4, SmallerSet
      <3>2. g[s] = f[x] + g[t]
        BY <1>2, <2>4 DEF Folded
      <3>3. Fine(t)
        BY <2>1, <3>1
      <3>4. f[x] \in Nat /\ f[x] <= most /\ m \in Nat
        BY <3>1
      <3> HIDE DEF t, x
      <3>5. most * m = most * (m - 1) + most /\ most * (m - 1) \in Int
        BY <3>4
      <3> QED
        BY <2>2, <3>1, <3>2, <3>3, <3>4, <3>5
    <2> QED
      BY <2>3, <2>4
  <1>4. Fine(S)
    BY <1>3, FS_CardinalityType
  <1> QED
    BY <1>4, TotalChosen DEF g

LEMMA TotalEven ==
  ASSUME NEW f, NEW S, IsFiniteSet(S), NEW each \in Nat, \A x \in S : f[x] = each
  PROVE  Total(f, S) = each * Cardinality(S)
  <1> DEFINE g == CHOOSE h : Folds(f, S, h)
  <1>1. Folds(f, S, g)
    BY FoldExists
  <1> HIDE DEF g
  <1>2. \A s \in SUBSET S : g[s] = Folded(f, g, s)
    BY <1>1 DEF Folds
  <1> DEFINE Fine(s) == g[s] = each * Cardinality(s)
             T == {n \in Nat : \E s \in SUBSET S : Cardinality(s) = n /\ ~Fine(s)}
  <1>3. T = {}
    <2> SUFFICES ASSUME T # {} PROVE FALSE
      OBVIOUS
    <2>1. PICK m \in T : m = 0 \/ m - 1 \in Nat \ T
      BY FirstOf
    <2>2. PICK s \in SUBSET S : Cardinality(s) = m /\ ~Fine(s)
      BY <2>1
    <2>3. CASE s = {}
      <3>1. g[s] = 0 /\ Cardinality(s) = 0
        BY <1>2, <2>3, FS_EmptySet DEF Folded
      <3>2. each * 0 = 0
        OBVIOUS
      <3> QED
        BY <2>2, <3>1, <3>2
    <2>4. CASE s # {}
      <3> DEFINE t == s \ {Pick(s)}
                 x == Pick(s)
      <3>1. x \in S /\ t \in SUBSET S /\ Cardinality(t) = m - 1 /\ m # 0
        BY <2>2, <2>4, SmallerSet
      <3>2. g[s] = f[x] + g[t]
        BY <1>2, <2>4 DEF Folded
      <3>3. Fine(t)
        BY <2>1, <3>1
      <3>4. f[x] = each /\ m \in Nat
        BY <3>1
      <3> HIDE DEF t, x
      <3>5. each * m = each * (m - 1) + each /\ each * (m - 1) \in Int
        BY <3>4
      <3> QED
        BY <2>2, <3>1, <3>2, <3>3, <3>4, <3>5
    <2> QED
      BY <2>3, <2>4
  <1>4. Fine(S)
    BY <1>3, FS_CardinalityType
  <1> QED
    BY <1>4, TotalChosen DEF g

(* The mean, rounded down. *)
LEMMA Mean ==
  ASSUME NEW sum \in Nat, NEW n \in Nat \ {0}, NEW most \in Nat
  PROVE  /\ sum \div n \in Nat
         /\ sum <= most * n => sum \div n <= most
         /\ sum = most * n => sum \div n = most
  <1> DEFINE q == sum \div n
  <1>1. q \in Nat
    OBVIOUS
  <1>2. n * q <= sum /\ sum < n * q + n
    OBVIOUS
  <1> HIDE DEF q
  <1>3. ASSUME NEW a \in Nat, NEW b \in Nat, a < b PROVE a * n + n <= b * n
    <2> DEFINE d == b - a - 1
    <2>1. d \in Nat /\ b = a + 1 + d
      BY <1>3
    <2> HIDE DEF d
    <2>2. d * n \in Nat /\ (a + 1 + d) * n = a * n + n + d * n
      BY <2>1
    <2>3. a * n \in Nat
      OBVIOUS
    <2> QED
      BY <2>1, <2>2, <2>3
  <1>4. q * n = n * q /\ q * n \in Nat /\ most * n \in Nat
    BY <1>1
  <1>5. ~(sum <= most * n /\ most < q)
    BY <1>1, <1>2, <1>3, <1>4
  <1>6. ~(sum = most * n /\ q < most)
    BY <1>1, <1>2, <1>3, <1>4
  <1> QED
    BY <1>1, <1>5, <1>6 DEF q

-----------------------------------------------------------------------------
(* PassedIsTrue (EmbeddedLatency) for any ports, times and limits.           *)
(*                                                                           *)
(* What was measured of the unit is no less than it took, or is no result;   *)
(* and nothing is left of an earlier test when a new one begins.             *)

LatencyCalls ==
    {"failed", "ok", "loopback?", "cables?", "ate?", "unitCables?", "loopback",
     "unit", "ateConfigure", "ateCables?"}

LatencyTypes ==
    /\ latencyCall \in LatencyCalls /\ pair \in Nat \ {0} /\ vlan \in Nat
    /\ stale \in BOOLEAN /\ skipped \in BOOLEAN
    /\ loopback \in [FiberPaths -> Int] /\ unit \in [UnitPaths -> Int]
    /\ unitTime \in [UnitPaths -> {NotRun} \cup UnitTimes]
    /\ switchTime \in Nat /\ verdict \in {"none", "passed", "failed"}

(* Sockets are open only on a path that is there. *)
Walk == vlan # 0 => Testing /\ vlan \in 1..Lanes

Taken(p) == StoreForward[p[1]] + (IF p[1] \in PortsOf(Fiber) THEN switchTime ELSE 0)

Measured ==
    \A p \in UnitPaths :
        \/ unitTime[p] = NotRun \/ unit[p] = Invalid
        \/ unitTime[p] + Taken(p) <= unit[p]

Fresh ==
    /\ latencyCall \notin {"unit", "ok"} => unitTime = None(UnitPaths)
    /\ skipped \/ latencyCall \in {"loopback?", "cables?"} => loopback = None(FiberPaths)
    /\ latencyCall \in {"cables?", "loopback"} => ~skipped

LatencyInv == LatencyTypes /\ Walk /\ Measured /\ Fresh /\ PassedIsTrue

LEMMA Limits ==
  /\ Threshold \in Nat /\ LoopbackLimit \in Nat /\ DefaultSwitch \in Nat /\ Vlans \in Nat \ {0}
  /\ SwitchTimes \subseteq Nat /\ UnitTimes \subseteq Nat \ {0} /\ Early \subseteq Nat
  /\ Fiber \in Seq(Nat) /\ Copper \in Seq(Nat) /\ Len(Fiber) \in Nat /\ Len(Copper) \in Nat
  /\ NotRun = -1 /\ Invalid = 0
  BY LatencyAssumption, LenProperties DEF NotRun, Invalid

LEMMA PathsAreFinite == IsFiniteSet(FiberPaths)
  <1> DEFINE Index == (1..Len(Fiber)) \X (1..Vlans)
             path == [x \in Index |-> <<Fiber[x[1]], x[2]>>]
  <1>1. IsFiniteSet(1..Len(Fiber)) /\ IsFiniteSet(1..Vlans)
    <2>1. Len(Fiber) \in Int /\ Vlans \in Int /\ 1 \in Int
      BY Limits
    <2> QED
      BY <2>1, FS_Interval
  <1>2. IsFiniteSet(Index)
    BY <1>1, FS_Product
  <1>3. path \in Surjection(Index, FiberPaths)
    <2>1. \A x \in Index : path[x] \in FiberPaths
      BY DEF FiberPaths, PathsOf
    <2>2. ASSUME NEW p \in FiberPaths PROVE \E x \in Index : path[x] = p
      <3>1. PICK i \in 1..Len(Fiber), v \in 1..Vlans : p = <<Fiber[i], v>>
        BY DEF FiberPaths, PathsOf
      <3>2. <<i, v>> \in Index /\ path[<<i, v>>] = p
        BY <3>1
      <3> QED
        BY <3>2
    <2> QED
      BY <2>1, <2>2 DEF Surjection
  <1> QED
    BY <1>2, <1>3, FS_Surjection

(* The paths of a test. *)
LEMMA PathIs ==
  ASSUME LatencyTypes, Walk, vlan > 0
  PROVE  /\ latencyCall = "loopback" => Path \in FiberPaths
         /\ latencyCall = "unit" => /\ Path \in UnitPaths /\ Path[1] = Pairs[pair]
                                    /\ pair <= Len(Fiber) <=> Path[1] \in PortsOf(Fiber)
         /\ vlan \in Nat /\ Lanes \in Nat /\ vlan <= Lanes /\ pair <= Len(Pairs)
         /\ latencyCall \in {"loopback", "unit"}
  <1>1. /\ Testing /\ vlan \in 1..Lanes /\ pair \in Nat \ {0} /\ pair <= Len(Pairs)
        /\ latencyCall \in {"loopback", "unit"} /\ Lanes \in Nat
    BY Limits DEF Walk, LatencyTypes, Testing, Lanes
  <1>2. vlan \in Nat /\ vlan <= Lanes
    BY <1>1
  <1>3. ASSUME latencyCall = "loopback" PROVE Path \in FiberPaths
    <2>1. Pairs = Fiber /\ pair \in 1..Len(Fiber)
      BY <1>1, <1>3, Limits DEF Pairs
    <2>2. vlan \in 1..Vlans
      BY <1>1, <2>1 DEF Lanes
    <2> QED
      BY <2>1, <2>2 DEF Path, FiberPaths, PathsOf
  <1>4. ASSUME latencyCall = "unit"
        PROVE  /\ Path \in UnitPaths /\ Path[1] = Pairs[pair]
               /\ pair <= Len(Fiber) <=> Path[1] \in PortsOf(Fiber)
    <2> DEFINE port == Pairs[pair]
    <2>1. /\ Len(Pairs) = Len(Fiber) + Len(Copper)
          /\ port = IF pair <= Len(Fiber) THEN Fiber[pair] ELSE Copper[pair - Len(Fiber)]
      <3>1. Pairs = Fiber \o Copper
        BY <1>4 DEF Pairs
      <3>2. /\ Len(Fiber \o Copper) = Len(Fiber) + Len(Copper)
            /\ \A i \in 1 .. Len(Fiber) + Len(Copper) : (Fiber \o Copper)[i] =
                 IF i <= Len(Fiber) THEN Fiber[i] ELSE Copper[i - Len(Fiber)]
        BY Limits, ConcatProperties
      <3>3. pair \in 1 .. Len(Fiber) + Len(Copper)
        BY <1>1, <3>1, <3>2, Limits
      <3> QED
        BY <3>1, <3>2, <3>3
    <2>2. Path = <<port, vlan>> /\ Path[1] = port
      BY DEF Path
    <2> HIDE DEF port
    <2>3. CASE pair <= Len(Fiber)
      <3>1. pair \in 1..Len(Fiber) /\ vlan \in 1..Vlans /\ port = Fiber[pair]
        BY <1>1, <2>1, <2>3, Limits DEF Lanes
      <3> QED
        BY <2>2, <2>3, <3>1 DEF UnitPaths, FiberPaths, PathsOf, PortsOf, port
    <2>4. CASE ~(pair <= Len(Fiber))
      <3>1. /\ pair - Len(Fiber) \in 1..Len(Copper) /\ vlan \in 1..1
            /\ port = Copper[pair - Len(Fiber)]
        BY <1>1, <2>1, <2>4, Limits DEF Lanes
      <3>2. port \in PortsOf(Copper)
        BY <3>1 DEF PortsOf
      <3>3. port \notin PortsOf(Fiber)
        BY <3>2, LatencyAssumption
      <3> QED
        BY <2>2, <2>4, <3>1, <3>3 DEF UnitPaths, CopperPaths, PathsOf, port
    <2> QED
      BY <2>3, <2>4
  <1> QED
    BY <1>1, <1>2, <1>3, <1>4

(* What is taken off for the switch. *)
LEMMA TakenOff ==
  ASSUME LatencyTypes, Fresh, LoopbackFails = {}, NEW port
  PROVE  /\ LoopbackLatency(port) \in Int /\ Excess(port) \in Int
         /\ LoopbackLatency(port) <= (IF port \in PortsOf(Fiber) THEN switchTime ELSE 0) + Excess(port)
  <1>1. switchTime \in Nat /\ DefaultSwitch \in Nat /\ LoopbackLimit \in Nat
    BY Limits DEF LatencyTypes
  <1>2. CASE port \notin PortsOf(Fiber)
    <2>1. LoopbackLatency(port) = 0 /\ Excess(port) = 0
      BY <1>2, Zenon DEF LoopbackLatency, Excess
    <2> QED
      BY <1>1, <1>2, <2>1
  <1>3. CASE port \in PortsOf(Fiber) /\ Valid(port) = {}
    <2>1. LoopbackLatency(port) = DefaultSwitch /\ Excess(port) = DefaultSwitch - switchTime
      BY <1>3 DEF LoopbackLatency, Excess
    <2> QED
      BY <1>1, <1>3, <2>1
  <1>4. CASE port \in PortsOf(Fiber) /\ Valid(port) # {}
    <2> DEFINE V == Valid(port)
    <2>1. \A p \in V : p \in FiberPaths /\ loopback[p] > 0
      BY Limits DEF Valid
    <2>2. V \subseteq FiberPaths
      BY <2>1
    <2>3. ~skipped
      <3>1. \A p \in V : loopback[p] # NotRun
        BY <2>1, Limits
      <3>2. skipped => \A p \in FiberPaths : loopback[p] = NotRun
        BY DEF Fresh, None
      <3> QED
        BY <1>4, <2>2, <3>1, <3>2
    <2>4. LoopbackLatency(port) = Total(loopback, V) \div Cardinality(V)
      BY <1>4, <2>3 DEF LoopbackLatency, Total
    <2>5. Excess(port) = IF \A p \in V : loopback[p] = switchTime THEN 0 ELSE LoopbackLimit - switchTime
      BY <1>4 DEF Excess
    <2>6. \A p \in V : loopback[p] \in Nat /\ loopback[p] <= LoopbackLimit
      <3>1. \A p \in FiberPaths : loopback[p] \in Int
        BY DEF LatencyTypes
      <3>2. \A p \in FiberPaths : ~(loopback[p] > LoopbackLimit)
        BY DEF LoopbackFails
      <3> QED
        BY <1>1, <2>1, <3>1, <3>2
    <2>7. IsFiniteSet(V) /\ Cardinality(V) \in Nat \ {0}
      <3>1. IsFiniteSet(V)
        BY <2>2, PathsAreFinite, FS_Subset
      <3> QED
        BY <1>4, <3>1, FS_CardinalityType, FS_EmptySet
    <2> HIDE DEF V
    <2>8. Total(loopback, V) \in Nat /\ Total(loopback, V) <= LoopbackLimit * Cardinality(V)
      BY <1>1, <2>6, <2>7, TotalBounded
    <2>9. LoopbackLatency(port) \in Nat /\ LoopbackLatency(port) <= LoopbackLimit
      BY <1>1, <2>4, <2>7, <2>8, Mean
    <2>10. CASE \A p \in V : loopback[p] = switchTime
      <3>1. Total(loopback, V) = switchTime * Cardinality(V)
        BY <1>1, <2>7, <2>10, TotalEven
      <3>2. LoopbackLatency(port) = switchTime
        BY <1>1, <2>4, <2>7, <2>8, <3>1, Mean
      <3> QED
        BY <1>1, <1>4, <2>5, <2>10, <3>2
    <2>11. CASE ~ \A p \in V : loopback[p] = switchTime
      BY <1>1, <1>4, <2>5, <2>9, <2>11
    <2> QED
      BY <2>10, <2>11
  <1> QED
    BY <1>2, <1>3, <1>4

(* A verdict without failures is true. *)
LEMMA NoFailures ==
  ASSUME LatencyTypes, Measured, Fresh, LoopbackFails = {}, UnitFails = {},
         NEW p \in UnitPaths, unitTime[p] # NotRun
  PROVE  unit[p] # Invalid /\ unitTime[p] <= Threshold + Excess(p[1])
  <1> DEFINE ll == LoopbackLatency(p[1])
             sf == StoreForward[p[1]]
             off == IF p[1] \in PortsOf(Fiber) THEN switchTime ELSE 0
  <1>1. /\ unit[p] \in Int /\ unitTime[p] \in Nat \ {0} /\ off \in Nat /\ Threshold \in Nat
    BY Limits DEF LatencyTypes
  <1>2. sf \in Nat
    <2>1. p[1] \in PortsOf(Fiber) \cup PortsOf(Copper)
      BY DEF UnitPaths, FiberPaths, CopperPaths, PathsOf, PortsOf
    <2> QED
      BY <2>1, LatencyAssumption
  <1>3. unit[p] # Invalid /\ (unit[p] > Invalid => UnitLatency(p) <= Threshold)
    <2>1. UnitLatency(p) \in Int
      BY <1>1, <1>2, TakenOff DEF UnitLatency
    <2> QED
      BY <1>1, <2>1 DEF UnitFails
  <1>4. unitTime[p] + (sf + off) <= unit[p]
    BY <1>3 DEF Measured, Taken
  <1>5. ll \in Int /\ Excess(p[1]) \in Int /\ ll <= off + Excess(p[1])
    BY TakenOff
  <1>6. UnitLatency(p) = IF unit[p] - ll - sf < 0 THEN 0 ELSE unit[p] - ll - sf
    BY DEF UnitLatency
  <1> HIDE DEF ll, sf, off
  <1>7. unit[p] > Invalid
    BY <1>1, <1>2, <1>4, Limits
  <1>8. unit[p] - ll - sf <= Threshold
    BY <1>1, <1>2, <1>3, <1>5, <1>6, <1>7
  <1> QED
    BY <1>1, <1>2, <1>3, <1>4, <1>5, <1>8

LEMMA NoneIs == ASSUME NEW S PROVE None(S) \in [S -> Int] /\ None(S) \in [S -> {NotRun} \cup UnitTimes]
  BY DEF None, NotRun

LEMMA LatencyStart == LatencyInit => LatencyInv
  <1> SUFFICES ASSUME LatencyInit PROVE LatencyInv
    OBVIOUS
  <1>1. LatencyTypes
    <2>1. loopback \in [FiberPaths -> Int] /\ unit \in [UnitPaths -> Int]
      BY NoneIs, Zenon DEF LatencyInit
    <2>2. unitTime \in [UnitPaths -> {NotRun} \cup UnitTimes]
      BY NoneIs, Zenon DEF LatencyInit
    <2>3. stale \in BOOLEAN /\ skipped \in BOOLEAN
      BY Zenon DEF LatencyInit
    <2>4. pair \in Nat \ {0} /\ vlan \in Nat /\ verdict \in {"none", "passed", "failed"}
      BY DEF LatencyInit
    <2>5. switchTime \in Nat /\ latencyCall \in LatencyCalls
      BY Limits DEF LatencyInit, LatencyCalls
    <2> QED
      BY <2>1, <2>2, <2>3, <2>4, <2>5 DEF LatencyTypes
  <1>2. Walk /\ Fresh /\ PassedIsTrue
    BY DEF LatencyInit, Walk, Fresh, PassedIsTrue
  <1>3. Measured
    BY DEF LatencyInit, Measured, None
  <1> QED
    BY <1>1, <1>2, <1>3 DEF LatencyInv

(* A new test begins with nothing of the last. *)
LEMMA NewTest ==
  ASSUME NoTest, switchTime' \in Nat, latencyCall' \in {"failed", "loopback?"}
  PROVE  LatencyInv'
  <1>1. LatencyTypes'
    <2>1. loopback' \in [FiberPaths -> Int] /\ unit' \in [UnitPaths -> Int]
      BY NoneIs, Zenon DEF NoTest
    <2>2. unitTime' \in [UnitPaths -> {NotRun} \cup UnitTimes]
      BY NoneIs, Zenon DEF NoTest
    <2>3. stale' \in BOOLEAN /\ skipped' \in BOOLEAN
      BY Zenon DEF NoTest
    <2>4. pair' \in Nat \ {0} /\ vlan' \in Nat /\ verdict' \in {"none", "passed", "failed"}
      BY DEF NoTest
    <2>5. switchTime' \in Nat /\ latencyCall' \in LatencyCalls
      BY Limits DEF NoTest, LatencyCalls
    <2> QED
      BY <2>1, <2>2, <2>3, <2>4, <2>5 DEF LatencyTypes
  <1>2. Walk' /\ Fresh' /\ PassedIsTrue'
    BY DEF NoTest, Walk, Fresh, PassedIsTrue
  <1>3. Measured'
    BY DEF NoTest, Measured, None
  <1> QED
    BY <1>1, <1>2, <1>3 DEF LatencyInv

(* An answer, or the end of a test, leaves what was measured as it is. *)
LEMMA NothingMeasured ==
  ASSUME LatencyInv, UNCHANGED <<loopback, unit, switchTime, unitTime>>
  PROVE  Measured'
  BY DEF LatencyInv, Measured, Taken

LEMMA Answered ==
  ASSUME LatencyInv, AskLoopback \/ AskLoopbackCables \/ AskAteMode \/ AskUnitCables
  PROVE  LatencyInv'
  <1>1. /\ UNCHANGED <<pair, vlan, stale, loopback, unit, switchTime, unitTime, verdict>>
        /\ latencyCall' \in LatencyCalls \ {"ok"} /\ skipped' \in BOOLEAN
        /\ latencyCall \in {"loopback?", "cables?", "ate?", "unitCables?"}
    BY DEF AskLoopback, AskLoopbackCables, AskAteMode, AskUnitCables, Ask, position,
           LatencyCalls, LatencyInv, LatencyTypes
  <1>2. LatencyTypes'
    BY <1>1 DEF LatencyInv, LatencyTypes
  <1>3. Walk' /\ PassedIsTrue'
    BY <1>1 DEF LatencyInv, Walk, Testing, PassedIsTrue
  <1>4. Measured'
    BY <1>1, NothingMeasured
  <1>5. Fresh'
    BY <1>1 DEF LatencyInv, Fresh, AskLoopback, AskLoopbackCables, AskAteMode,
                AskUnitCables, Ask
  <1> QED
    BY <1>2, <1>3, <1>4, <1>5 DEF LatencyInv

LEMMA SocketsOpened == ASSUME LatencyInv, OpenSockets PROVE LatencyInv'
  <1>1. /\ UNCHANGED <<latencyCall, loopback, skipped, unit, switchTime, unitTime, verdict>>
        /\ Testing /\ vlan = 0
        /\ \/ vlan' = 1 /\ pair' = pair /\ stale' = stale
           \/ vlan' = 0 /\ pair' = pair + 1 /\ stale' = FALSE
    <2>1. UNCHANGED <<latencyCall, results>> /\ Testing /\ vlan = 0
      BY DEF OpenSockets
    <2>2. \/ vlan' = 1 /\ UNCHANGED <<pair, stale>>
          \/ NextPair
      BY DEF OpenSockets, May
    <2>3. UNCHANGED <<loopback, skipped, unit, switchTime, unitTime, verdict>>
      BY <2>1 DEF results
    <2> QED
      BY <2>1, <2>2, <2>3, Zenon DEF NextPair
  <1>2. LatencyTypes'
    <2>1. stale' \in BOOLEAN
      BY <1>1, Zenon DEF LatencyInv, LatencyTypes
    <2>2. pair' \in Nat \ {0} /\ vlan' \in Nat
      BY <1>1 DEF LatencyInv, LatencyTypes
    <2> QED
      BY <1>1, <2>1, <2>2 DEF LatencyInv, LatencyTypes
  <1>3. Walk'
    <2>1. Lanes \in Nat \ {0}
      BY Limits DEF Lanes
    <2> QED
      BY <1>1, <2>1 DEF Walk, Testing, Pairs, Lanes
  <1>4. Measured'
    BY <1>1, NothingMeasured
  <1>5. Fresh' /\ PassedIsTrue'
    BY <1>1 DEF LatencyInv, Fresh, PassedIsTrue, Testing
  <1> QED
    BY <1>2, <1>3, <1>4, <1>5 DEF LatencyInv

(* A measurement: it is recorded, and the walk goes on. *)
LEMMA Recorded ==
  ASSUME LatencyTypes, Walk, vlan > 0, NEW outcome, outcome.stale \in BOOLEAN, Record(outcome),
         latencyCall' = latencyCall
  PROVE  Walk' /\ pair' \in Nat \ {0} /\ vlan' \in Nat /\ stale' \in BOOLEAN
  <1>1. Testing /\ pair \in Nat \ {0} /\ vlan \in Nat /\ Lanes \in Nat
    BY Limits DEF Walk, LatencyTypes, Lanes
  <1>2. CASE vlan < Lanes
    <2>1. vlan' = vlan + 1 /\ pair' = pair /\ stale' = outcome.stale
      BY <1>2 DEF Record
    <2>2. Testing' /\ Lanes' = Lanes
      BY <1>1, <2>1 DEF Testing, Pairs, Lanes
    <2> QED
      BY <1>1, <1>2, <2>1, <2>2 DEF Walk
  <1>3. CASE ~(vlan < Lanes)
    <2>1. vlan' = 0 /\ pair' = pair + 1 /\ stale' = FALSE
      BY <1>3, Zenon DEF Record, NextPair
    <2>2. Walk'
      BY <2>1 DEF Walk
    <2>3. stale' \in BOOLEAN
      BY <2>1, Zenon
    <2> QED
      BY <1>1, <2>1, <2>2, <2>3
  <1> QED
    BY <1>2, <1>3

(* A result is never less than what was measured, unless there is none. *)
LEMMA NoLess ==
  ASSUME NEW took \in Nat, NEW outcome \in Sound(took) \cup Faulty(took), stale \in BOOLEAN
  PROVE  /\ outcome.value \in Int /\ (outcome.value = Invalid \/ took <= outcome.value)
         /\ outcome.stale \in BOOLEAN
  <1>1. outcome.value \in {Invalid, took} \cup TooLong(took) /\ outcome.stale \in BOOLEAN
    BY DEF Sound, Faulty
  <1>2. \A late \in TooLong(took) : late \in Int /\ took <= late
    BY Limits DEF TooLong
  <1> QED
    BY <1>1, <1>2, Limits

LEMMA LoopbackMeasured == ASSUME LatencyInv, LoopbackSingleTest PROVE LatencyInv'
  <1>1. /\ UNCHANGED <<latencyCall, skipped, unit, switchTime, unitTime, verdict>>
        /\ latencyCall = "loopback" /\ vlan > 0
    BY DEF LoopbackSingleTest
  <1>2. LatencyTypes /\ Walk /\ Fresh /\ Measured
    BY DEF LatencyInv
  <1>3. Path \in FiberPaths /\ switchTime \in Nat /\ stale \in BOOLEAN
    BY <1>1, <1>2, PathIs DEF LatencyTypes
  <1>4. PICK outcome \in Sound(switchTime) \cup Faulty(switchTime) :
           loopback' = [loopback EXCEPT ![Path] = outcome.value] /\ Record(outcome)
    BY DEF LoopbackSingleTest
  <1>5. outcome.value \in Int /\ outcome.stale \in BOOLEAN
    BY <1>3, NoLess
  <1>6. Walk' /\ pair' \in Nat \ {0} /\ vlan' \in Nat /\ stale' \in BOOLEAN
    BY <1>1, <1>2, <1>4, <1>5, Recorded
  <1>7. loopback' \in [FiberPaths -> Int]
    BY <1>2, <1>3, <1>4, <1>5 DEF LatencyTypes
  <1>8. LatencyTypes'
    BY <1>1, <1>2, <1>6, <1>7 DEF LatencyTypes
  <1>9. Measured'
    BY <1>1, <1>2 DEF Measured, Taken
  <1>10. Fresh' /\ PassedIsTrue'
    BY <1>1, <1>2 DEF Fresh, PassedIsTrue
  <1> QED
    BY <1>6, <1>8, <1>9, <1>10 DEF LatencyInv

LEMMA UnitMeasured == ASSUME LatencyInv, UnitSingleTest PROVE LatencyInv'
  <1>1. /\ UNCHANGED <<latencyCall, loopback, skipped, switchTime, verdict>>
        /\ latencyCall = "unit" /\ vlan > 0
    BY DEF UnitSingleTest
  <1>2. LatencyTypes /\ Walk /\ Fresh /\ Measured
    BY DEF LatencyInv
  <1>3. /\ Path \in UnitPaths /\ Path[1] = Pairs[pair]
        /\ pair <= Len(Fiber) <=> Path[1] \in PortsOf(Fiber)
        /\ switchTime \in Nat /\ stale \in BOOLEAN
    BY <1>1, <1>2, PathIs DEF LatencyTypes
  <1>4. Taken(Path) \in Nat
    <2>1. Path[1] \in PortsOf(Fiber) \cup PortsOf(Copper)
      BY <1>3 DEF UnitPaths, FiberPaths, CopperPaths, PathsOf, PortsOf
    <2>2. StoreForward[Path[1]] \in Nat
      BY <2>1, LatencyAssumption
    <2> QED
      BY <1>3, <2>2 DEF Taken
  <1> DEFINE Took(time) == time + StoreForward[Pairs[pair]]
                           + (IF pair <= Len(Fiber) THEN switchTime ELSE 0)
  <1>5. PICK time \in UnitTimes : \E outcome \in Sound(Took(time)) \cup Faulty(Took(time)) :
           /\ unit' = [unit EXCEPT ![Path] = outcome.value]
           /\ unitTime' = [unitTime EXCEPT ![Path] = time]
           /\ Record(outcome)
    BY Zenon DEF UnitSingleTest
  <1>6. Took(time) = time + Taken(Path) /\ Took(time) \in Nat /\ time \in Nat
    <2>1. time \in Nat
      BY Limits
    <2>2. StoreForward[Path[1]] \in Nat
      <3>1. Path[1] \in PortsOf(Fiber) \cup PortsOf(Copper)
        BY <1>3 DEF UnitPaths, FiberPaths, CopperPaths, PathsOf, PortsOf
      <3> QED
        BY <3>1, LatencyAssumption
    <2> QED
      BY <1>3, <2>1, <2>2 DEF Taken
  <1> HIDE DEF Took
  <1>7. PICK outcome \in Sound(Took(time)) \cup Faulty(Took(time)) :
           /\ unit' = [unit EXCEPT ![Path] = outcome.value]
           /\ unitTime' = [unitTime EXCEPT ![Path] = time]
           /\ Record(outcome)
    BY <1>5
  <1>8. /\ outcome.value \in Int /\ outcome.stale \in BOOLEAN
        /\ outcome.value = Invalid \/ time + Taken(Path) <= outcome.value
    BY <1>3, <1>6, NoLess
  <1>9. Walk' /\ pair' \in Nat \ {0} /\ vlan' \in Nat /\ stale' \in BOOLEAN
    BY <1>1, <1>2, <1>7, <1>8, Recorded
  <1>10. unit' \in [UnitPaths -> Int] /\ unitTime' \in [UnitPaths -> {NotRun} \cup UnitTimes]
    BY <1>2, <1>3, <1>7, <1>8 DEF LatencyTypes
  <1>11. LatencyTypes'
    BY <1>1, <1>2, <1>9, <1>10 DEF LatencyTypes
  <1>12. Measured'
    <2> SUFFICES ASSUME NEW p \in UnitPaths
                 PROVE  \/ unitTime'[p] = NotRun \/ unit'[p] = Invalid
                        \/ unitTime'[p] + Taken(p) <= unit'[p]
      BY <1>1 DEF Measured, Taken
    <2>1. CASE p = Path
      BY <1>2, <1>3, <1>7, <1>8, <2>1 DEF LatencyTypes
    <2>2. CASE p # Path
      BY <1>2, <1>7, <2>2 DEF LatencyTypes, Measured
    <2> QED
      BY <2>1, <2>2
  <1>13. Fresh' /\ PassedIsTrue'
    BY <1>1, <1>2 DEF Fresh, PassedIsTrue
  <1> QED
    BY <1>9, <1>11, <1>12, <1>13 DEF LatencyInv

(* The tests end, and the verdict is given. *)
LEMMA LoopbackRun == ASSUME LatencyInv, RunLoopback PROVE LatencyInv'
  <1>1. /\ UNCHANGED <<vlan, stale, loopback, skipped, unit, switchTime, unitTime, verdict>>
        /\ latencyCall = "loopback" /\ ~Testing /\ latencyCall' = "ate?" /\ pair' = 1
    BY DEF RunLoopback, results
  <1>2. vlan = 0
    BY <1>1 DEF LatencyInv, Walk
  <1>3. LatencyTypes' /\ Walk' /\ Fresh' /\ PassedIsTrue'
    BY <1>1, <1>2 DEF LatencyInv, LatencyTypes, LatencyCalls, Walk, Fresh, PassedIsTrue
  <1>4. Measured'
    BY <1>1, NothingMeasured
  <1> QED
    BY <1>3, <1>4 DEF LatencyInv

LEMMA UnitRun == ASSUME LatencyInv, RunUnitTest PROVE LatencyInv'
  <1>1. /\ UNCHANGED <<pair, vlan, stale, loopback, skipped, unit, switchTime, unitTime>>
        /\ latencyCall = "unit" /\ ~Testing /\ latencyCall' = "ok"
        /\ Verdict(LoopbackFails \cup UnitFails)
    BY DEF RunUnitTest, position
  <1>2. vlan = 0 /\ LatencyTypes /\ Measured /\ Fresh
    BY <1>1 DEF LatencyInv, Walk
  <1>3. verdict' \in {"passed", "failed"}
    BY <1>1 DEF Verdict
  <1>4. LatencyTypes' /\ Walk' /\ Fresh'
    BY <1>1, <1>2, <1>3 DEF LatencyTypes, LatencyCalls, Walk, Fresh
  <1>5. Measured'
    BY <1>1, NothingMeasured
  <1>6. PassedIsTrue'
    <2> SUFFICES ASSUME verdict' = "passed", NEW p \in UnitPaths, unitTime[p] # NotRun
                 PROVE  unit[p] # Invalid /\ unitTime[p] <= Threshold + Excess(p[1])'
      BY <1>1 DEF PassedIsTrue
    <2>1. LoopbackFails = {} /\ UnitFails = {}
      BY <1>1 DEF Verdict
    <2>2. unit[p] # Invalid /\ unitTime[p] <= Threshold + Excess(p[1])
      BY <1>2, <2>1, NoFailures
    <2>3. Excess(p[1])' = Excess(p[1])
      BY <1>1 DEF Excess, Valid
    <2> QED
      BY <2>2, <2>3
  <1> QED
    BY <1>4, <1>5, <1>6 DEF LatencyInv

LEMMA AteAnswered == ASSUME LatencyInv, AskAteCables \/ AteConfigured PROVE LatencyInv'
  <1>1. /\ UNCHANGED <<pair, vlan, stale, loopback, skipped, unit, switchTime, unitTime>>
        /\ latencyCall \in {"ateCables?", "ateConfigure"}
        /\ latencyCall' \in {"ateCables?", "ok"}
        /\ verdict' \in {"none", "passed", "failed"}
    BY DEF AskAteCables, AteConfigured, position, results, Verdict, LatencyInv, LatencyTypes
  <1>2. vlan = 0 /\ LatencyTypes /\ Fresh
    BY <1>1 DEF LatencyInv, Walk, Testing
  <1>3. LatencyTypes' /\ Walk' /\ Fresh'
    BY <1>1, <1>2 DEF LatencyTypes, LatencyCalls, Walk, Fresh
  <1>4. Measured'
    BY <1>1, NothingMeasured
  <1>5. PassedIsTrue'
    BY <1>1, <1>2 DEF Fresh, None, PassedIsTrue
  <1> QED
    BY <1>3, <1>4, <1>5 DEF LatencyInv

LEMMA LatencyKept == LatencyInv /\ [LatencyNext]_latencyVars => LatencyInv'
  <1> SUFFICES ASSUME LatencyInv, [LatencyNext]_latencyVars PROVE LatencyInv'
    OBVIOUS
  <1>1. CASE AskLoopback \/ AskLoopbackCables \/ AskAteMode \/ AskUnitCables
    BY <1>1, Answered
  <1>2. CASE OpenSockets
    BY <1>2, SocketsOpened
  <1>3. CASE LoopbackSingleTest
    BY <1>3, LoopbackMeasured
  <1>4. CASE UnitSingleTest
    BY <1>4, UnitMeasured
  <1>5. CASE RunLoopback
    BY <1>5, LoopbackRun
  <1>6. CASE RunUnitTest
    BY <1>6, UnitRun
  <1>7. CASE AskAteCables \/ AteConfigured
    BY <1>7, AteAnswered
  <1>8. CASE FullSequence
    BY <1>8, NewTest, Limits DEF FullSequence
  <1>9. CASE LatencyForgotten
    BY <1>9, NewTest, Limits DEF LatencyForgotten
  <1>10. CASE UNCHANGED latencyVars
    <2>1. LatencyTypes' /\ Walk' /\ Fresh'
      BY <1>10 DEF LatencyInv, latencyVars, LatencyTypes, Walk, Testing, Pairs, Lanes, Fresh
    <2>2. Measured'
      BY <1>10, NothingMeasured DEF latencyVars
    <2>3. \A port : Excess(port)' = Excess(port)
      BY <1>10 DEF latencyVars, Excess, Valid
    <2>4. PassedIsTrue'
      BY <1>10, <2>3 DEF LatencyInv, latencyVars, PassedIsTrue
    <2> QED
      BY <2>1, <2>2, <2>4 DEF LatencyInv
  <1> QED
    BY <1>1, <1>2, <1>3, <1>4, <1>5, <1>6, <1>7, <1>8, <1>9, <1>10 DEF LatencyNext, LatencyStep

(* A latency test that is reported as passed tells the truth about the unit, *)
(* with any ports, limits, times and delays: EmbeddedLatency.c.              *)
THEOREM PassedMeansTrue == LatencySpec => []PassedIsTrue
  <1>1. LatencyInv => PassedIsTrue
    BY DEF LatencyInv
  <1> QED
    BY <1>1, LatencyStart, LatencyKept, PTL DEF LatencySpec

-----------------------------------------------------------------------------
(* The set-up as a whole uses the server, the switch, the remote directories *)
(* and the latency test only as their own modules describe, so that what is  *)
(* proved of them holds of it.                                               *)

(* Every step is a step of the server, or leaves it alone. *)
LEMMA ServerStepOf == [Next]_vars => [ServerNext]_serverVars
  <1> SUFFICES ASSUME [Next]_vars PROVE [ServerNext]_serverVars
    OBVIOUS
  <1>1. CASE Start
    BY <1>1 DEF Start, ServerNext
  <1>2. CASE WorkDone
    BY <1>2 DEF WorkDone, ServerNext
  <1>3. CASE Interrupted
    BY <1>3 DEF Interrupted, ServerNext
  <1>4. CASE ServerAction
    BY <1>4 DEF ServerAction, ServerNext
  <1>5. CASE ServerIsOn \/ InterfacesDeployed \/ VlansConfigured \/ ProgramStarted
             \/ AteConfiguration \/ LatencyTested
    BY <1>5 DEF ServerIsOn, InterfacesDeployed, VlansConfigured, ProgramStarted,
                AteConfiguration, LatencyTested
  <1>6. CASE ServerIsOff \/ GiveUp \/ Between \/ SwitchAction \/ DeployAction
             \/ LatencyAction
    BY <1>6 DEF ServerIsOff, GiveUp, Between, SwitchAction, DeployAction,
                LatencyAction
  <1>7. CASE UNCHANGED vars
    BY <1>7 DEF vars
  <1> QED
    BY <1>1, <1>2, <1>3, <1>4, <1>5, <1>6, <1>7 DEF Next

LEMMA SwitchStepOf == [Next]_vars => [SwitchNext]_switchVars
  <1> SUFFICES ASSUME [Next]_vars PROVE [SwitchNext]_switchVars
    OBVIOUS
  <1>1. CASE ServerIsOn
    BY <1>1 DEF ServerIsOn, SwitchNext
  <1>2. CASE InterfacesDeployed
    BY <1>2 DEF InterfacesDeployed, SwitchNext
  <1>3. CASE AteConfiguration
    BY <1>3 DEF AteConfiguration, SwitchNext
  <1>4. CASE Interrupted
    BY <1>4 DEF Interrupted, SwitchNext
  <1>5. CASE Between
    BY <1>5 DEF Between, SwitchNext
  <1>6. CASE SwitchAction
    BY <1>6 DEF SwitchAction, SwitchNext
  <1>7. CASE Start \/ VlansConfigured \/ ProgramStarted \/ LatencyTested \/ WorkDone
    BY <1>7 DEF Start, VlansConfigured, ProgramStarted, LatencyTested, WorkDone
  <1>8. CASE ServerIsOff \/ GiveUp \/ ServerAction \/ DeployAction \/ LatencyAction
    BY <1>8 DEF ServerIsOff, GiveUp, ServerAction, DeployAction, LatencyAction
  <1>9. CASE UNCHANGED vars
    BY <1>9 DEF vars
  <1> QED
    BY <1>1, <1>2, <1>3, <1>4, <1>5, <1>6, <1>7, <1>8, <1>9 DEF Next

LEMMA DeployStepOf == [Next]_vars => [DeployNext]_deployVars
  <1> SUFFICES ASSUME [Next]_vars PROVE [DeployNext]_deployVars
    OBVIOUS
  <1>1. CASE VlansConfigured
    BY <1>1 DEF VlansConfigured, DeployNext
  <1>2. CASE Interrupted
    BY <1>2 DEF Interrupted, DeployNext
  <1>3. CASE Between
    BY <1>3 DEF Between, DeployNext
  <1>4. CASE DeployAction
    BY <1>4 DEF DeployAction, DeployNext
  <1>5. CASE Start \/ ServerIsOn \/ InterfacesDeployed \/ ProgramStarted
             \/ AteConfiguration \/ LatencyTested \/ WorkDone
    BY <1>5 DEF Start, ServerIsOn, InterfacesDeployed, ProgramStarted,
                AteConfiguration, LatencyTested, WorkDone
  <1>6. CASE ServerIsOff \/ GiveUp \/ ServerAction \/ SwitchAction \/ LatencyAction
    BY <1>6 DEF ServerIsOff, GiveUp, ServerAction, SwitchAction, LatencyAction
  <1>7. CASE UNCHANGED vars
    BY <1>7 DEF vars
  <1> QED
    BY <1>1, <1>2, <1>3, <1>4, <1>5, <1>6, <1>7 DEF Next

LEMMA LatencyStepOf == [Next]_vars => [LatencyNext]_latencyVars
  <1> SUFFICES ASSUME [Next]_vars PROVE [LatencyNext]_latencyVars
    OBVIOUS
  <1>1. CASE ProgramStarted
    BY <1>1 DEF ProgramStarted, LatencyNext
  <1>2. CASE AteConfiguration
    BY <1>2 DEF AteConfiguration, LatencyNext
  <1>3. CASE LatencyTested
    BY <1>3 DEF LatencyTested, LatencyNext
  <1>4. CASE Interrupted
    BY <1>4 DEF Interrupted, LatencyNext
  <1>5. CASE LatencyAction
    BY <1>5 DEF LatencyAction, LatencyNext
  <1>6. CASE Start \/ ServerIsOn \/ InterfacesDeployed \/ VlansConfigured \/ WorkDone
    BY <1>6 DEF Start, ServerIsOn, InterfacesDeployed, VlansConfigured, WorkDone
  <1>7. CASE ServerIsOff \/ GiveUp \/ Between
    BY <1>7 DEF ServerIsOff, GiveUp, Between
  <1>8. CASE ServerAction \/ SwitchAction \/ DeployAction
    BY <1>8 DEF ServerAction, SwitchAction, DeployAction
  <1>9. CASE UNCHANGED vars
    BY <1>9 DEF vars
  <1> QED
    BY <1>1, <1>2, <1>3, <1>4, <1>5, <1>6, <1>7, <1>8, <1>9 DEF Next

(* Faults are counted, and nothing else becomes of their number. *)
Counted == NoFault \/ Fault

LEMMA ServerFaults == ServerAlone \/ ServerStep => Counted
  <1> USE DEF Counted, May, GetPowerState, Ping
  <1>1. CASE ServerAlone
    BY <1>1 DEF ServerAlone
  <1>2. CASE CheckOn \/ CheckReachable \/ On \/ ServerOn
    BY <1>2 DEF CheckOn, CheckReachable, On, ServerOn
  <1>3. CASE WaitForPowerOn \/ WaitForPing \/ HardReset
    BY <1>3 DEF WaitForPowerOn, WaitForPing, HardReset
  <1>4. CASE CheckOff \/ Off \/ ServerOff \/ WaitForPowerOff
    BY <1>4 DEF CheckOff, Off, ServerOff, WaitForPowerOff
  <1> QED
    BY <1>1, <1>2, <1>3, <1>4 DEF ServerStep

LEMMA SwitchFaults == SwitchStep \/ Maintenance \/ SwitchReboots => Counted
  <1> USE DEF Counted, May, Command, MoveFile, IfReload, EgressUntagged
  <1>1. CASE Connect \/ AteCumulusTestConnection \/ AteCumulusScpCopy
             \/ IsRemoteInterfacesFileUpToDate \/ FetchBridgeVlanState
    BY <1>1 DEF Connect, AteCumulusTestConnection, AteCumulusScpCopy,
                IsRemoteInterfacesFileUpToDate, FetchBridgeVlanState
  <1>2. CASE CopyFileToPath \/ AteCumulusMove
    BY <1>2 DEF CopyFileToPath, AteCumulusMove
  <1>3. CASE ReloadInterfaces \/ AteCumulusReload
    BY <1>3 DEF ReloadInterfaces, AteCumulusReload
  <1>4. CASE ExecuteBatch \/ AteCumulusConfigureSequence
    BY <1>4 DEF ExecuteBatch, AteCumulusConfigureSequence
  <1>5. CASE Maintenance
    <2>1. ASSUME NEW groups, ConfigureSwp(groups) PROVE Counted
      BY <2>1 DEF ConfigureSwp
    <2> QED
      BY <1>5, <2>1
         DEF Maintenance, ConfigureSwp1325, ConfigureSwp1426, ConfigureSwp1527,
             ConfigureSwp1628, ConfigureSwp1729, ConfigureSwp1830,
             ConfigureSwp1931, ConfigureSwp2032, ConfigureSwp1309,
             ConfigureSwp1410, ConfigureSwp1511, ConfigureSwp1612
  <1>6. CASE SwitchReboots
    BY <1>6 DEF SwitchReboots
  <1> QED
    BY <1>1, <1>2, <1>3, <1>4, <1>5, <1>6 DEF SwitchStep

LEMMA DeployFaults == DeployStep => Counted
  BY DEF DeployStep, DeployConnect, RemoveDirectory, CopyDirectory, RunProgram,
         DetectBuildSystem, BuildWithCMake, CleanFirst, BuildProgram, FetchBinary,
         Remote, Counted, May

LEMMA LatencyFaults == LatencyStep => Counted
  <1> USE DEF Counted, May, Ask
  <1>1. CASE AskLoopback \/ AskLoopbackCables \/ AskAteMode \/ AskUnitCables
             \/ AskAteCables
    BY <1>1 DEF AskLoopback, AskLoopbackCables, AskAteMode, AskUnitCables,
                AskAteCables
  <1>2. CASE OpenSockets
    BY <1>2 DEF OpenSockets
  <1>3. CASE LoopbackSingleTest
    BY <1>3 DEF LoopbackSingleTest
  <1>4. CASE UnitSingleTest
    BY <1>4 DEF UnitSingleTest
  <1>5. CASE RunLoopback \/ RunUnitTest
    BY <1>5 DEF RunLoopback, RunUnitTest
  <1> QED
    BY <1>1, <1>2, <1>3, <1>4, <1>5 DEF LatencyStep

LEMMA FaultsCounted == [Next]_vars => [Fault]_faults
  <1> SUFFICES ASSUME [Next]_vars PROVE Counted
    BY DEF Counted, NoFault
  <1> USE DEF Counted
  <1>1. CASE Start \/ ServerIsOff \/ GiveUp \/ Interrupted \/ LatencyTested
    BY <1>1 DEF Start, ServerIsOff, GiveUp, Interrupted, LatencyTested
  <1>2. CASE ServerIsOn \/ InterfacesDeployed \/ VlansConfigured
    BY <1>2 DEF ServerIsOn, InterfacesDeployed, VlansConfigured,
                DeployNetworkInterfaces, ConfigureSequence, DeployPrebuilt
  <1>3. CASE ProgramStarted \/ AteConfiguration \/ WorkDone
    BY <1>3 DEF ProgramStarted, AteConfiguration, WorkDone, FullSequence,
                AteConfigureCumulus, AteConfigured
  <1>4. CASE Between
    BY <1>4, DeployFaults, SwitchFaults
       DEF Between, PreparePrebuilt, SourceChanges
  <1>5. CASE ServerAction \/ SwitchAction \/ DeployAction \/ LatencyAction
    BY <1>5, ServerFaults, SwitchFaults, DeployFaults, LatencyFaults
       DEF ServerAction, SwitchAction, DeployAction, LatencyAction
  <1>6. CASE UNCHANGED vars
    BY <1>6 DEF vars, NoFault
  <1> QED
    BY <1>1, <1>2, <1>3, <1>4, <1>5, <1>6 DEF Next

(* The whole set-up, run after run, uses the server, the switch, the remote  *)
(* directories and the latency test as described: Dtn.cpp, Vmc.cpp, Cmc.cpp, *)
(* Mmc.cpp, Hsn.cpp (configureSequence), EmbeddedLatency.c (full_sequence).  *)
THEOREM UsesItsParts == Spec => ServerSpec /\ SwitchSpec /\ DeploySpec /\ LatencySpec
  BY ServerStepOf, SwitchStepOf, DeployStepOf, LatencyStepOf, FaultsCounted, PTL
     DEF Spec, Init, ServerSpec, FaultsSpec, SwitchSpec, DeploySpec, LatencySpec

(* The server in use is up, a set-up lasts, nothing stale is used and a      *)
(* passed latency test is true, in any order of units, failures and          *)
(* interrupts.                                                               *)
THEOREM SetUpIsSafe ==
  Spec => [](InUseIsUp /\ SetUpHolds /\ NothingStale /\ PassedIsTrue)
  BY UsesItsParts, ServerInUseIsUp, SetUpIsLasting, DeployedIsCurrent,
     PassedMeansTrue, PTL

(* No sound server is hard-reset in it. *)
THEOREM NoNeedlessReset == Spec => HealthyNotReset
  BY UsesItsParts, ServerHealthyNotReset, PTL
===============================================================================
